---------------------------- MODULE NatInduction ----------------------------
(* Induction over the natural numbers, in the first-order form that the    *)
(* provers can use: the induction hypothesis is a set of numbers.          *)
EXTENDS Integers, WellFoundedInduction, TLAPS

(* Every set of natural numbers has a least one. *)
LEMMA LeastExists ==
  ASSUME NEW T, T \subseteq Nat, T # {}
  PROVE  \E t \in T : \A u \in T : ~ (u < t)
  <1>1. IsWellFoundedOn(OpToRel(<, Nat), Nat)
    BY NatLessThanWellFounded
  <1>2. PICK t \in T : \A u \in T : ~ (<<u, t>> \in OpToRel(<, Nat))
    BY <1>1, WFMin, Zenon
  <1>3. \A u \in T : ~ (u < t)
    BY <1>2 DEF OpToRel
  <1> QED
    BY <1>3

(* What holds at 0, and at n + 1 whenever at n, holds everywhere.          *)
LEMMA Induction ==
  ASSUME NEW T, 0 \in T, \A n \in Nat : n \in T => n + 1 \in T
  PROVE  \A n \in Nat : n \in T
  <1> SUFFICES ASSUME Nat \ T # {} PROVE FALSE
    OBVIOUS
  <1>1. PICK n \in Nat \ T : \A u \in Nat \ T : ~ (u < n)
    BY LeastExists
  <1>2. n # 0 /\ n - 1 \in Nat
    BY <1>1
  <1>3. n - 1 \in T
    BY <1>1, <1>2
  <1> QED
    BY <1>1, <1>2, <1>3

=============================================================================
