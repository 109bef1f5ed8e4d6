------------------------------ MODULE MCTools ------------------------------
(***************************************************************************)
(* Three parts that have nothing to do with each other or with the         *)
(* servers, checked in one run: an initial state chooses the part that     *)
(* takes the steps.                                                        *)
(***************************************************************************)
EXTENDS TestRun, SortedSet, FdeSelect, TLC

CONSTANTS c1, c2, k1, k2, k3

VARIABLE part

Init ==
  /\ part \in {"test run", "sorted set", "select"}
  /\ RunInit /\ SetInit /\ SelInit

Next ==
  \/ part = "test run" /\ RunNext /\ UNCHANGED <<part, setVars, selVars>>
  \/ part = "sorted set" /\ SetNext /\ UNCHANGED <<part, runVars, selVars>>
  \/ part = "select" /\ SelNext /\ UNCHANGED <<part, runVars, setVars>>

Spec == Init /\ [][Next]_<<part, runVars, setVars, selVars>>

(* One client reads its file once and sees its keys come and go, the other *)
(* reads it twice more.                                                    *)
MCKeysOf == c1 :> {k1, k2} @@ c2 :> {k3}
MCTestCount == c1 :> 3 @@ c2 :> 1

(* The tests write a value that ends within its first 16 bytes and one     *)
(* that does not; a wrong server may answer its first half only.           *)
Short == <<"a", "0">>
Long == <<"b", "c">>
Half == <<"b", "0">>
MCTestValues == {Short, Long}
MCValues == {Short, Long, Half}
MCLeftover == {Long}

MCScores == -1..1

Symmetry == Permutations({k1, k2})

=============================================================================
