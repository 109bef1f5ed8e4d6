------------------------------ MODULE ScoreMap ------------------------------
(***************************************************************************)
(* What a SortedSet promises (sorted_set.h): a map from keys to scores     *)
(* that is read and emptied from both ends, in the order of the scores     *)
(* and, where these are equal, of the keys.  Keys are numbers that compare *)
(* as the strings do.                                                      *)
(***************************************************************************)
EXTENDS Integers

CONSTANTS Names, Scores

VARIABLES score, answer

vars == <<score, answer>>

Before(a, b) ==
  \/ a.score < b.score
  \/ a.score = b.score /\ a.key < b.key

ItemOf(k) == [key |-> k, score |-> score[k]]

IsFirst(k) ==
  k \in DOMAIN score /\ \A x \in DOMAIN score \ {k} : Before(ItemOf(k), ItemOf(x))

IsLast(k) ==
  k \in DOMAIN score /\ \A x \in DOMAIN score \ {k} : Before(ItemOf(x), ItemOf(k))

Without(k) == [x \in DOMAIN score \ {k} |-> score[x]]

Init == score = [k \in {} |-> 0] /\ answer = <<0>>

(* The answer tells whether the key is new. *)
Add(k, s) ==
  /\ score' = [x \in DOMAIN score \cup {k} |-> IF x = k THEN s ELSE score[x]]
  /\ answer' = <<IF k \in DOMAIN score THEN 0 ELSE 1>>

(* The answer tells whether the key was there. *)
Del(k) ==
  /\ score' = Without(k)
  /\ answer' = <<IF k \in DOMAIN score THEN 1 ELSE 0>>

Look(End(_)) ==
  /\ \/ \E k \in Names : End(k) /\ answer' = <<1, k, score[k]>>
     \/ DOMAIN score = {} /\ answer' = <<0>>
  /\ UNCHANGED score

Pop(End(_)) ==
  \/ \E k \in Names : End(k) /\ score' = Without(k) /\ answer' = <<1>>
  \/ DOMAIN score = {} /\ answer' = <<0>> /\ UNCHANGED score

(* The highest score, but 0 of no scores. *)
MaxScore ==
  /\ \/ \E k \in Names : IsLast(k) /\ answer' = <<score[k]>>
     \/ DOMAIN score = {} /\ answer' = <<0>>
  /\ UNCHANGED score

Next ==
  \/ \E k \in Names : Del(k) \/ \E s \in Scores : Add(k, s)
  \/ Look(IsFirst) \/ Look(IsLast)
  \/ Pop(IsFirst) \/ Pop(IsLast)
  \/ MaxScore

Spec == Init /\ [][Next]_vars

=============================================================================
