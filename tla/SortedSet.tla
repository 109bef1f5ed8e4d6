----------------------------- MODULE SortedSet -----------------------------
(***************************************************************************)
(* server-5204/util/sorted_set.cpp: a std::set of items in the order of    *)
(* their scores, and for each key an iterator to its item (existed).  An   *)
(* iterator is the item it points to: no two items of the set are equal.   *)
(***************************************************************************)
EXTENDS Integers

CONSTANTS Names, Scores

ASSUME SetAssumption == Names \subseteq Int /\ Scores \subseteq Int

VARIABLES
  existed,     \* a key's iterator
  sorted_set,  \* the items
  ret          \* what the last call returned, and copied out

setVars == <<existed, sorted_set, ret>>

Item == [key : Names, score : Scores]

SetTypeOK ==
  /\ sorted_set \subseteq Item
  /\ DOMAIN existed \subseteq Names
  /\ existed \in [DOMAIN existed -> Item]
  /\ ret \in {<<n>> : n \in Scores \cup {0, 1}} \cup {<<1, i.key, i.score>> : i \in Item}

Less(a, b) ==
  \/ a.score < b.score
  \/ a.score = b.score /\ a.key < b.key

begin(item) ==
  item \in sorted_set /\ \A x \in sorted_set \ {item} : Less(item, x)

rbegin(item) ==
  item \in sorted_set /\ \A x \in sorted_set \ {item} : Less(x, item)

Forget(key) == [k \in DOMAIN existed \ {key} |-> existed[k]]

SetInit ==
  /\ existed = [k \in {} |-> 0]
  /\ sorted_set = {}
  /\ ret = <<0>>

-----------------------------------------------------------------------------
(* The item that add() takes out before it inserts the new one. *)
KeepOld(key) == {}

Old(key) == IF key \in DOMAIN existed THEN {existed[key]} ELSE {}

add(key, score) ==
  LET item == [key |-> key, score |-> score] IN
    IF item \in Old(key)
    THEN ret' = <<0>> /\ UNCHANGED <<existed, sorted_set>>
    ELSE /\ ret' = <<IF key \in DOMAIN existed THEN 0 ELSE 1>>
         /\ sorted_set' = (sorted_set \ Old(key)) \cup {item}
         /\ existed' = [k \in DOMAIN existed \cup {key} |->
                          IF k = key THEN item ELSE existed[k]]

del(key) ==
  IF key \in DOMAIN existed
  THEN /\ ret' = <<1>>
       /\ sorted_set' = sorted_set \ {existed[key]}
       /\ existed' = Forget(key)
  ELSE ret' = <<0>> /\ UNCHANGED <<existed, sorted_set>>

Copy(End(_)) ==
  /\ \/ \E item \in sorted_set : End(item) /\ ret' = <<1, item.key, item.score>>
     \/ sorted_set = {} /\ ret' = <<0>>
  /\ UNCHANGED <<existed, sorted_set>>

front == Copy(begin)
back == Copy(rbegin)

max_score ==
  /\ \/ \E item \in sorted_set : rbegin(item) /\ ret' = <<item.score>>
     \/ sorted_set = {} /\ ret' = <<0>>
  /\ UNCHANGED <<existed, sorted_set>>

Take(End(_)) ==
  \/ \E item \in sorted_set :
       /\ End(item)
       /\ existed' = Forget(item.key)
       /\ sorted_set' = sorted_set \ {item}
       /\ ret' = <<1>>
  \/ sorted_set = {} /\ ret' = <<0>> /\ UNCHANGED <<existed, sorted_set>>

pop_front == Take(begin)
pop_back == Take(rbegin)

SetNext ==
  \/ \E key \in Names : del(key) \/ \E score \in Scores : add(key, score)
  \/ front \/ back \/ max_score \/ pop_front \/ pop_back

SetSpec == SetInit /\ [][SetNext]_setVars

-----------------------------------------------------------------------------
(* The two indexes stay one map: every call does to the scores that the    *)
(* iterators point to what ScoreMap says, and returns what it says,        *)
(* although front, back and the pops look at the set of items only.        *)
Map == INSTANCE ScoreMap WITH
  score <- [k \in DOMAIN existed |-> existed[k].score], answer <- ret

SetImplements == Map!Spec

=============================================================================
