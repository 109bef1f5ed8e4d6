----------------------------- MODULE CreateTest -----------------------------
(***************************************************************************)
(* testclient/createTest.c: the requests of a test file.  The generator    *)
(* keeps the keys it has inserted and not deleted (keymap), and turns a    *)
(* request that would fail into one that does not; with a failure rate it  *)
(* sometimes lets one fail.  The chances (-p, -u, -d) are left open.       *)
(***************************************************************************)
EXTENDS KVStoreLib, FiniteSets

CONSTANTS
  WriteAmount,  \* -w: entries to be there before anything is read
  MayFail       \* -f: is the failure rate above 0

ASSUME GeneratorAssumption == WriteAmount \in Nat /\ MayFail \in BOOLEAN

Generated(operation, key, keymap) ==
  [operation |-> operation, key |-> key, keymap |-> keymap, fails |-> FALSE]

Failing(operation, key, keymap) ==
  [operation |-> operation, key |-> key, keymap |-> keymap, fails |-> TRUE]

(* A new key is inserted, or an old entry updated in its place; an         *)
(* intended failure inserts an old key or updates a new one.               *)
WriteRequests(keymap, key) ==
  IF key \in keymap
  THEN {Generated("UPDATE", key, keymap)}
  ELSE {Generated("PUT", key, keymap \cup {key})}
         \cup {Generated("UPDATE", k, keymap) :
                 k \in {x \in keymap : Cardinality(keymap) > WriteAmount}}
         \cup {Failing("PUT", k, keymap) : k \in {x \in keymap : MayFail}}
         \cup {Failing("UPDATE", k, keymap) : k \in {x \in {key} : MayFail}}

(* A key that is not there is replaced by one that is, or the read by a    *)
(* write.                                                                  *)
ReadRequests(keymap, key) ==
  IF key \in keymap
  THEN {Generated("GET", key, keymap)}
  ELSE {Generated("GET", k, keymap) : k \in keymap}
         \cup WriteRequests(keymap, key)
         \cup {Failing("GET", k, keymap) : k \in {x \in {key} : MayFail}}

DeleteWithoutErase(keymap, key) ==
  IF key \in keymap
  THEN {Generated("DELETE", key, keymap)}
  ELSE {Generated("DELETE", k, keymap \ {k}) : k \in keymap}
         \cup WriteRequests(keymap, key)

DeleteRequests(keymap, key) ==
  IF key \in keymap
  THEN {Generated("DELETE", key, keymap \ {key})}
  ELSE {Generated("DELETE", k, keymap \ {k}) : k \in keymap}
         \cup WriteRequests(keymap, key)

(* The lines that may follow, for a random key. *)
Requests(keymap, key) ==
  WriteRequests(keymap, key)
    \cup DeleteRequests(keymap, key)
    \cup (IF Cardinality(keymap) >= WriteAmount THEN ReadRequests(keymap, key) ELSE {})

=============================================================================
