----------------------------- MODULE MCKVServer -----------------------------
(* Instances of KVServer for TLC. *)
EXTENDS KVServer, TLC

CONSTANTS t1, t2, c1, c2, k1, v1, v2

Request(op, value, ka) ==
  [operation |-> op, keepalive |-> ka, key |-> k1, value |-> value]

(* Operations that conflict on one key.  The first closes the connection   *)
(* or not as errno has it, the second always does, the last is none.       *)
SafetyRequests ==
  {Request("PUT", v1, -1), Request("UPDATE", v2, 0), Request("BAD", v1, 1)}

(* Threads and connections are interchangeable. *)
Symmetry == Permutations({t1, t2}) \cup Permutations({c1, c2})

LiveRequests == {Request("PUT", v1, 1), Request("GET", v1, 0)}

=============================================================================
