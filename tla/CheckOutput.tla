---------------------------- MODULE CheckOutput ----------------------------
(***************************************************************************)
(* testclient/redooutput.c and checkoutput.c: what becomes of the lines    *)
(* that strace prints of the test clients' calls.  redooutput joins the    *)
(* two halves of a call that another client's call has interrupted;        *)
(* checkoutput replays the requests on a map of its own and compares each  *)
(* response with what the map has.                                         *)
(*                                                                         *)
(* A line is <<call, message>>; a value is the pair of its 16 byte halves. *)
(* Each request has one message: the parser loses its place in the second  *)
(* one of a longer request.                                                *)
(***************************************************************************)
EXTENDS KVStoreLib, Sequences

CONSTANT Nul   \* 16 bytes of zeros

ASSUME HalvesAssumption == \A v \in Values : v \in Seq({v[1], v[2]}) /\ Len(v) = 2

Zeros == <<Nul, Nul>>

(* What redooutput has of a pid's line, and what is left of it when the    *)
(* call's end has been written out.                                        *)
Joined(head, rest) == head \o rest
KeepHead(head) == head
AfterCall(head) == <<>>

(* The message that is read from what strace prints: all but the           *)
(* keepalive, which is filled in.                                          *)
parseSend(token) == [token EXCEPT !.keepalive = 1]
parseResponse(token) == [token EXCEPT !.keepalive = 0]

-----------------------------------------------------------------------------
EmptyMap == [k \in Keys |-> Absent]

(* memcpy() of 16 of the 32 bytes (checkoutput.c:228). *)
FirstHalf(value) == <<value[1], Nul>>

(* The response that checkoutput expects; a status is not compared. *)
Expected(hashmap, send) ==
  [key |-> send.key,
   value |-> IF send.operation # "GET" THEN send.value
             ELSE IF hashmap[send.key] = Absent THEN Zeros
             ELSE FirstHalf(hashmap[send.key])]

InsertOnly(hashmap, send) ==
  IF send.operation = "PUT" /\ hashmap[send.key] = Absent
  THEN [hashmap EXCEPT ![send.key] = send.value] ELSE hashmap

(* The map after a request: a key is erased when it is not there           *)
(* (checkoutput.c:252), that is, never.                                    *)
Replayed(hashmap, send) ==
  IF send.operation \in {"PUT", "UPDATE"}
  THEN [hashmap EXCEPT ![send.key] = send.value]
  ELSE IF send.operation = "DELETE" /\ hashmap[send.key] = Absent
  THEN erase(hashmap, send.key)
  ELSE hashmap

compareResp(resp, checkresp) ==
  resp.key = checkresp.key /\ resp.value = checkresp.value

=============================================================================
