----------------------------- MODULE KVStoreLib -----------------------------
(***************************************************************************)
(* kvstorelib/: the packet format of messages.h, the table operations of   *)
(* CuckooKVStore and kvstore_process_packet(), which runs one operation on *)
(* the shared table and turns the request into its reply in place.         *)
(*                                                                         *)
(* libcuckoo is outside the repository; its insert, find, erase and update *)
(* are modelled from the way cuckoo_kvstore.cpp uses them: each is atomic, *)
(* each returns whether it took effect, insert refuses a key in use.       *)
(***************************************************************************)
EXTENDS Integers

CONSTANTS
  Keys,       \* KVStore::Key, 16 bytes
  Values,     \* KVStore::Value, 32 bytes
  Absent      \* what the table holds for a key that is not in it

ASSUME AbsentAssumption == Absent \notin Values

(* enum Operation; "BAD" stands for every other value of the opcode byte. *)
Operation == {"GET", "PUT", "DELETE", "UPDATE"}

(* enum StatusCode, as far as the library returns it. *)
StatusCode == {"OK", "ERROR"}

(* struct send_message and struct response_message share one 50 byte       *)
(* layout; only the first byte changes its meaning.                        *)
SendMessage ==
  [operation : Operation \cup {"BAD"}, keepalive : Int, key : Keys, value : Values]

ResponseMessage ==
  [status_code : StatusCode, keepalive : Int, key : Keys, value : Values]

(* KVStore: an initially empty map. *)
Table == [Keys -> Values \cup {Absent}]

EmptyTable == [k \in Keys |-> Absent]

contains(tbl, key) == tbl[key] # Absent

-----------------------------------------------------------------------------
(* The effect of one CuckooKVStore call on the table. *)

insert(tbl, key, value) ==
  IF contains(tbl, key) THEN tbl ELSE [tbl EXCEPT ![key] = value]

erase(tbl, key) == [tbl EXCEPT ![key] = Absent]

update(tbl, key, value) ==
  IF contains(tbl, key) THEN [tbl EXCEPT ![key] = value] ELSE tbl

-----------------------------------------------------------------------------
(* The three things kvstore_process_packet() computes: whether the call    *)
(* took effect, the table after it, and the packet buffer after it.        *)

Result(tbl, pkt) ==
  IF pkt.operation = "PUT" THEN ~ contains(tbl, pkt.key)
                           ELSE contains(tbl, pkt.key)

TableAfter(tbl, pkt) ==
  CASE pkt.operation = "GET"    -> tbl
    [] pkt.operation = "PUT"    -> insert(tbl, pkt.key, pkt.value)
    [] pkt.operation = "DELETE" -> erase(tbl, pkt.key)
    [] pkt.operation = "UPDATE" -> update(tbl, pkt.key, pkt.value)

(* Variant: the opcode of the request stays in the reply. *)
ReplyKeepsOpcode(tbl, pkt) ==
  [status_code |-> pkt.operation, keepalive |-> pkt.keepalive,
   key |-> pkt.key, value |-> pkt.value]

(* find() fills the value field of the packet only when the key is there,  *)
(* so the reply to a failed GET carries the bytes the client sent.         *)
ReplyTo(tbl, pkt) ==
  [status_code |-> IF Result(tbl, pkt) THEN "OK" ELSE "ERROR",
   keepalive   |-> pkt.keepalive,
   key         |-> pkt.key,
   value       |-> IF pkt.operation = "GET" /\ contains(tbl, pkt.key)
                     THEN tbl[pkt.key] ELSE pkt.value]

=============================================================================
