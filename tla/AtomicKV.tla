------------------------------ MODULE AtomicKV ------------------------------
(***************************************************************************)
(* What the key-value service promises to its clients, with no threads,    *)
(* sockets or bytes: every request of a connection takes effect at one     *)
(* instant between the moment its client starts sending it and its reply,  *)
(* requests of one connection take effect in the order they were sent, and *)
(* each takes effect once.                                                 *)
(***************************************************************************)
EXTENDS KVStoreLib, Sequences

CONSTANTS
  Conns,      \* client connections
  Requests    \* the requests clients send

VARIABLES
  table,      \* the shared KVStore
  reqs,       \* reqs[c]: the requests the client of c has started to send
  answered    \* answered[c]: the replies the store has computed for c

atomicVars == <<table, reqs, answered>>

AtomicInit ==
  /\ table = EmptyTable
  /\ reqs = [c \in Conns |-> <<>>]
  /\ answered = [c \in Conns |-> <<>>]

(* The client of c starts to send a request. *)
Submit(c) ==
  /\ \E r \in Requests : reqs' = [reqs EXCEPT ![c] = Append(@, r)]
  /\ UNCHANGED <<table, answered>>

(* The oldest request of c that has no reply takes effect. *)
Apply(c) ==
  /\ Len(answered[c]) < Len(reqs[c])
  /\ LET pkt == reqs[c][Len(answered[c]) + 1]
     IN  /\ pkt.operation \in Operation
         /\ table' = TableAfter(table, pkt)
         /\ answered' = [answered EXCEPT ![c] = Append(@, ReplyTo(table, pkt))]
  /\ UNCHANGED reqs

AtomicNext == \E c \in Conns : Submit(c) \/ Apply(c)

AtomicSpec == AtomicInit /\ [][AtomicNext]_atomicVars

=============================================================================
