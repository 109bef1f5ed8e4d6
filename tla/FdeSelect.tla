------------------------------ MODULE FdeSelect ------------------------------
(***************************************************************************)
(* server-5204/fde_select.cpp: Fdevents over select(), for systems without *)
(* epoll.  The subscriptions are kept twice, as two sets for the kernel    *)
(* and as the flags of each descriptor, and only the descriptors up to     *)
(* maxfd are looked at.                                                    *)
(*                                                                         *)
(* The user is the event loop of NetServer: the listener is subscribed     *)
(* first and stays so, for reading; flags are set and cleared one at a     *)
(* time; and the connection that is told with a descriptor's events stays  *)
(* the same while the descriptor has any.                                  *)
(***************************************************************************)
EXTENDS Integers, FiniteSets

CONSTANTS Fds, Ptrs, Listening, NULL, FD_SETSIZE

ASSUME SelectAssumption ==
  /\ Fds \subseteq Nat /\ IsFiniteSet(Fds)
  /\ Listening \in Fds /\ Listening < FD_SETSIZE /\ FD_SETSIZE \in Nat

Flag == {"IN", "OUT"}

VARIABLES
  maxfd,
  readset, writeset,  \* what select() is to look at
  s_flags, ptr,       \* of a descriptor's Fdevent
  ready,              \* what select() found the descriptors ready for
  ready_events        \* what wait() returned last

selVars == <<maxfd, readset, writeset, s_flags, ptr, ready, ready_events>>

SelTypeOK ==
  /\ maxfd \in Fds \cup {-1}
  /\ readset \subseteq Fds /\ writeset \subseteq Fds
  /\ s_flags \in [Fds -> SUBSET Flag]
  /\ ptr \in [Fds -> Ptrs \cup {NULL}]
  /\ ready \in [Fds -> SUBSET Flag]
  /\ ready_events \subseteq [fd : Fds, events : SUBSET Flag, ptr : Ptrs \cup {NULL}]

SelInit ==
  /\ maxfd = -1
  /\ readset = {} /\ writeset = {}
  /\ s_flags = [fd \in Fds |-> {}]
  /\ ptr = [fd \in Fds |-> NULL]
  /\ ready = [fd \in Fds |-> {}]
  /\ ready_events = {}

FdSet(set, fd, flags, flag) == IF flag \in flags THEN set \cup {fd} ELSE set

FdClr(set, fd, flags, flag) == IF flag \in flags THEN set \ {fd} ELSE set

-----------------------------------------------------------------------------
(* A descriptor that fits in no fd_set is refused, and never gets events.  *)
Set(fd, flag, p) ==
  /\ s_flags[fd] # {} => p = ptr[fd]
  /\ IF fd = Listening THEN flag = "IN" ELSE s_flags[Listening] # {}
  /\ IF fd > FD_SETSIZE - 1 \/ flag \in s_flags[fd]
     THEN UNCHANGED <<maxfd, readset, writeset, s_flags, ptr>>
     ELSE /\ readset' = FdSet(readset, fd, {flag}, "IN")
          /\ writeset' = FdSet(writeset, fd, {flag}, "OUT")
          /\ ptr' = [ptr EXCEPT ![fd] = p]
          /\ s_flags' = [s_flags EXCEPT ![fd] = @ \cup {flag}]
          /\ maxfd' = IF fd > maxfd THEN fd ELSE maxfd
  /\ UNCHANGED <<ready, ready_events>>

(* The end of the loop that looks for the highest descriptor left. *)
KeepMax(flags) == maxfd - 1

Lowered(flags) ==
  CHOOSE m \in Fds \cup {-1} :
    /\ m <= maxfd /\ (m # -1 => flags[m] # {})
    /\ \A fd \in Fds : m < fd /\ fd <= maxfd => flags[fd] = {}

Unsubscribe(fd, flags) ==
  /\ readset' = FdClr(readset, fd, flags, "IN")
  /\ writeset' = FdClr(writeset, fd, flags, "OUT")
  /\ s_flags' = [s_flags EXCEPT ![fd] = @ \ flags]
  /\ maxfd' = Lowered(s_flags')
  /\ UNCHANGED <<ptr, ready, ready_events>>

(* The listener's flags are never cleared: the loop would read events[-1]  *)
(* when no descriptor has any left.                                        *)
Clr(fd, flag) ==
  /\ fd # Listening
  /\ IF flag \in s_flags[fd] THEN Unsubscribe(fd, {flag}) ELSE UNCHANGED selVars

(* A descriptor is deleted that has had events. *)
Del(fd) ==
  /\ fd # Listening /\ fd < FD_SETSIZE
  /\ Unsubscribe(fd, Flag)

(* What select() leaves in a set of what it was given. *)
Selected(set, flag, now) ==
  {fd \in set : fd <= maxfd /\ flag \in now[fd]}

(* The loop over the descriptors ends after as many as select() has        *)
(* counted events.                                                         *)
Collected(r, w) ==
  {fd \in r \cup w :
     Cardinality({x \in r \cup w : x < fd}) < Cardinality(r) + Cardinality(w)}

Event(fd, r, w) ==
  [fd |-> fd,
   events |-> (IF fd \in r THEN {"IN"} ELSE {}) \cup (IF fd \in w THEN {"OUT"} ELSE {}),
   ptr |-> ptr[fd]]

(* A select() that times out or is interrupted has found nothing ready,    *)
(* and one that fails otherwise ends the event loop.  A listener is never  *)
(* ready to be written, and select() does not look beyond FD_SETSIZE.      *)
Wait ==
  /\ ready' \in [Fds -> SUBSET Flag] /\ "OUT" \notin ready'[Listening]
  /\ \A fd \in Fds : fd >= FD_SETSIZE => ready'[fd] = {}
  /\ LET r == Selected(readset, "IN", ready')
         w == Selected(writeset, "OUT", ready')
     IN  ready_events' = {Event(fd, r, w) : fd \in Collected(r, w)}
  /\ UNCHANGED <<maxfd, readset, writeset, s_flags, ptr>>

SelNext ==
  \/ \E fd \in Fds :
       \/ \E flag \in Flag : Clr(fd, flag) \/ \E p \in Ptrs : Set(fd, flag, p)
       \/ Del(fd)
  \/ Wait

SelSpec == SelInit /\ [][SelNext]_selVars

-----------------------------------------------------------------------------
(* The sets, the flags and maxfd stay one account of what is wanted: in    *)
(* whatever order descriptors are subscribed, cleared and deleted, no      *)
(* wanted event is beyond maxfd or out of the sets, and none is reported   *)
(* that is not wanted, or with another's connection.                       *)
Interest == INSTANCE FdeInterest WITH interest <- s_flags, reported <- ready_events

SelectImplements == Interest!Spec

=============================================================================
