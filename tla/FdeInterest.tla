----------------------------- MODULE FdeInterest -----------------------------
(***************************************************************************)
(* What Fdevents promises its user (fde.h), whatever is below it: it keeps *)
(* which events of each descriptor the user wants, and what the user wants *)
(* to be told with them; wait() reports exactly the wanted events of those *)
(* that are ready.                                                         *)
(***************************************************************************)
EXTENDS Integers

CONSTANTS Fds, Ptrs, NULL

Flag == {"IN", "OUT"}

VARIABLES
  interest, ptr,
  ready,          \* what the descriptors were ready for at the last wait()
  reported

vars == <<interest, ptr, ready, reported>>

Init ==
  /\ interest = [fd \in Fds |-> {}]
  /\ ptr = [fd \in Fds |-> NULL]
  /\ ready = [fd \in Fds |-> {}]
  /\ reported = {}

Set(fd, flag, p) ==
  /\ interest' = [interest EXCEPT ![fd] = @ \cup {flag}]
  /\ ptr' = [ptr EXCEPT ![fd] = p]
  /\ UNCHANGED <<ready, reported>>

Clr(fd, flags) ==
  /\ interest' = [interest EXCEPT ![fd] = @ \ flags]
  /\ UNCHANGED <<ptr, ready, reported>>

Report(now) ==
  {[fd |-> fd, events |-> now[fd] \cap interest[fd], ptr |-> ptr[fd]] :
     fd \in {x \in Fds : now[x] \cap interest[x] # {}}}

(* A wait() that times out or is interrupted has found nothing ready. *)
Wait ==
  /\ ready' \in [Fds -> SUBSET Flag]
  /\ reported' = Report(ready')
  /\ UNCHANGED <<interest, ptr>>

Next ==
  \/ \E fd \in Fds :
       \/ \E flag \in Flag, p \in Ptrs : Set(fd, flag, p)
       \/ \E flags \in SUBSET Flag : Clr(fd, flags)
  \/ Wait

Spec == Init /\ [][Next]_vars

=============================================================================
