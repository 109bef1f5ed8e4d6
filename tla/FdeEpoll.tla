------------------------------ MODULE FdeEpoll ------------------------------
(***************************************************************************)
(* server-5204/fde_epoll.cpp: the event subscriptions of one descriptor.   *)
(* Fdevents keeps what it thinks is subscribed (s_flags), the kernel what  *)
(* is registered with epoll (interest, empty when the descriptor is not    *)
(* registered).  set(), clr() and del() keep the two in step through       *)
(* epoll_ctl, whose operation they choose from s_flags alone.              *)
(***************************************************************************)

Flag == {"IN", "OUT"}

Fde == [s_flags : SUBSET Flag, interest : SUBSET Flag]

NoFde == [s_flags |-> {}, interest |-> {}]

(* ADD fails for a registered descriptor, MOD and DEL for one that is not. *)
CtlSucceeds(op, fde) == (op = "ADD") <=> (fde.interest = {})

epoll_ctl(op, fde, flags) ==
  IF ~ CtlSucceeds(op, fde)
    THEN fde.interest
    ELSE IF op = "DEL" THEN {} ELSE flags

(* Variant: subscribing always adds. *)
AlwaysAdd(s_flags) == "ADD"

SetOp(s_flags) == IF s_flags = {} THEN "ADD" ELSE "MOD"

set(fde, flags) ==
  IF fde.s_flags \cap flags # {}
    THEN fde
    ELSE LET all == fde.s_flags \cup flags
         IN  [s_flags |-> all, interest |-> epoll_ctl(SetOp(fde.s_flags), fde, all)]

clr(fde, flags) ==
  IF fde.s_flags \cap flags = {}
    THEN fde
    ELSE LET rest == fde.s_flags \ flags
             op   == IF rest = {} THEN "DEL" ELSE "MOD"
         IN  [s_flags |-> rest, interest |-> epoll_ctl(op, fde, rest)]

(* When DEL fails s_flags stays. *)
del(fde) ==
  IF CtlSucceeds("DEL", fde) THEN NoFde ELSE fde

=============================================================================
