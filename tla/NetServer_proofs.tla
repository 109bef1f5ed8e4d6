-------------------------- MODULE NetServer_proofs --------------------------
(***************************************************************************)
(* Proofs about NetServer, for any clients and any sizes of messages and   *)
(* buffers: TypeOK, InvSubscribed and InvAnswers are invariants, and an    *)
(* error is final.                                                         *)
(***************************************************************************)
EXTENDS NetServer, TLAPS

(* Only accepted connections are subscribed, have events and answers.      *)
InvOpen ==
  /\ \A c \in Conns : state[c] # "open" => fde[c] = NoFde /\ omsg_q[c] = <<>>
  /\ \A e \in events : e.conn \in Conns => state[e.conn] = "open"
  /\ \A c \in Conns : cur = c => state[c] = "open" /\ ~ error[c]

(* msg_read starts where the last one ended. *)
InvFirst == \A c \in Conns : Reads(c) => first <= taken[c]

IInv == TypeOK /\ InvOpen /\ InvFirst /\ InvSubscribed

-----------------------------------------------------------------------------
(* Fdevents: the kernel's registration follows s_flags. *)

LEMMA SetFde ==
  ASSUME NEW f \in Fde, f.s_flags = f.interest, NEW flag \in Flag
  PROVE  /\ set(f, {flag}) \in Fde
         /\ set(f, {flag}).s_flags = set(f, {flag}).interest
         /\ set(f, {flag}).interest = f.interest \cup {flag}
<1>1. CASE f.s_flags \cap {flag} # {}
  BY <1>1 DEF set, Fde
<1>2. CASE f.s_flags \cap {flag} = {}
  <2>1. epoll_ctl(SetOp(f.s_flags), f, f.s_flags \cup {flag}) = f.s_flags \cup {flag}
    BY DEF epoll_ctl, SetOp, CtlSucceeds
  <2> QED
    BY <1>2, <2>1 DEF set, Fde
<1> QED
  BY <1>1, <1>2

LEMMA ClrFde ==
  ASSUME NEW f \in Fde, f.s_flags = f.interest
  PROVE  /\ clr(f, {"OUT"}) \in Fde
         /\ clr(f, {"OUT"}).s_flags = clr(f, {"OUT"}).interest
         /\ clr(f, {"OUT"}).interest = f.interest \ {"OUT"}
<1>1. CASE f.s_flags \cap {"OUT"} = {}
  BY <1>1 DEF clr, Fde
<1>2. CASE f.s_flags \cap {"OUT"} # {}
  <2> DEFINE rest == f.s_flags \ {"OUT"}
             op   == IF rest = {} THEN "DEL" ELSE "MOD"
  <2>1. epoll_ctl(op, f, rest) = rest
    BY <1>2 DEF epoll_ctl, CtlSucceeds
  <2>2. clr(f, {"OUT"}) = [s_flags |-> rest, interest |-> epoll_ctl(op, f, rest)]
    BY <1>2 DEF clr
  <2> QED
    BY <2>1, <2>2 DEF Fde
<1> QED
  BY <1>1, <1>2

LEMMA DelFde ==
  ASSUME NEW f \in Fde, f.s_flags = f.interest
  PROVE  del(f) \in Fde /\ del(f).s_flags = del(f).interest
  BY DEF del, CtlSucceeds, NoFde, Fde

LEMMA NoFdeFacts == NoFde \in Fde /\ NoFde.s_flags = {} /\ NoFde.interest = {}
  BY DEF NoFde, Fde

-----------------------------------------------------------------------------

LEMMA InitIInv == Init => IInv
<1> SUFFICES ASSUME Init PROVE IInv
  OBVIOUS
<1>1. TypeOK
  BY NoFdeFacts, NetAssumption DEF Init, TypeOK, Buffer, NoBuffer
<1>2. InvOpen
  BY NetAssumption DEF Init, InvOpen
<1>3. InvSubscribed /\ InvFirst
  BY NoFdeFacts DEF Init, InvSubscribed, InvFirst, Reads
<1> QED
  BY <1>1, <1>2, <1>3 DEF IInv

(* A client's step leaves the server's state alone. *)
LEMMA ClientIInv == ASSUME IInv, NEW c \in Conns, ClientStep(c) PROVE IInv'
<1> USE DEF loopVars, connVars, callVars
<1>1. CASE Connect(c)
  <2>1. TypeOK'
    BY <1>1 DEF Connect, clientVars, IInv, TypeOK
  <2>2. InvOpen' /\ InvSubscribed' /\ InvFirst'
    BY <1>1 DEF Connect, IInv, TypeOK, InvOpen, InvSubscribed, InvFirst, Reads
  <2> QED
    BY <2>1, <2>2 DEF IInv
<1>2. CASE ~ Connect(c)
  <2>1. UNCHANGED <<state, loopVars, connVars, callVars>>
    BY <1>2 DEF ClientStep, Send, Recv, Close, Reset
  <2>2. TypeOK'
    <3>1. sent' \in [Conns -> Nat]
      <4> DEFINE step == IF c \in Fragments THEN 1 ELSE MsgSize
      <4>1. step \in Nat /\ sent[c] + step \in Nat
        BY NetAssumption DEF IInv, TypeOK
      <4>2. Send(c) => sent' = [sent EXCEPT ![c] = sent[c] + step]
        BY DEF Send
      <4> HIDE DEF step
      <4>3. ~ Send(c) => sent' = sent
        BY <1>2 DEF ClientStep, Recv, Close, Reset
      <4> QED
        BY <4>1, <4>2, <4>3 DEF IInv, TypeOK
    <3>2. recvd' \in [Conns -> Nat]
      <4>1. Len(wrote[c]) \in Nat
        BY DEF IInv, TypeOK
      <4>2. recvd' = recvd \/ recvd' = [recvd EXCEPT ![c] = Len(wrote[c])]
        BY <1>2 DEF ClientStep, Send, Recv, Close, Reset
      <4> QED
        BY <4>1, <4>2 DEF IInv, TypeOK
    <3>3. half' \in [Conns -> BOOLEAN] /\ reset' \in [Conns -> BOOLEAN]
      BY <1>2 DEF ClientStep, Send, Recv, Close, Reset, IInv, TypeOK
    <3> QED
      BY <2>1, <3>1, <3>2, <3>3 DEF IInv, TypeOK
  <2>3. InvOpen' /\ InvSubscribed' /\ InvFirst'
    BY <2>1 DEF IInv, InvOpen, InvSubscribed, InvFirst, Reads
  <2> QED
    BY <2>2, <2>3 DEF IInv
<1> QED
  BY <1>1, <1>2

-----------------------------------------------------------------------------
(* The loop's own steps. *)

LEMMA ReadyFacts ==
  ASSUME IInv, NEW e \in Ready
  PROVE  /\ e \in {Listener} \cup [conn : Conns, flags : SUBSET Flag]
         /\ e.conn \in Conns => state[e.conn] = "open"
<1>1. CASE e = Listener
  BY <1>1, NetAssumption DEF Listener
<1>2. CASE e # Listener
  <2>1. PICK c \in Conns : ReadyFor(c) # {} /\ e = [conn |-> c, flags |-> ReadyFor(c)]
    BY <1>2 DEF Ready
  <2>2. fde[c] \in Fde
    BY DEF IInv, TypeOK
  <2>3. ReadyFor(c) \subseteq Flag /\ fde[c].interest # {}
    BY <2>1, <2>2 DEF ReadyFor, Fde
  <2>4. state[c] = "open"
    BY <2>3, NoFdeFacts DEF IInv, InvOpen
  <2> QED
    BY <2>1, <2>3, <2>4
<1> QED
  BY <1>1, <1>2

LEMMA LoopIInv ==
  ASSUME IInv, Wait \/ WaitFails \/ EndBatch \/ AcceptFails PROVE IInv'
<1> USE DEF clientVars, connVars, callVars
<1>1. CASE Wait
  <2>1. TypeOK' /\ InvOpen'
    BY <1>1, ReadyFacts DEF Wait, IInv, TypeOK, InvOpen
  <2>2. InvSubscribed' /\ InvFirst'
    BY <1>1 DEF Wait, IInv, InvSubscribed, InvFirst, Reads
  <2> QED
    BY <2>1, <2>2 DEF IInv
<1>2. CASE WaitFails
  <2>1. TypeOK' /\ InvOpen'
    BY <1>2, NetAssumption DEF WaitFails, Exit, Buffer, NoBuffer, IInv, TypeOK, InvOpen
  <2>2. InvSubscribed' /\ InvFirst'
    BY <1>2 DEF WaitFails, Exit, IInv, InvSubscribed, InvFirst, Reads
  <2> QED
    BY <2>1, <2>2 DEF IInv
<1>3. CASE EndBatch
  BY <1>3 DEF EndBatch, IInv, TypeOK, InvOpen, InvSubscribed, InvFirst, Reads
<1>4. CASE AcceptFails
  <2>1. TypeOK'
    BY <1>4 DEF AcceptFails, Take, IInv, TypeOK
  <2>2. InvOpen' /\ InvSubscribed' /\ InvFirst'
    BY <1>4 DEF AcceptFails, Take, IInv, InvOpen, InvSubscribed, InvFirst, Reads
  <2> QED
    BY <2>1, <2>2 DEF IInv
<1> QED
  BY <1>1, <1>2, <1>3, <1>4

LEMMA AcceptIInv == ASSUME IInv, AcceptConn PROVE IInv'
<1> USE DEF clientVars, callVars
<1>1. PICK c \in Backlog : /\ state' = [state EXCEPT ![c] = "open"]
                           /\ fde' = [fde EXCEPT ![c] = set(@, {"IN"})]
  BY DEF AcceptConn
<1>2. c \in Conns /\ fde[c] = NoFde /\ omsg_q[c] = <<>> /\ cur # c
  BY DEF Backlog, IInv, InvOpen
<1>3. /\ fde'[c] \in Fde
      /\ fde'[c].s_flags = fde'[c].interest
      /\ fde'[c].interest = {"IN"}
  BY <1>1, <1>2, SetFde, NoFdeFacts DEF Flag, IInv, TypeOK
<1>4. TypeOK'
  <2>1. state' \in [Conns -> {"new", "pending", "open"}]
    BY <1>1, <1>2 DEF IInv, TypeOK
  <2>3. conn_count' \in Nat
    BY DEF AcceptConn, IInv, TypeOK
  <2>2. fde' \in [Conns -> Fde]
    BY <1>1, <1>2, <1>3 DEF IInv, TypeOK
  <2> QED
    BY <2>1, <2>2, <2>3 DEF AcceptConn, Take, IInv, TypeOK
<1>5. InvOpen'
  <2>1. \A d \in Conns : d # c => state'[d] = state[d] /\ fde'[d] = fde[d]
    BY <1>1, <1>2 DEF IInv, TypeOK
  <2>2. state'[c] = "open"
    BY <1>1, <1>2 DEF IInv, TypeOK
  <2>3. UNCHANGED <<omsg_q, cur, error>> /\ events' \subseteq events
    BY DEF AcceptConn, Take
  <2> QED
    BY <2>1, <2>2, <2>3 DEF IInv, InvOpen
<1>6. InvSubscribed'
  BY <1>1, <1>2, <1>3 DEF AcceptConn, IInv, TypeOK, InvSubscribed
<1>7. InvFirst'
  BY DEF AcceptConn, Take, IInv, InvFirst, Reads
<1> QED
  BY <1>4, <1>5, <1>6, <1>7 DEF IInv

-----------------------------------------------------------------------------
(* The handlers of a connection. *)

LEMMA EventFacts ==
  ASSUME IInv, NEW c \in Conns, NEW f \in Flag, Event(c, f)
  PROVE  /\ state[c] = "open"
         /\ events' \subseteq events
         /\ at = "events"
  BY DEF Event, Take, IInv, InvOpen

LEMMA ReadIInv ==
  ASSUME IInv, NEW c \in Conns, SkipError(c) \/ RecvMsgs(c) \/ ReadSome(c) \/ ReadNull(c)
  PROVE  IInv'
<1> USE DEF clientVars, connVars, callVars, loopVars
<1>1. CASE SkipError(c)
  <2>1. TypeOK'
    BY <1>1, EventFacts DEF SkipError, IInv, TypeOK
  <2>2. InvOpen' /\ InvSubscribed' /\ InvFirst'
    BY <1>1, EventFacts DEF SkipError, IInv, InvOpen, InvSubscribed, InvFirst, Reads
  <2> QED
    BY <2>1, <2>2 DEF IInv
<1>2. CASE RecvMsgs(c)
  <2>1. state[c] = "open" /\ events' \subseteq events
    BY <1>2, EventFacts DEF RecvMsgs, Flag
  <2>2. TypeOK'
    BY <1>2, <2>1 DEF RecvMsgs, IInv, TypeOK
  <2>3. InvOpen' /\ InvSubscribed' /\ InvFirst'
    BY <1>2, <2>1 DEF RecvMsgs, Usable, IInv, TypeOK, InvOpen, InvSubscribed, InvFirst, Reads
  <2> QED
    BY <2>2, <2>3 DEF IInv
<1>3. CASE ReadSome(c)
  <2>1. Space(c) \in Int /\ Space(c) > 0
    BY <1>3, NetAssumption DEF ReadSome, Space, Size, IInv, TypeOK
  <2>2. taken' \in [Conns -> Nat]
    BY <1>3, <2>1 DEF ReadSome, IInv, TypeOK
  <2>3. TypeOK'
    BY <1>3, <2>2 DEF ReadSome, IInv, TypeOK
  <2>4. InvOpen' /\ InvSubscribed'
    BY <1>3 DEF ReadSome, IInv, InvOpen, InvSubscribed
  <2>5. taken'[c] >= taken[c] /\ \A d \in Conns \ {c} : taken'[d] = taken[d]
    BY <1>3, <2>1 DEF ReadSome, IInv, TypeOK
  <2>6. InvFirst'
    BY <1>3, <2>2, <2>5 DEF ReadSome, IInv, TypeOK, InvFirst, Reads
  <2> QED
    BY <2>3, <2>4, <2>6 DEF IInv
<1>4. CASE ReadNull(c)
  <2>1. fde[c] \in Fde /\ fde[c].s_flags = fde[c].interest
    BY DEF IInv, TypeOK, InvSubscribed
  <2>2. fde'[c] \in Fde /\ fde'[c].s_flags = fde'[c].interest
    BY <1>4, <2>1, DelFde DEF ReadNull, Unsubscribed, IInv, TypeOK
  <2>3. TypeOK'
    <3>1. fde' \in [Conns -> Fde]
      BY <1>4, <2>2 DEF ReadNull, IInv, TypeOK
    <3>2. error' \in [Conns -> BOOLEAN]
      BY <1>4 DEF ReadNull, IInv, TypeOK
    <3>3. cut' \in [Conns -> BOOLEAN]
      BY <1>4 DEF ReadNull, IInv, TypeOK
    <3> QED
      BY <1>4, <3>1, <3>2, <3>3 DEF ReadNull, Return, Buffer, NoBuffer, IInv, TypeOK
  <2>4. InvOpen'
    <3>1. state[c] = "open"
      BY <1>4 DEF ReadNull, Reads, IInv, InvOpen
    <3> QED
      BY <1>4, <3>1, NetAssumption DEF ReadNull, Return, IInv, TypeOK, InvOpen
  <2>5. InvSubscribed'
    BY <1>4, <2>2 DEF ReadNull, IInv, TypeOK, InvSubscribed
  <2>6. InvFirst'
    BY <1>4 DEF ReadNull, Return, InvFirst, Reads
  <2> QED
    BY <2>3, <2>4, <2>5, <2>6 DEF IInv
<1> QED
  BY <1>1, <1>2, <1>3, <1>4

(* msg->size() / sizeof(struct send_message) whole messages. *)
LEMMA WholeMessages ==
  ASSUME NEW n \in Nat PROVE MsgSize * (n \div MsgSize) \in Nat
<1>1. n \div MsgSize \in Nat
  BY NetAssumption
<1> QED
  BY <1>1, NetAssumption

LEMMA AnswerIInv == ASSUME IInv, NEW c \in Conns, Answer(c) PROVE IInv'
<1> USE DEF clientVars
<1> DEFINE whole == MsgSize * (Size(c) \div MsgSize)
           buffer == [first |-> first, len |-> whole]
<1>1. Reads(c) /\ state[c] = "open"
  BY DEF Answer, ReadEnds, Reads, IInv, InvOpen
<1>2. buffer \in Buffer
  <2>1. Size(c) \in Nat
    BY <1>1 DEF Size, IInv, TypeOK, InvFirst
  <2> QED
    BY <2>1, WholeMessages DEF Buffer, IInv, TypeOK
<1>3. fde[c] \in Fde /\ fde[c].s_flags = fde[c].interest
  BY DEF IInv, TypeOK, InvSubscribed
<1>4. /\ fde'[c] \in Fde
      /\ fde'[c].s_flags = fde'[c].interest
      /\ fde'[c].interest = fde[c].interest \cup {"OUT"}
  BY <1>3, SetFde DEF Answer, Flag, IInv, TypeOK
<1>5. omsg_q' = [omsg_q EXCEPT ![c] = Append(omsg_q[c], buffer)]
  BY DEF Answer, Queued
<1> HIDE DEF whole, buffer
<1>6. TypeOK'
  <2>1. omsg_q' \in [Conns -> Seq(Buffer)]
    BY <1>2, <1>5 DEF IInv, TypeOK
  <2>2. fde' \in [Conns -> Fde]
    BY <1>4 DEF Answer, IInv, TypeOK
  <2>3. cut' \in [Conns -> BOOLEAN]
    BY DEF Answer, IInv, TypeOK
  <2> QED
    BY <2>1, <2>2, <2>3 DEF Answer, Return, Buffer, NoBuffer, IInv, TypeOK
<1>7. InvOpen'
  BY <1>1, NetAssumption DEF Answer, Return, IInv, TypeOK, InvOpen
<1>8. InvSubscribed'
  BY <1>4 DEF Answer, IInv, TypeOK, InvSubscribed
<1>9. InvFirst'
  BY DEF Answer, Return, InvFirst, Reads
<1> QED
  BY <1>6, <1>7, <1>8, <1>9 DEF IInv

LEMMA ExitIInv == ASSUME IInv, Exit PROVE IInv'
<1> USE DEF clientVars, connVars
<1>1. TypeOK' /\ InvOpen'
  BY NetAssumption DEF Exit, Buffer, NoBuffer, IInv, TypeOK, InvOpen
<1>2. InvSubscribed' /\ InvFirst'
  BY DEF Exit, IInv, InvSubscribed, InvFirst, Reads
<1> QED
  BY <1>1, <1>2 DEF IInv

LEMMA SendIInv ==
  ASSUME IInv, NEW c \in Conns, SendNothing(c) \/ SendMsg(c) PROVE IInv'
<1> USE DEF clientVars, callVars
<1>1. CASE SendNothing(c)
  <2>1. state[c] = "open" /\ events' \subseteq events
    BY <1>1, EventFacts DEF SendNothing, Flag
  <2>2. fde[c] \in Fde /\ fde[c].s_flags = fde[c].interest
    BY DEF IInv, TypeOK, InvSubscribed
  <2>3. /\ fde'[c] \in Fde
        /\ fde'[c].s_flags = fde'[c].interest
        /\ fde'[c].interest = fde[c].interest \ {"OUT"}
    BY <1>1, <2>2, ClrFde DEF SendNothing, ClearOut, IInv, TypeOK
  <2>4. fde' \in [Conns -> Fde]
    BY <1>1, <2>3 DEF SendNothing, IInv, TypeOK
  <2>5. TypeOK'
    BY <1>1, <2>1, <2>4 DEF SendNothing, IInv, TypeOK
  <2>6. InvOpen'
    BY <1>1, <2>1 DEF SendNothing, IInv, TypeOK, InvOpen
  <2>7. InvSubscribed'
    BY <1>1, <2>3 DEF SendNothing, IInv, TypeOK, InvSubscribed
  <2>8. InvFirst'
    BY <1>1 DEF SendNothing, IInv, InvFirst, Reads
  <2> QED
    BY <2>5, <2>6, <2>7, <2>8 DEF IInv
<1>2. CASE SendMsg(c)
  <2>1. state[c] = "open" /\ events' \subseteq events /\ at = "events"
    BY <1>2, EventFacts DEF SendMsg, Flag
  <2>2. omsg_q[c] \in Seq(Buffer) /\ omsg_q[c] # <<>>
    BY <1>2 DEF SendMsg, IInv, TypeOK
  <2>3. Head(omsg_q[c]) \in Buffer /\ Tail(omsg_q[c]) \in Seq(Buffer)
    BY <2>2
  <2>4. TypeOK'
    BY <1>2, <2>1, <2>3 DEF SendMsg, IInv, TypeOK
  <2>5. InvOpen'
    BY <1>2, <2>1 DEF SendMsg, Usable, IInv, TypeOK, InvOpen
  <2>6. InvSubscribed'
    BY <1>2, <2>2 DEF SendMsg, IInv, TypeOK, InvSubscribed
  <2>7. InvFirst'
    BY <1>2 DEF SendMsg, InvFirst, Reads
  <2> QED
    BY <2>4, <2>5, <2>6, <2>7 DEF IInv
<1> QED
  BY <1>1, <1>2

LEMMA WriteIInv ==
  ASSUME IInv, NEW c \in Conns, WriteSome(c) \/ WriteEnds(c) \/ WriteFails(c) PROVE IInv'
<1> USE DEF clientVars, loopVars
<1>1. CASE WriteSome(c)
  <2> DEFINE n == Portion(c)
  <2>1. n \in Nat /\ n > 0 /\ n <= smsg.len
    <3>1. Room(c) \in Int /\ smsg.len \in Nat
      BY NetAssumption DEF Room, Buffer, IInv, TypeOK
    <3> QED
      BY <1>1, <3>1 DEF WriteSome, Portion
  <2>2. wrote' \in [Conns -> Seq(Nat)]
    <3>1. Units(smsg, n) \in Seq(Nat)
      <4>1. \A i \in 1..n : smsg.first + i - 1 \in Nat
        BY <2>1 DEF Buffer, IInv, TypeOK
      <4>2. Units(smsg, n) \in [1..n -> Nat]
        BY <4>1 DEF Units
      <4> QED
        BY <2>1, <4>2
    <3>2. wrote[c] \o Units(smsg, n) \in Seq(Nat)
      BY <3>1 DEF IInv, TypeOK
    <3> QED
      BY <1>1, <3>2 DEF WriteSome, IInv, TypeOK
  <2>3. smsg' \in Buffer /\ ret' \in Nat
    BY <1>1, <2>1 DEF WriteSome, Decr, Buffer, IInv, TypeOK
  <2>4. TypeOK'
    BY <1>1, <2>2, <2>3 DEF WriteSome, IInv, TypeOK
  <2>5. InvOpen' /\ InvSubscribed' /\ InvFirst'
    BY <1>1 DEF WriteSome, IInv, InvOpen, InvSubscribed, InvFirst, Reads
  <2> QED
    BY <2>4, <2>5 DEF IInv
<1>2. CASE WriteEnds(c) \/ WriteFails(c)
  <2>1. Return /\ UNCHANGED <<state, clientVars, conn_count, events, taken, omsg_q, fde, wrote>>
    BY <1>2 DEF WriteEnds, WriteFails
  <2>2. error' \in [Conns -> BOOLEAN] /\ \A d \in Conns \ {c} : error'[d] = error[d]
    BY <1>2 DEF WriteEnds, WriteFails, IInv, TypeOK
  <2>3. cut' \in [Conns -> BOOLEAN]
    <3>1. cut' = [cut EXCEPT ![c] = TRUE] \/ cut' = [cut EXCEPT ![c] = cut[c] \/ smsg.len > 0]
      BY <1>2 DEF WriteEnds, WriteFails
    <3> QED
      BY <3>1 DEF IInv, TypeOK
  <2>4. ~ error[c]
    BY <1>2 DEF WriteEnds, WriteFails, Writes, IInv, InvOpen
  <2>5. TypeOK'
    BY <2>1, <2>2, <2>3 DEF Return, Buffer, NoBuffer, IInv, TypeOK
  <2>6. InvOpen' /\ InvFirst'
    BY <2>1, NetAssumption DEF Return, IInv, InvOpen, InvFirst, Reads
  <2>7. InvSubscribed'
    BY <2>1, <2>2, <2>4 DEF IInv, InvSubscribed
  <2> QED
    BY <2>5, <2>6, <2>7 DEF IInv
<1> QED
  BY <1>1, <1>2

LEMMA StutterIInv == IInv /\ UNCHANGED vars => IInv'
  BY DEF vars, clientVars, loopVars, connVars, callVars, IInv, TypeOK, InvOpen, InvFirst,
         InvSubscribed, Reads

LEMMA NextIInv == IInv /\ [Next]_vars => IInv'
<1>1. ASSUME IInv, ServerStep \/ WaitFails PROVE IInv'
  BY <1>1, LoopIInv, AcceptIInv, ReadIInv, AnswerIInv, ExitIInv, SendIInv, WriteIInv
     DEF ServerStep, BadOpcode, BrokenPipe
<1> QED
  BY <1>1, ClientIInv, StutterIInv DEF Next

LEMMA IInvCorrect == Spec => []IInv
  BY InitIInv, NextIInv, PTL DEF Spec

-----------------------------------------------------------------------------

(* Every variable of the event loop keeps its type: in particular the      *)
(* lengths of buffers, which decr() and the division into messages         *)
(* compute, are never negative.                                            *)
THEOREM TypeCorrect == Spec => []TypeOK
<1>1. IInv => TypeOK
  BY DEF IInv
<1> QED
  BY <1>1, IInvCorrect, PTL

(* Fdevents and the kernel agree on the subscriptions, and no connection   *)
(* with queued answers is left without FDEVENT_OUT.                        *)
THEOREM SubscribedCorrect == Spec => []InvSubscribed
<1>1. IInv => InvSubscribed
  BY DEF IInv
<1> QED
  BY <1>1, IInvCorrect, PTL

-----------------------------------------------------------------------------

(* What becomes of a connection in error. *)
LEMMA ErrorStep ==
  ASSUME IInv, [Next]_vars, NEW c \in Conns, error[c]
  PROVE  error'[c] /\ UNCHANGED <<taken[c], wrote[c], omsg_q[c]>>
<1> USE DEF connVars, IInv
<1>1. CASE UNCHANGED vars
  BY <1>1 DEF vars
<1>2. CASE \E d \in Conns : ClientStep(d)
  BY <1>2 DEF ClientStep, Connect, Send, Recv, Close, Reset
<1>3. CASE Wait \/ WaitFails \/ EndBatch \/ AcceptFails \/ AcceptConn
  BY <1>3 DEF Wait, WaitFails, Exit, EndBatch, AcceptFails, AcceptConn
<1>4. ASSUME NEW d \in Conns,
             SkipError(d) \/ BadOpcode(d) \/ BrokenPipe(d) \/ RecvMsgs(d) \/ SendNothing(d)
      PROVE  UNCHANGED <<error, taken, wrote, omsg_q>>
  BY <1>4 DEF SkipError, BadOpcode, BrokenPipe, Exit, RecvMsgs, SendNothing
<1>5. ASSUME NEW d \in Conns, ReadSome(d) \/ ReadNull(d) \/ Answer(d)
      PROVE  error'[c] /\ UNCHANGED <<taken[c], wrote[c], omsg_q[c]>>
  <2>1. d # c
    BY <1>5 DEF ReadSome, ReadNull, Answer, ReadEnds, Reads, InvOpen
  <2> QED
    BY <1>5, <2>1 DEF ReadSome, ReadNull, Answer, TypeOK
<1>6. ASSUME NEW d \in Conns, SendMsg(d) \/ WriteSome(d) \/ WriteEnds(d) \/ WriteFails(d)
      PROVE  error'[c] /\ UNCHANGED <<taken[c], wrote[c], omsg_q[c]>>
  <2>1. d # c
    BY <1>6 DEF SendMsg, Usable, WriteSome, WriteEnds, WriteFails, Writes, InvOpen
  <2> QED
    BY <1>6, <2>1 DEF SendMsg, WriteSome, WriteEnds, WriteFails, TypeOK
<1> QED
  BY <1>1, <1>2, <1>3, <1>4, <1>5, <1>6 DEF Next, ServerStep

(* After mark_error() a connection stays in error, and the server neither  *)
(* reads from it nor writes to it.                                         *)
THEOREM ErrorCorrect == Spec => ErrorIsFinal
<1>1. IInv /\ [Next]_vars =>
        [\A c \in Conns :
           error[c] => error'[c] /\ UNCHANGED <<taken[c], wrote[c], omsg_q[c]>>]_vars
  BY ErrorStep
<1> QED
  BY <1>1, IInvCorrect, PTL DEF Spec, ErrorIsFinal

-----------------------------------------------------------------------------
(* The stream of answers. *)

Chained(q, from, to) ==
  /\ \A i \in 1..Len(q) : q[i].first = IF i = 1 THEN from ELSE q[i - 1].first + q[i - 1].len
  /\ to = IF Len(q) = 0 THEN from ELSE q[Len(q)].first + q[Len(q)].len

LEMMA ContiguousChained ==
  ASSUME NEW q, Len(q) \in Nat, DOMAIN q = 1..Len(q), NEW from, NEW to
  PROVE  Contiguous(q, from, to) <=> Chained(q, from, to)
<1>1. \A i \in 1..Len(q) : i - 1 = 0 <=> i = 1
  OBVIOUS
<1> QED
  BY <1>1 DEF Contiguous, Chained

LEMMA ContiguousAppend ==
  ASSUME NEW q \in Seq(Buffer), NEW from \in Nat, NEW to \in Nat, NEW n \in Nat,
         Contiguous(q, from, to)
  PROVE  Contiguous(Append(q, [first |-> to, len |-> n]), from, to + n)
<1> DEFINE b == [first |-> to, len |-> n]
           p == Append(q, b)
<1>a. b \in Buffer
  BY DEF Buffer
<1> HIDE DEF b
<1>b. Len(q) \in Nat /\ DOMAIN q = 1..Len(q) /\ \A i \in 1..Len(q) : q[i] \in Buffer
  OBVIOUS
<1>c. Len(p) = Len(q) + 1 /\ DOMAIN p = 1..Len(q) + 1
  BY <1>a
<1>d. p[Len(q) + 1] = b /\ \A i \in 1..Len(q) : p[i] = q[i]
  BY <1>a
<1>1. /\ Len(q) \in Nat /\ Len(p) = Len(q) + 1 /\ p[Len(q) + 1] = b
      /\ \A i \in 1..Len(q) : p[i] = q[i] /\ q[i] \in Buffer
      /\ DOMAIN q = 1..Len(q) /\ DOMAIN p = 1..Len(q) + 1
  BY <1>b, <1>c, <1>d
<1> HIDE DEF p
<1>2. Chained(q, from, to)
  BY <1>1, ContiguousChained
<1>3. Chained(p, from, to + n)
  <2>1. b.first = to /\ b.len = n
    BY DEF b
  <2>2. Len(p) # 0 /\ to + n = p[Len(p)].first + p[Len(p)].len
    BY <1>1, <2>1
  <2>3. ASSUME NEW i \in 1..Len(p)
        PROVE  p[i].first = IF i = 1 THEN from ELSE p[i - 1].first + p[i - 1].len
    <3>1. CASE i = Len(q) + 1
      BY <1>1, <1>2, <2>1, <3>1 DEF Chained
    <3>2. CASE i # Len(q) + 1
      BY <1>1, <1>2, <3>2 DEF Chained
    <3> QED
      BY <3>1, <3>2
  <2> QED
    BY <2>2, <2>3 DEF Chained
<1>4. Contiguous(p, from, to + n)
  <2>1. DOMAIN p = 1..Len(p) /\ Len(p) \in Nat
    BY <1>1
  <2> QED
    BY <2>1, <1>3, ContiguousChained
<1> QED
  BY <1>4 DEF p, b

LEMMA ContiguousWrite ==
  ASSUME NEW b \in Buffer, NEW q \in Seq(Buffer), NEW from \in Nat, NEW to \in Nat,
         NEW n \in 0..b.len, Contiguous(<<b>> \o q, from, to)
  PROVE  b.first = from /\ Contiguous(<<Decr(b, n)>> \o q, from + n, to)
<1> DEFINE p == <<b>> \o q
           r == <<Decr(b, n)>> \o q
<1>1. /\ Len(p) = Len(q) + 1 /\ Len(r) = Len(q) + 1 /\ Len(q) \in Nat
      /\ p[1] = b /\ r[1] = Decr(b, n)
      /\ \A i \in 2..Len(q) + 1 : p[i] = q[i - 1] /\ r[i] = q[i - 1]
  BY DEF Decr, Buffer
<1>2. DOMAIN p = 1..Len(q) + 1 /\ DOMAIN r = 1..Len(q) + 1
  BY <1>1 DEF Decr, Buffer
<1>3. \A i \in 1..Len(q) : q[i] \in Buffer
  OBVIOUS
<1>4. /\ Decr(b, n).first = b.first + n
      /\ Decr(b, n).first + Decr(b, n).len = b.first + b.len
  BY DEF Decr, Buffer
<1> HIDE DEF p, r
<1>5. Chained(p, from, to)
  <2>1. Contiguous(p, from, to)
    BY DEF p
  <2> QED
    BY <1>1, <1>2, <2>1, ContiguousChained
<1>6. b.first = from
  BY <1>1, <1>5 DEF Chained
<1>7. Chained(r, from + n, to)
  <2>1. r[1].first = from + n
    BY <1>1, <1>4, <1>6
  <2>2. ASSUME NEW i \in 2..Len(q) + 1
        PROVE  r[i].first = r[i - 1].first + r[i - 1].len
    <3>1. p[i].first = p[i - 1].first + p[i - 1].len
      BY <1>1, <1>5 DEF Chained
    <3>2. CASE i = 2
      BY <1>1, <1>4, <3>1, <3>2
    <3>3. CASE i # 2
      <4>1. i - 1 \in 2..Len(q) + 1
        BY <1>1, <3>3
      <4> QED
        BY <1>1, <3>1, <4>1
    <3> QED
      BY <3>2, <3>3
  <2>3. to = p[Len(q) + 1].first + p[Len(q) + 1].len
    BY <1>1, <1>5 DEF Chained
  <2>4. to = r[Len(q) + 1].first + r[Len(q) + 1].len
    <3>1. CASE Len(q) = 0
      BY <1>1, <1>4, <2>3, <3>1
    <3>2. CASE Len(q) # 0
      BY <1>1, <2>3, <3>2
    <3> QED
      BY <3>1, <3>2
  <2> QED
    BY <1>1, <2>1, <2>2, <2>4 DEF Chained
<1>8. Contiguous(r, from + n, to)
  BY <1>1, <1>2, <1>7, ContiguousChained
<1> QED
  BY <1>6, <1>8 DEF r

LEMMA ContiguousTail ==
  ASSUME NEW b \in Buffer, b.len = 0, NEW q \in Seq(Buffer), NEW from \in Nat, NEW to \in Nat,
         Contiguous(<<b>> \o q, from, to)
  PROVE  Contiguous(q, from, to)
<1> DEFINE p == <<b>> \o q
<1>1. /\ Len(p) = Len(q) + 1 /\ Len(q) \in Nat
      /\ p[1] = b
      /\ \A i \in 1..Len(q) : p[i + 1] = q[i]
  OBVIOUS
<1>2. DOMAIN p = 1..Len(q) + 1 /\ DOMAIN q = 1..Len(q)
  BY <1>1 DEF Buffer
<1>3. \A i \in 1..Len(q) : q[i] \in Buffer
  OBVIOUS
<1> HIDE DEF p
<1>4. Chained(p, from, to)
  <2>1. Contiguous(p, from, to)
    BY DEF p
  <2> QED
    BY <1>1, <1>2, <2>1, ContiguousChained
<1>5. b.first + b.len = from
  <2>1. b.first = from
    BY <1>1, <1>4 DEF Chained
  <2> QED
    BY <2>1 DEF Buffer
<1>6. ASSUME NEW i \in 1..Len(q)
      PROVE  q[i].first = IF i = 1 THEN from ELSE q[i - 1].first + q[i - 1].len
  <2>1. i + 1 \in 1..Len(p) /\ i + 1 # 1 /\ (i + 1) - 1 = i
    BY <1>1
  <2>2. p[i + 1].first = p[i].first + p[i].len
    BY <1>4, <2>1 DEF Chained
  <2>3. CASE i = 1
    BY <1>1, <1>5, <2>2, <2>3
  <2>4. CASE i # 1
    <3>1. i - 1 \in 1..Len(q) /\ (i - 1) + 1 = i
      BY <1>1, <2>4
    <3>2. p[i] = q[i - 1]
      BY <1>1, <3>1
    <3> QED
      BY <1>1, <2>2, <2>4, <3>2
  <2> QED
    BY <2>3, <2>4
<1>7. to = IF Len(q) = 0 THEN from ELSE q[Len(q)].first + q[Len(q)].len
  <2>1. to = p[Len(q) + 1].first + p[Len(q) + 1].len
    BY <1>1, <1>4 DEF Chained
  <2>2. CASE Len(q) = 0
    BY <1>1, <1>5, <2>1, <2>2
  <2>3. CASE Len(q) # 0
    BY <1>1, <2>1, <2>3
  <2> QED
    BY <2>2, <2>3
<1> QED
  BY <1>1, <1>2, <1>6, <1>7, ContiguousChained DEF Chained

AnswersOf(c) ==
  ~ cut[c] /\ at # "exited" =>
    /\ \A i \in DOMAIN wrote[c] : wrote[c][i] = i - 1
    /\ Contiguous(Outgoing(c), Len(wrote[c]), Processed(c))

LEMMA SameAnswers ==
  ASSUME InvAnswers, NEW c \in Conns, at # "exited", cut'[c] = cut[c], wrote'[c] = wrote[c],
         Outgoing(c)' = Outgoing(c), Processed(c)' = Processed(c)
  PROVE  AnswersOf(c)'
  BY DEF InvAnswers, AnswersOf

(* A step that leaves the buffers of c alone and does not begin or end a   *)
(* call for c.                                                             *)
LEMMA OtherAnswers ==
  ASSUME InvAnswers, NEW c \in Conns, at # "exited",
         cut'[c] = cut[c], wrote'[c] = wrote[c], omsg_q'[c] = omsg_q[c], taken'[c] = taken[c],
         \/ UNCHANGED <<at, cur, first, smsg>>
         \/ cur # c /\ cur' # c
  PROVE  AnswersOf(c)'
<1>1. Outgoing(c)' = Outgoing(c)
  BY DEF Outgoing, Writes
<1>2. Processed(c)' = Processed(c)
  BY DEF Processed, Reads
<1> QED
  BY <1>1, <1>2, SameAnswers

(* A connection is current only during msg_read and msg_write. *)
InvCur == at \in {"wait", "events"} => cur = "none"

LEMMA CurFacts ==
  ASSUME NEW c \in Conns PROVE c # "none"
  BY NetAssumption

LEMMA NextCur == IInv /\ InvCur /\ [Next]_vars => InvCur'
<1> USE DEF InvCur, callVars, loopVars
<1> SUFFICES ASSUME IInv, InvCur, [Next]_vars PROVE InvCur'
  OBVIOUS
<1>1. CASE UNCHANGED vars
  BY <1>1 DEF vars
<1>2. CASE \E d \in Conns : ClientStep(d)
  BY <1>2 DEF ClientStep, Connect, Send, Recv, Close, Reset
<1>3. CASE Wait \/ WaitFails \/ EndBatch \/ AcceptFails \/ AcceptConn
  BY <1>3 DEF Wait, WaitFails, Exit, EndBatch, AcceptFails, AcceptConn, Take
<1>4. CASE \E d \in Conns :
             SkipError(d) \/ BadOpcode(d) \/ BrokenPipe(d) \/ RecvMsgs(d) \/ SendNothing(d)
  BY <1>4 DEF SkipError, BadOpcode, BrokenPipe, Exit, RecvMsgs, SendNothing
<1>5. CASE \E d \in Conns : ReadSome(d) \/ ReadNull(d) \/ Answer(d)
  BY <1>5 DEF ReadSome, Reads, ReadNull, Answer, Return
<1>6. CASE \E d \in Conns : SendMsg(d) \/ WriteSome(d) \/ WriteEnds(d) \/ WriteFails(d)
  BY <1>6 DEF SendMsg, WriteSome, Writes, WriteEnds, WriteFails, Return
<1> QED
  BY <1>1, <1>2, <1>3, <1>4, <1>5, <1>6 DEF Next, ServerStep

(* The steps that move no answers. *)
LEMMA QuietAnswers ==
  ASSUME IInv, InvCur, InvAnswers, NEW c \in Conns,
         \/ UNCHANGED vars
         \/ \E d \in Conns : ClientStep(d)
         \/ Wait \/ WaitFails \/ EndBatch \/ AcceptFails \/ AcceptConn
         \/ \E d \in Conns : SkipError(d) \/ BadOpcode(d) \/ BrokenPipe(d) \/ SendNothing(d)
  PROVE  AnswersOf(c)'
<1> USE DEF callVars, connVars, loopVars
<1>1. CASE at = "exited" /\ UNCHANGED at
  BY <1>1 DEF AnswersOf
<1>2. CASE at' = "exited"
  BY <1>2 DEF AnswersOf
<1>3. CASE at # "exited" /\ UNCHANGED <<cut, wrote, omsg_q, taken, at, cur, first, smsg>>
  BY <1>3, OtherAnswers
<1>4. CASE at # "exited" /\ UNCHANGED <<cut, wrote, omsg_q, taken>> /\ cur = "none" /\ cur' = "none"
  BY <1>4, OtherAnswers, CurFacts
<1>5. CASE UNCHANGED vars
  BY <1>1, <1>3, <1>5 DEF vars
<1>6. CASE \E d \in Conns : ClientStep(d)
  <2>1. UNCHANGED <<cut, wrote, omsg_q, taken, at, cur, first, smsg>>
    BY <1>6 DEF ClientStep, Connect, Send, Recv, Close, Reset
  <2> QED
    BY <2>1, <1>1, <1>3
<1>7. CASE Wait \/ EndBatch
  BY <1>4, <1>7 DEF Wait, EndBatch, InvCur
<1>8. CASE WaitFails \/ \E d \in Conns : BadOpcode(d) \/ BrokenPipe(d)
  BY <1>2, <1>8 DEF WaitFails, BadOpcode, BrokenPipe, Exit
<1>9. CASE AcceptFails \/ AcceptConn \/ \E d \in Conns : SkipError(d) \/ SendNothing(d)
  <2>1. at = "events"
    BY <1>9 DEF AcceptFails, AcceptConn, SkipError, SendNothing, Event, Take
  <2>2. UNCHANGED <<cut, wrote, omsg_q, taken, at, cur, first, smsg>>
    BY <1>9 DEF AcceptFails, AcceptConn, SkipError, SendNothing
  <2> QED
    BY <2>1, <2>2, <1>3
<1> QED
  BY <1>5, <1>6, <1>7, <1>8, <1>9

(* The calls of d leave the answers of the other connections alone. *)
LEMMA CallOthers ==
  ASSUME IInv, InvCur, InvAnswers, NEW c \in Conns, NEW d \in Conns, c # d, at # "exited",
         \/ RecvMsgs(d) \/ ReadSome(d) \/ ReadNull(d) \/ Answer(d)
         \/ SendMsg(d) \/ WriteSome(d) \/ WriteEnds(d) \/ WriteFails(d)
  PROVE  AnswersOf(c)'
<1> USE DEF callVars, connVars, loopVars
<1>1. cur # c
  <2>1. CASE RecvMsgs(d) \/ SendMsg(d)
    BY <2>1, CurFacts DEF RecvMsgs, SendMsg, Event, Take, InvCur
  <2>2. CASE ReadSome(d) \/ ReadNull(d) \/ Answer(d)
    BY <2>2 DEF ReadSome, ReadNull, Answer, ReadEnds, Reads
  <2>3. CASE WriteSome(d) \/ WriteEnds(d) \/ WriteFails(d)
    BY <2>3 DEF WriteSome, WriteEnds, WriteFails, Writes
  <2> QED
    BY <2>1, <2>2, <2>3
<1>2. CASE RecvMsgs(d) \/ ReadSome(d)
  <2>1. UNCHANGED <<cut, wrote, omsg_q>> /\ taken'[c] = taken[c] /\ cur' # c
    BY <1>1, <1>2 DEF RecvMsgs, ReadSome, IInv, TypeOK
  <2> QED
    BY <1>1, <2>1, OtherAnswers
<1>3. CASE ReadNull(d) \/ Answer(d)
  <2>1. /\ UNCHANGED <<wrote, taken>>
        /\ cut'[c] = cut[c] /\ omsg_q'[c] = omsg_q[c] /\ cur' # c
    BY <1>3, CurFacts DEF ReadNull, Answer, Return, IInv, TypeOK
  <2> QED
    BY <1>1, <2>1, OtherAnswers
<1>4. CASE SendMsg(d) \/ WriteSome(d)
  <2>1. /\ UNCHANGED <<cut, taken>>
        /\ wrote'[c] = wrote[c] /\ omsg_q'[c] = omsg_q[c] /\ cur' # c
    BY <1>1, <1>4 DEF SendMsg, WriteSome, IInv, TypeOK
  <2> QED
    BY <1>1, <2>1, OtherAnswers
<1>5. CASE WriteEnds(d) \/ WriteFails(d)
  <2>1. UNCHANGED <<wrote, taken, omsg_q>> /\ cut'[c] = cut[c] /\ cur' # c
    BY <1>5, CurFacts DEF WriteEnds, WriteFails, Return, IInv, TypeOK
  <2> QED
    BY <1>1, <2>1, OtherAnswers
<1> QED
  BY <1>2, <1>3, <1>4, <1>5

LEMMA EmptyConcat ==
  ASSUME NEW q \in Seq(Buffer) PROVE <<>> \o q = q
  OBVIOUS

(* msg_read and req_recv, for the connection they read. *)
LEMMA ReadAnswers ==
  ASSUME IInv, InvCur, InvAnswers, NEW c \in Conns, at # "exited",
         RecvMsgs(c) \/ ReadSome(c) \/ ReadNull(c) \/ Answer(c)
  PROVE  AnswersOf(c)'
<1> USE DEF callVars, connVars, loopVars
<1>0. omsg_q[c] \in Seq(Buffer) /\ taken[c] \in Nat /\ first \in Nat /\ Len(wrote[c]) \in Nat
  BY DEF IInv, TypeOK
<1>1. CASE RecvMsgs(c)
  <2>1. at = "events" /\ at' = "read" /\ cur' = c /\ first' = taken[c]
    BY <1>1 DEF RecvMsgs, Event, Take
  <2>2. UNCHANGED <<cut, wrote, omsg_q, taken>>
    BY <1>1 DEF RecvMsgs
  <2>3. Outgoing(c)' = Outgoing(c) /\ Processed(c)' = Processed(c)
    BY <2>1, <2>2 DEF Outgoing, Processed, Reads, Writes
  <2> QED
    BY <2>2, <2>3, SameAnswers
<1>2. CASE ReadSome(c)
  <2>1. at = "read" /\ cur = c /\ UNCHANGED <<at, cur, first, cut, wrote, omsg_q>>
    BY <1>2 DEF ReadSome, Reads
  <2>2. Outgoing(c)' = Outgoing(c) /\ Processed(c)' = Processed(c)
    BY <2>1 DEF Outgoing, Processed, Reads, Writes
  <2> QED
    BY <2>1, <2>2, SameAnswers
<1>3. CASE ReadNull(c)
  <2>1. /\ at = "read" /\ cur = c /\ at' = "events" /\ UNCHANGED <<wrote, omsg_q, taken>>
        /\ cut'[c] = (cut[c] \/ Size(c) > 0)
    BY <1>3 DEF ReadNull, Reads, Return, IInv, TypeOK
  <2>2. CASE Size(c) > 0
    BY <2>1, <2>2 DEF AnswersOf
  <2>3. CASE ~ (Size(c) > 0)
    <3>1. taken[c] = first
      BY <1>0, <1>3, <2>3 DEF Size, ReadNull, IInv, InvFirst
    <3>2. Outgoing(c)' = Outgoing(c) /\ Processed(c)' = Processed(c)
      BY <2>1, <3>1 DEF Outgoing, Processed, Reads, Writes
    <3>3. cut'[c] = cut[c]
      BY <2>1, <2>3 DEF IInv, TypeOK
    <3> QED
      BY <2>1, <3>2, <3>3, SameAnswers
  <2> QED
    BY <2>2, <2>3
<1>4. CASE Answer(c)
  <2> DEFINE whole == MsgSize * (Size(c) \div MsgSize)
             buffer == [first |-> first, len |-> whole]
  <2>1. /\ at = "read" /\ cur = c /\ at' = "events" /\ UNCHANGED <<wrote, taken>>
        /\ Reads(c) /\ first <= taken[c]
    BY <1>4 DEF Answer, ReadEnds, Reads, Return, IInv, InvFirst
  <2>2. omsg_q'[c] = Append(omsg_q[c], buffer) /\ cut'[c] = (cut[c] \/ whole # Size(c))
    BY <1>4 DEF Answer, Queued, IInv, TypeOK
  <2>3. whole \in Nat /\ Size(c) \in Nat
    <3>1. Size(c) \in Nat
      BY <1>0, <2>1 DEF Size
    <3> QED
      BY <3>1, WholeMessages
  <2> HIDE DEF whole
  <2>4. CASE cut'[c]
    BY <2>4 DEF AnswersOf
  <2>5. CASE ~ cut'[c]
    <3>1. ~ cut[c] /\ whole = taken[c] - first
      BY <2>2, <2>5 DEF Size
    <3>2. /\ \A i \in DOMAIN wrote[c] : wrote[c][i] = i - 1
          /\ Contiguous(Outgoing(c), Len(wrote[c]), Processed(c))
      BY <2>1, <3>1 DEF InvAnswers
    <3>3. Contiguous(omsg_q[c], Len(wrote[c]), first)
      BY <1>0, <2>1, <3>2, EmptyConcat DEF Outgoing, Processed, Writes
    <3>4. Contiguous(Append(omsg_q[c], buffer), Len(wrote[c]), first + whole)
      BY <1>0, <2>3, <3>3, ContiguousAppend
    <3>5. first + whole = taken[c]
      BY <1>0, <3>1
    <3>6. Outgoing(c)' = Append(omsg_q[c], buffer)
      <4>1. Append(omsg_q[c], buffer) \in Seq(Buffer)
        BY <1>0, <2>3 DEF Buffer
      <4> QED
        BY <2>1, <2>2, <4>1, EmptyConcat DEF Outgoing, Writes
    <3>7. Processed(c)' = taken[c]
      BY <2>1 DEF Processed, Reads
    <3> QED
      BY <2>1, <3>2, <3>4, <3>5, <3>6, <3>7 DEF AnswersOf
  <2> QED
    BY <2>4, <2>5
<1> QED
  BY <1>1, <1>2, <1>3, <1>4

LEMMA UnitsAppended ==
  ASSUME NEW w \in Seq(Nat), \A i \in DOMAIN w : w[i] = i - 1,
         NEW b \in Buffer, b.first = Len(w), NEW n \in Nat
  PROVE  /\ Len(w \o Units(b, n)) = Len(w) + n
         /\ \A i \in DOMAIN (w \o Units(b, n)) : (w \o Units(b, n))[i] = i - 1
<1>1. Len(w) \in Nat /\ DOMAIN w = 1..Len(w)
  OBVIOUS
<1>2. /\ Units(b, n) \in Seq(Nat) /\ Len(Units(b, n)) = n
      /\ \A i \in 1..n : Units(b, n)[i] = Len(w) + i - 1
  <2>1. \A i \in 1..n : Len(w) + i - 1 \in Nat
    BY <1>1
  <2>2. Units(b, n) = [i \in 1..n |-> Len(w) + i - 1]
    BY DEF Units
  <2>3. Units(b, n) \in [1..n -> Nat]
    BY <2>1, <2>2
  <2> QED
    BY <2>2, <2>3
<1> DEFINE u == Units(b, n)
           v == w \o u
<1> HIDE DEF u
<1>3. /\ Len(v) = Len(w) + n /\ DOMAIN v = 1..Len(w) + n
      /\ \A i \in 1..Len(w) : v[i] = w[i]
      /\ \A i \in Len(w) + 1..Len(w) + n : v[i] = u[i - Len(w)]
  BY <1>1, <1>2 DEF u
<1> HIDE DEF v
<1>4. ASSUME NEW i \in 1..Len(w) + n PROVE v[i] = i - 1
  <2>1. CASE i <= Len(w)
    BY <1>1, <1>3, <2>1
  <2>2. CASE i > Len(w)
    <3>1. i - Len(w) \in 1..n /\ Len(w) + (i - Len(w)) - 1 = i - 1
      BY <1>1, <2>2
    <3>2. v[i] = u[i - Len(w)]
      BY <1>1, <1>3, <2>2
    <3> QED
      BY <1>2, <3>1, <3>2 DEF u
  <2> QED
    BY <1>1, <2>1, <2>2
<1> QED
  BY <1>3, <1>4 DEF u, v

(* rsp_send and msg_write, for the connection they write. *)
LEMMA WriteAnswers ==
  ASSUME IInv, InvCur, InvAnswers, NEW c \in Conns, at # "exited",
         SendMsg(c) \/ WriteSome(c) \/ WriteEnds(c) \/ WriteFails(c)
  PROVE  AnswersOf(c)'
<1> USE DEF callVars, connVars, loopVars
<1>0. /\ omsg_q[c] \in Seq(Buffer) /\ taken[c] \in Nat /\ wrote[c] \in Seq(Nat)
      /\ Len(wrote[c]) \in Nat /\ smsg \in Buffer /\ smsg.len \in Nat
  BY DEF IInv, TypeOK, Buffer
<1>1. CASE SendMsg(c)
  <2>1. /\ at = "events" /\ at' = "write" /\ cur' = c
        /\ smsg' = Head(omsg_q[c]) /\ omsg_q[c] # <<>>
    BY <1>1 DEF SendMsg, Event, Take
  <2>2. UNCHANGED <<cut, wrote, taken>> /\ omsg_q'[c] = Tail(omsg_q[c])
    BY <1>1 DEF SendMsg, IInv, TypeOK
  <2>3. <<Head(omsg_q[c])>> \o Tail(omsg_q[c]) = <<>> \o omsg_q[c]
    BY <1>0, <2>1
  <2>4. Outgoing(c)' = Outgoing(c)
    BY <2>1, <2>2, <2>3 DEF Outgoing, Writes
  <2>5. Processed(c)' = Processed(c)
    BY <2>1, <2>2 DEF Processed, Reads
  <2> QED
    BY <2>2, <2>4, <2>5, SameAnswers
<1>2. CASE WriteSome(c)
  <2> DEFINE n == Portion(c)
  <2>1. n \in 0..smsg.len
    <3>1. Room(c) \in Int
      BY NetAssumption DEF Room, IInv, TypeOK
    <3> QED
      BY <1>0, <1>2, <3>1 DEF WriteSome, Portion
  <2>2. /\ at = "write" /\ cur = c /\ UNCHANGED <<at, cur, first, cut, omsg_q, taken>>
        /\ wrote'[c] = wrote[c] \o Units(smsg, n) /\ smsg' = Decr(smsg, n)
    BY <1>2 DEF WriteSome, Writes, IInv, TypeOK
  <2> HIDE DEF n
  <2>3. CASE cut[c]
    BY <2>2, <2>3 DEF AnswersOf
  <2>4. CASE ~ cut[c]
    <3>1. /\ \A i \in DOMAIN wrote[c] : wrote[c][i] = i - 1
          /\ Contiguous(<<smsg>> \o omsg_q[c], Len(wrote[c]), taken[c])
      BY <2>2, <2>4 DEF InvAnswers, Outgoing, Processed, Writes, Reads
    <3>2. /\ smsg.first = Len(wrote[c])
          /\ Contiguous(<<Decr(smsg, n)>> \o omsg_q[c], Len(wrote[c]) + n, taken[c])
      BY <1>0, <2>1, <3>1, ContiguousWrite
    <3>3. /\ Len(wrote'[c]) = Len(wrote[c]) + n
          /\ \A i \in DOMAIN wrote'[c] : wrote'[c][i] = i - 1
      <4>1. n \in Nat
        BY <1>0, <2>1
      <4>2. /\ Len(wrote[c] \o Units(smsg, n)) = Len(wrote[c]) + n
            /\ \A i \in DOMAIN (wrote[c] \o Units(smsg, n)) : (wrote[c] \o Units(smsg, n))[i] = i - 1
        BY <1>0, <3>1, <3>2, <4>1, UnitsAppended
      <4> QED
        BY <2>2, <4>2, Zenon
    <3>4. Outgoing(c)' = <<Decr(smsg, n)>> \o omsg_q[c] /\ Processed(c)' = taken[c]
      BY <2>2 DEF Outgoing, Processed, Writes, Reads
    <3> QED
      BY <3>2, <3>3, <3>4 DEF AnswersOf
  <2> QED
    BY <2>3, <2>4
<1>3. CASE WriteEnds(c)
  <2>1. /\ at = "write" /\ cur = c /\ at' = "events" /\ UNCHANGED <<wrote, omsg_q, taken>>
        /\ cut'[c] = (cut[c] \/ smsg.len > 0)
    BY <1>3 DEF WriteEnds, Writes, Return, IInv, TypeOK
  <2>2. CASE cut'[c]
    BY <2>2 DEF AnswersOf
  <2>3. CASE ~ cut'[c]
    <3>1. ~ cut[c] /\ smsg.len = 0
      <4>1. ~ cut[c] /\ ~ (smsg.len > 0)
        BY <2>1, <2>3, Zenon
      <4> QED
        BY <1>0, <4>1
    <3>2. /\ \A i \in DOMAIN wrote[c] : wrote[c][i] = i - 1
          /\ Contiguous(<<smsg>> \o omsg_q[c], Len(wrote[c]), taken[c])
      BY <2>1, <3>1 DEF InvAnswers, Outgoing, Processed, Writes, Reads
    <3>3. Contiguous(omsg_q[c], Len(wrote[c]), taken[c])
      BY <1>0, <3>1, <3>2, ContiguousTail
    <3>4. Outgoing(c)' = omsg_q[c] /\ Processed(c)' = taken[c]
      BY <1>0, <2>1, EmptyConcat DEF Outgoing, Processed, Writes, Reads
    <3> QED
      BY <2>1, <3>2, <3>3, <3>4 DEF AnswersOf
  <2> QED
    BY <2>2, <2>3
<1>4. CASE WriteFails(c)
  <2>1. cut'[c]
    BY <1>4 DEF WriteFails, IInv, TypeOK
  <2> QED
    BY <2>1 DEF AnswersOf
<1> QED
  BY <1>1, <1>2, <1>3, <1>4

LEMMA InitAnswers == Init => InvCur /\ InvAnswers
<1> SUFFICES ASSUME Init PROVE InvCur /\ InvAnswers
  OBVIOUS
<1>1. InvCur
  BY DEF Init, InvCur
<1>2. ASSUME NEW c \in Conns
      PROVE  /\ \A i \in DOMAIN wrote[c] : wrote[c][i] = i - 1
             /\ Contiguous(Outgoing(c), Len(wrote[c]), Processed(c))
  <2>1. wrote[c] = <<>> /\ taken[c] = 0 /\ Outgoing(c) = <<>> /\ Processed(c) = 0
    BY <1>2 DEF Init, Outgoing, Processed, Reads, Writes
  <2>2. Contiguous(<<>>, 0, 0)
    BY DEF Contiguous
  <2> QED
    BY <2>1, <2>2
<1> QED
  BY <1>1, <1>2 DEF InvAnswers

LEMMA NextAnswers == IInv /\ InvCur /\ InvAnswers /\ [Next]_vars => InvAnswers'
<1> SUFFICES ASSUME IInv, InvCur, InvAnswers, [Next]_vars, NEW c \in Conns
             PROVE  AnswersOf(c)'
  BY DEF InvAnswers, AnswersOf
<1>1. CASE \E d \in Conns : \/ RecvMsgs(d) \/ ReadSome(d) \/ ReadNull(d) \/ Answer(d)
                            \/ SendMsg(d) \/ WriteSome(d) \/ WriteEnds(d) \/ WriteFails(d)
  <2>1. PICK d \in Conns : \/ RecvMsgs(d) \/ ReadSome(d) \/ ReadNull(d) \/ Answer(d)
                           \/ SendMsg(d) \/ WriteSome(d) \/ WriteEnds(d) \/ WriteFails(d)
    BY <1>1
  <2>2. at # "exited"
    BY <2>1 DEF RecvMsgs, ReadSome, ReadNull, Answer, ReadEnds, SendMsg, WriteSome, WriteEnds,
                WriteFails, Event, Take, Reads, Writes
  <2> QED
    BY <2>1, <2>2, CallOthers, ReadAnswers, WriteAnswers
<1>2. CASE \/ UNCHANGED vars
           \/ \E d \in Conns : ClientStep(d)
           \/ Wait \/ WaitFails \/ EndBatch \/ AcceptFails \/ AcceptConn
           \/ \E d \in Conns : SkipError(d) \/ BadOpcode(d) \/ BrokenPipe(d) \/ SendNothing(d)
  BY <1>2, QuietAnswers
<1> QED
  BY <1>1, <1>2 DEF Next, ServerStep

(* As long as no piece of a message or of an answer was dropped, a client  *)
(* gets the answers to its requests in their order, none twice and none    *)
(* left out, however reads and writes divide them.                         *)
THEOREM AnswersCorrect == Spec => []InvAnswers
<1>1. Init => IInv /\ InvCur /\ InvAnswers
  BY InitIInv, InitAnswers
<1>2. IInv /\ InvCur /\ InvAnswers /\ [Next]_vars => (IInv /\ InvCur /\ InvAnswers)'
  BY NextIInv, NextCur, NextAnswers
<1> QED
  BY <1>1, <1>2, PTL DEF Spec

=============================================================================
