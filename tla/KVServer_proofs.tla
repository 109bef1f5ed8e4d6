--------------------------- MODULE KVServer_proofs ---------------------------
(***************************************************************************)
(* Proofs about KVServer, for any number of threads, connections, keys,    *)
(* message lengths and buffer sizes.                                       *)
(***************************************************************************)
EXTENDS KVServer, TLAPS

-----------------------------------------------------------------------------
(* Arithmetic on message boundaries: multiplication by MsgLen can be       *)
(* cancelled.                                                              *)
LEMMA MulSucc ==
  ASSUME NEW m \in Int, NEW n \in Int
  PROVE  m * (n + 1) = m * n + m
OBVIOUS

LEMMA MulLe ==
  ASSUME NEW m \in Nat \ {0}, NEW a \in Nat, NEW b \in Nat, m * a <= m * b
  PROVE  a <= b
<1>1. SUFFICES ASSUME a >= b + 1 PROVE FALSE
  OBVIOUS
<1>2. PICK d \in Nat : a = b + 1 + d
  <2>1. a - b - 1 \in Nat
    BY <1>1
  <2>2. a = b + 1 + (a - b - 1)
    OBVIOUS
  <2> QED
    BY <2>1, <2>2
<1>3. m * a = m * b + m + m * d
  BY <1>2
<1>4. m * d \in Nat
  BY <1>2
<1> QED
  BY <1>3, <1>4

LEMMA MulEq ==
  ASSUME NEW m \in Nat \ {0}, NEW a \in Nat, NEW b \in Nat, m * a = m * b
  PROVE  a = b
BY MulLe

LEMMA MulNat ==
  ASSUME NEW m \in Nat, NEW n \in Nat
  PROVE  m * n \in Nat
OBVIOUS

-----------------------------------------------------------------------------
(* The library: what kvstore_process_packet does stays within its types.   *)
LEMMA TableAfterType ==
  ASSUME NEW tbl \in Table, NEW pkt \in SendMessage, pkt.operation \in Operation
  PROVE  TableAfter(tbl, pkt) \in Table
BY DEF TableAfter, Table, SendMessage, Operation, insert, erase, update, contains

LEMMA ReplyToType ==
  ASSUME NEW tbl \in Table, NEW pkt \in SendMessage
  PROVE  ReplyTo(tbl, pkt) \in ResponseMessage
BY DEF ReplyTo, Table, SendMessage, ResponseMessage, StatusCode, contains

-----------------------------------------------------------------------------
(* The inductive invariant.  Framing needs to know who handles what        *)
(* (InvBatch), and closing needs the local keepalive to be the one of the  *)
(* request just answered (InvKeepalive).                                   *)
InvKeepalive ==
  \A t \in Threads : pc[t] \in {"write", "finish"} =>
    LET c == sockid[t]
        k == Len(answered[c])
    IN  k \in 1..Len(reqs[c]) /\ keepalive[t] = reqs[c][k].keepalive

(* A socket belongs to a connection that was made. *)
InvConnected == \A c \in Conns : net[c] = "none" => sock[c] = "none"

IInv ==
  /\ TypeOK
  /\ InvConnected
  /\ InvBatch
  /\ InvFraming
  /\ InvStreams
  /\ InvKeepalive

(* A thread inside HandleReadEvent works on an open connection of its own. *)
LEMMA HandledSocket ==
  ASSUME TypeOK, InvBatch, NEW t \in Threads, Handling(t)
  PROVE  /\ sockid[t] \in Conns
         /\ home[sockid[t]] = t
         /\ sock[sockid[t]] = "open"
BY DEF InvBatch, OpenAt

(* The sockets of a batch are open connections of the thread. *)
LEMMA BatchSocket ==
  ASSUME TypeOK, InvBatch, NEW t \in Threads, NEW c \in events[t] \ {Listener}
  PROVE  c \in Conns /\ home[c] = t /\ sock[c] = "open"
BY DEF InvBatch, OpenAt

LEMMA ReceivedType ==
  ASSUME TypeOK, NEW c \in Conns
  PROVE  Received(c) \subseteq Requests
<1> DEFINE whole == {reqs[c][k] : k \in {k \in DOMAIN reqs[c] : taken[c] = MsgLen * k}}
<1>1. reqs[c] \in Seq(Requests)
  BY DEF TypeOK
<1>2. \A k \in DOMAIN reqs[c] : reqs[c][k] \in Requests
  BY <1>1
<1>3. whole \subseteq Requests
  BY <1>2
<1> QED
  BY <1>3 DEF Received

(* What mtcp_write accepts: no more than the rest of the reply. *)
LEMMA SentRange ==
  ASSUME TypeOK, NEW t \in Threads, sockid[t] \in Conns
  PROVE  Sent(t) \in Int /\ Sent(t) <= MsgLen - content[t]
<1>1. MsgLen \in Nat /\ SndCap \in Nat
  BY ServerAssumption
<1>2. content[t] \in 0..MsgLen /\ written[sockid[t]] \in Nat /\ fetched[sockid[t]] \in Nat
  BY DEF TypeOK
<1> QED
  BY <1>1, <1>2 DEF Sent, Room, AtMost

LEMMA TypeInit == Init => TypeOK
<1> SUFFICES ASSUME Init PROVE TypeOK
  OBVIOUS
<1> USE ServerAssumption
<1>1. EmptyTable \in Table
  BY DEF EmptyTable, Table
<1>2. \A c \in Conns : <<>> \in Seq(Requests) /\ <<>> \in Seq(ResponseMessage)
  OBVIOUS
<1> QED
  BY <1>1, <1>2 DEF Init, TypeOK

LEMMA TypeNext == IInv /\ [Next]_vars => TypeOK'
<1> SUFFICES ASSUME IInv, [Next]_vars PROVE TypeOK'
  OBVIOUS
<1> USE ServerAssumption
<1>a. TypeOK /\ InvBatch
  BY DEF IInv
<1>1. CASE UNCHANGED vars
  BY <1>a, <1>1 DEF TypeOK, vars, clientVars, connVars, streamVars, threadVars, batchVars, readVars
<1>2. ASSUME NEW c \in Conns, ClientStep(c) PROVE TypeOK'
  <2> USE <1>a DEF TypeOK, connVars, streamVars, threadVars, batchVars, readVars
  <2>1. CASE Connect(c)
    <3>1. PICK t \in Threads : home' = [home EXCEPT ![c] = t]
      BY <2>1 DEF Connect
    <3>2. home' \in [Conns -> Threads \cup {Listener}]
      BY <3>1
    <3>3. net' \in [Conns -> {"none", "est", "fin", "rst"}]
      BY <2>1 DEF Connect
    <3> QED
      BY <2>1, <3>2, <3>3 DEF Connect
  <2>2. CASE BeginRequest(c)
    <3>1. PICK r \in Requests : reqs' = [reqs EXCEPT ![c] = Append(@, r)]
      BY <2>2 DEF BeginRequest
    <3>2. reqs' \in [Conns -> Seq(Requests)]
      BY <3>1
    <3>3. arrived' \in [Conns -> Nat]
      BY <2>2 DEF BeginRequest
    <3> QED
      BY <2>2, <3>2, <3>3 DEF BeginRequest
  <2>3. CASE ContinueRequest(c)
    <3>1. arrived' = [arrived EXCEPT ![c] = @ + 1]
      BY <2>3 DEF ContinueRequest
    <3>2. arrived' \in [Conns -> Nat]
      BY <3>1
    <3> QED
      BY <2>3, <3>2 DEF ContinueRequest
  <2>4. CASE ClientRecv(c)
    BY <2>4 DEF ClientRecv
  <2>5. CASE ClientFin(c)
    BY <2>5 DEF ClientFin
  <2>6. CASE ClientRst(c)
    BY <2>6 DEF ClientRst
  <2> QED
    BY <1>2, <2>1, <2>2, <2>3, <2>4, <2>5, <2>6 DEF ClientStep
<1>3. ASSUME NEW t \in Threads, ThreadStep(t) PROVE TypeOK'
  <2> USE <1>a DEF clientVars, connVars, streamVars, threadVars, batchVars, readVars
  <2> DEFINE c == sockid[t]
  <2>h. Handling(t) => c \in Conns
    BY HandledSocket
  <2>1. CASE EpollWait(t)
    <3>1. Ready(t) \in SUBSET (Conns \cup {Listener})
      BY DEF Ready
    <3> QED
      BY <2>1, <3>1 DEF TypeOK, EpollWait
  <2>2. CASE ListenerEvent(t)
    BY <2>2 DEF TypeOK, ListenerEvent
  <2>3. CASE ErrorEvent(t)
    <3>1. PICK d \in events[t] \ {Listener} :
            /\ sock' = [sock EXCEPT ![d] = "closed"]
            /\ events' = [events EXCEPT ![t] = @ \ {d}]
      BY <2>3 DEF ErrorEvent, CloseConnection
    <3>2. sock' \in [Conns -> {"none", "open", "unwatched", "closed"}]
      BY <3>1 DEF TypeOK
    <3>3. events' \in [Threads -> SUBSET (Conns \cup {Listener})]
      BY <3>1 DEF TypeOK
    <3> QED
      BY <2>3, <3>2, <3>3 DEF TypeOK, ErrorEvent
  <2>4. CASE ReadEvent(t)
    <3>1. PICK d \in events[t] \ {Listener} :
            /\ sockid' = [sockid EXCEPT ![t] = d]
            /\ events' = [events EXCEPT ![t] = @ \ {d}]
      BY <2>4 DEF ReadEvent
    <3>2. sockid' \in [Threads -> Conns \cup {Listener}]
      BY <3>1 DEF TypeOK
    <3>3. events' \in [Threads -> SUBSET (Conns \cup {Listener})]
      BY <3>1 DEF TypeOK
    <3>4. content' \in [Threads -> 0..MsgLen]
      BY <2>4 DEF TypeOK, ReadEvent
    <3>5. pc' \in [Threads -> {"wait", "events", "read", "process", "write",
                              "finish", "accept"}]
      BY <2>4 DEF TypeOK, ReadEvent
    <3> QED
      BY <2>4, <3>2, <3>3, <3>4, <3>5 DEF TypeOK, ReadEvent
  <2>5. CASE EndBatch(t)
    BY <2>5 DEF TypeOK, EndBatch, AfterBatch
  <2>6. CASE NotConnected(t)
    BY <2>6 DEF TypeOK, NotConnected, CloseTwice, CloseConnection
  <2>7. CASE UnexpectedError(t)
    BY <2>7 DEF TypeOK, UnexpectedError, Exit
  <2>8. CASE ReadSome(t)
    <3>1. c \in Conns
      BY <2>h, <2>8 DEF ReadSome, Handling
    <3> DEFINE rd == AtMost(arrived[c] - taken[c], MsgLen - content[t])
    <3>a. taken[c] \in Nat /\ arrived[c] \in Nat /\ content[t] \in 0..MsgLen
      BY <3>1 DEF TypeOK
    <3>b. rd > 0
      BY <2>8 DEF ReadSome
    <3>2. rd \in Int /\ rd > 0 /\ rd <= MsgLen - content[t]
      BY <3>a, <3>b DEF AtMost
    <3> HIDE DEF rd
    <3>3. taken[c] + rd \in Nat /\ content[t] + rd \in 0..MsgLen
      BY <3>a, <3>2
    <3> USE DEF rd
    <3>4. taken' = [taken EXCEPT ![c] = @ + rd] /\ content' = [content EXCEPT ![t] = @ + rd]
      BY <2>8 DEF ReadSome
    <3> HIDE DEF rd
    <3>5. taken' \in [Conns -> Nat]
      BY <3>1, <3>3, <3>4 DEF TypeOK
    <3>6. content' \in [Threads -> 0..MsgLen]
      BY <3>3, <3>4 DEF TypeOK
    <3>7. pc' \in [Threads -> {"wait", "events", "read", "process", "write",
                              "finish", "accept"}]
      BY <2>8 DEF TypeOK, ReadSome, AfterRead
    <3> QED
      BY <2>8, <3>5, <3>6, <3>7 DEF TypeOK, ReadSome
  <2>9. CASE ReadAgain(t)
    <3>1. errno' \in [Threads -> {"EAGAIN", "other"}]
      BY <2>9 DEF TypeOK, ReadAgain, Retry
    <3> QED
      BY <2>9, <3>1 DEF TypeOK, ReadAgain, Retry
  <2>10. CASE ReadEof(t)
    BY <2>10 DEF TypeOK, ReadEof, Exit
  <2>11. CASE Process(t)
    <3>1. c \in Conns
      BY <2>h, <2>11 DEF Process, Handling
    <3>2. PICK pkt \in Received(c) :
            /\ pkt.operation \in Operation
            /\ keepalive' = [keepalive EXCEPT ![t] = pkt.keepalive]
            /\ table' = TableAfter(table, pkt)
            /\ answered' = [answered EXCEPT ![c] = Append(@, ReplyTo(table, pkt))]
      BY <2>11 DEF Process
    <3>3. pkt \in SendMessage
      BY <3>1, ReceivedType
    <3>4. table \in Table
      BY DEF TypeOK
    <3>5. table' \in Table /\ ReplyTo(table, pkt) \in ResponseMessage
      BY <3>2, <3>3, <3>4, TableAfterType, ReplyToType
    <3>6. pkt.keepalive \in Int
      BY <3>3 DEF SendMessage
    <3>7. Append(answered[c], ReplyTo(table, pkt)) \in Seq(ResponseMessage)
      BY <3>1, <3>5 DEF TypeOK
    <3>8. answered' \in [Conns -> Seq(ResponseMessage)]
      BY <3>1, <3>2, <3>7 DEF TypeOK
    <3>9. keepalive' \in [Threads -> Int] /\ content' \in [Threads -> 0..MsgLen]
      BY <2>11, <3>2, <3>6 DEF TypeOK, Process
    <3> HIDE <3>2
    <3> QED
      BY <2>11, <3>5, <3>8, <3>9 DEF TypeOK, Process
  <2>12. CASE BadOpcode(t)
    BY <2>12 DEF TypeOK, BadOpcode, Exit
  <2>13. CASE WriteSome(t)
    <3>1. c \in Conns
      BY <2>h, <2>13 DEF WriteSome, Handling
    <3>2. Sent(t) \in Int /\ Sent(t) > 0 /\ Sent(t) <= MsgLen - content[t]
      BY <2>13, <3>1, SentRange DEF WriteSome
    <3>a. written[c] \in Nat /\ content[t] \in 0..MsgLen
      BY <3>1 DEF TypeOK
    <3>3. written[c] + Sent(t) \in Nat /\ content[t] + Sent(t) \in 0..MsgLen
      BY <3>a, <3>2
    <3>4. written' \in [Conns -> Nat] /\ content' \in [Threads -> 0..MsgLen]
      BY <2>13, <3>1, <3>3 DEF TypeOK, WriteSome
    <3>5. pc' \in [Threads -> {"wait", "events", "read", "process", "write",
                              "finish", "accept"}]
      BY <2>13 DEF TypeOK, WriteSome
    <3> QED
      BY <2>13, <3>4, <3>5 DEF TypeOK, WriteSome
  <2>14. CASE WriteAgain(t)
    BY <2>14 DEF TypeOK, WriteAgain, Retry
  <2>15. CASE Finish(t)
    <3>1. CASE CloseTwice(t)
      <4>1. sock' \in [Conns -> {"none", "open", "unwatched", "closed"}]
        BY <3>1 DEF TypeOK, CloseTwice, CloseConnection
      <4>2. errno' \in [Threads -> {"EAGAIN", "other"}]
        BY <3>1 DEF TypeOK, CloseTwice
      <4>3. pc' \in [Threads -> {"wait", "events", "read", "process", "write",
                              "finish", "accept"}]
        BY <3>1 DEF TypeOK, CloseTwice
      <4> QED
        BY <3>1, <4>1, <4>2, <4>3 DEF TypeOK, CloseTwice
    <3>2. CASE ~ CloseTwice(t)
      <4>1. /\ pc' = [pc EXCEPT ![t] = "events"]
            /\ UNCHANGED <<running, table, clientVars, connVars, errno, batchVars, readVars>>
        BY <2>15, <3>2 DEF Finish
      <4>2. pc' \in [Threads -> {"wait", "events", "read", "process", "write",
                              "finish", "accept"}]
        BY <4>1 DEF TypeOK
      <4> QED
        BY <4>1, <4>2 DEF TypeOK
    <3> QED
      BY <3>1, <3>2
  <2>16. CASE AcceptOpen(t)
    <3>1. sock' \in [Conns -> {"none", "open", "unwatched", "closed"}]
      BY <2>16 DEF TypeOK, AcceptOpen
    <3> QED
      BY <2>16, <3>1 DEF TypeOK, AcceptOpen
  <2>17. CASE AcceptRejected(t)
    <3>1. sock' \in [Conns -> {"none", "open", "unwatched", "closed"}]
      BY <2>17 DEF TypeOK, AcceptRejected
    <3>2. pc' \in [Threads -> {"wait", "events", "read", "process", "write",
                              "finish", "accept"}]
      BY <2>17 DEF TypeOK, AcceptRejected
    <3> QED
      BY <2>17, <3>1, <3>2 DEF TypeOK, AcceptRejected
  <2>18. CASE AcceptFails(t)
    BY <2>18 DEF TypeOK, AcceptFails
  <2> QED
    BY <1>3, <2>1, <2>2, <2>3, <2>4, <2>5, <2>6, <2>7, <2>8, <2>9, <2>10, <2>11,
       <2>12, <2>13, <2>14, <2>15, <2>16, <2>17, <2>18 DEF ThreadStep
<1> QED
  BY <1>1, <1>2, <1>3 DEF Next

LEMMA ConnectedNext == IInv /\ [Next]_vars => InvConnected'
<1> SUFFICES ASSUME IInv, [Next]_vars PROVE InvConnected'
  OBVIOUS
<1>a. TypeOK /\ InvConnected /\ InvBatch
  BY DEF IInv
<1>1. CASE UNCHANGED vars
  BY <1>a, <1>1 DEF InvConnected, vars, clientVars, connVars
<1>2. ASSUME NEW c \in Conns, ClientStep(c) PROVE InvConnected'
  <2>1. sock' = sock
    BY <1>2 DEF ClientStep, Connect, BeginRequest, ContinueRequest, ClientRecv,
                ClientFin, ClientRst, connVars
  <2>2. net' = net \/ \E s \in {"est", "fin", "rst"} : net' = [net EXCEPT ![c] = s]
    BY <1>2 DEF ClientStep, Connect, BeginRequest, ContinueRequest, ClientRecv,
                ClientFin, ClientRst
  <2> QED
    BY <1>a, <2>1, <2>2 DEF InvConnected, TypeOK
<1>3. ASSUME NEW t \in Threads, ThreadStep(t) PROVE InvConnected'
  <2>1. net' = net
    BY <1>3 DEF ThreadStep, EpollWait, ListenerEvent, ErrorEvent, ReadEvent, EndBatch,
                NotConnected, UnexpectedError, ReadSome, ReadAgain, ReadEof, Process,
                BadOpcode, WriteSome, WriteAgain, Finish, AcceptOpen, AcceptRejected,
                AcceptFails, Exit, CloseTwice, Retry, clientVars
  <2>2. ASSUME NEW c \in Conns, sock'[c] # sock[c] PROVE net[c] # "none"
    <3>1. CASE sock[c] = "none"
      <4>1. c \in Pending(t)
        <5>1. CASE AcceptOpen(t)
          BY <5>1, <2>2, <1>a DEF AcceptOpen, TypeOK
        <5>2. CASE AcceptRejected(t)
          BY <5>2, <2>2, <1>a DEF AcceptRejected, TypeOK
        <5>3. CASE ErrorEvent(t)
          BY <5>3, <2>2, <3>1, <1>a, BatchSocket DEF ErrorEvent, CloseConnection, TypeOK
        <5>4. CASE NotConnected(t) \/ Finish(t)
          <6>1. sock' = sock \/ sock' = [sock EXCEPT ![sockid[t]] = "closed"]
            BY <5>4 DEF NotConnected, Finish, CloseTwice, CloseConnection, connVars
          <6>2. sock[sockid[t]] = "open"
            BY <5>4, <1>a, HandledSocket DEF NotConnected, Finish, Handling
          <6> QED
            BY <6>1, <6>2, <2>2, <3>1, <1>a DEF TypeOK
        <5>5. CASE sock' = sock
          BY <5>5, <2>2
        <5> QED
          BY <5>1, <5>2, <5>3, <5>4, <5>5, <1>3
          DEF ThreadStep, EpollWait, ListenerEvent, ReadEvent, EndBatch,
              UnexpectedError, ReadSome, ReadAgain, ReadEof, Process, BadOpcode, WriteSome,
              WriteAgain, AcceptFails, Exit, Retry, connVars
      <4> QED
        BY <4>1 DEF Pending
    <3>2. CASE sock[c] # "none"
      BY <3>2, <1>a DEF InvConnected
    <3> QED
      BY <3>1, <3>2
  <2> QED
    BY <2>1, <2>2, <1>a DEF InvConnected
<1> QED
  BY <1>1, <1>2, <1>3 DEF Next

(* The batch of a thread stays made of open sockets of its own.  A step of *)
(* one thread closes only sockets of that thread, so those of the others   *)
(* are not disturbed.                                                      *)
LEMMA BatchNext == IInv /\ [Next]_vars => InvBatch'
<1> SUFFICES ASSUME IInv, [Next]_vars PROVE InvBatch'
  OBVIOUS
<1>a. TypeOK /\ InvConnected /\ InvBatch
  BY DEF IInv
<1> DEFINE Batch(t) ==
      /\ \A c \in events[t] \ {Listener} : OpenAt(t, c)
      /\ Handling(t) => OpenAt(t, sockid[t]) /\ sockid[t] \notin events[t]
      /\ pc[t] \in {"wait", "accept"} => events[t] = {}
<1>b. \A t \in Threads : Batch(t)
  BY <1>a DEF InvBatch
<1>c. SUFFICES ASSUME NEW u \in Threads PROVE Batch(u)'
  BY DEF InvBatch
<1>1. CASE UNCHANGED vars
  BY <1>b, <1>1 DEF vars, clientVars, connVars, threadVars, batchVars, readVars, OpenAt, Handling
<1>2. ASSUME NEW c \in Conns, ClientStep(c) PROVE Batch(u)'
  <2>1. UNCHANGED <<sock, pc, events, sockid>>
    BY <1>2 DEF ClientStep, Connect, BeginRequest, ContinueRequest, ClientRecv,
                ClientFin, ClientRst, connVars, threadVars, batchVars, readVars
  <2>2. home' = home \/ (net[c] = "none" /\ \E t \in Threads : home' = [home EXCEPT ![c] = t])
    BY <1>2 DEF ClientStep, Connect, BeginRequest, ContinueRequest, ClientRecv,
                ClientFin, ClientRst
  <2>3. \A d \in Conns : sock[d] = "open" => home'[d] = home[d]
    BY <2>2, <1>a DEF InvConnected, TypeOK
  <2> QED
    BY <1>b, <2>1, <2>3 DEF OpenAt, Handling
<1>3. ASSUME NEW t \in Threads, ThreadStep(t) PROVE Batch(u)'
  <2>h. home' = home
    BY <1>3 DEF ThreadStep, EpollWait, ListenerEvent, ErrorEvent, ReadEvent, EndBatch,
                NotConnected, UnexpectedError, ReadSome, ReadAgain, ReadEof, Process,
                BadOpcode, WriteSome, WriteAgain, Finish, AcceptOpen, AcceptRejected,
                AcceptFails, Exit, CloseTwice, Retry, clientVars
  <2> USE DEF connVars, threadVars, batchVars, readVars
  <2>t. Batch(t) /\ Batch(u)
    BY <1>b
  <2>1. CASE EpollWait(t)
    <3>1. UNCHANGED <<sock, sockid>>
      BY <2>1 DEF EpollWait
    <3>2. pc' = [pc EXCEPT ![t] = "events"] /\ events' = [events EXCEPT ![t] = Ready(t)]
      BY <2>1 DEF EpollWait
    <3>3. \A c \in Ready(t) \ {Listener} : OpenAt(t, c)
      BY DEF Ready, Readable, OpenAt
    <3> QED
      BY <2>t, <2>h, <3>1, <3>2, <3>3, <1>a DEF OpenAt, Handling, TypeOK
  <2>2. CASE ListenerEvent(t)
    BY <2>2, <2>t, <2>h, <1>a DEF ListenerEvent, OpenAt, Handling, TypeOK
  <2>3. CASE ErrorEvent(t)
    <3>1. PICK c \in events[t] \ {Listener} :
            sock' = [sock EXCEPT ![c] = "closed"] /\ events' = [events EXCEPT ![t] = @ \ {c}]
      BY <2>3 DEF ErrorEvent, CloseConnection
    <3>2. UNCHANGED <<pc, sockid>> /\ pc[t] = "events"
      BY <2>3 DEF ErrorEvent
    <3>3. OpenAt(t, c)
      BY <2>t
    <3> QED
      BY <2>t, <2>h, <3>1, <3>2, <3>3, <1>a DEF OpenAt, Handling, TypeOK
  <2>4. CASE ReadEvent(t)
    <3>1. PICK c \in events[t] \ {Listener} :
            sockid' = [sockid EXCEPT ![t] = c] /\ events' = [events EXCEPT ![t] = @ \ {c}]
      BY <2>4 DEF ReadEvent
    <3>2. sock' = sock /\ pc' = [pc EXCEPT ![t] = "read"]
      BY <2>4 DEF ReadEvent
    <3> QED
      BY <2>t, <2>h, <3>1, <3>2, <1>a DEF OpenAt, Handling, TypeOK
  <2>5. CASE EndBatch(t)
    BY <2>5, <2>t, <2>h, <1>a DEF EndBatch, AfterBatch, OpenAt, Handling, TypeOK
  <2>6. CASE NotConnected(t) \/ Finish(t)
    <3>1. Handling(t)
      BY <2>6 DEF NotConnected, Finish, Handling
    <3>2. UNCHANGED <<events, sockid>> /\ pc' = [pc EXCEPT ![t] = "events"]
      BY <2>6 DEF NotConnected, Finish, CloseTwice
    <3>3. sock' = sock \/ sock' = [sock EXCEPT ![sockid[t]] = "closed"]
      BY <2>6 DEF NotConnected, Finish, CloseTwice, CloseConnection
    <3>4. OpenAt(t, sockid[t]) /\ sockid[t] \notin events[t]
      BY <3>1, <2>t
    <3> QED
      BY <2>t, <2>h, <3>1, <3>2, <3>3, <3>4, <1>a DEF OpenAt, Handling, TypeOK
  <2>7. CASE UnexpectedError(t) \/ ReadEof(t) \/ BadOpcode(t) \/ ReadAgain(t) \/ WriteAgain(t)
    <3>1. UNCHANGED <<sock, pc, events, sockid>>
      BY <2>7 DEF UnexpectedError, ReadEof, BadOpcode, ReadAgain, WriteAgain, Exit, Retry
    <3> QED
      BY <2>t, <2>h, <3>1 DEF OpenAt, Handling
  <2>8. CASE ReadSome(t) \/ Process(t) \/ WriteSome(t)
    <3>1. UNCHANGED <<sock, events, sockid>>
      BY <2>8 DEF ReadSome, Process, WriteSome
    <3>2. Handling(t)
      BY <2>8 DEF ReadSome, Process, WriteSome, Handling
    <3>3. \E l \in {"read", "process", "write", "finish"} : pc' = [pc EXCEPT ![t] = l]
      BY <2>8 DEF ReadSome, Process, WriteSome, AfterRead
    <3> QED
      BY <2>t, <2>h, <3>1, <3>2, <3>3, <1>a DEF OpenAt, Handling, TypeOK
  <2>9. CASE AcceptOpen(t) \/ AcceptRejected(t) \/ AcceptFails(t)
    <3>1. UNCHANGED <<events, sockid>> /\ pc[t] = "accept"
      BY <2>9 DEF AcceptOpen, AcceptRejected, AcceptFails
    <3>2. pc' = pc \/ pc' = [pc EXCEPT ![t] = "wait"]
      BY <2>9 DEF AcceptOpen, AcceptRejected, AcceptFails
    <3>3. \A c \in Conns : sock[c] = "open" => sock'[c] = "open"
      <4>1. sock' = sock \/ \E c \in Pending(t) : \E s \in {"open", "unwatched"} :
                              sock' = [sock EXCEPT ![c] = s]
        BY <2>9 DEF AcceptOpen, AcceptRejected, AcceptFails
      <4> QED
        BY <4>1, <1>a DEF Pending, TypeOK
    <3> QED
      BY <2>t, <2>h, <3>1, <3>2, <3>3, <1>a DEF OpenAt, Handling, TypeOK
  <2> QED
    BY <1>3, <2>1, <2>2, <2>3, <2>4, <2>5, <2>6, <2>7, <2>8, <2>9 DEF ThreadStep
<1> QED
  BY <1>1, <1>2, <1>3 DEF Next

-----------------------------------------------------------------------------
(* Framing. *)

(* Len(answered[c]) messages of MsgLen chunks. *)
LEMMA BoundaryNat ==
  ASSUME TypeOK, NEW c \in Conns
  PROVE  /\ Len(answered[c]) \in Nat
         /\ MsgLen * Len(answered[c]) \in Nat
         /\ MsgLen * (Len(answered[c]) + 1) = MsgLen * Len(answered[c]) + MsgLen
<1>1. Len(answered[c]) \in Nat
  BY DEF TypeOK
<1>2. MsgLen \in Nat
  BY ServerAssumption
<1> QED
  BY <1>1, <1>2, MulNat, MulSucc

(* When a handler has read a message, the buffer holds the oldest request  *)
(* of the connection that has no reply, and nothing else.                  *)
LEMMA ReceivedExact ==
  ASSUME IInv, NEW t \in Threads, pc[t] = "process", NEW c, c = sockid[t]
  PROVE  /\ c \in Conns
         /\ Len(answered[c]) + 1 \in 1..Len(reqs[c])
         /\ Received(c) = {reqs[c][Len(answered[c]) + 1]}
<1>1. c \in Conns
  BY HandledSocket DEF IInv, Handling
<1> DEFINE n == Len(answered[c])
<1>2. n \in Nat /\ Len(reqs[c]) \in Nat /\ MsgLen \in Nat \ {0} /\ taken[c] \in Nat
  BY <1>1, ServerAssumption DEF IInv, TypeOK
<1>3. taken[c] = MsgLen * (n + 1)
  BY <1>1, BoundaryNat DEF IInv, InvFraming, Framed
<1>4. MsgLen * (n + 1) <= MsgLen * Len(reqs[c])
  <2>1. taken[c] <= arrived[c] /\ arrived[c] <= MsgLen * Len(reqs[c])
    BY <1>1 DEF IInv, InvStreams
  <2>2. arrived[c] \in Nat /\ MsgLen * Len(reqs[c]) \in Nat
    BY <1>1, <1>2, MulNat DEF IInv, TypeOK
  <2> QED
    BY <1>2, <1>3, <2>1, <2>2
<1>5. n + 1 <= Len(reqs[c])
  BY <1>2, <1>4, MulLe
<1>6. n + 1 \in DOMAIN reqs[c] /\ DOMAIN reqs[c] = 1..Len(reqs[c])
  BY <1>1, <1>2, <1>5 DEF IInv, TypeOK
<1>7. ASSUME NEW k \in DOMAIN reqs[c], taken[c] = MsgLen * k
      PROVE  k = n + 1
  <2>1. k \in Nat /\ MsgLen * k = MsgLen * (n + 1)
    BY <1>2, <1>3, <1>6, <1>7
  <2> QED
    BY <1>2, <2>1, MulEq
<1> DEFINE whole == {reqs[c][k] : k \in {k \in DOMAIN reqs[c] : taken[c] = MsgLen * k}}
<1>8. whole = {reqs[c][n + 1]}
  BY <1>3, <1>6, <1>7
<1> QED
  BY <1>1, <1>6, <1>8 DEF Received

LEMMA FramingNext == IInv /\ [Next]_vars => InvFraming'
<1> SUFFICES ASSUME IInv, [Next]_vars PROVE InvFraming'
  OBVIOUS
<1>a. TypeOK /\ InvBatch /\ InvFraming
  BY DEF IInv
<1> DEFINE Idle(c) == \A t \in Threads : Handling(t) => sockid[t] # c
           IdleFramed(c) ==
             c \in Conns /\ sock[c] \in {"none", "open"} /\ Idle(c) => Framed(c, 0, 0)
           ThreadFramed(t) ==
             /\ pc[t] = "read" => Framed(sockid[t], content[t], 0)
             /\ pc[t] = "process" => Framed(sockid[t], MsgLen, 0)
             /\ pc[t] = "write" => Framed(sockid[t], 0, content[t] - MsgLen)
             /\ pc[t] = "finish" => Framed(sockid[t], 0, 0)
<1>b. /\ \A c \in Conns : IdleFramed(c)
      /\ \A t \in Threads : ThreadFramed(t)
  BY <1>a DEF InvFraming
<1>c. SUFFICES /\ \A d \in Conns : IdleFramed(d)'
               /\ \A u \in Threads : ThreadFramed(u)'
  BY DEF InvFraming
<1>1. CASE UNCHANGED <<sock, streamVars, pc, sockid, content>>
  BY <1>1, <1>b DEF streamVars, Framed, Handling
<1>2. ASSUME NEW c \in Conns, ClientStep(c)
      PROVE  UNCHANGED <<sock, streamVars, pc, sockid, content>>
  BY <1>2 DEF ClientStep, Connect, BeginRequest, ContinueRequest, ClientRecv,
              ClientFin, ClientRst, connVars, threadVars, readVars
<1>3. ASSUME NEW t \in Threads, ThreadStep(t),
             NEW d \in Conns \cup {Listener}, NEW u \in Threads
      PROVE  IdleFramed(d)' /\ ThreadFramed(u)'
  <2> USE DEF connVars, streamVars, threadVars, batchVars, readVars
  <2> DEFINE c == sockid[t]
  <2>t. IdleFramed(d) /\ ThreadFramed(u) /\ ThreadFramed(t)
    BY <1>b
  <2>l. d \notin Conns => IdleFramed(d)'
    OBVIOUS
  <2>n. \A w \in Threads : Handling(w) => sockid[w] \in Conns /\ home[sockid[w]] = w
    BY <1>a, HandledSocket
  (* Steps that leave the streams and the handlers of all threads alone. *)
  <2>1. CASE EpollWait(t) \/ ListenerEvent(t) \/ ErrorEvent(t) \/ EndBatch(t)
             \/ AcceptOpen(t) \/ AcceptRejected(t) \/ AcceptFails(t)
    <3>1. UNCHANGED <<taken, written, answered, sockid, content>>
      BY <2>1 DEF EpollWait, ListenerEvent, ErrorEvent, EndBatch, AcceptOpen,
                  AcceptRejected, AcceptFails
    <3>2. /\ pc[t] \in {"wait", "events", "accept"}
          /\ pc' = pc \/ \E l \in {"wait", "events", "accept"} : pc' = [pc EXCEPT ![t] = l]
      BY <2>1 DEF EpollWait, ListenerEvent, ErrorEvent, EndBatch, AfterBatch, AcceptOpen,
                  AcceptRejected, AcceptFails
    <3>3. d \in Conns /\ sock'[d] \in {"none", "open"} => sock[d] \in {"none", "open"}
      <4>1. CASE EpollWait(t) \/ ListenerEvent(t) \/ EndBatch(t) \/ AcceptFails(t)
        BY <4>1 DEF EpollWait, ListenerEvent, EndBatch, AcceptFails
      <4>2. CASE ErrorEvent(t)
        BY <4>2, <1>a DEF ErrorEvent, CloseConnection, TypeOK
      <4>3. CASE AcceptOpen(t) \/ AcceptRejected(t)
        BY <4>3, <1>a DEF AcceptOpen, AcceptRejected, Pending, TypeOK
      <4> QED
        BY <2>1, <4>1, <4>2, <4>3
    <3>4. \A w \in Threads : Handling(w)' <=> Handling(w)
      BY <3>2, <1>a DEF Handling, TypeOK
    <3>5. pc'[u] \in {"read", "process", "write", "finish"} => pc'[u] = pc[u]
      BY <3>2, <1>a DEF TypeOK
    <3> QED
      BY <2>t, <3>1, <3>3, <3>4, <3>5 DEF Framed
  <2>2. CASE ReadEvent(t)
    <3>1. PICK e \in events[t] \ {Listener} : sockid' = [sockid EXCEPT ![t] = e]
      BY <2>2 DEF ReadEvent
    <3>2. /\ UNCHANGED <<sock, taken, written, answered>>
          /\ content' = [content EXCEPT ![t] = 0]
          /\ pc[t] = "events"
          /\ pc' = [pc EXCEPT ![t] = "read"]
      BY <2>2 DEF ReadEvent
    <3>3. e \in Conns /\ home[e] = t /\ sock[e] = "open"
      BY <1>a, BatchSocket
    <3>4. Framed(e, 0, 0)
      <4>1. Idle(e)
        BY <2>n, <3>2, <3>3 DEF Handling
      <4> QED
        BY <1>b, <3>3, <4>1
    <3>5. Idle(d)' => Idle(d)
      BY <3>1, <3>2, <1>a DEF Handling, TypeOK
    <3>6. IdleFramed(d)'
      BY <2>t, <3>2, <3>5 DEF Framed
    <3>7. ThreadFramed(u)'
      BY <2>t, <3>1, <3>2, <3>4, <1>a DEF Framed, TypeOK
    <3> QED
      BY <3>6, <3>7
  (* Steps of a handler: only its own connection moves. *)
  <2>3. ASSUME Handling(t),
               sockid' = sockid,
               u # t => pc'[u] = pc[u] /\ content'[u] = content[u],
               \A x \in Conns \ {c} :
                 UNCHANGED <<sock[x], taken[x], written[x], answered[x]>>,
               \A w \in Threads \ {t} : Handling(w)' <=> Handling(w),
               IdleFramed(c)',
               ThreadFramed(t)'
        PROVE  IdleFramed(d)' /\ ThreadFramed(u)'
    <3>1. ThreadFramed(u)'
      <4>1. CASE u = t
        BY <2>3, <4>1
      <4>2. CASE u # t /\ ~ Handling(u)
        BY <2>3, <4>2 DEF Handling
      <4>3. CASE u # t /\ Handling(u)
        <5>1. sockid[u] \in Conns \ {c}
          BY <2>3, <2>n, <4>3
        <5> QED
          BY <2>3, <2>t, <4>3, <5>1 DEF Framed
      <4> QED
        BY <4>1, <4>2, <4>3
    <3>2. IdleFramed(d)'
      <4>1. CASE d = c
        BY <2>3, <4>1
      <4>2. CASE d # c
        <5>1. Idle(d)' => Idle(d)
          BY <2>3, <4>2
        <5> QED
          BY <2>3, <2>t, <4>2, <5>1 DEF Framed
      <4> QED
        BY <4>1, <4>2
    <3> QED
      BY <3>1, <3>2
  <2>4. CASE UnexpectedError(t) \/ ReadEof(t) \/ BadOpcode(t) \/ ReadAgain(t) \/ WriteAgain(t)
    <3>1. UNCHANGED <<sock, streamVars, pc, sockid, content>>
      BY <2>4 DEF UnexpectedError, ReadEof, BadOpcode, ReadAgain, WriteAgain, Exit, Retry
    <3> QED
      BY <3>1, <2>t DEF Framed, Handling
  <2>5. CASE NotConnected(t) \/ Finish(t)
    <3>1. Handling(t)
      BY <2>5 DEF NotConnected, Finish, Handling
    <3>2. /\ UNCHANGED <<sockid, content, taken, written, answered>>
          /\ pc' = [pc EXCEPT ![t] = "events"]
      BY <2>5 DEF NotConnected, Finish, CloseTwice
    <3>3. sock' = [sock EXCEPT ![c] = "closed"] \/ (pc[t] = "finish" /\ sock' = sock)
      BY <2>5 DEF NotConnected, Finish, CloseTwice, CloseConnection
    <3>4. c \in Conns
      BY <3>1, <2>n
    <3>5. IdleFramed(c)'
      BY <3>2, <3>3, <3>4, <2>t, <1>a DEF Framed, TypeOK
    <3>6. ThreadFramed(t)'
      BY <3>2, <1>a DEF TypeOK
    <3>7. \A w \in Threads \ {t} : Handling(w)' <=> Handling(w)
      BY <3>2, <1>a DEF Handling, TypeOK
    <3>8. u # t => pc'[u] = pc[u] /\ content'[u] = content[u]
      BY <3>2, <1>a DEF TypeOK
    <3>9. \A x \in Conns \ {c} : UNCHANGED <<sock[x], taken[x], written[x], answered[x]>>
      BY <3>2, <3>3, <1>a DEF TypeOK
    <3> QED
      BY <2>3, <3>1, <3>2, <3>5, <3>6, <3>7, <3>8, <3>9
  <2>6. CASE ReadSome(t) \/ Process(t) \/ WriteSome(t)
    <3>1. Handling(t)
      BY <2>6 DEF ReadSome, Process, WriteSome, Handling
    <3>2. c \in Conns
      BY <3>1, <2>n
    <3>3. sockid' = sockid /\ sock' = sock
      BY <2>6 DEF ReadSome, Process, WriteSome
    <3>4. \E l \in {"read", "process", "write", "finish"} : pc' = [pc EXCEPT ![t] = l]
      BY <2>6 DEF ReadSome, Process, WriteSome, AfterRead
    <3>5. \E m : content' = [content EXCEPT ![t] = m]
      BY <2>6 DEF ReadSome, Process, WriteSome
    <3>6. \A x \in Conns \ {c} : UNCHANGED <<sock[x], taken[x], written[x], answered[x]>>
      BY <2>6, <3>3, <1>a DEF ReadSome, Process, WriteSome, TypeOK
    <3>7. IdleFramed(c)'
      BY <3>3, <3>4, <1>a DEF Handling, TypeOK
    <3>8. \A w \in Threads \ {t} : Handling(w)' <=> Handling(w)
      BY <3>4, <1>a DEF Handling, TypeOK
    <3>9. u # t => pc'[u] = pc[u] /\ content'[u] = content[u]
      BY <3>4, <3>5, <1>a DEF TypeOK
    <3>10. ThreadFramed(t)'
      <4>n. /\ MsgLen \in Nat \ {0} /\ content[t] \in 0..MsgLen
            /\ taken[c] \in Nat /\ written[c] \in Nat /\ arrived[c] \in Nat
            /\ MsgLen * Len(answered[c]) \in Nat
        BY <3>2, <1>a, ServerAssumption, BoundaryNat DEF TypeOK
      <4>1. CASE ReadSome(t)
        <5> DEFINE rd == AtMost(arrived[c] - taken[c], MsgLen - content[t])
        <5>1. rd \in Int
          BY <4>n DEF AtMost
        <5>2. /\ pc[t] = "read"
              /\ UNCHANGED <<written, answered>>
              /\ taken' = [taken EXCEPT ![c] = @ + rd]
              /\ content' = [content EXCEPT ![t] = @ + rd]
              /\ pc' = [pc EXCEPT ![t] = AfterRead(content[t] + rd)]
          BY <4>1 DEF ReadSome
        <5>3. taken'[c] = taken[c] + rd /\ content'[t] = content[t] + rd
          BY <5>2, <3>2, <1>a DEF TypeOK
        <5>4. pc'[t] = IF content[t] + rd = MsgLen THEN "process" ELSE "read"
          BY <5>2, <1>a DEF TypeOK, AfterRead
        <5> HIDE DEF rd
        <5> DEFINE done == MsgLen * Len(answered[c])
        <5>5. taken[c] = done + content[t] /\ written[c] = done + 0
          BY <5>2, <2>t DEF Framed
        <5>6. sockid'[t] = c /\ MsgLen * Len(answered'[c]) = done /\ written'[c] = written[c]
          BY <5>2, <3>3
        <5> HIDE DEF done
        <5>7. taken'[c] = done + content'[t] /\ written'[c] = done + 0
          BY <4>n, <5>1, <5>3, <5>5, <5>6
        <5> QED
          BY <5>4, <5>3, <5>6, <5>7 DEF Framed
      <4>2. CASE Process(t)
        <5>1. /\ pc[t] = "process"
              /\ UNCHANGED <<taken, written>>
              /\ content' = [content EXCEPT ![t] = 0]
              /\ pc' = [pc EXCEPT ![t] = "write"]
          BY <4>2 DEF Process
        <5>2. PICK r : answered' = [answered EXCEPT ![c] = Append(@, r)]
          BY <4>2 DEF Process
        <5>3. Len(answered'[c]) = Len(answered[c]) + 1
          BY <5>2, <3>2, <1>a DEF TypeOK
        <5>4. MsgLen * Len(answered'[c]) = MsgLen * Len(answered[c]) + MsgLen
          BY <5>3, <3>2, <1>a, BoundaryNat
        <5>5. content'[t] = 0 /\ pc'[t] = "write"
          BY <5>1, <1>a DEF TypeOK
        <5> QED
          BY <4>n, <5>1, <5>4, <5>5, <2>t, <3>3 DEF Framed
      <4>3. CASE WriteSome(t)
        <5>1. Sent(t) \in Int
          BY <3>2, <1>a, SentRange
        <5>2. /\ pc[t] = "write"
              /\ UNCHANGED <<taken, answered>>
              /\ written' = [written EXCEPT ![c] = @ + Sent(t)]
              /\ content' = [content EXCEPT ![t] = @ + Sent(t)]
              /\ pc' = [pc EXCEPT ![t] = IF content'[t] = MsgLen THEN "finish" ELSE "write"]
          BY <4>3 DEF WriteSome
        <5>3. written'[c] = written[c] + Sent(t) /\ content'[t] = content[t] + Sent(t)
          BY <5>2, <3>2, <1>a DEF TypeOK
        <5>4. pc'[t] = IF content'[t] = MsgLen THEN "finish" ELSE "write"
          BY <5>2, <1>a DEF TypeOK
        <5> DEFINE done == MsgLen * Len(answered[c])
        <5>5. taken[c] = done + 0 /\ written[c] = done + (content[t] - MsgLen)
          BY <5>2, <2>t DEF Framed
        <5>6. sockid'[t] = c /\ MsgLen * Len(answered'[c]) = done /\ taken'[c] = taken[c]
          BY <5>2, <3>3
        <5>n. done \in Nat
          BY <4>n
        <5> HIDE DEF done
        <5>7. taken'[c] = done + 0 /\ written'[c] = done + (content'[t] - MsgLen)
          BY <4>n, <5>n, <5>1, <5>3, <5>5, <5>6
        <5>8. content'[t] = MsgLen => written'[c] = done + 0
          BY <4>n, <5>n, <5>7
        <5> QED
          BY <5>4, <5>6, <5>7, <5>8 DEF Framed
      <4> QED
        BY <2>6, <4>1, <4>2, <4>3
    <3> QED
      BY <2>3, <3>1, <3>3, <3>6, <3>7, <3>8, <3>9, <3>10
  <2> QED
    BY <1>3, <2>1, <2>2, <2>4, <2>5, <2>6 DEF ThreadStep
<1>4. CASE UNCHANGED vars
  BY <1>1, <1>4 DEF vars, connVars, threadVars, readVars
<1> QED
  BY <1>1, <1>2, <1>3, <1>4 DEF Next

-----------------------------------------------------------------------------
(* The streams and the local keepalive. *)

LEMMA StreamsNext == IInv /\ [Next]_vars => InvStreams'
<1> SUFFICES ASSUME IInv, [Next]_vars PROVE InvStreams'
  OBVIOUS
<1>a. TypeOK /\ InvBatch /\ InvFraming /\ InvStreams
  BY DEF IInv
<1> DEFINE InOrder(c) ==
      /\ fetched[c] <= written[c]
      /\ written[c] <= MsgLen * Len(answered[c])
      /\ MsgLen * Len(answered[c]) <= taken[c]
      /\ taken[c] <= arrived[c]
      /\ arrived[c] <= MsgLen * Len(reqs[c])
<1>b. SUFFICES ASSUME NEW d \in Conns PROVE InOrder(d)'
  BY DEF InvStreams
<1>c. InOrder(d)
  BY <1>a DEF InvStreams
<1>n. /\ fetched[d] \in Nat /\ written[d] \in Nat /\ taken[d] \in Nat /\ arrived[d] \in Nat
      /\ Len(answered[d]) \in Nat /\ Len(reqs[d]) \in Nat /\ MsgLen \in Nat \ {0}
      /\ MsgLen * Len(answered[d]) \in Nat /\ MsgLen * Len(reqs[d]) \in Nat
      /\ MsgLen * (Len(reqs[d]) + 1) = MsgLen * Len(reqs[d]) + MsgLen
  <2>1. Len(reqs[d]) \in Nat /\ MsgLen \in Nat \ {0}
    BY <1>a, ServerAssumption DEF TypeOK
  <2>2. MsgLen * Len(reqs[d]) \in Nat
    BY <2>1, MulNat
  <2>3. MsgLen * (Len(reqs[d]) + 1) = MsgLen * Len(reqs[d]) + MsgLen
    BY <2>1, MulSucc
  <2> QED
    BY <1>a, <2>1, <2>2, <2>3, BoundaryNat DEF TypeOK
<1>1. CASE UNCHANGED <<fetched[d], written[d], answered[d], taken[d], arrived[d], reqs[d]>>
  BY <1>1, <1>c
<1>2. ASSUME NEW c \in Conns, ClientStep(c) PROVE InOrder(d)'
  <2> USE DEF connVars, streamVars
  <2>1. UNCHANGED <<written, answered, taken>>
    BY <1>2 DEF ClientStep, Connect, BeginRequest, ContinueRequest, ClientRecv,
                ClientFin, ClientRst
  <2>2. CASE Connect(c) \/ ClientFin(c) \/ ClientRst(c)
    <3>1. UNCHANGED <<fetched, arrived, reqs>>
      BY <2>2 DEF Connect, ClientFin, ClientRst
    <3> QED
      BY <2>1, <3>1, <1>1
  <2>3. CASE BeginRequest(c)
    <3>1. PICK r \in Requests : reqs' = [reqs EXCEPT ![c] = Append(@, r)]
      BY <2>3 DEF BeginRequest
    <3>2. /\ arrived' = [arrived EXCEPT ![c] = @ + 1]
          /\ arrived[c] = MsgLen * Len(reqs[c])
          /\ fetched' = fetched
      BY <2>3 DEF BeginRequest
    <3>3. CASE d = c
      <4>1. Len(reqs'[d]) = Len(reqs[d]) + 1
        BY <3>1, <3>3, <1>a DEF TypeOK
      <4>2. MsgLen * Len(reqs'[d]) = MsgLen * Len(reqs[d]) + MsgLen
        BY <4>1, <1>n
      <4>3. arrived'[d] = arrived[d] + 1
        BY <3>2, <3>3, <1>a DEF TypeOK
      <4>4. arrived'[d] <= MsgLen * Len(reqs'[d]) /\ taken[d] <= arrived'[d]
        BY <4>2, <4>3, <3>2, <3>3, <1>n, <1>c
      <4> QED
        BY <2>1, <3>2, <4>4, <1>c
    <3>4. CASE d # c
      BY <3>1, <3>2, <3>4, <2>1, <1>1, <1>a DEF TypeOK
    <3> QED
      BY <3>3, <3>4
  <2>4. CASE ContinueRequest(c)
    <3>1. /\ arrived' = [arrived EXCEPT ![c] = @ + 1]
          /\ arrived[c] < MsgLen * Len(reqs[c])
          /\ UNCHANGED <<reqs, fetched>>
      BY <2>4 DEF ContinueRequest
    <3>2. CASE d = c
      <4>1. arrived'[d] = arrived[d] + 1
        BY <3>1, <3>2, <1>a DEF TypeOK
      <4>2. arrived'[d] <= MsgLen * Len(reqs[d]) /\ taken[d] <= arrived'[d]
        BY <4>1, <3>1, <3>2, <1>n, <1>c
      <4> QED
        BY <2>1, <3>1, <4>2, <1>c
    <3>3. CASE d # c
      BY <3>1, <3>3, <2>1, <1>1, <1>a DEF TypeOK
    <3> QED
      BY <3>2, <3>3
  <2>5. CASE ClientRecv(c)
    <3>1. fetched' = [fetched EXCEPT ![c] = written[c]] /\ UNCHANGED <<reqs, arrived>>
      BY <2>5 DEF ClientRecv
    <3>2. fetched'[d] <= written[d]
      BY <3>1, <1>n, <1>c, <1>a DEF TypeOK
    <3> QED
      BY <2>1, <3>1, <3>2, <1>c
  <2> QED
    BY <1>2, <2>2, <2>3, <2>4, <2>5 DEF ClientStep
<1>3. ASSUME NEW t \in Threads, ThreadStep(t) PROVE InOrder(d)'
  <2> USE DEF clientVars, connVars, streamVars
  <2>1. UNCHANGED <<fetched, arrived, reqs>>
    BY <1>3 DEF ThreadStep, EpollWait, ListenerEvent, ErrorEvent, ReadEvent, EndBatch,
                NotConnected, UnexpectedError, ReadSome, ReadAgain, ReadEof, Process,
                BadOpcode, WriteSome, WriteAgain, Finish, AcceptOpen, AcceptRejected,
                AcceptFails, Exit, CloseTwice, Retry
  <2>2. CASE EpollWait(t) \/ ListenerEvent(t) \/ ErrorEvent(t) \/ ReadEvent(t) \/ EndBatch(t)
             \/ NotConnected(t) \/ UnexpectedError(t) \/ ReadAgain(t) \/ ReadEof(t)
             \/ BadOpcode(t) \/ WriteAgain(t) \/ Finish(t) \/ AcceptOpen(t)
             \/ AcceptRejected(t) \/ AcceptFails(t)
    <3>1. UNCHANGED <<written, answered, taken>>
      BY <2>2 DEF EpollWait, ListenerEvent, ErrorEvent, ReadEvent, EndBatch,
                  NotConnected, UnexpectedError, ReadAgain, ReadEof,
                  BadOpcode, WriteAgain, Finish, AcceptOpen, AcceptRejected,
                  AcceptFails, Exit, CloseTwice, Retry
    <3> QED
      BY <2>1, <3>1, <1>1
  <2>3. CASE ReadSome(t)
    <3> DEFINE rd == AtMost(arrived[sockid[t]] - taken[sockid[t]], MsgLen - content[t])
    <3>1. /\ taken' = [taken EXCEPT ![sockid[t]] = @ + rd]
          /\ rd > 0
          /\ UNCHANGED <<written, answered>>
      BY <2>3 DEF ReadSome
    <3>2. CASE d = sockid[t]
      <4>1. rd \in Int /\ rd <= arrived[d] - taken[d]
        <5>1. MsgLen - content[t] \in Int
          BY <1>a, <1>n DEF TypeOK
        <5> QED
          BY <5>1, <3>2, <1>n DEF AtMost
      <4>2. taken'[d] = taken[d] + rd
        BY <3>1, <3>2, <1>a DEF TypeOK
      <4> HIDE DEF rd
      <4>3. taken[d] <= taken'[d] /\ taken'[d] <= arrived[d]
        BY <3>1, <4>1, <4>2, <1>n
      <4>4. MsgLen * Len(answered[d]) <= taken'[d]
        BY <4>1, <4>2, <4>3, <1>n, <1>c
      <4> QED
        BY <2>1, <3>1, <4>3, <4>4, <1>c
    <3>3. CASE d # sockid[t]
      BY <3>1, <3>3, <2>1, <1>1, <1>a DEF TypeOK
    <3> QED
      BY <3>2, <3>3
  <2>4. CASE Process(t)
    <3>1. PICK r : answered' = [answered EXCEPT ![sockid[t]] = Append(@, r)]
      BY <2>4 DEF Process
    <3>2. UNCHANGED <<taken, written>> /\ pc[t] = "process"
      BY <2>4 DEF Process
    <3>3. CASE d = sockid[t]
      <4>1. Len(answered'[d]) = Len(answered[d]) + 1
        BY <3>1, <3>3, <1>a DEF TypeOK
      <4>2. MsgLen * Len(answered'[d]) = MsgLen * Len(answered[d]) + MsgLen
        BY <4>1, <1>a, BoundaryNat
      <4>3. taken[d] = MsgLen * Len(answered[d]) + MsgLen
        BY <3>2, <3>3, <1>a DEF InvFraming, Framed
      <4>4. /\ written[d] <= MsgLen * Len(answered'[d])
            /\ MsgLen * Len(answered'[d]) <= taken[d]
        BY <4>2, <4>3, <1>n, <1>c
      <4> QED
        BY <2>1, <3>2, <4>4, <1>c
    <3>4. CASE d # sockid[t]
      BY <3>1, <3>2, <3>4, <2>1, <1>1, <1>a DEF TypeOK
    <3> QED
      BY <3>3, <3>4
  <2>5. CASE WriteSome(t)
    <3>1. /\ written' = [written EXCEPT ![sockid[t]] = @ + Sent(t)]
          /\ UNCHANGED <<taken, answered>>
          /\ pc[t] = "write"
          /\ Sent(t) > 0
      BY <2>5 DEF WriteSome
    <3>2. CASE d = sockid[t]
      <4>1. Sent(t) \in Int /\ Sent(t) <= MsgLen - content[t] /\ content[t] \in 0..MsgLen
        BY <3>2, <1>a, SentRange DEF TypeOK
      <4>2. written[d] = MsgLen * Len(answered[d]) + (content[t] - MsgLen)
        BY <3>1, <3>2, <1>a DEF InvFraming, Framed
      <4>3. written'[d] = written[d] + Sent(t)
        BY <3>1, <3>2, <1>a DEF TypeOK
      <4>4. written'[d] <= MsgLen * Len(answered[d]) /\ fetched[d] <= written'[d]
        <5> DEFINE replies == MsgLen * Len(answered[d])
        <5>1. /\ replies \in Nat /\ MsgLen \in Nat
              /\ fetched[d] \in Nat /\ written[d] \in Nat /\ fetched[d] <= written[d]
          BY <1>n, <1>c
        <5>2. Sent(t) > 0
          BY <3>1
        <5>3. written[d] = replies + (content[t] - MsgLen)
          BY <4>2
        <5> HIDE DEF replies
        <5>4. written'[d] <= replies /\ fetched[d] <= written'[d]
          BY <5>1, <5>2, <5>3, <4>1, <4>3
        <5> QED
          BY <5>4 DEF replies
      <4> QED
        BY <2>1, <3>1, <4>4, <1>c
    <3>3. CASE d # sockid[t]
      BY <3>1, <3>3, <2>1, <1>1, <1>a DEF TypeOK
    <3> QED
      BY <3>2, <3>3
  <2> QED
    BY <1>3, <2>2, <2>3, <2>4, <2>5 DEF ThreadStep
<1>4. CASE UNCHANGED vars
  BY <1>1, <1>4 DEF vars, clientVars, connVars, streamVars
<1> QED
  BY <1>2, <1>3, <1>4 DEF Next

LEMMA KeepaliveNext == IInv /\ [Next]_vars => InvKeepalive'
<1> SUFFICES ASSUME IInv, [Next]_vars PROVE InvKeepalive'
  OBVIOUS
<1>a. TypeOK /\ InvBatch /\ InvKeepalive
  BY DEF IInv
<1> DEFINE Kept(t) == pc[t] \in {"write", "finish"} =>
             /\ Len(answered[sockid[t]]) \in 1..Len(reqs[sockid[t]])
             /\ keepalive[t] = reqs[sockid[t]][Len(answered[sockid[t]])].keepalive
<1>b. SUFFICES ASSUME NEW u \in Threads PROVE Kept(u)'
  BY DEF InvKeepalive
<1>c. Kept(u)
  BY <1>a DEF InvKeepalive
<1>h. \A w \in Threads : pc[w] \in {"read", "process", "write", "finish"}
                          => sockid[w] \in Conns /\ home[sockid[w]] = w
  BY <1>a, HandledSocket DEF Handling
<1>1. CASE UNCHANGED <<pc, sockid, keepalive, answered, reqs>>
  BY <1>1, <1>c
<1>2. ASSUME NEW c \in Conns, ClientStep(c) PROVE Kept(u)'
  <2>1. UNCHANGED <<pc, sockid, keepalive, answered>>
    BY <1>2 DEF ClientStep, Connect, BeginRequest, ContinueRequest, ClientRecv,
                ClientFin, ClientRst, connVars, streamVars, threadVars, readVars
  <2>2. CASE BeginRequest(c)
    <3>1. PICK r \in Requests : reqs' = [reqs EXCEPT ![c] = Append(@, r)]
      BY <2>2 DEF BeginRequest
    <3> DEFINE e == sockid[u]
    <3> SUFFICES ASSUME pc[u] \in {"write", "finish"} PROVE Kept(u)'
      BY <2>1
    <3>2. e \in Conns
      BY <1>h
    <3>3. reqs[e] \in Seq(Requests)
      BY <3>2, <1>a DEF TypeOK
    <3>4. reqs'[e] = reqs[e] \/ reqs'[e] = Append(reqs[e], r)
      BY <3>1, <3>2, <1>a DEF TypeOK
    <3>5. Len(reqs[e]) <= Len(reqs'[e]) /\ \A k \in 1..Len(reqs[e]) : reqs'[e][k] = reqs[e][k]
      BY <3>3, <3>4
    <3>6. Len(reqs[e]) \in Nat /\ Len(reqs'[e]) \in Nat
      BY <3>3, <3>4
    <3> QED
      BY <2>1, <3>5, <3>6, <1>c
  <2>3. CASE Connect(c) \/ ContinueRequest(c) \/ ClientRecv(c) \/ ClientFin(c) \/ ClientRst(c)
    BY <2>3, <2>1, <1>1 DEF Connect, ContinueRequest, ClientRecv, ClientFin, ClientRst
  <2> QED
    BY <1>2, <2>2, <2>3 DEF ClientStep
<1>3. ASSUME NEW t \in Threads, ThreadStep(t) PROVE Kept(u)'
  <2> USE DEF clientVars, connVars, streamVars, threadVars, batchVars, readVars
  <2>1. reqs' = reqs
    BY <1>3 DEF ThreadStep, EpollWait, ListenerEvent, ErrorEvent, ReadEvent, EndBatch,
                NotConnected, UnexpectedError, ReadSome, ReadAgain, ReadEof, Process,
                BadOpcode, WriteSome, WriteAgain, Finish, AcceptOpen, AcceptRejected,
                AcceptFails, Exit, CloseTwice, Retry
  <2>2. CASE UnexpectedError(t) \/ ReadAgain(t) \/ ReadEof(t) \/ BadOpcode(t) \/ WriteAgain(t)
             \/ ListenerEvent(t) \/ ErrorEvent(t) \/ AcceptOpen(t)
    BY <2>1, <2>2, <1>1 DEF UnexpectedError, ReadAgain, ReadEof, BadOpcode, WriteAgain,
                            ListenerEvent, ErrorEvent, AcceptOpen, Exit, Retry
  <2>3. CASE EpollWait(t) \/ ReadEvent(t) \/ EndBatch(t) \/ NotConnected(t) \/ ReadSome(t)
             \/ Finish(t) \/ AcceptRejected(t) \/ AcceptFails(t)
    <3>1. UNCHANGED <<keepalive, answered>>
      BY <2>3 DEF EpollWait, ReadEvent, EndBatch, NotConnected, ReadSome, Finish,
                  AcceptRejected, AcceptFails, CloseTwice
    <3>2. \E l : l \notin {"write", "finish"} /\ pc' = [pc EXCEPT ![t] = l]
      BY <2>3 DEF EpollWait, ReadEvent, EndBatch, AfterBatch, NotConnected, ReadSome,
                  AfterRead, Finish, AcceptRejected, AcceptFails, CloseTwice
    <3>3. sockid' = sockid \/ \E c : sockid' = [sockid EXCEPT ![t] = c]
      BY <2>3 DEF EpollWait, ReadEvent, EndBatch, NotConnected, ReadSome, Finish,
                  AcceptRejected, AcceptFails, CloseTwice
    <3>4. u # t => sockid'[u] = sockid[u] /\ pc'[u] = pc[u]
      BY <3>2, <3>3, <1>a DEF TypeOK
    <3>5. pc'[t] \notin {"write", "finish"}
      BY <3>2, <1>a DEF TypeOK
    <3> QED
      BY <2>1, <3>1, <3>4, <3>5, <1>c
  <2>4. CASE WriteSome(t)
    <3>1. UNCHANGED <<keepalive, answered, sockid>> /\ pc[t] = "write"
      BY <2>4 DEF WriteSome
    <3>2. pc'[u] \in {"write", "finish"} => pc[u] \in {"write", "finish"}
      BY <2>4, <1>a DEF WriteSome, TypeOK
    <3> QED
      BY <2>1, <3>1, <3>2, <1>c
  <2>5. CASE Process(t)
    <3> DEFINE c == sockid[t]
    <3>1. PICK pkt \in Received(c) :
            /\ keepalive' = [keepalive EXCEPT ![t] = pkt.keepalive]
            /\ answered' = [answered EXCEPT ![c] = Append(@, ReplyTo(table, pkt))]
      BY <2>5 DEF Process
    <3>2. /\ sockid' = sockid
          /\ pc[t] = "process"
          /\ pc' = [pc EXCEPT ![t] = "write"]
      BY <2>5 DEF Process
    <3>3. /\ c \in Conns
          /\ Len(answered[c]) + 1 \in 1..Len(reqs[c])
          /\ pkt = reqs[c][Len(answered[c]) + 1]
      BY <3>2, ReceivedExact
    <3>4. CASE u = t
      <4>1. Len(answered'[c]) = Len(answered[c]) + 1
        BY <3>1, <3>3, <1>a DEF TypeOK
      <4>2. keepalive'[t] = pkt.keepalive
        BY <3>1, <1>a DEF TypeOK
      <4> QED
        BY <2>1, <3>2, <3>3, <3>4, <4>1, <4>2
    <3>5. CASE u # t
      <4>1. pc'[u] = pc[u] /\ keepalive'[u] = keepalive[u]
        BY <3>1, <3>2, <3>5, <1>a DEF TypeOK
      <4>2. pc[u] \in {"write", "finish"} => answered'[sockid[u]] = answered[sockid[u]]
        <5> SUFFICES ASSUME pc[u] \in {"write", "finish"}
                     PROVE  answered'[sockid[u]] = answered[sockid[u]]
          OBVIOUS
        <5>1. sockid[u] \in Conns /\ sockid[u] # c
          BY <1>h, <3>2, <3>5
        <5> QED
          BY <3>1, <5>1, <1>a DEF TypeOK
      <4> QED
        BY <2>1, <3>2, <4>1, <4>2, <1>c
    <3> QED
      BY <3>4, <3>5
  <2> QED
    BY <1>3, <2>2, <2>3, <2>4, <2>5 DEF ThreadStep
<1>4. CASE UNCHANGED vars
  BY <1>1, <1>4 DEF vars, clientVars, connVars, streamVars, threadVars, readVars
<1> QED
  BY <1>2, <1>3, <1>4 DEF Next

-----------------------------------------------------------------------------
(* The invariants, as theorems of the specification. *)

LEMMA InvInit == Init => IInv
<1> SUFFICES ASSUME Init PROVE IInv
  OBVIOUS
<1>1. TypeOK
  BY TypeInit
<1>2. \A c \in Conns : taken[c] = 0 /\ written[c] = 0 /\ arrived[c] = 0 /\ fetched[c] = 0
                       /\ Len(answered[c]) = 0 /\ Len(reqs[c]) = 0
  BY DEF Init
<1>3. MsgLen * 0 = 0
  BY ServerAssumption
<1>4. InvConnected /\ InvKeepalive
  BY DEF Init, InvConnected, InvKeepalive
<1>5. InvBatch
  BY DEF Init, InvBatch, Handling
<1>6. InvFraming
  BY <1>2, <1>3 DEF Init, InvFraming, Framed
<1>7. InvStreams
  BY <1>2, <1>3 DEF InvStreams
<1> QED
  BY <1>1, <1>4, <1>5, <1>6, <1>7 DEF IInv

LEMMA InvNext == IInv /\ [Next]_vars => IInv'
BY TypeNext, ConnectedNext, BatchNext, FramingNext, StreamsNext, KeepaliveNext DEF IInv

LEMMA Inductive == Spec => []IInv
BY InvInit, InvNext, PTL DEF Spec

(* Every variable of the server keeps its type. *)
THEOREM TypeCorrect == Spec => []TypeOK
<1>1. IInv => TypeOK
  BY DEF IInv
<1> QED
  BY Inductive, <1>1, PTL

(* RunServerThread never handles an entry of events[] whose socket an      *)
(* earlier entry closed, or a socket of another thread.                    *)
THEOREM BatchCorrect == Spec => []InvBatch
<1>1. IInv => InvBatch
  BY DEF IInv
<1> QED
  BY Inductive, <1>1, PTL

(* HandleReadEvent starts and ends at message boundaries of both streams,  *)
(* whatever sizes the reads and writes have.                               *)
THEOREM FramingCorrect == Spec => []InvFraming
<1>1. IInv => InvFraming
  BY DEF IInv
<1> QED
  BY Inductive, <1>1, PTL

(* Clients get no reply before its request, and no more than was computed. *)
THEOREM StreamsCorrect == Spec => []InvStreams
<1>1. IInv => InvStreams
  BY DEF IInv
<1> QED
  BY Inductive, <1>1, PTL

(* The server closes a working connection only when the whole reply to a   *)
(* request that did not ask to be kept alive is in the send buffer.        *)
THEOREM CloseCorrect == Spec => CloseIsAnswered
<1> DEFINE Closes(c) == sock[c] = "open" /\ sock'[c] = "closed" /\ net[c] # "rst"
           Answer(c) == LET k == Len(answered[c]) IN
             k > 0 /\ reqs[c][k].keepalive <= 0 /\ written[c] = MsgLen * k
<1>1. ASSUME IInv, [Next]_vars, NEW c \in Conns, Closes(c) PROVE Answer(c)
  <2>a. TypeOK /\ InvBatch /\ InvFraming /\ InvKeepalive
    BY <1>1 DEF IInv
  <2>1. PICK t \in Threads : ThreadStep(t)
    <3>1. sock' # sock
      BY <1>1
    <3>2. \A d \in Conns : ClientStep(d) => sock' = sock
      BY DEF ClientStep, Connect, BeginRequest, ContinueRequest, ClientRecv,
             ClientFin, ClientRst, connVars
    <3> QED
      BY <1>1, <3>1, <3>2 DEF Next, vars, connVars
  <2>2. CASE Finish(t) /\ Closing(t)
    <3>1. pc[t] = "finish" /\ sock' = [sock EXCEPT ![sockid[t]] = "closed"]
      BY <2>2 DEF Finish, CloseTwice, CloseConnection
    <3>2. c = sockid[t]
      BY <1>1, <3>1, <2>a DEF TypeOK
    <3>3. written[c] = MsgLen * Len(answered[c]) + 0
      BY <3>1, <3>2, <2>a DEF InvFraming, Framed
    <3>4. /\ Len(answered[c]) \in 1..Len(reqs[c])
          /\ keepalive[t] = reqs[c][Len(answered[c])].keepalive
      BY <3>1, <3>2, <2>a DEF InvKeepalive
    <3>5. keepalive[t] <= 0
      BY <2>2, <2>a DEF Closing, TypeOK
    <3>6. written[c] = MsgLen * Len(answered[c])
      BY <3>3, <2>a, BoundaryNat
    <3> QED
      BY <3>4, <3>5, <3>6
  <2>3. CASE ErrorEvent(t)
    BY <2>3, <1>1, <2>a DEF ErrorEvent, CloseConnection, TypeOK
  <2>4. CASE NotConnected(t)
    BY <2>4, <1>1, <2>a DEF NotConnected, CloseTwice, CloseConnection, TypeOK
  <2>5. CASE AcceptOpen(t) \/ AcceptRejected(t)
    BY <2>5, <1>1, <2>a DEF AcceptOpen, AcceptRejected, TypeOK
  <2>6. CASE sock' = sock
    BY <2>6, <1>1
  <2> QED
    BY <2>1, <2>2, <2>3, <2>4, <2>5, <2>6
    DEF ThreadStep, EpollWait, ListenerEvent, ReadEvent, EndBatch, UnexpectedError, ReadSome,
        ReadAgain, ReadEof, Process, BadOpcode, WriteSome, WriteAgain, Finish, AcceptFails,
        Exit, Retry, connVars
<1>2. IInv /\ [Next]_vars => [\A c \in Conns : Closes(c) => Answer(c)]_vars
  BY <1>1
<1>3. IInv /\ [Next]_vars =>
        [\A c \in Conns :
           sock[c] = "open" /\ sock'[c] = "closed" /\ net[c] # "rst" =>
             LET k == Len(answered[c]) IN
               /\ k > 0
               /\ reqs[c][k].keepalive <= 0
               /\ written[c] = MsgLen * k]_vars
  BY <1>2
<1> QED
  BY Inductive, <1>3, PTL DEF Spec, CloseIsAnswered

-----------------------------------------------------------------------------
(* Refinement: Process is the instant at which a request takes effect; all *)
(* other steps of the server stutter in AtomicKV.                          *)

LEMMA SameOperators ==
  ASSUME NEW tbl, NEW pkt
  PROVE  /\ Atomic!TableAfter(tbl, pkt) = TableAfter(tbl, pkt)
         /\ Atomic!ReplyTo(tbl, pkt) = ReplyTo(tbl, pkt)
<1>1. Atomic!TableAfter(tbl, pkt) = TableAfter(tbl, pkt)
  BY DEF Atomic!TableAfter, Atomic!insert, Atomic!erase, Atomic!update, Atomic!contains,
         TableAfter, insert, erase, update, contains
<1>2. Atomic!ReplyTo(tbl, pkt) = ReplyTo(tbl, pkt)
  BY DEF Atomic!ReplyTo, Atomic!Result, Atomic!contains, ReplyTo, Result, contains
<1> QED
  BY <1>1, <1>2

LEMMA AtomicStep == IInv /\ [Next]_vars => [Atomic!AtomicNext]_(Atomic!atomicVars)
<1> SUFFICES ASSUME IInv, [Next]_vars
             PROVE  Atomic!AtomicNext \/ UNCHANGED <<table, reqs, answered>>
  BY DEF Atomic!atomicVars
<1>a. TypeOK
  BY DEF IInv
<1>1. CASE UNCHANGED vars
  BY <1>1 DEF vars, clientVars, connVars, streamVars
<1>2. ASSUME NEW c \in Conns, ClientStep(c)
      PROVE  Atomic!AtomicNext \/ UNCHANGED <<table, reqs, answered>>
  <2>1. CASE BeginRequest(c)
    <3>1. Atomic!Submit(c)
      BY <2>1 DEF BeginRequest, Atomic!Submit, connVars, streamVars
    <3> QED
      BY <3>1 DEF Atomic!AtomicNext
  <2>2. CASE ~ BeginRequest(c)
    BY <1>2, <2>2 DEF ClientStep, Connect, ContinueRequest, ClientRecv, ClientFin, ClientRst,
                      connVars, streamVars
  <2> QED
    BY <2>1, <2>2
<1>3. ASSUME NEW t \in Threads, ThreadStep(t)
      PROVE  Atomic!AtomicNext \/ UNCHANGED <<table, reqs, answered>>
  <2> USE DEF clientVars, connVars, streamVars
  <2>1. CASE Process(t)
    <3> DEFINE c == sockid[t]
    <3>1. PICK pkt \in Received(c) :
            /\ pkt.operation \in Operation
            /\ table' = TableAfter(table, pkt)
            /\ answered' = [answered EXCEPT ![c] = Append(@, ReplyTo(table, pkt))]
      BY <2>1 DEF Process
    <3>2. pc[t] = "process" /\ reqs' = reqs
      BY <2>1 DEF Process
    <3>3. /\ c \in Conns
          /\ Len(answered[c]) + 1 \in 1..Len(reqs[c])
          /\ pkt = reqs[c][Len(answered[c]) + 1]
      BY <3>2, ReceivedExact
    <3>4. Len(answered[c]) \in Nat /\ Len(reqs[c]) \in Nat
      BY <3>3, <1>a DEF TypeOK
    <3>5. Len(answered[c]) < Len(reqs[c])
      BY <3>3, <3>4
    <3>6. pkt.operation \in Atomic!Operation
      BY <3>1 DEF Operation, Atomic!Operation
    <3> HIDE DEF c
    <3>7. Atomic!Apply(c)
      BY <3>1, <3>2, <3>3, <3>5, <3>6, SameOperators DEF Atomic!Apply
    <3> QED
      BY <3>3, <3>7 DEF Atomic!AtomicNext
  <2>2. CASE ~ Process(t)
    BY <1>3, <2>2
    DEF ThreadStep, EpollWait, ListenerEvent, ErrorEvent, ReadEvent, EndBatch,
        NotConnected, UnexpectedError, ReadSome, ReadAgain, ReadEof, BadOpcode,
        WriteSome, WriteAgain, Finish, AcceptOpen, AcceptRejected, AcceptFails,
        Exit, CloseTwice, Retry
  <2> QED
    BY <2>1, <2>2
<1> QED
  BY <1>1, <1>2, <1>3 DEF Next

(* The server implements the atomic store: every request is run once,      *)
(* whole, and in the order of its connection, for any number of threads.   *)
THEOREM Refinement == Spec => Implements
<1>1. Init => Atomic!AtomicInit
  BY DEF Init, Atomic!AtomicInit, EmptyTable, Atomic!EmptyTable
<1> QED
  BY Inductive, <1>1, AtomicStep, PTL DEF Spec, Implements, Atomic!AtomicSpec

=============================================================================
