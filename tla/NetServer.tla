----------------------------- MODULE NetServer -----------------------------
(***************************************************************************)
(* server-5204: the single-threaded epoll server (net.cpp, msg.cpp, the    *)
(* message path of link.cpp).  main_loop() waits for events and handles    *)
(* them one by one: the listener's accepts a connection, a readable        *)
(* connection is read up to the end of a buffer or of what has arrived,    *)
(* the whole messages found are answered and the answers queued, and a     *)
(* writable connection is sent one queued buffer.                          *)
(*                                                                         *)
(* The units of a connection's request stream are numbered from 0, and the *)
(* message m consists of the units m * MsgSize .. (m + 1) * MsgSize - 1.   *)
(* The answer to the units f .. f + MsgSize - 1 is written f, f + 1, ...   *)
(***************************************************************************)
EXTENDS Integers, Sequences, FdeEpoll

CONSTANTS
  Conns,       \* clients, each with one connection
  MsgSize,     \* sizeof(struct send_message) and of struct response_message
  ReadMax,     \* the space of msg_read's buffer after grow()
  SndCap,      \* a socket's send buffer and what its client holds unread
  MaxMsgs,     \* bound: messages of one client
  Window,      \* messages a client sends ahead of their answers
  Fragments,   \* clients whose messages arrive in pieces
  EarlyClose,  \* clients that close before they have their answers, or reset
  MayFail      \* may accept() and epoll_wait() fail otherwise

ASSUME NetAssumption ==
  /\ MsgSize \in Nat \ {0}
  /\ ReadMax \in Nat /\ ReadMax >= MsgSize
  /\ SndCap \in Nat \ {0}
  /\ {MaxMsgs, Window} \subseteq Nat
  /\ Fragments \subseteq Conns /\ EarlyClose \subseteq Conns
  /\ MayFail \in BOOLEAN
  /\ Conns \cap {"listener", "none"} = {}

VARIABLES
  state,     \* state[c]: "new", "pending" (in the backlog), "open"
  sent,      \* sent[c]: units of requests that have arrived at the server
  half,      \* half[c]: the client has closed its direction (FIN)
  reset,     \* reset[c]: the connection was reset
  recvd,     \* recvd[c]: units of answers the client has taken
  wrote,     \* wrote[c]: units of answers the server has written
  taken,     \* taken[c]: units of requests the server has read
  error,     \* error[c]: conn->error_
  omsg_q,    \* omsg_q[c]: buffers of answers, each [first, len]
  fde,       \* fde[c]: the event subscriptions
  conn_count,
  at,        \* "wait", "events", "read", "write", or "exited"
  events,    \* events left in the batch
  cur,       \* the connection read or written
  first,     \* first unit in msg_read's buffer
  smsg,      \* the buffer msg_write sends
  ret,       \* what msg_write has written
  cut        \* cut[c]: units of requests or of answers were dropped

clientVars == <<sent, half, reset, recvd>>
loopVars   == <<conn_count, at, events>>
connVars   == <<taken, error, omsg_q, fde, wrote, cut>>
callVars   == <<cur, first, smsg, ret>>
vars == <<state, clientVars, loopVars, connVars, callVars>>

Buffer == [first : Nat, len : Nat]

NoBuffer == [first |-> 0, len |-> 0]

(* An entry of events: the listener's, or a connection's and what it is    *)
(* ready for.                                                              *)
Listener == [conn |-> "listener", flags |-> {"IN"}]

TypeOK ==
  /\ state \in [Conns -> {"new", "pending", "open"}]
  /\ sent \in [Conns -> Nat]
  /\ half \in [Conns -> BOOLEAN]
  /\ reset \in [Conns -> BOOLEAN]
  /\ recvd \in [Conns -> Nat]
  /\ wrote \in [Conns -> Seq(Nat)]
  /\ taken \in [Conns -> Nat]
  /\ error \in [Conns -> BOOLEAN]
  /\ omsg_q \in [Conns -> Seq(Buffer)]
  /\ fde \in [Conns -> Fde]
  /\ conn_count \in Nat
  /\ at \in {"wait", "events", "read", "write", "exited"}
  /\ events \subseteq {Listener} \cup [conn : Conns, flags : SUBSET Flag]
  /\ cur \in Conns \cup {"none"}
  /\ first \in Nat
  /\ smsg \in Buffer
  /\ ret \in Nat
  /\ cut \in [Conns -> BOOLEAN]

Init ==
  /\ state = [c \in Conns |-> "new"]
  /\ sent = [c \in Conns |-> 0]
  /\ half = [c \in Conns |-> FALSE]
  /\ reset = [c \in Conns |-> FALSE]
  /\ recvd = [c \in Conns |-> 0]
  /\ wrote = [c \in Conns |-> <<>>]
  /\ taken = [c \in Conns |-> 0]
  /\ error = [c \in Conns |-> FALSE]
  /\ omsg_q = [c \in Conns |-> <<>>]
  /\ fde = [c \in Conns |-> NoFde]
  /\ conn_count = 0
  /\ at = "wait"
  /\ events = {}
  /\ cur = "none"
  /\ first = 0
  /\ smsg = NoBuffer
  /\ ret = 0
  /\ cut = [c \in Conns |-> FALSE]

-----------------------------------------------------------------------------
(* Clients and the network. *)

Connect(c) ==
  /\ state[c] = "new"
  /\ state' = [state EXCEPT ![c] = "pending"]
  /\ UNCHANGED <<clientVars, loopVars, connVars, callVars>>

Connected(c) == state[c] # "new" /\ ~ reset[c]

(* More of the client's requests arrives: a message, or a piece of one. *)
Send(c) ==
  LET message == sent[c] \div MsgSize
      begins  == sent[c] % MsgSize = 0
  IN  /\ Connected(c)
      /\ ~ half[c]
      /\ message < MaxMsgs
      /\ begins => message - recvd[c] \div MsgSize < Window
      /\ sent' = [sent EXCEPT ![c] = @ + IF c \in Fragments THEN 1 ELSE MsgSize]
      /\ UNCHANGED <<state, half, reset, recvd, loopVars, connVars, callVars>>

Recv(c) ==
  /\ Connected(c)
  /\ recvd[c] < Len(wrote[c])
  /\ recvd' = [recvd EXCEPT ![c] = Len(wrote[c])]
  /\ UNCHANGED <<state, sent, half, reset, loopVars, connVars, callVars>>

Close(c) ==
  /\ Connected(c)
  /\ c \in EarlyClose \/ recvd[c] = sent[c]
  /\ half' = [half EXCEPT ![c] = TRUE]
  /\ UNCHANGED <<state, sent, reset, recvd, loopVars, connVars, callVars>>

Reset(c) ==
  /\ Connected(c)
  /\ c \in EarlyClose
  /\ reset' = [reset EXCEPT ![c] = TRUE]
  /\ UNCHANGED <<state, sent, half, recvd, loopVars, connVars, callVars>>

ClientStep(c) == Connect(c) \/ Send(c) \/ Recv(c) \/ Close(c) \/ Reset(c)

-----------------------------------------------------------------------------
(* main_loop(). *)

Backlog == {c \in Conns : state[c] = "pending"}

Readable(c) == taken[c] < sent[c] \/ half[c] \/ reset[c]

Room(c) == SndCap - (Len(wrote[c]) - recvd[c])

Writable(c) == Room(c) > 0 \/ reset[c]

ReadyFor(c) ==
  {f \in fde[c].interest : (f = "IN" /\ Readable(c)) \/ (f = "OUT" /\ Writable(c))}

ListenerReady == Backlog # {}

Ready ==
  {[conn |-> c, flags |-> ReadyFor(c)] : c \in {d \in Conns : ReadyFor(d) # {}}}
    \cup (IF ListenerReady THEN {Listener} ELSE {})

(* fdes->wait(50).  Nothing happens when it times out or is interrupted. *)
Wait ==
  /\ at = "wait"
  /\ Ready # {}
  /\ at' = "events"
  /\ events' = Ready
  /\ UNCHANGED <<state, clientVars, conn_count, connVars, callVars>>

Exit ==
  /\ at' = "exited"
  /\ events' = {}
  /\ UNCHANGED <<state, clientVars, conn_count, connVars>>
  /\ cur' = "none" /\ first' = 0 /\ smsg' = NoBuffer /\ ret' = 0

(* wait() returns NULL, and main_loop() returns. *)
WaitFails == at = "wait" /\ MayFail /\ Exit

EndBatch ==
  /\ at = "events"
  /\ events = {}
  /\ at' = "wait"
  /\ UNCHANGED <<state, clientVars, conn_count, events, connVars, callVars>>

(* One entry is taken from the batch.  epoll_wait's order is arbitrary. *)
Take(e) ==
  /\ at = "events"
  /\ e \in events
  /\ events' = events \ {e}

(* accept_conn(): one connection of the backlog. *)
AcceptConn ==
  /\ Take(Listener)
  /\ \E c \in Backlog :
       /\ state' = [state EXCEPT ![c] = "open"]
       /\ fde' = [fde EXCEPT ![c] = set(@, {"IN"})]
  /\ conn_count' = conn_count + 1
  /\ UNCHANGED <<clientVars, at, taken, error, omsg_q, wrote, cut, callVars>>

(* No descriptor, of a closed connection either, is ever closed: accept()  *)
(* may find none free.  The connection stays in the backlog.               *)
AcceptFails ==
  /\ Take(Listener)
  /\ MayFail
  /\ UNCHANGED <<state, clientVars, conn_count, at, connVars, callVars>>

(* A readable connection is read only; one that is also writable is sent   *)
(* to when it comes up without FDEVENT_IN.                                 *)
Event(c, f) ==
  \E e \in events :
    /\ e.conn = c
    /\ IF f = "IN" THEN "IN" \in e.flags ELSE e.flags = {"OUT"}
    /\ Take(e)

(* Variant: conn->error() is not looked at. *)
UsableAlways(c) == TRUE

Usable(c) == ~ error[c]

(* recv() and send() return CO_ERR for a connection in error. *)
SkipError(c) ==
  /\ ~ Usable(c)
  /\ \E f \in Flag : Event(c, f)
  /\ UNCHANGED <<state, clientVars, conn_count, at, connVars, callVars>>

-----------------------------------------------------------------------------
(* req_recv() and msg_read(). *)

RecvMsgs(c) ==
  /\ Usable(c)
  /\ Event(c, "IN")
  /\ at' = "read"
  /\ cur' = c
  /\ first' = taken[c]
  /\ UNCHANGED <<state, clientVars, conn_count, connVars, smsg, ret>>

Reads(c)  == at = "read" /\ cur = c
Size(c)   == taken[c] - first
Space(c)  == ReadMax - Size(c)

ReadSome(c) ==
  /\ Reads(c)
  /\ Space(c) > 0
  /\ taken[c] < sent[c]
  /\ taken' = [taken EXCEPT ![c] = IF sent[c] - @ < Space(c) THEN sent[c] ELSE @ + Space(c)]
  /\ UNCHANGED <<state, clientVars, loopVars, error, omsg_q, fde, wrote, cut, callVars>>

Return == at' = "events" /\ cur' = "none" /\ first' = 0 /\ smsg' = NoBuffer /\ ret' = 0

(* Variant: the connection stays subscribed. *)
KeepSubscribed(c) == fde[c]

Unsubscribed(c) == del(fde[c])

(* read() returned 0 or an error: msg_read() returns NULL, and with it     *)
(* goes all it had read.  The descriptor is not closed.                    *)
ReadNull(c) ==
  /\ Reads(c)
  /\ Space(c) > 0
  /\ reset[c] \/ (taken[c] = sent[c] /\ half[c])
  /\ error' = [error EXCEPT ![c] = TRUE]
  /\ fde' = [fde EXCEPT ![c] = Unsubscribed(c)]
  /\ cut' = [cut EXCEPT ![c] = @ \/ Size(c) > 0]
  /\ Return
  /\ UNCHANGED <<state, clientVars, conn_count, events, taken, omsg_q, wrote>>

(* The buffer is full, or read() would block. *)
ReadEnds(c) ==
  /\ Reads(c)
  /\ Space(c) = 0 \/ (taken[c] = sent[c] /\ ~ half[c] /\ ~ reset[c])

(* Variant: the answers go to the front of the queue. *)
AnswersFirst(queue, buffer) == <<buffer>> \o queue

Queued(queue, buffer) == Append(queue, buffer)

(* Only whole messages are answered, and the rest is forgotten. *)
Answer(c) ==
  /\ ReadEnds(c)
  /\ LET whole == MsgSize * (Size(c) \div MsgSize)
     IN  /\ omsg_q' = [omsg_q EXCEPT ![c] = Queued(@, [first |-> first, len |-> whole])]
         /\ cut' = [cut EXCEPT ![c] = @ \/ whole # Size(c)]
  /\ fde' = [fde EXCEPT ![c] = set(@, {"OUT"})]
  /\ Return
  /\ UNCHANGED <<state, clientVars, conn_count, events, taken, error, wrote>>

(* kvstore_process_packet() exits for a bad opcode, which the middle of a  *)
(* message may look like.                                                  *)
BadOpcode(c) ==
  /\ ReadEnds(c)
  /\ first % MsgSize # 0
  /\ Size(c) >= MsgSize
  /\ Exit

-----------------------------------------------------------------------------
(* rsp_send() and msg_write(). *)

(* Variant: all events are cleared. *)
ClearAll(c) == clr(fde[c], Flag)

ClearOut(c) == clr(fde[c], {"OUT"})

SendNothing(c) ==
  /\ Usable(c)
  /\ omsg_q[c] = <<>>
  /\ Event(c, "OUT")
  /\ fde' = [fde EXCEPT ![c] = ClearOut(c)]
  /\ UNCHANGED <<state, clientVars, conn_count, at, taken, error, omsg_q, wrote, cut, callVars>>

SendMsg(c) ==
  /\ Usable(c)
  /\ omsg_q[c] # <<>>
  /\ Event(c, "OUT")
  /\ at' = "write"
  /\ cur' = c
  /\ smsg' = Head(omsg_q[c])
  /\ omsg_q' = [omsg_q EXCEPT ![c] = Tail(@)]
  /\ UNCHANGED <<state, clientVars, conn_count, taken, error, fde, wrote, cut, first, ret>>

Writes(c) == at = "write" /\ cur = c

Units(buffer, n) == [i \in 1..n |-> buffer.first + i - 1]

(* Variant: smsg->decr() is forgotten. *)
NoDecr(buffer, n) == [buffer EXCEPT !.len = @ - n]

Decr(buffer, n) == [first |-> buffer.first + n, len |-> buffer.len - n]

(* Variant: as much is written as there is room for. *)
AllRoom(c) == Room(c)

(* write() takes what there is room for. *)
Portion(c) == IF smsg.len < Room(c) THEN smsg.len ELSE Room(c)

WriteSome(c) ==
  LET n == Portion(c)
  IN  /\ Writes(c)
      /\ ~ reset[c]
      /\ n > 0
      /\ wrote' = [wrote EXCEPT ![c] = @ \o Units(smsg, n)]
      /\ smsg' = Decr(smsg, n)
      /\ ret' = ret + n
      /\ UNCHANGED <<state, clientVars, loopVars, taken, error, omsg_q, fde, cut, cur, first>>

(* All is written, or write() would block: the rest of the buffer goes.  A *)
(* result of 0, for an empty buffer too, is taken for an error.            *)
WriteEnds(c) ==
  /\ Writes(c)
  /\ smsg.len = 0 \/ (Room(c) <= 0 /\ ~ reset[c])
  /\ error' = [error EXCEPT ![c] = ret = 0]
  /\ cut' = [cut EXCEPT ![c] = @ \/ smsg.len > 0]
  /\ Return
  /\ UNCHANGED <<state, clientVars, conn_count, events, taken, omsg_q, fde, wrote>>

(* write() fails on a connection that was reset. *)
WriteFails(c) ==
  /\ Writes(c)
  /\ smsg.len > 0
  /\ reset[c]
  /\ error' = [error EXCEPT ![c] = TRUE]
  /\ cut' = [cut EXCEPT ![c] = TRUE]
  /\ Return
  /\ UNCHANGED <<state, clientVars, conn_count, events, taken, omsg_q, fde, wrote>>

(* A reset after the client's FIN makes write() raise SIGPIPE. *)
BrokenPipe(c) ==
  /\ Writes(c)
  /\ smsg.len > 0
  /\ reset[c] /\ half[c]
  /\ Exit

-----------------------------------------------------------------------------

ServerStep ==
  \/ Wait
  \/ EndBatch
  \/ AcceptConn
  \/ AcceptFails
  \/ \E c \in Conns :
       \/ SkipError(c)
       \/ RecvMsgs(c)
       \/ ReadSome(c)
       \/ ReadNull(c)
       \/ Answer(c)
       \/ BadOpcode(c)
       \/ SendNothing(c)
       \/ SendMsg(c)
       \/ WriteSome(c)
       \/ WriteEnds(c)
       \/ WriteFails(c)
       \/ BrokenPipe(c)

Next == ServerStep \/ WaitFails \/ \E c \in Conns : at # "exited" /\ ClientStep(c)

Spec == Init /\ [][Next]_vars

(* The server keeps running, which a wait() that returns NULL would end    *)
(* and need not, and clients take the answers that arrive.                 *)
FairSpec ==
  /\ Spec
  /\ WF_vars(ServerStep)
  /\ \A c \in Conns : WF_vars(at # "exited" /\ Recv(c))

-----------------------------------------------------------------------------
(* epoll's registrations are what Fdevents believes, and answers are never *)
(* stranded: a connection that works is subscribed for reading, and for    *)
(* writing while answers are queued.                                       *)
InvSubscribed ==
  \A c \in Conns :
    /\ fde[c].s_flags = fde[c].interest
    /\ state[c] = "open" /\ ~ error[c] =>
         /\ "IN" \in fde[c].interest
         /\ omsg_q[c] # <<>> => "OUT" \in fde[c].interest

(* The buffers on their way to the client of c, the one in msg_write first. *)
Outgoing(c) == (IF Writes(c) THEN <<smsg>> ELSE <<>>) \o omsg_q[c]

Processed(c) == IF Reads(c) THEN first ELSE taken[c]

(* The buffers of q hold the units from .. to - 1, in order. *)
Contiguous(q, from, to) ==
  LET EndOf(i) == IF i = 0 THEN from ELSE q[i].first + q[i].len
  IN  /\ \A i \in DOMAIN q : q[i].first = EndOf(i - 1)
      /\ EndOf(Len(q)) = to

(* While no piece was dropped, the answers are the requests', in order and *)
(* once: what is written is a prefix, what is queued continues it, and     *)
(* ends where the requests processed end.                                  *)
InvAnswers ==
  \A c \in Conns :
    ~ cut[c] /\ at # "exited" =>
      /\ \A i \in DOMAIN wrote[c] : wrote[c][i] = i - 1
      /\ Contiguous(Outgoing(c), Len(wrote[c]), Processed(c))

(* A connection in error stays in error, is not read from and not written  *)
(* to any more.                                                            *)
ErrorIsFinal ==
  [][\A c \in Conns :
       error[c] => error'[c] /\ UNCHANGED <<taken[c], wrote[c], omsg_q[c]>>]_vars

(* The whole of each message that arrived is answered. *)
Answered ==
  \A c \in Conns, m \in 1..MaxMsgs :
    sent[c] >= m * MsgSize ~> recvd[c] >= m * MsgSize

(* What still holds when clients pipeline, cut their messages, close and   *)
(* reset: a message on an accepted connection is answered, whatever the    *)
(* other clients do and however long reading is put before writing         *)
(* (net.cpp:52), unless a piece of the connection's own data was dropped   *)
(* or it is in error.                                                      *)
AnsweredUnlessCut ==
  \A c \in Conns, m \in 1..MaxMsgs :
    state[c] = "open" /\ sent[c] >= m * MsgSize ~>
      recvd[c] >= m * MsgSize \/ cut[c] \/ error[c] \/ at = "exited"

(* A connection that its client closed is marked, and deleted from the     *)
(* events (msg.cpp:16); it stays there when an answer that could not be    *)
(* written marked it first (msg.cpp:58).                                   *)
Deleted ==
  \A c \in Conns :
    state[c] = "open" /\ half[c] ~>
      at = "exited" \/ (error[c] /\ (fde[c] = NoFde \/ cut[c]))

=============================================================================
