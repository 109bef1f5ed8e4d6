------------------------------ MODULE KVServer ------------------------------
(***************************************************************************)
(* mtcp_kvstore/kvstore.c: the key-value server.  One thread per core runs *)
(* RunServerThread(); each has its own mTCP context, so its own sockets,   *)
(* listener backlog and epoll queue, and all of them share one KVStore.    *)
(* The network card gives each new connection to one core: home.           *)
(*                                                                         *)
(* A message is MsgLen chunks of bytes.  A connection's two byte streams   *)
(* are kept as the requests its client began (reqs), the replies the       *)
(* server computed (answered) and four counters of chunks: arrived at the  *)
(* server, taken by mtcp_read, written by mtcp_write, fetched by the       *)
(* client.                                                                 *)
(*                                                                         *)
(* mTCP is outside the repository; it is modelled from the return values   *)
(* and errno the code tests for.  A socket id is taken to be as unique as  *)
(* its connection: ids are reused only by mtcp_accept, which a thread      *)
(* calls after its batch of events (InvBatch says why that is enough).     *)
(***************************************************************************)
EXTENDS KVStoreLib, Sequences, FiniteSets

CONSTANTS
  Threads,      \* app_thread[], one per core
  Conns,        \* client connections
  Requests,     \* the requests clients send
  MsgLen,       \* KVSTORE_CONTENT_LEN, in chunks
  RcvCap,       \* receive buffer of a connection, in chunks
  SndCap,       \* send buffer of a connection, in chunks
  MaxReqs,      \* bound: requests per connection
  MaxFlow,      \* MAX_FLOW_NUM: socket ids below it are served
  PoolSize,     \* max_concurrency: socket ids of one mTCP context
  Faults,       \* what clients may do to a connection: "fin", "rst"
  OtherErrors,  \* may mTCP calls fail with an errno the code does not expect
  Listener      \* the listening socket of a thread

ASSUME ServerAssumption ==
  /\ Requests \subseteq SendMessage
  /\ MsgLen \in Nat \ {0}
  /\ {RcvCap, SndCap, MaxReqs, MaxFlow, PoolSize} \subseteq Nat
  /\ Listener \notin Conns \cup Threads

VARIABLES
  running,    \* FALSE once some thread called exit(1)
  table,      \* *ptr_KVStore
  net,        \* net[c]: the connection as the client left it
  home,       \* home[c]: the thread whose mTCP context got it, if any
  reqs,       \* reqs[c]: requests the client of c began to send
  arrived,    \* arrived[c]: chunks of them in or past the receive buffer
  fetched,    \* fetched[c]: chunks of replies the client received
  sock,       \* sock[c]: the server's socket of c
  taken,      \* taken[c]: chunks the server read from c
  written,    \* written[c]: chunks the server wrote to c
  answered,   \* answered[c]: replies kvstore_process_packet computed for c
  pc,         \* pc[t]: where thread t is
  events,     \* events[t]: sockets in events[] thread t has yet to handle
  sockid,     \* sockid[t]: the connection HandleReadEvent works on
  content,    \* content[t]: content_read, then content_sent
  keepalive,  \* keepalive[t]: the local of HandleReadEvent
  errno,      \* errno[t]: thread-local errno, at the points where it is tested
  do_accept   \* do_accept[t]

clientVars == <<net, home, reqs, arrived, fetched>>
streamVars == <<taken, written, answered>>
connVars   == <<sock, streamVars>>
batchVars  == <<events, do_accept>>
readVars   == <<sockid, content, keepalive>>
threadVars == <<pc, errno, batchVars, readVars>>
vars == <<running, table, clientVars, connVars, threadVars>>

TypeOK ==
  /\ running \in BOOLEAN
  /\ table \in Table
  /\ net \in [Conns -> {"none", "est", "fin", "rst"}]
  /\ home \in [Conns -> Threads \cup {Listener}]
  /\ reqs \in [Conns -> Seq(Requests)]
  /\ arrived \in [Conns -> Nat]
  /\ fetched \in [Conns -> Nat]
  /\ sock \in [Conns -> {"none", "open", "unwatched", "closed"}]
  /\ taken \in [Conns -> Nat]
  /\ written \in [Conns -> Nat]
  /\ answered \in [Conns -> Seq(ResponseMessage)]
  /\ pc \in [Threads -> {"wait", "events", "read", "process", "write", "finish", "accept"}]
  /\ events \in [Threads -> SUBSET (Conns \cup {Listener})]
  /\ sockid \in [Threads -> Conns \cup {Listener}]
  /\ content \in [Threads -> 0..MsgLen]
  /\ keepalive \in [Threads -> Int]
  /\ errno \in [Threads -> {"EAGAIN", "other"}]
  /\ do_accept \in [Threads -> BOOLEAN]

(* main() has created the store and the threads, and every thread has its  *)
(* listening socket registered with its epoll queue.                       *)
Init ==
  /\ running = TRUE
  /\ table = EmptyTable
  /\ net = [c \in Conns |-> "none"]
  /\ home = [c \in Conns |-> Listener]
  /\ reqs = [c \in Conns |-> <<>>]
  /\ arrived = [c \in Conns |-> 0]
  /\ fetched = [c \in Conns |-> 0]
  /\ sock = [c \in Conns |-> "none"]
  /\ taken = [c \in Conns |-> 0]
  /\ written = [c \in Conns |-> 0]
  /\ answered = [c \in Conns |-> <<>>]
  /\ pc = [t \in Threads |-> "wait"]
  /\ events = [t \in Threads |-> {}]
  /\ sockid = [t \in Threads |-> Listener]
  /\ content = [t \in Threads |-> 0]
  /\ keepalive = [t \in Threads |-> 0]
  /\ errno = [t \in Threads |-> "other"]
  /\ do_accept = [t \in Threads |-> FALSE]

-----------------------------------------------------------------------------
(* The clients. *)

Connect(c) ==
  /\ net[c] = "none"
  /\ net' = [net EXCEPT ![c] = "est"]
  /\ \E t \in Threads : home' = [home EXCEPT ![c] = t]
  /\ UNCHANGED <<running, table, reqs, arrived, fetched, connVars, threadVars>>

(* A client may send a request before it has the reply to the last one.    *)
CanSend(c) ==
  /\ net[c] = "est"
  /\ sock[c] # "closed"
  /\ arrived[c] - taken[c] < RcvCap

(* The first chunk of a new request arrives. *)
BeginRequest(c) ==
  /\ CanSend(c)
  /\ arrived[c] = MsgLen * Len(reqs[c])
  /\ Len(reqs[c]) < MaxReqs
  /\ \E r \in Requests : reqs' = [reqs EXCEPT ![c] = Append(@, r)]
  /\ arrived' = [arrived EXCEPT ![c] = @ + 1]
  /\ UNCHANGED <<running, table, net, home, fetched, connVars, threadVars>>

ContinueRequest(c) ==
  /\ CanSend(c)
  /\ arrived[c] < MsgLen * Len(reqs[c])
  /\ arrived' = [arrived EXCEPT ![c] = @ + 1]
  /\ UNCHANGED <<running, table, net, home, reqs, fetched, connVars, threadVars>>

ClientRecv(c) ==
  /\ net[c] = "est"
  /\ fetched[c] < written[c]
  /\ fetched' = [fetched EXCEPT ![c] = written[c]]
  /\ UNCHANGED <<running, table, net, home, reqs, arrived, connVars, threadVars>>

(* Orderly close, or a reset: by the client, or by TCP's own timeout. *)
ClientFin(c) ==
  /\ "fin" \in Faults
  /\ net[c] = "est"
  /\ net' = [net EXCEPT ![c] = "fin"]
  /\ UNCHANGED <<running, table, home, reqs, arrived, fetched, connVars, threadVars>>

ClientRst(c) ==
  /\ "rst" \in Faults
  /\ net[c] \in {"est", "fin"}
  /\ net' = [net EXCEPT ![c] = "rst"]
  /\ UNCHANGED <<running, table, home, reqs, arrived, fetched, connVars, threadVars>>

ClientStep(c) ==
  \/ Connect(c)
  \/ BeginRequest(c)
  \/ ContinueRequest(c)
  \/ ClientRecv(c)
  \/ ClientFin(c)
  \/ ClientRst(c)

-----------------------------------------------------------------------------
(* RunServerThread(): waiting for events. *)

Pending(t) == {c \in Conns : home[c] = t /\ net[c] # "none" /\ sock[c] = "none"}

Readable(c) == sock[c] = "open" /\ (arrived[c] > taken[c] \/ net[c] \in {"fin", "rst"})

(* Variant: the threads share one epoll queue. *)
ReadySharedQueue(t) ==
  {c \in Conns : Readable(c)} \cup {l \in {Listener} : Pending(t) # {}}

Ready(t) ==
  {c \in Conns : home[c] = t /\ Readable(c)} \cup {l \in {Listener} : Pending(t) # {}}

(* One entry of events[] for every socket that is ready.  MAX_EVENTS is    *)
(* above the number of sockets, so no entry is left out.                   *)
EpollWait(t) ==
  /\ pc[t] = "wait"
  /\ Ready(t) # {}
  /\ events' = [events EXCEPT ![t] = Ready(t)]
  /\ do_accept' = [do_accept EXCEPT ![t] = FALSE]
  /\ pc' = [pc EXCEPT ![t] = "events"]
  /\ UNCHANGED <<running, table, clientVars, connVars, errno, readVars>>

(* The entries are handled one by one, in any order. *)
ListenerEvent(t) ==
  /\ pc[t] = "events"
  /\ Listener \in events[t]
  /\ events' = [events EXCEPT ![t] = @ \ {Listener}]
  /\ do_accept' = [do_accept EXCEPT ![t] = TRUE]
  /\ UNCHANGED <<running, table, clientVars, connVars, pc, errno, readVars>>

CloseConnection(c) == sock' = [sock EXCEPT ![c] = "closed"]

(* MTCP_EPOLLERR.  A connection that broke may as well have been reported  *)
(* as readable, before or after it broke: ReadEvent below.                 *)
ErrorEvent(t) ==
  /\ pc[t] = "events"
  /\ \E c \in events[t] \ {Listener} :
       /\ net[c] = "rst"
       /\ CloseConnection(c)
       /\ events' = [events EXCEPT ![t] = @ \ {c}]
  /\ UNCHANGED <<running, table, clientVars, streamVars, pc, errno, do_accept, readVars>>

(* MTCP_EPOLLIN: HandleReadEvent() is called. *)
ReadEvent(t) ==
  /\ pc[t] = "events"
  /\ \E c \in events[t] \ {Listener} :
       /\ sockid' = [sockid EXCEPT ![t] = c]
       /\ events' = [events EXCEPT ![t] = @ \ {c}]
  /\ content' = [content EXCEPT ![t] = 0]
  /\ pc' = [pc EXCEPT ![t] = "read"]
  /\ UNCHANGED <<running, table, clientVars, connVars, keepalive, errno, do_accept>>

(* Variant: the accept loop is left out. *)
NeverAccept(t) == "wait"

AfterBatch(t) == IF do_accept[t] THEN "accept" ELSE "wait"

EndBatch(t) ==
  /\ pc[t] = "events"
  /\ events[t] = {}
  /\ pc' = [pc EXCEPT ![t] = AfterBatch(t)]
  /\ UNCHANGED <<running, table, clientVars, connVars, errno, batchVars, readVars>>

-----------------------------------------------------------------------------
(* HandleReadEvent(). *)

(* exit(1): the process ends, with every thread and connection of it.      *)
Exit(t) ==
  /\ running' = FALSE
  /\ UNCHANGED <<table, clientVars, connVars, threadVars>>

(* CloseConnection, return 0, and RunServerThread closes once more: the    *)
(* second close fails and leaves its own errno.                            *)
CloseTwice(t) ==
  /\ CloseConnection(sockid[t])
  /\ errno' = [errno EXCEPT ![t] = "other"]
  /\ pc' = [pc EXCEPT ![t] = "events"]
  /\ UNCHANGED <<running, table, clientVars, streamVars, batchVars, readVars>>

(* Variant: EAGAIN leaves the handler, and what it has read is lost. *)
GiveUp(t) ==
  /\ errno' = [errno EXCEPT ![t] = "EAGAIN"]
  /\ pc' = [pc EXCEPT ![t] = "events"]
  /\ UNCHANGED <<running, table, clientVars, connVars, batchVars, readVars>>

(* EAGAIN: the loop goes round. *)
Retry(t) ==
  /\ errno' = [errno EXCEPT ![t] = "EAGAIN"]
  /\ UNCHANGED <<running, table, clientVars, connVars, pc, batchVars, readVars>>

(* errno 107, from a read or a write. *)
NotConnected(t) ==
  /\ pc[t] \in {"read", "write"}
  /\ net[sockid[t]] = "rst"
  /\ CloseTwice(t)

(* Any other errno, from a read or a write. *)
UnexpectedError(t) ==
  /\ OtherErrors
  /\ pc[t] \in {"read", "write"}
  /\ Exit(t)

AtMost(m, n) == IF m < n THEN m ELSE n

(* Variant: a single mtcp_read instead of a loop. *)
AfterOneRead(n) == "process"

AfterRead(n) == IF n = MsgLen THEN "process" ELSE "read"

(* mtcp_read returns what there is, at most the rest of the message. *)
ReadSome(t) ==
  LET c == sockid[t]
      rd == AtMost(arrived[c] - taken[c], MsgLen - content[t])
  IN  /\ pc[t] = "read"
      /\ net[c] # "rst"
      /\ rd > 0
      /\ taken' = [taken EXCEPT ![c] = @ + rd]
      /\ content' = [content EXCEPT ![t] = @ + rd]
      /\ pc' = [pc EXCEPT ![t] = AfterRead(content[t] + rd)]
      /\ UNCHANGED <<running, table, clientVars, sock, written, answered,
                     batchVars, sockid, keepalive, errno>>

(* Nothing to read yet. *)
ReadAgain(t) ==
  /\ pc[t] = "read"
  /\ net[sockid[t]] = "est"
  /\ arrived[sockid[t]] = taken[sockid[t]]
  /\ Retry(t)

(* The client has closed and there is nothing left: mtcp_read returns 0,   *)
(* which sets no errno, yet the code goes on to test errno.  Whatever the  *)
(* last failed call of this thread left there decides: EAGAIN sends the    *)
(* loop round for ever, which is no step here, anything else is exit(1).   *)
(* (107 is never left there: the second close of CloseTwice replaces it.)  *)
ReadEof(t) ==
  /\ pc[t] = "read"
  /\ net[sockid[t]] = "fin"
  /\ arrived[sockid[t]] = taken[sockid[t]]
  /\ errno[t] # "EAGAIN"
  /\ Exit(t)

(* Variant: the newest request of the connection, not the oldest. *)
ReceivedNewest(c) == {reqs[c][Len(reqs[c])]}

(* The message in buf, if it is one message of the stream; chunks of two   *)
(* messages could make up any.                                             *)
Received(c) ==
  LET whole == {reqs[c][k] : k \in {k \in DOMAIN reqs[c] : taken[c] = MsgLen * k}}
  IN  IF whole = {} THEN Requests ELSE whole

Process(t) ==
  LET c == sockid[t]
  IN  /\ pc[t] = "process"
      /\ \E pkt \in Received(c) :
           /\ pkt.operation \in Operation
           /\ keepalive' = [keepalive EXCEPT ![t] = pkt.keepalive]
           /\ table' = TableAfter(table, pkt)
           /\ answered' = [answered EXCEPT ![c] = Append(@, ReplyTo(table, pkt))]
      /\ content' = [content EXCEPT ![t] = 0]
      /\ pc' = [pc EXCEPT ![t] = "write"]
      /\ UNCHANGED <<running, clientVars, sock, taken, written, batchVars, sockid, errno>>

(* kvstore_process_packet exits on an opcode it does not know. *)
BadOpcode(t) ==
  /\ pc[t] = "process"
  /\ \E pkt \in Received(sockid[t]) : pkt.operation = "BAD"
  /\ Exit(t)

Room(c) == SndCap - (written[c] - fetched[c])

(* Variant: every mtcp_write is given the whole of buf. *)
WriteFromStart(t) == AtMost(Room(sockid[t]), MsgLen)

(* mtcp_write takes what fits, at most the rest of the reply. *)
Sent(t) == AtMost(Room(sockid[t]), MsgLen - content[t])

WriteSome(t) ==
  LET c == sockid[t]
  IN  /\ pc[t] = "write"
      /\ net[c] # "rst"
      /\ Sent(t) > 0
      /\ written' = [written EXCEPT ![c] = @ + Sent(t)]
      /\ content' = [content EXCEPT ![t] = @ + Sent(t)]
      /\ pc' = [pc EXCEPT ![t] = IF content'[t] = MsgLen THEN "finish" ELSE "write"]
      /\ UNCHANGED <<running, table, clientVars, sock, taken, answered,
                     batchVars, sockid, keepalive, errno>>

WriteAgain(t) ==
  /\ pc[t] = "write"
  /\ net[sockid[t]] # "rst"
  /\ Room(sockid[t]) = 0
  /\ Retry(t)

(* Variant: "for now always keep alive". *)
AlwaysKeepAlive(t) == FALSE

(* keepalive is a signed char.  A negative one is returned as it is, and   *)
(* makes RunServerThread look at an errno that no call has set; it closes  *)
(* once, which leaves errno as it was.                                     *)
Closing(t) == keepalive[t] = 0 \/ (keepalive[t] < 0 /\ errno[t] # "EAGAIN")

(* The reply is out. *)
Finish(t) ==
  /\ pc[t] = "finish"
  /\ \/ Closing(t) /\ CloseTwice(t)
     \/ /\ ~ Closing(t)
        /\ pc' = [pc EXCEPT ![t] = "events"]
        /\ UNCHANGED <<running, table, clientVars, connVars, errno, batchVars, readVars>>

-----------------------------------------------------------------------------
(* The accept loop, one AcceptConnection() a step. *)

InState(t, s) == {c \in Conns : home[c] = t /\ sock[c] = s}

IdsServed(t)   == MaxFlow - Cardinality(InState(t, "open"))
IdsUnserved(t) == (PoolSize - MaxFlow) - Cardinality(InState(t, "unwatched"))

AcceptOpen(t) ==
  /\ pc[t] = "accept"
  /\ IdsServed(t) > 0
  /\ \E c \in Pending(t) : sock' = [sock EXCEPT ![c] = "open"]
  /\ UNCHANGED <<running, table, clientVars, streamVars, threadVars>>

(* A socket id of MAX_FLOW_NUM or more: the connection is neither closed   *)
(* nor registered, and the -1 ends the accept loop.                        *)
AcceptRejected(t) ==
  /\ pc[t] = "accept"
  /\ IdsUnserved(t) > 0
  /\ \E c \in Pending(t) : sock' = [sock EXCEPT ![c] = "unwatched"]
  /\ pc' = [pc EXCEPT ![t] = "wait"]
  /\ UNCHANGED <<running, table, clientVars, streamVars, errno, batchVars, readVars>>

(* mtcp_accept fails: no connection waits, or no socket id is free. *)
AcceptFails(t) ==
  /\ pc[t] = "accept"
  /\ \/ /\ Pending(t) = {}
        /\ errno' = [errno EXCEPT ![t] = "EAGAIN"]
     \/ /\ Pending(t) # {}
        /\ IdsServed(t) <= 0
        /\ IdsUnserved(t) <= 0
        /\ errno' = [errno EXCEPT ![t] = "other"]
  /\ pc' = [pc EXCEPT ![t] = "wait"]
  /\ UNCHANGED <<running, table, clientVars, connVars, batchVars, readVars>>

-----------------------------------------------------------------------------

ThreadStep(t) ==
  /\ running
  /\ \/ EpollWait(t)
     \/ ListenerEvent(t)
     \/ ErrorEvent(t)
     \/ ReadEvent(t)
     \/ EndBatch(t)
     \/ NotConnected(t)
     \/ UnexpectedError(t)
     \/ ReadSome(t)
     \/ ReadAgain(t)
     \/ ReadEof(t)
     \/ Process(t)
     \/ BadOpcode(t)
     \/ WriteSome(t)
     \/ WriteAgain(t)
     \/ Finish(t)
     \/ AcceptOpen(t)
     \/ AcceptRejected(t)
     \/ AcceptFails(t)

Next ==
  \/ \E c \in Conns : running /\ ClientStep(c)
  \/ \E t \in Threads : ThreadStep(t)

Spec == Init /\ [][Next]_vars

(* Every thread that can take a step in its process eventually does, and   *)
(* clients that have begun a request finish it and fetch their replies.    *)
ServerFairness == \A t \in Threads : WF_vars(ThreadStep(t))
RecvFairness   == \A c \in Conns : WF_vars(running /\ ClientRecv(c))
SendFairness   == \A c \in Conns : WF_vars(running /\ ContinueRequest(c))

FairSpec == Spec /\ ServerFairness /\ RecvFairness /\ SendFairness

-----------------------------------------------------------------------------
(* Safety. *)

Handling(t) == pc[t] \in {"read", "process", "write", "finish"}

(* An open socket of thread t's mTCP context. *)
OpenAt(t, c) == c \in Conns /\ home[c] = t /\ sock[c] = "open"

(* Every socket of the batch still to be handled, and the one being        *)
(* handled, is an open socket of this thread, and the latter is not handled*)
(* again in this batch: closing one socket (also twice, as the code does)  *)
(* never hits another entry, although events[] is not looked at again.     *)
InvBatch ==
  \A t \in Threads :
    /\ \A c \in events[t] \ {Listener} : OpenAt(t, c)
    /\ Handling(t) => OpenAt(t, sockid[t]) /\ sockid[t] \notin events[t]
    /\ pc[t] \in {"wait", "accept"} => events[t] = {}

(* Message framing.  Whatever sizes mtcp_read and mtcp_write return, and   *)
(* however handlers follow each other on a connection, a handler starts at *)
(* a message boundary of both streams and ends at the next one.            *)
Framed(c, in, out) ==
  /\ taken[c] = MsgLen * Len(answered[c]) + in
  /\ written[c] = MsgLen * Len(answered[c]) + out

InvFraming ==
  /\ \A c \in Conns :
       (sock[c] \in {"none", "open"} /\ \A t \in Threads : Handling(t) => sockid[t] # c)
         => Framed(c, 0, 0)
  /\ \A t \in Threads :
       /\ pc[t] = "read" => Framed(sockid[t], content[t], 0)
       /\ pc[t] = "process" => Framed(sockid[t], MsgLen, 0)
       /\ pc[t] = "write" => Framed(sockid[t], 0, content[t] - MsgLen)
       /\ pc[t] = "finish" => Framed(sockid[t], 0, 0)

(* The streams stay in step: a client never receives more than the replies *)
(* to what it sent, and the server never runs ahead of what has arrived.   *)
InvStreams ==
  \A c \in Conns :
    /\ fetched[c] <= written[c]
    /\ written[c] <= MsgLen * Len(answered[c])
    /\ MsgLen * Len(answered[c]) <= taken[c]
    /\ taken[c] <= arrived[c]
    /\ arrived[c] <= MsgLen * Len(reqs[c])

(* The server closes a connection that works only after the whole reply to *)
(* a request that did not ask to be kept alive.                            *)
CloseIsAnswered ==
  [][\A c \in Conns :
       sock[c] = "open" /\ sock'[c] = "closed" /\ net[c] # "rst" =>
         LET k == Len(answered[c]) IN
           /\ k > 0
           /\ reqs[c][k].keepalive <= 0
           /\ written[c] = MsgLen * k]_vars

(* The shared table, the requests and the replies behave as a store whose  *)
(* operations are atomic: each request of a connection is run once, whole, *)
(* and in the order it was sent, whatever the threads interleave.          *)
Atomic == INSTANCE AtomicKV
Implements == Atomic!AtomicSpec

-----------------------------------------------------------------------------
(* Liveness. *)

(* Every request that a client sends is answered and the reply fetched,    *)
(* unless an earlier request made the server close the connection.         *)
Answered ==
  \A c \in Conns : \A k \in 1..MaxReqs :
    Len(reqs[c]) >= k ~> fetched[c] >= MsgLen * k \/ sock[c] = "closed"

(* The accept loop leaves no connection behind in the backlog. *)
Accepted == \A c \in Conns : net[c] = "est" ~> sock[c] # "none"

(* A connection whose reply said keepalive 0 is closed. *)
ClosedOnRequest ==
  \A c \in Conns : \A k \in 1..MaxReqs :
    Len(answered[c]) >= k /\ reqs[c][k].keepalive = 0 ~> sock[c] = "closed"

(* "connection closed by remote host" (kvstore.c:364): the server closes   *)
(* its side of a connection that its client has closed.                    *)
RemoteCloseHandled ==
  \A c \in Conns : sock[c] = "open" /\ net[c] = "fin" ~> sock[c] = "closed"

=============================================================================
