-------------------------- MODULE ServerLifecycle --------------------------
(***************************************************************************)
(* mtcp_kvstore/kvstore.c: the life of the server process.  main() creates *)
(* the store and one thread per core, joins the threads and deletes the    *)
(* store.  SIGINT may reach any thread of the process; SignalHandler()     *)
(* marks the thread it runs on as done and passes the signal on to the     *)
(* others.  The packet counters, which the handler prints, are shared by   *)
(* the threads without a lock: an increment is a load and a store.         *)
(*                                                                         *)
(* What a thread serves is KVServer; here it is one packet a batch.        *)
(***************************************************************************)
EXTENDS Integers

CONSTANTS
  CoreLimit,   \* core_limit
  Main,        \* the thread that runs main()
  MayFail,     \* may set-up calls and mtcp_epoll_wait fail
  MaxSigints,  \* bound: SIGINTs sent to the process
  MaxPackets   \* bound: packets of each thread

ASSUME LifecycleAssumption ==
  /\ CoreLimit \in Nat \ {0}
  /\ Main \notin Nat
  /\ MayFail \in BOOLEAN
  /\ {MaxSigints, MaxPackets} \subseteq Nat

Threads   == 0..CoreLimit - 1
Processes == Threads \cup {Main}

VARIABLES
  process,    \* "up", "exited", or "crashed" by undefined behaviour
  main,       \* where main() is
  created,    \* i of main()'s loops
  store,      \* ptr_KVStore: "live", or "deleted"
  pc,         \* pc[t]: where RunServerThread is, or what became of thread t
  done,       \* done[]
  pending,    \* pending[t]: a pthread_kill is on its way to t
  nsig,       \* SIGINTs sent to the process
  hpos,       \* hpos[p]: i of SignalHandler's loop, -1 outside of it
  aim,        \* aim[p]: SignalHandler found done[hpos[p]] unset
  intr,       \* intr[t]: a signal reached t since its last mtcp_epoll_wait
  recvd,      \* num_pkts_recvd
  writ,       \* num_pkts_writ
  reg,        \* reg[t]: the register in which t increments a counter
  got,        \* got[t]: packets t has counted as received
  sent        \* sent[t]: packets t has counted as written

mainVars    == <<process, main, created, store>>
signalVars  == <<pending, nsig, hpos, aim>>
counterVars == <<recvd, writ, reg, got, sent>>
vars == <<mainVars, pc, done, signalVars, intr, counterVars>>

PcValues == {"none", "init", "loop", "wait", "read", "count", "process", "tally",
             "leave", "dead", "joined"}

TypeOK ==
  /\ process \in {"up", "exited", "crashed"}
  /\ main \in {"create", "join", "destroy", "return"}
  /\ created \in 0..CoreLimit
  /\ store \in {"live", "deleted"}
  /\ pc \in [Threads -> PcValues]
  /\ done \in [Threads -> BOOLEAN]
  /\ pending \in [Threads -> BOOLEAN]
  /\ nsig \in 0..MaxSigints
  /\ hpos \in [Processes -> -1..CoreLimit]
  /\ aim \in [Processes -> BOOLEAN]
  /\ intr \in [Threads -> BOOLEAN]
  /\ recvd \in Nat
  /\ writ \in Nat
  /\ reg \in [Threads -> Nat]
  /\ got \in [Threads -> Nat]
  /\ sent \in [Threads -> Nat]

(* kvstore_create() and mtcp_register_signal() are behind main(). *)
Init ==
  /\ process = "up"
  /\ main = "create"
  /\ created = 0
  /\ store = "live"
  /\ pc = [t \in Threads |-> "none"]
  /\ done = [t \in Threads |-> FALSE]
  /\ pending = [t \in Threads |-> FALSE]
  /\ nsig = 0
  /\ hpos = [p \in Processes |-> -1]
  /\ aim = [p \in Processes |-> FALSE]
  /\ intr = [t \in Threads |-> FALSE]
  /\ recvd = 0
  /\ writ = 0
  /\ reg = [t \in Threads |-> 0]
  /\ got = [t \in Threads |-> 0]
  /\ sent = [t \in Threads |-> 0]

(* A thread that exists and has not ended. *)
Alive(p) == IF p = Main THEN main # "return" ELSE pc[p] \notin {"none", "dead", "joined"}

(* A thread runs its own code while it is not inside SignalHandler. *)
Runs(p) == Alive(p) /\ hpos[p] = -1

-----------------------------------------------------------------------------
(* main(). *)

Exit == process' = "exited" /\ UNCHANGED <<main, created, store>>

(* Variant: one thread too many. *)
OneThreadMore == created <= CoreLimit

(* i < core_limit *)
MoreThreads == created < CoreLimit

CreateThread ==
  /\ Runs(Main)
  /\ main = "create"
  /\ \/ /\ MoreThreads
        /\ done' = [done EXCEPT ![created] = FALSE]
        /\ pc' = [pc EXCEPT ![created] = "init"]
        /\ created' = created + 1
        /\ UNCHANGED <<process, main, store>>
     \/ /\ ~ MoreThreads
        /\ main' = "join"
        /\ created' = 0
        /\ UNCHANGED <<process, store, pc, done>>
     \/ /\ MayFail
        /\ MoreThreads
        /\ Exit
        /\ done' = [done EXCEPT ![created] = FALSE]
        /\ UNCHANGED pc
  /\ UNCHANGED <<signalVars, intr, counterVars>>

(* Variant: main() does not wait for the threads. *)
JoinNone(t) == TRUE

(* pthread_join() waits for the end of the thread. *)
Joinable(t) == pc[t] = "dead"

JoinThread ==
  /\ Runs(Main)
  /\ main = "join"
  /\ IF MoreThreads
       THEN /\ Joinable(created)
            /\ pc' = [pc EXCEPT ![created] = IF @ = "dead" THEN "joined" ELSE @]
            /\ created' = created + 1
            /\ UNCHANGED main
       ELSE /\ main' = "destroy"
            /\ UNCHANGED <<pc, created>>
  /\ UNCHANGED <<process, store, done, signalVars, intr, counterVars>>

(* kvstore_destroy(), then the return from main(). *)
Destroy ==
  /\ Runs(Main)
  /\ main = "destroy"
  /\ IF store = "live"
       THEN store' = "deleted" /\ UNCHANGED <<process, main>>
       ELSE main' = "return" /\ process' = "exited" /\ UNCHANGED store
  /\ UNCHANGED <<created, pc, done, signalVars, intr, counterVars>>

-----------------------------------------------------------------------------
(* RunServerThread(). *)

Goto(t, from, to) ==
  /\ Runs(t)
  /\ pc[t] = from
  /\ pc' = [pc EXCEPT ![t] = to]

(* InitializeServerThread() may fail, which ends the thread, and so may    *)
(* CreateListeningSocket(), which ends the process.                        *)
InitThread(t) ==
  /\ \/ Goto(t, "init", "loop") /\ UNCHANGED mainVars
     \/ MayFail /\ Goto(t, "init", "dead") /\ UNCHANGED mainVars
     \/ MayFail /\ Runs(t) /\ pc[t] = "init" /\ Exit /\ UNCHANGED pc
  /\ UNCHANGED <<done, signalVars, intr, counterVars>>

(* while (!done[core]) *)
Loop(t) ==
  /\ \/ ~ done[t] /\ Goto(t, "loop", "wait")
     \/ done[t] /\ Goto(t, "loop", "leave")
  /\ UNCHANGED <<mainVars, done, signalVars, intr, counterVars>>

(* mtcp_epoll_wait() with no timeout sleeps until a signal, an error or    *)
(* events end it.  Any negative result leaves the loop.                    *)
EpollReturns(t, to) ==
  /\ Goto(t, "wait", to)
  /\ intr' = [intr EXCEPT ![t] = FALSE]
  /\ UNCHANGED <<mainVars, done, signalVars, counterVars>>

(* EINTR: the only one of the three that the thread can count on. *)
EpollInterrupted(t) == intr[t] /\ EpollReturns(t, "leave")

(* Errors and events may come, or the thread sleeps for ever. *)
EpollWakes(t) ==
  \/ MayFail /\ EpollReturns(t, "leave")
  \/ got[t] < MaxPackets /\ EpollReturns(t, "read")

(* num_pkts_recvd++, as a load and a store *)
LoadRecvd(t) ==
  /\ Goto(t, "read", "count")
  /\ reg' = [reg EXCEPT ![t] = recvd]
  /\ UNCHANGED <<mainVars, done, signalVars, intr, recvd, writ, got, sent>>

(* Variant: a packet read in two parts counts twice. *)
CountReads(t) == reg[t] + 2

CountOne(t) == reg[t] + 1

StoreRecvd(t) ==
  /\ Goto(t, "count", "process")
  /\ recvd' = CountOne(t)
  /\ got' = [got EXCEPT ![t] = @ + 1]
  /\ UNCHANGED <<mainVars, done, signalVars, intr, writ, reg, sent>>

(* kvstore_process_packet() uses *ptr_KVStore; then the reply is written  *)
(* and num_pkts_writ++ begins.                                             *)
ProcessPacket(t) ==
  /\ Goto(t, "process", "tally")
  /\ reg' = [reg EXCEPT ![t] = writ]
  /\ UNCHANGED <<mainVars, done, signalVars, intr, recvd, writ, got, sent>>

StoreWrit(t) ==
  /\ Goto(t, "tally", "loop")
  /\ writ' = CountOne(t)
  /\ sent' = [sent EXCEPT ![t] = @ + 1]
  /\ UNCHANGED <<mainVars, done, signalVars, intr, recvd, reg, got>>

(* mtcp_destroy_context() and pthread_exit() *)
Leave(t) ==
  /\ Goto(t, "leave", "dead")
  /\ UNCHANGED <<mainVars, done, signalVars, intr, counterVars>>

-----------------------------------------------------------------------------
(* SIGINT. *)

(* The handler starts, on top of whatever the thread was doing.  SIGINT    *)
(* stays blocked until it returns.                                         *)
EnterHandler(p) ==
  /\ Runs(p)
  /\ hpos' = [hpos EXCEPT ![p] = 0]
  /\ intr' = IF p = Main THEN intr ELSE [intr EXCEPT ![p] = TRUE]
  /\ UNCHANGED <<mainVars, pc, done, aim, counterVars>>

(* A SIGINT for the process is taken by one of its threads that do not     *)
(* block it, whichever the kernel chooses.                                 *)
Sigint ==
  /\ nsig < MaxSigints
  /\ nsig' = nsig + 1
  /\ \E p \in Processes : EnterHandler(p)
  /\ UNCHANGED pending

(* One that pthread_kill has sent is for its thread alone. *)
HandlerStart(t) ==
  /\ pending[t]
  /\ pending' = [pending EXCEPT ![t] = FALSE]
  /\ EnterHandler(t)
  /\ UNCHANGED nsig

(* Variant: the handler passes the signal on to nobody. *)
NotifyNone(t) == FALSE

ToNotify(t) == ~ done[t]

(* Variant: the handler marks every thread itself. *)
MarkAll(p, i) == TRUE

(* app_thread[i] == pthread_self() *)
Mark(p, i) == i = p

(* One round of the loop: app_thread[i] is this thread, or its done[i] is  *)
(* looked at.                                                              *)
HandlerTest(p) ==
  LET i == hpos[p]
  IN  /\ i \in Threads
      /\ ~ aim[p]
      /\ done' = [done EXCEPT ![i] = @ \/ Mark(p, i)]
      /\ IF ~ Mark(p, i) /\ ToNotify(i)
           THEN aim' = [aim EXCEPT ![p] = TRUE] /\ UNCHANGED hpos
           ELSE hpos' = [hpos EXCEPT ![p] = i + 1] /\ UNCHANGED aim
      /\ UNCHANGED <<mainVars, pc, pending, nsig, intr, counterVars>>

(* pthread_kill(app_thread[i]), some time after the look at done[i].  For  *)
(* a thread that is not created yet or joined already app_thread[i] is no  *)
(* thread: nothing happens, or the process crashes.                        *)
HandlerKill(p) ==
  LET i == hpos[p]
  IN  /\ aim[p]
      /\ aim' = [aim EXCEPT ![p] = FALSE]
      /\ hpos' = [hpos EXCEPT ![p] = i + 1]
      /\ pending' = [pending EXCEPT ![i] = Alive(i)]
      /\ \/ UNCHANGED process
         \/ pc[i] \in {"none", "joined"} /\ process' = "crashed"
      /\ UNCHANGED <<main, created, store, pc, done, nsig, intr, counterVars>>

HandlerReturn(p) ==
  /\ hpos[p] = CoreLimit
  /\ hpos' = [hpos EXCEPT ![p] = -1]
  /\ UNCHANGED <<mainVars, pc, done, pending, nsig, aim, intr, counterVars>>

HandlerStep(p) ==
  \/ p \in Threads /\ HandlerStart(p)
  \/ HandlerTest(p)
  \/ HandlerKill(p)
  \/ HandlerReturn(p)

-----------------------------------------------------------------------------

MainStep == CreateThread \/ JoinThread \/ Destroy

ThreadStep(t) ==
  \/ InitThread(t)
  \/ Loop(t)
  \/ EpollInterrupted(t)
  \/ LoadRecvd(t)
  \/ StoreRecvd(t)
  \/ ProcessPacket(t)
  \/ StoreWrit(t)
  \/ Leave(t)

(* The process is over. *)
Over == process # "up" /\ UNCHANGED vars

Next ==
  \/ process = "up" /\ MainStep
  \/ process = "up" /\ Sigint
  \/ \E t \in Threads : process = "up" /\ (ThreadStep(t) \/ EpollWakes(t))
  \/ \E p \in Processes : process = "up" /\ HandlerStep(p)
  \/ Over

(* The scheduler runs every thread; a pending signal is delivered.  Nobody *)
(* need send a packet or a SIGINT, and a thread in mtcp_epoll_wait need    *)
(* not see it fail.                                                        *)
Fairness ==
  /\ WF_vars(process = "up" /\ MainStep)
  /\ \A t \in Threads : WF_vars(process = "up" /\ ThreadStep(t))
  /\ \A p \in Processes : WF_vars(process = "up" /\ HandlerStep(p))

Spec == Init /\ [][Next]_vars /\ Fairness

-----------------------------------------------------------------------------
(* The store is deleted only when every thread has ended, so no thread     *)
(* uses it afterwards, however the signal and the failures fall.           *)
InvStore ==
  store = "deleted" =>
    /\ main \in {"destroy", "return"}
    /\ \A t \in Threads : pc[t] = "joined"

(* No lost wake-up: a thread that is marked done and has already passed    *)
(* the test of its loop does not sleep in mtcp_epoll_wait, because the     *)
(* signal that marked it reached the thread itself.                        *)
InvDone ==
  \A t \in Threads : done[t] /\ pc[t] = "wait" => intr[t]

(* The counters the handler prints are never too large: increments are     *)
(* lost only while two threads serve, and one that serves alone counts     *)
(* exactly.                                                                *)
Serving(t) == got[t] > 0 \/ pc[t] \in {"read", "count"}

Sums(count) ==
  LET sum[n \in 0..CoreLimit] == IF n = 0 THEN 0 ELSE sum[n - 1] + count[n - 1]
  IN  sum

Total(count) == Sums(count)[CoreLimit]

InvCounts ==
  /\ recvd <= Total(got)
  /\ writ <= Total(sent)
  /\ \A t \in Threads :
       (\A u \in Threads \ {t} : ~ Serving(u)) => recvd = got[t] /\ writ = sent[t]

(* A SIGINT that any thread begins to handle, once all are created, ends   *)
(* the process: the others must hear of it, though they may sleep in       *)
(* mtcp_epoll_wait where nothing else wakes them, have ended early, or be  *)
(* in the handler themselves.                                              *)
Stops == (main = "join" /\ \E p \in Processes : hpos[p] = 0) ~> process # "up"

=============================================================================
