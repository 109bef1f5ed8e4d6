----------------------------- MODULE WorkerPool -----------------------------
(***************************************************************************)
(* server-5204/util/thread.h: WorkerPool, with the two queues it is built  *)
(* from.  Jobs go through a Queue, a mutex and a condition variable, to    *)
(* the workers; results go through a SelectableQueue, a mutex and a pipe   *)
(* that holds one byte for each result, to a single reader.  stop()        *)
(* cancels the workers.                                                    *)
(***************************************************************************)
EXTENDS Integers, Sequences, FiniteSets

CONSTANTS
  Workers,      \* the threads start() creates
  Producers,    \* threads that call push()
  Reader,       \* the thread that calls pop()
  Jobs,         \* the jobs, each pushed once
  None,         \* no job, or nobody
  PipeCap,      \* bytes the pipe holds
  MaxSpurious,  \* bound: wake-ups of pthread_cond_wait without a signal
  MayFail,      \* may pthread_create fail
  MayStop       \* is stop() called

ASSUME PoolAssumption ==
  /\ PipeCap \in Nat \ {0}
  /\ MaxSpurious \in Nat
  /\ {MayFail, MayStop} \subseteq BOOLEAN
  /\ IsFiniteSet(Workers) /\ IsFiniteSet(Producers)
  /\ Workers \cap Producers = {}
  /\ {Reader, None} \cap (Workers \cup Producers \cup Jobs) = {}
  /\ Reader # None

Threads == Workers \cup Producers \cup {Reader}

VARIABLES
  items,       \* items of the Queue of jobs
  mutex,       \* who holds its mutex, or None
  results,     \* items of the SelectableQueue
  rmutex,      \* who holds its mutex, or None
  bytes,       \* bytes in its pipe
  pc,          \* pc[t]: where thread t is
  job,         \* job[t]: the job thread t holds, or None
  cancelled,   \* workers for which stop() called pthread_cancel
  popped,      \* results the reader got, in order
  spurious     \* wake-ups without a signal

queueVars  == <<items, mutex>>
resultVars == <<results, rmutex, bytes, popped>>
vars == <<queueVars, resultVars, pc, job, cancelled, spurious>>

(* "dead" is a worker that was cancelled, or was never created. *)
PcValues ==
  {"none", "lock", "test", "wait", "relock", "front", "pop", "proc", "rlock", "rpush",
   "rwrite", "unwind", "dead", "idle", "push", "signal", "read", "rtake", "error"}

TypeOK ==
  /\ items \in Seq(Jobs)
  /\ mutex \in Workers \cup Producers \cup {None}
  /\ results \in Seq(Jobs)
  /\ rmutex \in Workers \cup {Reader, None}
  /\ bytes \in 0..PipeCap
  /\ pc \in [Threads -> PcValues]
  /\ job \in [Threads -> Jobs \cup {None}]
  /\ cancelled \subseteq Workers
  /\ popped \in Seq(Jobs)
  /\ spurious \in 0..MaxSpurious

Init ==
  /\ items = <<>>
  /\ mutex = None
  /\ results = <<>>
  /\ rmutex = None
  /\ bytes = 0
  /\ pc = [t \in Threads |-> IF t \in Workers THEN "none"
                             ELSE IF t \in Producers THEN "idle" ELSE "read"]
  /\ job = [t \in Threads |-> None]
  /\ cancelled = {}
  /\ popped = <<>>
  /\ spurious = 0

Goto(t, from, to) == pc[t] = from /\ pc' = [pc EXCEPT ![t] = to]

-----------------------------------------------------------------------------
(* Queue::push(). *)

(* Variant: the mutex is forgotten. *)
AlwaysFree == TRUE

Free == mutex = None

PushLock(p) ==
  /\ Free
  /\ Goto(p, "idle", "push")
  /\ mutex' = p
  /\ LET inside == {job[t] : t \in Threads}
         done   == {popped[i] : i \in DOMAIN popped}
         queued == {items[i] : i \in DOMAIN items} \cup {results[i] : i \in DOMAIN results}
     IN  \E j \in Jobs \ (inside \cup done \cup queued) : job' = [job EXCEPT ![p] = j]
  /\ UNCHANGED <<items, resultVars, cancelled, spurious>>

PushItem(p) ==
  /\ Goto(p, "push", "signal")
  /\ items' = Append(items, job[p])
  /\ job' = [job EXCEPT ![p] = None]
  /\ mutex' = None
  /\ UNCHANGED <<resultVars, cancelled, spurious>>

(* A cancelled thread takes no signal. *)
Waiting == {w \in Workers \ cancelled : pc[w] = "wait"}

(* Variant: the condition is signalled for the first item only. *)
SignalFirst(p) == IF Len(items) = 1 THEN Waiting ELSE {}

Signalled(p) == Waiting

(* pthread_cond_signal(), after the mutex is free. *)
Signal(p) ==
  /\ pc[p] = "signal"
  /\ IF Signalled(p) = {}
       THEN pc' = [pc EXCEPT ![p] = "idle"]
       ELSE \E w \in Signalled(p) : pc' = [pc EXCEPT ![p] = "idle", ![w] = "relock"]
  /\ UNCHANGED <<queueVars, resultVars, job, cancelled, spurious>>

-----------------------------------------------------------------------------
(* Queue::pop(), called by the workers. *)

(* start(): a thread that cannot be created is left out. *)
StartWorker(w) ==
  /\ \/ Goto(w, "none", "lock")
     \/ MayFail /\ Goto(w, "none", "dead")
  /\ UNCHANGED <<queueVars, resultVars, job, cancelled, spurious>>

(* The mutex is taken, or taken again by pthread_cond_wait. *)
PopLock(w) ==
  /\ Free
  /\ Goto(w, "lock", "test") \/ Goto(w, "relock", "test")
  /\ mutex' = w
  /\ UNCHANGED <<items, resultVars, job, cancelled, spurious>>

(* while(items.empty()): waiting gives the mutex free. *)
PopTest(w) ==
  /\ IF items = <<>>
       THEN Goto(w, "test", "wait") /\ mutex' = None
       ELSE Goto(w, "test", "front") /\ UNCHANGED mutex
  /\ UNCHANGED <<items, resultVars, job, cancelled, spurious>>

Spurious(w) ==
  /\ w \notin cancelled
  /\ spurious < MaxSpurious
  /\ Goto(w, "wait", "relock")
  /\ spurious' = spurious + 1
  /\ UNCHANGED <<queueVars, resultVars, job, cancelled>>

(* items.front(), which would be anything if the queue were empty. *)
Front(w) ==
  /\ Goto(w, "front", "pop")
  /\ \E j \in Jobs :
       /\ items # <<>> => j = Head(items)
       /\ job' = [job EXCEPT ![w] = j]
  /\ UNCHANGED <<queueVars, resultVars, cancelled, spurious>>

PopItem(w) ==
  /\ Goto(w, "pop", "proc")
  /\ items' = SubSeq(items, 2, Len(items))
  /\ mutex' = None
  /\ UNCHANGED <<resultVars, job, cancelled, spurious>>

-----------------------------------------------------------------------------
(* _run_worker(): the job is processed, and SelectableQueue::push() called *)
(* for its result.                                                         *)

Proc(w) ==
  /\ Goto(w, "proc", "rlock")
  /\ UNCHANGED <<queueVars, resultVars, job, cancelled, spurious>>

ResultLock(w) ==
  /\ rmutex = None
  /\ Goto(w, "rlock", "rpush")
  /\ rmutex' = w
  /\ UNCHANGED <<queueVars, results, bytes, popped, job, cancelled, spurious>>

ResultPush(w) ==
  /\ Goto(w, "rpush", "rwrite")
  /\ results' = Append(results, job[w])
  /\ job' = [job EXCEPT ![w] = None]
  /\ UNCHANGED <<queueVars, rmutex, bytes, popped, cancelled, spurious>>

(* Variant: a byte is written for the first item only. *)
TokenFirst(q) == IF Len(q) = 1 THEN 1 ELSE 0

(* Variant: the terminating zero is written, too. *)
TokenString(q) == 2

Token(q) == 1

(* write() blocks, with the mutex held, while the pipe is full. *)
ResultWrite(w) ==
  /\ w \notin cancelled
  /\ bytes < PipeCap
  /\ Goto(w, "rwrite", "lock")
  /\ bytes' = bytes + Token(results)
  /\ rmutex' = None
  /\ UNCHANGED <<queueVars, results, popped, job, cancelled, spurious>>

-----------------------------------------------------------------------------
(* SelectableQueue::pop(), by the single reader. *)

Read ==
  /\ bytes > 0
  /\ Goto(Reader, "read", "rlock")
  /\ bytes' = bytes - 1
  /\ UNCHANGED <<queueVars, results, rmutex, popped, job, cancelled, spurious>>

ReaderLock ==
  /\ rmutex = None
  /\ Goto(Reader, "rlock", "rtake")
  /\ rmutex' = Reader
  /\ UNCHANGED <<queueVars, results, bytes, popped, job, cancelled, spurious>>

(* items.empty() is an error. *)
ReaderTake ==
  /\ rmutex' = None
  /\ IF results = <<>>
       THEN Goto(Reader, "rtake", "error") /\ UNCHANGED <<results, popped>>
       ELSE /\ Goto(Reader, "rtake", "read")
            /\ popped' = Append(popped, Head(results))
            /\ results' = Tail(results)
  /\ UNCHANGED <<queueVars, bytes, job, cancelled, spurious>>

-----------------------------------------------------------------------------
(* stop(): pthread_cancel() for every worker; nobody waits for them.       *)
(* pthread_cond_wait takes the mutex again before the thread ends, write() *)
(* and perhaps proc() end it where it is.  No mutex is unlocked.           *)

Cancel(w) ==
  /\ MayStop
  /\ pc[w] # "none"
  /\ cancelled' = cancelled \cup {w}
  /\ UNCHANGED <<queueVars, resultVars, pc, job, spurious>>

Unwind(w) ==
  /\ w \in cancelled
  /\ Goto(w, "wait", "unwind")
  /\ UNCHANGED <<queueVars, resultVars, job, cancelled, spurious>>

DieWaiting(w) ==
  /\ Free
  /\ Goto(w, "unwind", "dead")
  /\ mutex' = w
  /\ UNCHANGED <<items, resultVars, job, cancelled, spurious>>

DieWorking(w) ==
  /\ w \in cancelled
  /\ Goto(w, "proc", "dead") \/ Goto(w, "rwrite", "dead")
  /\ UNCHANGED <<queueVars, resultVars, job, cancelled, spurious>>

-----------------------------------------------------------------------------

ProducerStep(p) == PushItem(p) \/ Signal(p)

WorkerStep(w) ==
  \/ PopLock(w)
  \/ PopTest(w)
  \/ Front(w)
  \/ PopItem(w)
  \/ Proc(w)
  \/ ResultLock(w)
  \/ ResultPush(w)
  \/ ResultWrite(w)
  \/ Unwind(w)
  \/ DieWaiting(w)
  \/ DieWorking(w)

ReaderStep == Read \/ ReaderLock \/ ReaderTake

Next ==
  \/ \E p \in Producers : PushLock(p) \/ ProducerStep(p)
  \/ \E w \in Workers : StartWorker(w) \/ WorkerStep(w) \/ Spurious(w) \/ Cancel(w)
  \/ ReaderStep

(* The scheduler runs every thread, start() is called, and the reader      *)
(* calls pop() for ever.  Whether and when to push is up to the producers. *)
Fairness ==
  /\ \A p \in Producers : WF_vars(ProducerStep(p))
  /\ \A w \in Workers : WF_vars(StartWorker(w)) /\ WF_vars(WorkerStep(w))
  /\ WF_vars(ReaderStep)

Spec == Init /\ [][Next]_vars /\ Fairness

-----------------------------------------------------------------------------
(* The bytes in the pipe count the results: each result has a byte that is *)
(* in the pipe, that the reader holds, or that is about to be written.  So *)
(* pop() never finds the queue empty after it got a byte.                  *)
InvBytes ==
  LET held == IF pc[Reader] \in {"rlock", "rtake"} THEN 1 ELSE 0
      unwritten == IF rmutex \in Workers /\ pc[rmutex] \in {"rwrite", "dead"} THEN 1 ELSE 0
  IN  pc[Reader] # "error" /\ bytes + held + unwritten = Len(results)

(* No lost wake-up: while workers wait, there is for each queued job a     *)
(* signal still to be sent, or a worker on its way to look at the queue.   *)
Coming == {w \in Workers : pc[w] \in {"lock", "relock", "test", "front", "pop"}}

InvWake ==
  Waiting # {} =>
    Len(items) <= Cardinality({p \in Producers : pc[p] = "signal"}) + Cardinality(Coming)

(* Jobs are neither lost nor run twice, and their order is kept. *)
Working == {job[w] : w \in {v \in Workers : pc[v] \in {"proc", "rlock", "rpush", "dead"}}} \ {None}

Pool == INSTANCE JobPool WITH
          queued <- items, working <- Working, finished <- results, delivered <- popped

Implements == Pool!PoolSpec

(* A job in the queue comes out as a result, unless stop() is called or no *)
(* worker could be created.                                                *)
Delivered ==
  \A j \in Jobs :
    (\E i \in DOMAIN items : items[i] = j)
      ~> \/ \E i \in DOMAIN popped : popped[i] = j
         \/ cancelled # {}
         \/ \A w \in Workers : pc[w] = "dead"

=============================================================================
