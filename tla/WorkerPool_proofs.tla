-------------------------- MODULE WorkerPool_proofs --------------------------
(***************************************************************************)
(* Proofs about WorkerPool, for any number of workers, producers and jobs, *)
(* and any size of the pipe: its invariants, and that it implements        *)
(* JobPool.                                                                *)
(***************************************************************************)
EXTENDS WorkerPool, FiniteSetTheorems, SequenceTheorems, TLAPS

LEMMA SortsOfThreads ==
  /\ Threads = Workers \cup Producers \cup {Reader}
  /\ Reader \notin Workers \cup Producers /\ Workers \cap Producers = {}
  /\ None \notin Threads /\ None \notin Jobs
  /\ PipeCap \in Nat \ {0} /\ MaxSpurious \in Nat
  BY PoolAssumption DEF Threads

(* Each sort of thread has its places, *)
WorkerPlaces ==
  {"none", "lock", "test", "wait", "relock", "front", "pop", "proc", "rlock", "rpush",
   "rwrite", "unwind", "dead"}

InvPlaces ==
  /\ \A w \in Workers : pc[w] \in WorkerPlaces
  /\ \A p \in Producers : pc[p] \in {"idle", "push", "signal"}
  /\ pc[Reader] \in {"read", "rlock", "rtake", "error"}

(* some of them with a job, *)
HoldsJob == {"push", "pop", "proc", "rlock", "rpush"}

InvJob ==
  \A t \in Threads :
    /\ t # Reader /\ pc[t] \in HoldsJob => job[t] \in Jobs
    /\ t = Reader \/ pc[t] \notin HoldsJob \cup {"dead"} => job[t] = None

(* and some with a mutex. *)
InvMutex ==
  \A t \in Threads :
    /\ pc[t] \in {"test", "front", "pop", "push"} => mutex = t
    /\ pc[t] \in {"rpush", "rwrite", "rtake"} => rmutex = t
    /\ rmutex = t => pc[t] \in {"rpush", "rwrite", "rtake", "dead"}

PoolInv == TypeOK /\ InvPlaces /\ InvJob /\ InvMutex

LEMMA PoolInitInv == Init => PoolInv
  <1> SUFFICES ASSUME Init PROVE PoolInv
    OBVIOUS
  <1> USE SortsOfThreads
  <1>1. TypeOK
    BY DEF Init, TypeOK, PcValues
  <1>2. InvPlaces /\ InvJob /\ InvMutex
    BY DEF Init, InvPlaces, InvJob, InvMutex, WorkerPlaces, HoldsJob
  <1> QED
    BY <1>1, <1>2 DEF PoolInv

(* A thread that goes to another place. *)
LEMMA GotoFacts ==
  ASSUME PoolInv, NEW t \in Threads, NEW from, NEW to \in PcValues, Goto(t, from, to)
  PROVE  /\ pc' \in [Threads -> PcValues]
         /\ pc[t] = from /\ pc'[t] = to
         /\ \A u \in Threads \ {t} : pc'[u] = pc[u]
  BY DEF PoolInv, TypeOK, Goto

-----------------------------------------------------------------------------
LEMMA PushLockInv ==
  ASSUME PoolInv, NEW p \in Producers, PushLock(p)
  PROVE  PoolInv'
  <1> USE SortsOfThreads
  <1>1. PICK j \in Jobs : job' = [job EXCEPT ![p] = j]
    BY DEF PushLock
  <1>2. /\ mutex = None /\ mutex' = p /\ Goto(p, "idle", "push")
        /\ UNCHANGED <<items, results, rmutex, bytes, popped, cancelled, spurious>>
    BY DEF PushLock, Free, resultVars
  <1>3. /\ pc' \in [Threads -> PcValues] /\ pc[p] = "idle" /\ pc'[p] = "push"
        /\ \A u \in Threads \ {p} : pc'[u] = pc[u]
    BY <1>2, GotoFacts DEF PcValues
  <1>4. TypeOK'
    BY <1>1, <1>2, <1>3 DEF PoolInv, TypeOK
  <1>5. InvPlaces' /\ InvMutex'
    BY <1>2, <1>3 DEF PoolInv, InvPlaces, InvMutex
  <1>6. InvJob'
    BY <1>1, <1>3 DEF PoolInv, TypeOK, InvJob, HoldsJob
  <1> QED
    BY <1>4, <1>5, <1>6 DEF PoolInv

LEMMA PushItemInv ==
  ASSUME PoolInv, NEW p \in Producers, PushItem(p)
  PROVE  PoolInv'
  <1> USE SortsOfThreads
  <1>1. /\ items' = Append(items, job[p]) /\ job' = [job EXCEPT ![p] = None] /\ mutex' = None
        /\ UNCHANGED <<results, rmutex, bytes, popped, cancelled, spurious>>
    BY DEF PushItem, resultVars
  <1>2. /\ pc' \in [Threads -> PcValues] /\ pc[p] = "push" /\ pc'[p] = "signal"
        /\ \A u \in Threads \ {p} : pc'[u] = pc[u]
    BY GotoFacts DEF PushItem, PcValues
  <1>3. job[p] \in Jobs /\ mutex = p
    BY <1>2 DEF PoolInv, InvJob, InvMutex, HoldsJob
  <1>4. TypeOK'
    BY <1>1, <1>2, <1>3 DEF PoolInv, TypeOK
  <1>5. InvPlaces' /\ InvMutex'
    BY <1>1, <1>2, <1>3 DEF PoolInv, InvPlaces, InvMutex
  <1>6. InvJob'
    BY <1>1, <1>2 DEF PoolInv, TypeOK, InvJob, HoldsJob
  <1> QED
    BY <1>4, <1>5, <1>6 DEF PoolInv

LEMMA SignalInv ==
  ASSUME PoolInv, NEW p \in Producers, Signal(p)
  PROVE  PoolInv'
  <1> USE SortsOfThreads
  <1>1. /\ pc[p] = "signal"
        /\ UNCHANGED <<items, mutex, results, rmutex, bytes, popped, job, cancelled, spurious>>
    BY DEF Signal, queueVars, resultVars
  <1>2. /\ pc' \in [Threads -> PcValues] /\ pc'[p] = "idle"
        /\ \A u \in Threads \ {p} :
             pc'[u] = pc[u] \/ (u \in Workers /\ pc[u] = "wait" /\ pc'[u] = "relock")
    <2>1. CASE Signalled(p) = {}
      BY <2>1 DEF Signal, PoolInv, TypeOK, PcValues
    <2>2. CASE Signalled(p) # {}
      <3>1. PICK w \in Waiting : pc' = [pc EXCEPT ![p] = "idle", ![w] = "relock"]
        BY <2>2 DEF Signal, Signalled
      <3>2. w \in Workers /\ w # p /\ pc[w] = "wait"
        BY DEF Waiting
      <3> QED
        BY <3>1, <3>2 DEF PoolInv, TypeOK, PcValues
    <2> QED
      BY <2>1, <2>2
  <1>3. TypeOK'
    BY <1>1, <1>2 DEF PoolInv, TypeOK
  <1>4. InvPlaces' /\ InvMutex'
    BY <1>1, <1>2 DEF PoolInv, InvPlaces, InvMutex, WorkerPlaces
  <1>5. InvJob'
    BY <1>1, <1>2 DEF PoolInv, InvJob, HoldsJob
  <1> QED
    BY <1>3, <1>4, <1>5 DEF PoolInv

(* The steps of a worker that keep the queues. *)
LEMMA WorkerMovesInv ==
  ASSUME PoolInv, NEW w \in Workers,
         \/ StartWorker(w) \/ PopLock(w) \/ PopTest(w) \/ Spurious(w) \/ Front(w) \/ Proc(w)
         \/ ResultLock(w) \/ Cancel(w) \/ Unwind(w) \/ DieWaiting(w) \/ DieWorking(w)
  PROVE  PoolInv'
  <1> USE SortsOfThreads
  <1>1. UNCHANGED <<items, results, bytes, popped>>
    BY DEF StartWorker, PopLock, PopTest, Spurious, Front, Proc, ResultLock, Cancel, Unwind,
           DieWaiting, DieWorking, queueVars, resultVars
  <1>2. /\ cancelled' \subseteq Workers /\ spurious' \in 0..MaxSpurious
    BY DEF StartWorker, PopLock, PopTest, Spurious, Front, Proc, ResultLock, Cancel, Unwind,
           DieWaiting, DieWorking, PoolInv, TypeOK
  <1>3. CASE /\ StartWorker(w) \/ Spurious(w) \/ Proc(w) \/ Unwind(w) \/ DieWorking(w)
    <2>1. UNCHANGED <<mutex, rmutex, job>>
      BY <1>3 DEF StartWorker, Spurious, Proc, Unwind, DieWorking, queueVars, resultVars
    <2>2. /\ pc' \in [Threads -> PcValues]
          /\ \A u \in Threads \ {w} : pc'[u] = pc[u]
          /\ \/ pc[w] = "none" /\ pc'[w] \in {"lock", "dead"}
             \/ pc[w] = "wait" /\ pc'[w] \in {"relock", "unwind"}
             \/ pc[w] = "proc" /\ pc'[w] \in {"rlock", "dead"}
             \/ pc[w] = "rwrite" /\ pc'[w] = "dead"
      BY <1>3, GotoFacts DEF StartWorker, Spurious, Proc, Unwind, DieWorking, PcValues
    <2>3. TypeOK'
      BY <1>1, <1>2, <2>1, <2>2 DEF PoolInv, TypeOK
    <2>4. InvPlaces' /\ InvMutex'
      BY <2>1, <2>2 DEF PoolInv, InvPlaces, InvMutex, WorkerPlaces
    <2>5. InvJob'
      BY <2>1, <2>2 DEF PoolInv, InvJob, HoldsJob
    <2> QED
      BY <2>3, <2>4, <2>5 DEF PoolInv
  <1>4. CASE PopLock(w) \/ PopTest(w) \/ DieWaiting(w)
    <2>1. UNCHANGED <<rmutex, job>>
      BY <1>4 DEF PopLock, PopTest, DieWaiting, resultVars
    <2>2. /\ pc' \in [Threads -> PcValues]
          /\ \A u \in Threads \ {w} : pc'[u] = pc[u]
          /\ \/ pc[w] \in {"lock", "relock"} /\ pc'[w] = "test" /\ mutex = None /\ mutex' = w
             \/ pc[w] = "test" /\ pc'[w] = "wait" /\ mutex' = None
             \/ pc[w] = "test" /\ pc'[w] = "front" /\ mutex' = mutex
             \/ pc[w] = "unwind" /\ pc'[w] = "dead" /\ mutex = None /\ mutex' = w
      <3>1. CASE PopLock(w)
        BY <3>1, GotoFacts DEF PopLock, Free, PcValues
      <3>2. CASE PopTest(w)
        BY <3>2, GotoFacts DEF PopTest, PcValues
      <3>3. CASE DieWaiting(w)
        BY <3>3, GotoFacts DEF DieWaiting, Free, PcValues
      <3> QED
        BY <1>4, <3>1, <3>2, <3>3
    <2>3. TypeOK'
      BY <1>1, <1>2, <2>1, <2>2 DEF PoolInv, TypeOK
    <2>4. InvPlaces' /\ InvMutex'
      BY <2>1, <2>2 DEF PoolInv, InvPlaces, InvMutex, WorkerPlaces
    <2>5. InvJob'
      BY <2>1, <2>2 DEF PoolInv, InvJob, HoldsJob
    <2> QED
      BY <2>3, <2>4, <2>5 DEF PoolInv
  <1>5. CASE Front(w)
    <2>1. /\ UNCHANGED <<mutex, rmutex>> /\ \E j \in Jobs : job' = [job EXCEPT ![w] = j]
      BY <1>5 DEF Front, queueVars, resultVars
    <2>2. /\ pc' \in [Threads -> PcValues] /\ pc[w] = "front" /\ pc'[w] = "pop"
          /\ \A u \in Threads \ {w} : pc'[u] = pc[u]
      BY <1>5, GotoFacts DEF Front, PcValues
    <2>3. TypeOK'
      BY <1>1, <1>2, <2>1, <2>2 DEF PoolInv, TypeOK
    <2>4. InvPlaces' /\ InvMutex'
      BY <2>1, <2>2 DEF PoolInv, InvPlaces, InvMutex, WorkerPlaces
    <2>5. InvJob'
      BY <2>1, <2>2 DEF PoolInv, TypeOK, InvJob, HoldsJob
    <2> QED
      BY <2>3, <2>4, <2>5 DEF PoolInv
  <1>6. CASE ResultLock(w)
    <2>1. /\ UNCHANGED <<mutex, job>> /\ rmutex = None /\ rmutex' = w
      BY <1>6 DEF ResultLock, queueVars
    <2>2. /\ pc' \in [Threads -> PcValues] /\ pc[w] = "rlock" /\ pc'[w] = "rpush"
          /\ \A u \in Threads \ {w} : pc'[u] = pc[u]
      BY <1>6, GotoFacts DEF ResultLock, PcValues
    <2>3. TypeOK'
      BY <1>1, <1>2, <2>1, <2>2 DEF PoolInv, TypeOK
    <2>4. InvPlaces' /\ InvMutex'
      BY <2>1, <2>2 DEF PoolInv, InvPlaces, InvMutex, WorkerPlaces
    <2>5. InvJob'
      BY <2>1, <2>2 DEF PoolInv, InvJob, HoldsJob
    <2> QED
      BY <2>3, <2>4, <2>5 DEF PoolInv
  <1>7. CASE Cancel(w)
    BY <1>1, <1>2, <1>7 DEF Cancel, queueVars, resultVars, PoolInv, TypeOK, InvPlaces, InvJob,
       InvMutex
  <1> QED
    BY <1>3, <1>4, <1>5, <1>6, <1>7

(* The first item is taken off; an empty queue stays empty. *)
LEMMA WithoutFirst ==
  ASSUME NEW q \in Seq(Jobs)
  PROVE  /\ SubSeq(q, 2, Len(q)) \in Seq(Jobs)
         /\ Len(SubSeq(q, 2, Len(q))) = IF q = <<>> THEN 0 ELSE Len(q) - 1
         /\ q # <<>> => SubSeq(q, 2, Len(q)) = Tail(q)
  <1>1. CASE q = <<>>
    BY <1>1, SubSeqEmpty
  <1>2. CASE q # <<>>
    <2>1. SubSeq(q, 2, Len(q)) = Tail(q)
      BY <1>2, TailIsSubSeq
    <2> QED
      BY <1>2, <2>1, HeadTailProperties
  <1> QED
    BY <1>1, <1>2

LEMMA PopItemInv ==
  ASSUME PoolInv, NEW w \in Workers, PopItem(w)
  PROVE  PoolInv'
  <1> USE SortsOfThreads
  <1>1. /\ items' = SubSeq(items, 2, Len(items)) /\ mutex' = None
        /\ UNCHANGED <<results, rmutex, bytes, popped, job, cancelled, spurious>>
    BY DEF PopItem, resultVars
  <1>2. /\ pc' \in [Threads -> PcValues] /\ pc[w] = "pop" /\ pc'[w] = "proc"
        /\ \A u \in Threads \ {w} : pc'[u] = pc[u]
    BY GotoFacts DEF PopItem, PcValues
  <1>3. mutex = w
    BY <1>2 DEF PoolInv, InvMutex
  <1>4. items' \in Seq(Jobs)
    BY <1>1, WithoutFirst DEF PoolInv, TypeOK
  <1>5. TypeOK'
    BY <1>1, <1>2, <1>4 DEF PoolInv, TypeOK
  <1>6. InvPlaces' /\ InvMutex'
    BY <1>1, <1>2, <1>3 DEF PoolInv, InvPlaces, InvMutex, WorkerPlaces
  <1>7. InvJob'
    BY <1>1, <1>2 DEF PoolInv, InvJob, HoldsJob
  <1> QED
    BY <1>5, <1>6, <1>7 DEF PoolInv

LEMMA ResultPushInv ==
  ASSUME PoolInv, NEW w \in Workers, ResultPush(w)
  PROVE  PoolInv'
  <1> USE SortsOfThreads
  <1>1. /\ results' = Append(results, job[w]) /\ job' = [job EXCEPT ![w] = None]
        /\ UNCHANGED <<items, mutex, rmutex, bytes, popped, cancelled, spurious>>
    BY DEF ResultPush, queueVars
  <1>2. /\ pc' \in [Threads -> PcValues] /\ pc[w] = "rpush" /\ pc'[w] = "rwrite"
        /\ \A u \in Threads \ {w} : pc'[u] = pc[u]
    BY GotoFacts DEF ResultPush, PcValues
  <1>3. job[w] \in Jobs
    BY <1>2 DEF PoolInv, InvJob, HoldsJob
  <1>4. TypeOK'
    BY <1>1, <1>2, <1>3 DEF PoolInv, TypeOK
  <1>5. InvPlaces' /\ InvMutex'
    BY <1>1, <1>2 DEF PoolInv, InvPlaces, InvMutex, WorkerPlaces
  <1>6. InvJob'
    BY <1>1, <1>2 DEF PoolInv, TypeOK, InvJob, HoldsJob
  <1> QED
    BY <1>4, <1>5, <1>6 DEF PoolInv

LEMMA ResultWriteInv ==
  ASSUME PoolInv, NEW w \in Workers, ResultWrite(w)
  PROVE  PoolInv'
  <1> USE SortsOfThreads
  <1>1. /\ bytes < PipeCap /\ bytes' = bytes + 1 /\ rmutex' = None
        /\ UNCHANGED <<items, mutex, results, popped, job, cancelled, spurious>>
    BY DEF ResultWrite, queueVars, Token
  <1>2. /\ pc' \in [Threads -> PcValues] /\ pc[w] = "rwrite" /\ pc'[w] = "lock"
        /\ \A u \in Threads \ {w} : pc'[u] = pc[u]
    BY GotoFacts DEF ResultWrite, PcValues
  <1>3. rmutex = w
    BY <1>2 DEF PoolInv, InvMutex
  <1>4. TypeOK'
    BY <1>1, <1>2 DEF PoolInv, TypeOK
  <1>5. InvPlaces' /\ InvMutex'
    BY <1>1, <1>2, <1>3 DEF PoolInv, InvPlaces, InvMutex, WorkerPlaces
  <1>6. InvJob'
    BY <1>1, <1>2 DEF PoolInv, InvJob, HoldsJob
  <1> QED
    BY <1>4, <1>5, <1>6 DEF PoolInv

LEMMA ReaderInv ==
  ASSUME PoolInv, ReaderStep
  PROVE  PoolInv'
  <1> USE SortsOfThreads
  <1>1. UNCHANGED <<items, mutex, job, cancelled, spurious>>
    BY DEF ReaderStep, Read, ReaderLock, ReaderTake, queueVars
  <1>2. CASE Read
    <2>1. bytes > 0 /\ bytes' = bytes - 1 /\ UNCHANGED <<results, rmutex, popped>>
      BY <1>2 DEF Read
    <2>2. /\ pc' \in [Threads -> PcValues] /\ pc[Reader] = "read" /\ pc'[Reader] = "rlock"
          /\ \A u \in Threads \ {Reader} : pc'[u] = pc[u]
      BY <1>2, GotoFacts DEF Read, PcValues
    <2>3. TypeOK'
      BY <1>1, <2>1, <2>2 DEF PoolInv, TypeOK
    <2>4. InvPlaces' /\ InvMutex' /\ InvJob'
      BY <1>1, <2>1, <2>2 DEF PoolInv, InvPlaces, InvMutex, InvJob
    <2> QED
      BY <2>3, <2>4 DEF PoolInv
  <1>3. CASE ReaderLock
    <2>1. rmutex = None /\ rmutex' = Reader /\ UNCHANGED <<results, bytes, popped>>
      BY <1>3 DEF ReaderLock
    <2>2. /\ pc' \in [Threads -> PcValues] /\ pc[Reader] = "rlock" /\ pc'[Reader] = "rtake"
          /\ \A u \in Threads \ {Reader} : pc'[u] = pc[u]
      BY <1>3, GotoFacts DEF ReaderLock, PcValues
    <2>3. TypeOK'
      BY <1>1, <2>1, <2>2 DEF PoolInv, TypeOK
    <2>4. InvPlaces' /\ InvMutex' /\ InvJob'
      BY <1>1, <2>1, <2>2 DEF PoolInv, InvPlaces, InvMutex, InvJob
    <2> QED
      BY <2>3, <2>4 DEF PoolInv
  <1>4. CASE ReaderTake
    <2>1. rmutex' = None /\ bytes' = bytes
      BY <1>4 DEF ReaderTake
    <2>2. /\ pc' \in [Threads -> PcValues] /\ pc[Reader] = "rtake"
          /\ pc'[Reader] \in {"error", "read"}
          /\ \A u \in Threads \ {Reader} : pc'[u] = pc[u]
      BY <1>4, GotoFacts DEF ReaderTake, PcValues
    <2>3. rmutex = Reader
      BY <2>2 DEF PoolInv, InvMutex
    <2>4. results' \in Seq(Jobs) /\ popped' \in Seq(Jobs)
      <3>1. CASE results = <<>>
        BY <1>4, <3>1 DEF ReaderTake, PoolInv, TypeOK
      <3>2. CASE results # <<>>
        <4>1. results \in Seq(Jobs) /\ popped \in Seq(Jobs)
          BY DEF PoolInv, TypeOK
        <4>2. Head(results) \in Jobs /\ Tail(results) \in Seq(Jobs)
          BY <3>2, <4>1, HeadTailProperties
        <4>3. popped' = Append(popped, Head(results)) /\ results' = Tail(results)
          BY <1>4, <3>2 DEF ReaderTake
        <4> QED
          BY <4>1, <4>2, <4>3
      <3> QED
        BY <3>1, <3>2
    <2>5. TypeOK'
      BY <1>1, <2>1, <2>2, <2>4 DEF PoolInv, TypeOK
    <2>6. InvPlaces' /\ InvMutex' /\ InvJob'
      BY <1>1, <2>1, <2>2, <2>3 DEF PoolInv, InvPlaces, InvMutex, InvJob
    <2> QED
      BY <2>5, <2>6 DEF PoolInv
  <1> QED
    BY <1>2, <1>3, <1>4 DEF ReaderStep

LEMMA PoolNextInv == PoolInv /\ [Next]_vars => PoolInv'
  <1> SUFFICES ASSUME PoolInv, [Next]_vars
               PROVE  PoolInv'
    OBVIOUS
  <1>1. ASSUME NEW p \in Producers, PushLock(p) \/ ProducerStep(p)
        PROVE  PoolInv'
    BY <1>1, PushLockInv, PushItemInv, SignalInv DEF ProducerStep
  <1>2. ASSUME NEW w \in Workers, StartWorker(w) \/ WorkerStep(w) \/ Spurious(w) \/ Cancel(w)
        PROVE  PoolInv'
    BY <1>2, WorkerMovesInv, PopItemInv, ResultPushInv, ResultWriteInv DEF WorkerStep
  <1>3. CASE UNCHANGED vars
    BY <1>3 DEF vars, queueVars, resultVars, PoolInv, TypeOK, InvPlaces, InvJob, InvMutex
  <1> QED
    BY <1>1, <1>2, <1>3, ReaderInv DEF Next

(* Every variable of the pool keeps its type; the pipe is never overfull   *)
(* (thread.h).                                                             *)
THEOREM PoolTypeCorrect == Spec => []TypeOK
  <1>1. PoolInv => TypeOK
    BY DEF PoolInv
  <1> QED
    BY <1>1, PoolInitInv, PoolNextInv, PTL DEF Spec

-----------------------------------------------------------------------------
(* The bytes in the pipe. *)
LEMMA BytesInit == Init => InvBytes
  BY SortsOfThreads DEF Init, InvBytes

LEMMA BytesNext ==
  ASSUME PoolInv, InvBytes, [Next]_vars
  PROVE  InvBytes'
  <1> USE SortsOfThreads
  <1> DEFINE held == IF pc[Reader] \in {"rlock", "rtake"} THEN 1 ELSE 0
             unwritten == IF rmutex \in Workers /\ pc[rmutex] \in {"rwrite", "dead"} THEN 1 ELSE 0
  <1>1. /\ bytes \in Nat /\ Len(results) \in Nat /\ results \in Seq(Jobs)
        /\ rmutex \in Workers \cup {Reader, None}
        /\ pc[Reader] # "error" /\ bytes + held + unwritten = Len(results)
    BY DEF PoolInv, TypeOK, InvBytes
  <1>2. ASSUME UNCHANGED <<results, rmutex, bytes>>, pc'[Reader] = pc[Reader],
               \A w \in Workers : rmutex = w => (pc'[w] \in {"rwrite", "dead"} <=> pc[w] \in {"rwrite", "dead"})
        PROVE  InvBytes'
    BY <1>1, <1>2 DEF InvBytes
  <1>3. ASSUME NEW p \in Producers, PushLock(p) \/ PushItem(p)
        PROVE  InvBytes'
    <2>1. /\ UNCHANGED <<results, rmutex, bytes>>
          /\ \A u \in Threads \ {p} : pc'[u] = pc[u]
      BY <1>3, GotoFacts DEF PushLock, PushItem, resultVars, PcValues
    <2> QED
      BY <1>2, <2>1
  <1>4. ASSUME NEW p \in Producers, Signal(p)
        PROVE  InvBytes'
    <2>1. UNCHANGED <<results, rmutex, bytes>>
      BY <1>4 DEF Signal, resultVars
    <2>2. \A u \in Workers \cup {Reader} :
            pc'[u] = pc[u] \/ (u \in Workers /\ pc[u] = "wait" /\ pc'[u] = "relock")
      BY <1>4 DEF Signal, Signalled, Waiting, PoolInv, TypeOK
    <2> QED
      BY <1>2, <2>1, <2>2
  <1>5. ASSUME NEW w \in Workers,
               \/ StartWorker(w) \/ PopLock(w) \/ PopTest(w) \/ Spurious(w) \/ Front(w)
               \/ PopItem(w) \/ Proc(w) \/ Cancel(w) \/ Unwind(w) \/ DieWaiting(w)
               \/ DieWorking(w)
        PROVE  InvBytes'
    <2>1. UNCHANGED <<results, rmutex, bytes>>
      BY <1>5 DEF StartWorker, PopLock, PopTest, Spurious, Front, PopItem, Proc, Cancel, Unwind,
                  DieWaiting, DieWorking, resultVars
    <2>2. /\ \A u \in Threads \ {w} : pc'[u] = pc[u]
          /\ \/ pc'[w] = pc[w]
             \/ pc[w] \notin {"rpush", "rwrite", "dead"}
             \/ pc[w] = "rwrite" /\ pc'[w] = "dead"
      BY <1>5, GotoFacts DEF StartWorker, PopLock, PopTest, Spurious, Front, PopItem, Proc, Cancel,
                             Unwind, DieWaiting, DieWorking, PcValues
    <2>3. rmutex = w => pc[w] \in {"rpush", "rwrite", "dead"}
      BY DEF PoolInv, InvPlaces, InvMutex, WorkerPlaces
    <2> QED
      BY <1>2, <2>1, <2>2, <2>3
  <1>6. ASSUME NEW w \in Workers, ResultLock(w)
        PROVE  InvBytes'
    <2>1. /\ UNCHANGED <<results, bytes>> /\ rmutex = None /\ rmutex' = w
          /\ \A u \in Threads \ {w} : pc'[u] = pc[u]
          /\ pc'[w] = "rpush"
      BY <1>6, GotoFacts DEF ResultLock, PcValues
    <2> QED
      BY <1>1, <2>1 DEF InvBytes
  <1>7. ASSUME NEW w \in Workers, ResultPush(w)
        PROVE  InvBytes'
    <2>1. /\ UNCHANGED <<rmutex, bytes>> /\ results' = Append(results, job[w])
          /\ \A u \in Threads \ {w} : pc'[u] = pc[u]
          /\ pc[w] = "rpush" /\ pc'[w] = "rwrite"
      BY <1>7, GotoFacts DEF ResultPush, PcValues
    <2>2. rmutex = w /\ job[w] \in Jobs
      BY <2>1 DEF PoolInv, InvMutex, InvJob, HoldsJob
    <2>3. Len(results') = Len(results) + 1
      BY <1>1, <2>1, <2>2
    <2> QED
      BY <1>1, <2>1, <2>2, <2>3 DEF InvBytes
  <1>8. ASSUME NEW w \in Workers, ResultWrite(w)
        PROVE  InvBytes'
    <2>1. /\ results' = results /\ rmutex' = None /\ bytes' = bytes + 1
          /\ \A u \in Threads \ {w} : pc'[u] = pc[u]
          /\ pc[w] = "rwrite"
      BY <1>8, GotoFacts DEF ResultWrite, Token, PcValues
    <2>2. rmutex = w
      BY <2>1 DEF PoolInv, InvMutex
    <2> QED
      BY <1>1, <2>1, <2>2 DEF InvBytes
  <1>9. ASSUME Read \/ ReaderLock
        PROVE  InvBytes'
    <2>1. /\ results' = results
          /\ \A u \in Threads \ {Reader} : pc'[u] = pc[u]
          /\ \/ /\ rmutex' = rmutex /\ bytes' = bytes - 1
                /\ pc[Reader] = "read" /\ pc'[Reader] = "rlock"
             \/ /\ rmutex = None /\ rmutex' = Reader /\ bytes' = bytes
                /\ pc[Reader] = "rlock" /\ pc'[Reader] = "rtake"
      BY <1>9, GotoFacts DEF Read, ReaderLock, PcValues
    <2> QED
      BY <1>1, <2>1 DEF InvBytes
  <1>10. ASSUME ReaderTake
         PROVE  InvBytes'
    <2>1. pc[Reader] = "rtake" /\ rmutex = Reader
      BY <1>10 DEF ReaderTake, Goto, PoolInv, InvMutex
    <2>2. results # <<>>
      BY <1>1, <2>1
    <2>3. /\ results' = Tail(results) /\ rmutex' = None /\ bytes' = bytes
          /\ pc'[Reader] = "read"
      BY <1>10, <2>2, GotoFacts DEF ReaderTake, PcValues
    <2>4. Len(results') = Len(results) - 1
      BY <1>1, <2>2, <2>3, HeadTailProperties
    <2> QED
      BY <1>1, <2>1, <2>3, <2>4 DEF InvBytes
  <1>11. CASE UNCHANGED vars
    BY <1>2, <1>11 DEF vars, resultVars
  <1> QED
    BY <1>3, <1>4, <1>5, <1>6, <1>7, <1>8, <1>9, <1>10, <1>11
       DEF Next, ProducerStep, WorkerStep, ReaderStep

(* Each result has its byte in the pipe of SelectableQueue (thread.h), in  *)
(* the reader's hand, or about to be written, wherever workers are         *)
(* cancelled: pop() never finds the queue empty after it read a byte.      *)
THEOREM BytesCorrect == Spec => []InvBytes
  <1>1. Init => PoolInv /\ InvBytes
    BY PoolInitInv, BytesInit
  <1>2. PoolInv /\ InvBytes /\ [Next]_vars => (PoolInv /\ InvBytes)'
    BY PoolNextInv, BytesNext
  <1> QED
    BY <1>1, <1>2, PTL DEF Spec

-----------------------------------------------------------------------------
(* Wake-ups. *)
Signals == {p \in Producers : pc[p] = "signal"}

LEMMA FiniteParts ==
  /\ IsFiniteSet(Signals) /\ Cardinality(Signals) \in Nat
  /\ IsFiniteSet(Coming) /\ Cardinality(Coming) \in Nat
  <1>1. IsFiniteSet(Workers) /\ IsFiniteSet(Producers)
    BY PoolAssumption
  <1>2. Coming \in SUBSET Workers /\ Signals \in SUBSET Producers
    BY DEF Coming, Signals
  <1>3. IsFiniteSet(Coming) /\ IsFiniteSet(Signals)
    BY <1>1, <1>2, FS_Subset
  <1> QED
    BY <1>3, FS_CardinalityType

LEMMA FinitePartsNext ==
  /\ IsFiniteSet(Signals') /\ Cardinality(Signals') \in Nat
  /\ IsFiniteSet(Coming') /\ Cardinality(Coming') \in Nat
  <1>1. IsFiniteSet(Workers) /\ IsFiniteSet(Producers)
    BY PoolAssumption
  <1>2. Coming' \in SUBSET Workers /\ Signals' \in SUBSET Producers
    BY DEF Coming, Signals
  <1>3. IsFiniteSet(Coming') /\ IsFiniteSet(Signals')
    BY <1>1, <1>2, FS_Subset
  <1> QED
    BY <1>3, FS_CardinalityType

LEMMA WakeInit == Init => InvWake
  <1> SUFFICES ASSUME Init PROVE InvWake
    OBVIOUS
  <1>1. Len(items) = 0
    BY DEF Init
  <1> QED
    BY <1>1, FiniteParts DEF InvWake, Signals

(* Nobody begins to wait, and those on their way stay so. *)
LEMMA WakeKeeps ==
  ASSUME PoolInv, InvWake, items' = items, Waiting' # {} => Waiting # {},
         Signals \subseteq Signals', Coming \subseteq Coming'
  PROVE  InvWake'
  <1>1. Cardinality(Signals) <= Cardinality(Signals')
    BY FinitePartsNext, FS_Subset
  <1>2. Cardinality(Coming) <= Cardinality(Coming')
    BY FinitePartsNext, FS_Subset
  <1>3. Len(items) \in Nat
    BY DEF PoolInv, TypeOK
  <1>4. Waiting' # {} => Len(items) <= Cardinality(Signals) + Cardinality(Coming)
    BY DEF InvWake, Signals
  <1>5. Waiting' # {} => Len(items') <= Cardinality(Signals') + Cardinality(Coming')
    BY <1>1, <1>2, <1>3, <1>4, FiniteParts, FinitePartsNext
  <1> QED
    BY <1>5 DEF InvWake, Signals

LEMMA WakeNext ==
  ASSUME PoolInv, InvWake, [Next]_vars
  PROVE  InvWake'
  <1> USE SortsOfThreads
  <1>1. items \in Seq(Jobs) /\ Len(items) \in Nat
    BY DEF PoolInv, TypeOK
  <1>2. Waiting # {} => Len(items) <= Cardinality(Signals) + Cardinality(Coming)
    BY DEF InvWake, Signals
  <1>3. SUFFICES Waiting' # {} => Len(items') <= Cardinality(Signals') + Cardinality(Coming')
    BY DEF InvWake, Signals
  <1>4. ASSUME NEW p \in Producers, PushLock(p)
        PROVE  InvWake'
    <2>1. /\ items' = items /\ cancelled' = cancelled
          /\ \A u \in Threads \ {p} : pc'[u] = pc[u]
          /\ pc[p] = "idle"
      BY <1>4, GotoFacts DEF PushLock, PcValues
    <2> QED
      BY <2>1, WakeKeeps DEF Waiting, Signals, Coming
  <1>5. ASSUME NEW p \in Producers, PushItem(p)
        PROVE  Waiting' # {} => Len(items') <= Cardinality(Signals') + Cardinality(Coming')
    <2>1. /\ items' = Append(items, job[p]) /\ cancelled' = cancelled
          /\ \A u \in Threads \ {p} : pc'[u] = pc[u]
          /\ pc[p] = "push" /\ pc'[p] = "signal"
      BY <1>5, GotoFacts DEF PushItem, PcValues
    <2>2. Len(items') = Len(items) + 1
      <3>1. job[p] \in Jobs
        BY <2>1 DEF PoolInv, InvJob, HoldsJob
      <3> QED
        BY <1>1, <2>1, <3>1
    <2>3. Signals' = Signals \cup {p} /\ p \notin Signals
      BY <2>1 DEF Signals
    <2>4. Cardinality(Signals') = Cardinality(Signals) + 1
      BY <2>3, FiniteParts, FS_AddElement
    <2>5. Waiting' = Waiting /\ Coming' = Coming
      BY <2>1 DEF Waiting, Coming
    <2> QED
      BY <1>1, <1>2, <2>2, <2>4, <2>5, FiniteParts
  <1>6. ASSUME NEW p \in Producers, Signal(p)
        PROVE  Waiting' # {} => Len(items') <= Cardinality(Signals') + Cardinality(Coming')
    <2>1. /\ items' = items /\ cancelled' = cancelled /\ pc[p] = "signal"
          /\ pc \in [Threads -> PcValues]
      BY <1>6 DEF Signal, queueVars, PoolInv, TypeOK
    <2>2. CASE Waiting = {}
      <3>1. pc' = [pc EXCEPT ![p] = "idle"]
        BY <1>6, <2>2 DEF Signal, Signalled
      <3>2. Waiting' = {}
        BY <2>1, <2>2, <3>1 DEF Waiting
      <3> QED
        BY <3>2
    <2>3. CASE Waiting # {}
      <3>1. PICK w \in Waiting : pc' = [pc EXCEPT ![p] = "idle", ![w] = "relock"]
        BY <1>6, <2>3 DEF Signal, Signalled
      <3>2. w \in Workers /\ pc[w] = "wait"
        BY DEF Waiting
      <3>3. /\ pc'[p] = "idle" /\ pc'[w] = "relock"
            /\ \A u \in Threads \ {p, w} : pc'[u] = pc[u]
        BY <2>1, <3>1, <3>2
      <3>4. Signals' = Signals \ {p} /\ p \in Signals
        BY <2>1, <3>2, <3>3 DEF Signals
      <3>5. Coming' = Coming \cup {w} /\ w \notin Coming
        BY <3>2, <3>3 DEF Coming
      <3>6. Cardinality(Signals') = Cardinality(Signals) - 1
        BY <3>4, FiniteParts, FS_RemoveElement
      <3>7. Cardinality(Coming') = Cardinality(Coming) + 1
        BY <3>5, FiniteParts, FS_AddElement
      <3> QED
        BY <1>1, <1>2, <2>1, <2>3, <3>6, <3>7, FiniteParts
    <2> QED
      BY <2>2, <2>3
  <1>7. ASSUME NEW w \in Workers, PopItem(w)
        PROVE  Waiting' # {} => Len(items') <= Cardinality(Signals') + Cardinality(Coming')
    <2>1. /\ items' = SubSeq(items, 2, Len(items)) /\ cancelled' = cancelled
          /\ \A u \in Threads \ {w} : pc'[u] = pc[u]
          /\ pc[w] = "pop" /\ pc'[w] = "proc"
      BY <1>7, GotoFacts DEF PopItem, PcValues
    <2>2. Len(items') = IF items = <<>> THEN 0 ELSE Len(items) - 1
      BY <1>1, <2>1, WithoutFirst
    <2>3. Coming' = Coming \ {w} /\ w \in Coming
      BY <2>1 DEF Coming
    <2>4. Cardinality(Coming') = Cardinality(Coming) - 1
      BY <2>3, FiniteParts, FS_RemoveElement
    <2>5. Waiting' = Waiting /\ Signals' = Signals
      BY <2>1 DEF Waiting, Signals
    <2> QED
      BY <1>1, <1>2, <2>2, <2>4, <2>5, FiniteParts, FinitePartsNext
  <1>8. ASSUME NEW w \in Workers, PopTest(w)
        PROVE  Waiting' # {} => Len(items') <= Cardinality(Signals') + Cardinality(Coming')
    <2>1. CASE items = <<>>
      <3>1. Len(items') = 0
        BY <1>8, <2>1 DEF PopTest
      <3> QED
        BY <3>1, FinitePartsNext
    <2>2. CASE items # <<>>
      <3>1. /\ items' = items /\ cancelled' = cancelled
            /\ \A u \in Threads \ {w} : pc'[u] = pc[u]
            /\ pc[w] = "test" /\ pc'[w] = "front"
        BY <1>8, <2>2, GotoFacts DEF PopTest, PcValues
      <3>2. InvWake'
        BY <3>1, WakeKeeps DEF Waiting, Signals, Coming
      <3> QED
        BY <3>2 DEF InvWake, Signals
    <2> QED
      BY <2>1, <2>2
  <1>9. ASSUME NEW w \in Workers,
               \/ StartWorker(w) \/ PopLock(w) \/ Spurious(w) \/ Front(w) \/ Proc(w)
               \/ ResultLock(w) \/ ResultPush(w) \/ ResultWrite(w) \/ Unwind(w)
               \/ DieWaiting(w) \/ DieWorking(w)
        PROVE  InvWake'
    <2>1. items' = items /\ cancelled' = cancelled
      BY <1>9 DEF StartWorker, PopLock, Spurious, Front, Proc, ResultLock, ResultPush, ResultWrite,
                  Unwind, DieWaiting, DieWorking, queueVars
    <2>2. /\ \A u \in Threads \ {w} : pc'[u] = pc[u]
          /\ \/ pc[w] \notin {"lock", "relock", "test", "front", "pop"}
             \/ pc'[w] \in {"test", "pop"}
          /\ pc'[w] # "wait"
      BY <1>9, GotoFacts DEF StartWorker, PopLock, Spurious, Front, Proc, ResultLock, ResultPush,
                             ResultWrite, Unwind, DieWaiting, DieWorking, PcValues
    <2> QED
      BY <2>1, <2>2, WakeKeeps DEF Waiting, Signals, Coming
  <1>10. ASSUME NEW w \in Workers, Cancel(w)
         PROVE  InvWake'
    <2>1. items' = items /\ pc' = pc /\ cancelled' = cancelled \cup {w}
      BY <1>10 DEF Cancel, queueVars
    <2> QED
      BY <2>1, WakeKeeps DEF Waiting, Signals, Coming
  <1>11. ASSUME ReaderStep
         PROVE  InvWake'
    <2>1. /\ items' = items /\ cancelled' = cancelled
          /\ \A u \in Threads \ {Reader} : pc'[u] = pc[u]
      BY <1>11, GotoFacts DEF ReaderStep, Read, ReaderLock, ReaderTake, queueVars, PcValues
    <2> QED
      BY <2>1, WakeKeeps DEF Waiting, Signals, Coming
  <1>12. CASE UNCHANGED vars
    <2>1. items' = items /\ pc' = pc /\ cancelled' = cancelled
      BY <1>12 DEF vars, queueVars
    <2>2. InvWake'
      BY <2>1, WakeKeeps DEF Waiting, Signals, Coming
    <2> QED
      BY <2>2 DEF InvWake, Signals
  <1>13. InvWake' => (Waiting' # {} => Len(items') <= Cardinality(Signals') + Cardinality(Coming'))
    BY DEF InvWake, Signals
  <1> QED
    BY <1>4, <1>5, <1>6, <1>7, <1>8, <1>9, <1>10, <1>11, <1>12, <1>13
       DEF Next, ProducerStep, WorkerStep

(* No wake-up of Queue (thread.h) is lost: while workers wait, each queued *)
(* job has a signal to come or a worker on its way, for any number of      *)
(* both, whenever pthread_cond_wait returns and whoever is cancelled.      *)
THEOREM WakeCorrect == Spec => []InvWake
  <1>1. Init => PoolInv /\ InvWake
    BY PoolInitInv, WakeInit
  <1>2. PoolInv /\ InvWake /\ [Next]_vars => (PoolInv /\ InvWake)'
    BY PoolNextInv, WakeNext
  <1> QED
    BY <1>1, <1>2, PTL DEF Spec

-----------------------------------------------------------------------------
(* The promise of JobPool. *)
Elements(q) == {q[i] : i \in DOMAIN q}

LEMMA ElementsOfAppend ==
  ASSUME NEW q \in Seq(Jobs), NEW e \in Jobs
  PROVE  /\ Elements(Append(q, e)) = Elements(q) \cup {e}
         /\ q # <<>> => Head(Append(q, e)) = Head(q)
         /\ Append(q, e) # <<>>
  <1>1. /\ DOMAIN Append(q, e) = 1..Len(q) + 1 /\ DOMAIN q = 1..Len(q) /\ Len(q) \in Nat
        /\ \A i \in 1..Len(q) : Append(q, e)[i] = q[i]
        /\ Append(q, e)[Len(q) + 1] = e
    OBVIOUS
  <1>2. 1..Len(q) + 1 = (1..Len(q)) \cup {Len(q) + 1}
    BY <1>1
  <1>3. Elements(Append(q, e)) = Elements(q) \cup {e}
    BY <1>1, <1>2 DEF Elements
  <1>4. Append(q, e) # <<>>
    BY AppendProperties
  <1>5. ASSUME q # <<>> PROVE Head(Append(q, e)) = Head(q)
    <2>1. Len(q) # 0 /\ 1 \in 1..Len(q)
      BY <1>1, <1>5, EmptySeq
    <2>2. Head(q) = q[1] /\ Head(Append(q, e)) = Append(q, e)[1]
      BY <1>4, <1>5, HeadTailProperties, AppendProperties
    <2> QED
      BY <1>1, <2>1, <2>2
  <1> QED
    BY <1>3, <1>4, <1>5

LEMMA ElementsOfTail ==
  ASSUME NEW q \in Seq(Jobs), q # <<>>
  PROVE  /\ Elements(q) = {Head(q)} \cup Elements(Tail(q))
         /\ Head(q) \in Jobs
         /\ (\A i, k \in DOMAIN q : q[i] = q[k] => i = k) =>
              /\ Head(q) \notin Elements(Tail(q))
              /\ \A i, k \in DOMAIN Tail(q) : Tail(q)[i] = Tail(q)[k] => i = k
  <1>1. /\ Tail(q) \in Seq(Jobs) /\ Len(Tail(q)) = Len(q) - 1 /\ Head(q) \in Jobs
        /\ \A i \in 1..Len(q) - 1 : Tail(q)[i] = q[i + 1]
        /\ Len(q) \in Nat \ {0} /\ Head(q) = q[1]
    BY HeadTailProperties
  <1>2. DOMAIN q = 1..Len(q) /\ DOMAIN Tail(q) = 1..Len(q) - 1
    BY <1>1
  <1>3. \A i \in 1..Len(q) : i = 1 \/ (i - 1 \in 1..Len(q) - 1 /\ Tail(q)[i - 1] = q[i])
    BY <1>1
  <1>4. \A i \in 1..Len(q) - 1 : i + 1 \in 1..Len(q) /\ i + 1 # 1
    BY <1>1
  <1>5. 1 \in 1..Len(q)
    BY <1>1
  <1>6. Elements(q) = {Head(q)} \cup Elements(Tail(q))
    <2>1. ASSUME NEW i \in 1..Len(q) PROVE q[i] = Head(q) \/ q[i] \in Elements(Tail(q))
      BY <1>1, <1>2, <1>3 DEF Elements
    <2>2. ASSUME NEW i \in 1..Len(q) - 1 PROVE Tail(q)[i] \in Elements(q)
      BY <1>1, <1>2, <1>4 DEF Elements
    <2>3. Head(q) \in Elements(q)
      BY <1>1, <1>2, <1>5 DEF Elements
    <2>4. Elements(q) \subseteq {Head(q)} \cup Elements(Tail(q))
      BY <1>2, <2>1 DEF Elements
    <2>5. Elements(Tail(q)) \subseteq Elements(q)
      BY <1>2, <2>2 DEF Elements
    <2> QED
      BY <2>3, <2>4, <2>5
  <1>7. ASSUME \A i, k \in DOMAIN q : q[i] = q[k] => i = k
        PROVE  /\ Head(q) \notin Elements(Tail(q))
               /\ \A i, k \in DOMAIN Tail(q) : Tail(q)[i] = Tail(q)[k] => i = k
    <2>1. Head(q) \notin Elements(Tail(q))
      BY <1>1, <1>2, <1>4, <1>5, <1>7 DEF Elements
    <2>2. \A i, k \in DOMAIN Tail(q) : Tail(q)[i] = Tail(q)[k] => i = k
      BY <1>1, <1>2, <1>4, <1>7
    <2> QED
      BY <2>1, <2>2
  <1>8. Head(q) \in Jobs
    BY <1>1
  <1> HIDE <1>7
  <1> QED
    BY ONLY <1>6, <1>7, <1>8

(* A job is in one place only; the worker that has read the front of the   *)
(* queue has not taken it off yet.                                         *)
OneHolder == \A t, u \in Threads : t # u /\ job[t] # None => job[t] # job[u]

Distinct == \A i, k \in DOMAIN items : items[i] = items[k] => i = k

Apart ==
  /\ \A t \in Threads :
       job[t] # None =>
         /\ pc[t] # "pop" => job[t] \notin Elements(items)
         /\ job[t] \notin Elements(results) /\ job[t] \notin Elements(popped)
  /\ \A j \in Elements(items) : j \notin Elements(results) /\ j \notin Elements(popped)

AtFront ==
  \A w \in Workers :
    /\ pc[w] \in {"front", "pop"} => items # <<>>
    /\ pc[w] = "pop" => job[w] = Head(items)

JobsInv == OneHolder /\ Distinct /\ Apart /\ AtFront

LEMMA JobsInit == Init => JobsInv
  BY SortsOfThreads DEF Init, JobsInv, OneHolder, Distinct, Apart, AtFront, Elements

InWorking == {"proc", "rlock", "rpush", "dead"}

(* A step that leaves the queues alone, and every job where it is. *)
LEMMA QuietStep ==
  ASSUME PoolInv, JobsInv, UNCHANGED <<items, results, popped, job>>,
         \A t \in Threads : pc'[t] = "pop" <=> pc[t] = "pop",
         \A w \in Workers : pc'[w] = "front" => pc[w] = "front" \/ items # <<>>,
         \A w \in Workers : job[w] # None => (pc'[w] \in InWorking <=> pc[w] \in InWorking)
  PROVE  JobsInv' /\ UNCHANGED Pool!poolVars
  <1>1. Working' = Working
    BY DEF Working, InWorking
  <1>2. OneHolder' /\ Distinct' /\ Apart'
    BY DEF JobsInv, OneHolder, Distinct, Apart
  <1>3. AtFront'
    BY SortsOfThreads DEF JobsInv, AtFront
  <1> QED
    BY <1>1, <1>2, <1>3 DEF JobsInv, Pool!poolVars

LEMMA JobsQuiet ==
  ASSUME PoolInv, JobsInv, NEW w \in Workers,
         \/ StartWorker(w) \/ PopLock(w) \/ PopTest(w) \/ Spurious(w) \/ Proc(w)
         \/ ResultLock(w) \/ ResultWrite(w) \/ Cancel(w) \/ Unwind(w) \/ DieWaiting(w)
         \/ DieWorking(w)
  PROVE  JobsInv' /\ UNCHANGED Pool!poolVars
  <1> USE SortsOfThreads
  <1>1. UNCHANGED <<items, results, popped, job>>
    BY DEF StartWorker, PopLock, PopTest, Spurious, Proc, ResultLock, ResultWrite, Cancel,
           Unwind, DieWaiting, DieWorking, queueVars, resultVars
  <1>2. pc[w] \notin HoldsJob \cup {"dead"} => job[w] = None
    BY DEF PoolInv, InvJob
  <1>3. /\ \A u \in Threads \ {w} : pc'[u] = pc[u]
        /\ \/ pc'[w] = pc[w]
           \/ pc[w] \in {"none", "lock", "relock", "wait", "unwind", "rwrite"}
                 /\ pc'[w] \notin {"pop", "front"}
           \/ pc[w] = "test" /\ (pc'[w] = "wait" \/ (pc'[w] = "front" /\ items # <<>>))
           \/ pc[w] \in {"proc", "rlock"} /\ pc'[w] \in {"rlock", "rpush", "dead"}
    BY GotoFacts DEF StartWorker, PopLock, PopTest, Spurious, Proc, ResultLock, ResultWrite,
                     Cancel, Unwind, DieWaiting, DieWorking, PcValues
  <1>4. job[w] # None => (pc'[w] \in InWorking <=> pc[w] \in InWorking)
    BY <1>2, <1>3 DEF HoldsJob, InWorking
  <1>5. \A u \in Threads : pc'[u] = "pop" <=> pc[u] = "pop"
    BY <1>3
  <1>6. \A u \in Workers : pc'[u] = "front" => pc[u] = "front" \/ items # <<>>
    BY <1>3
  <1>7. \A u \in Workers : job[u] # None => (pc'[u] \in InWorking <=> pc[u] \in InWorking)
    BY <1>3, <1>4
  <1> QED
    BY <1>1, <1>5, <1>6, <1>7, QuietStep

LEMMA JobsSignal ==
  ASSUME PoolInv, JobsInv, NEW p \in Producers, Signal(p)
  PROVE  JobsInv' /\ UNCHANGED Pool!poolVars
  <1> USE SortsOfThreads
  <1>1. UNCHANGED <<items, results, popped, job>> /\ pc[p] = "signal"
    BY DEF Signal, queueVars, resultVars
  <1>2. \A u \in Threads : pc'[u] = pc[u] \/ (u = p /\ pc'[u] = "idle")
                          \/ (pc[u] = "wait" /\ pc'[u] = "relock")
    BY DEF Signal, Signalled, Waiting, PoolInv, TypeOK
  <1>3. \A u \in Workers : job[u] # None => (pc'[u] \in InWorking <=> pc[u] \in InWorking)
    BY <1>2 DEF InWorking
  <1> QED
    BY <1>1, <1>2, <1>3, QuietStep

LEMMA JobsPushLock ==
  ASSUME PoolInv, JobsInv, NEW p \in Producers, PushLock(p)
  PROVE  JobsInv' /\ UNCHANGED Pool!poolVars
  <1> USE SortsOfThreads
  <1>1. PICK j \in Jobs : /\ job' = [job EXCEPT ![p] = j]
                          /\ \A t \in Threads : job[t] # j
                          /\ j \notin Elements(items)
                          /\ j \notin Elements(results) /\ j \notin Elements(popped)
    BY DEF PushLock, Elements
  <1>2. /\ UNCHANGED <<items, results, popped>>
        /\ pc[p] = "idle" /\ pc'[p] = "push" /\ \A u \in Threads \ {p} : pc'[u] = pc[u]
    BY GotoFacts DEF PushLock, resultVars, PcValues
  <1>3. /\ job'[p] = j /\ \A t \in Threads \ {p} : job'[t] = job[t]
        /\ \A w \in Workers : job'[w] = job[w] /\ pc'[w] = pc[w]
    BY <1>1, <1>2 DEF PoolInv, TypeOK
  <1>4. OneHolder'
    BY <1>1, <1>3 DEF JobsInv, OneHolder
  <1>5. Distinct' /\ AtFront'
    BY <1>2, <1>3 DEF JobsInv, Distinct, AtFront
  <1>6. Apart'
    <2>1. Elements(items)' = Elements(items) /\ Elements(results)' = Elements(results)
          /\ Elements(popped)' = Elements(popped)
      BY <1>2
    <2> QED
      BY <1>1, <1>2, <1>3, <2>1 DEF JobsInv, Apart
  <1>7. Working' = Working
    BY <1>3 DEF Working
  <1> QED
    BY <1>2, <1>4, <1>5, <1>6, <1>7 DEF JobsInv, Pool!poolVars

LEMMA SeenIs ==
  Pool!Seen = Elements(items) \cup Working \cup Elements(results) \cup Elements(popped)
  BY DEF Pool!Seen, Pool!Elements, Elements

(* Who works on which job. *)
LEMMA WorkingIs ==
  \A j : j \in Working <=> j # None /\ \E w \in Workers : job[w] = j /\ pc[w] \in InWorking
  BY DEF Working, InWorking

LEMMA JobsPushItem ==
  ASSUME PoolInv, JobsInv, NEW p \in Producers, PushItem(p)
  PROVE  JobsInv' /\ Pool!Push
  <1> DEFINE j == job[p]
  <1>1. p \in Threads /\ Workers \subseteq Threads /\ p \notin Workers /\ None \notin Jobs
    BY SortsOfThreads
  <1>2. /\ items' = Append(items, j) /\ job' = [job EXCEPT ![p] = None]
        /\ UNCHANGED <<results, popped>>
        /\ pc[p] = "push" /\ pc'[p] = "signal" /\ \A u \in Threads \ {p} : pc'[u] = pc[u]
    BY <1>1, GotoFacts DEF PushItem, resultVars, PcValues
  <1>3. items \in Seq(Jobs) /\ j \in Jobs /\ p # Reader /\ j # None
    BY <1>1, <1>2, SortsOfThreads DEF PoolInv, TypeOK, InvJob, HoldsJob
  <1>4. /\ job'[p] = None /\ \A t \in Threads \ {p} : job'[t] = job[t]
        /\ \A w \in Workers : job'[w] = job[w] /\ pc'[w] = pc[w]
    BY <1>1, <1>2 DEF PoolInv, TypeOK
  <1> HIDE DEF j
  <1>5. /\ \A t \in Threads \ {p} : job[t] # j
        /\ j \notin Elements(items) /\ j \notin Elements(results) /\ j \notin Elements(popped)
    BY <1>1, <1>2, <1>3 DEF JobsInv, OneHolder, Apart, j
  <1>6. /\ Elements(items') = Elements(items) \cup {j}
        /\ items # <<>> => Head(items') = Head(items)
        /\ items' # <<>>
    BY <1>2, <1>3, ElementsOfAppend
  <1>7. OneHolder'
    BY <1>1, <1>4 DEF JobsInv, OneHolder
  <1>8. Distinct'
    <2>1. /\ DOMAIN items = 1..Len(items) /\ DOMAIN items' = 1..Len(items) + 1
          /\ Len(items) \in Nat
          /\ \A i \in 1..Len(items) : items'[i] = items[i]
          /\ items'[Len(items) + 1] = j
      BY <1>2, <1>3
    <2>2. \A i \in 1..Len(items) : items[i] # j
      BY <1>5, <2>1 DEF Elements
    <2>3. \A i \in 1..Len(items) + 1 : i \in 1..Len(items) \/ i = Len(items) + 1
      BY <2>1
    <2> QED
      BY <2>1, <2>2, <2>3 DEF JobsInv, Distinct
  <1>9. Apart'
    BY <1>1, <1>2, <1>4, <1>5, <1>6 DEF JobsInv, Apart
  <1>10. AtFront'
    BY <1>4, <1>6 DEF JobsInv, AtFront
  <1>11. Working' = Working
    BY <1>4 DEF Working
  <1>12. j \notin Pool!Seen
    BY <1>1, <1>5, SeenIs, WorkingIs
  <1> QED
    BY <1>2, <1>3, <1>7, <1>8, <1>9, <1>10, <1>11, <1>12 DEF JobsInv, Pool!Push

LEMMA JobsFront ==
  ASSUME PoolInv, JobsInv, NEW w \in Workers, Front(w)
  PROVE  JobsInv' /\ UNCHANGED Pool!poolVars
  <1> DEFINE j == Head(items)
  <1>1. w \in Threads /\ Workers \subseteq Threads /\ None \notin Jobs
    BY SortsOfThreads
  <1>2. /\ pc[w] = "front" /\ pc'[w] = "pop" /\ \A u \in Threads \ {w} : pc'[u] = pc[u]
        /\ UNCHANGED <<items, results, popped>>
    BY <1>1, GotoFacts DEF Front, queueVars, resultVars, PcValues
  <1>3. items # <<>> /\ items \in Seq(Jobs)
    BY <1>2 DEF JobsInv, AtFront, PoolInv, TypeOK
  <1>4. job'[w] = j /\ \A t \in Threads \ {w} : job'[t] = job[t]
    BY <1>1, <1>3 DEF Front, PoolInv, TypeOK
  <1>5. j \in Elements(items) /\ j \in Jobs
    BY <1>3, ElementsOfTail
  <1> HIDE DEF j
  <1>6. \A t \in Threads \ {w} : pc[t] # "pop"
    BY <1>1, <1>2 DEF PoolInv, InvMutex
  <1>7. \A t \in Threads \ {w} : job[t] # j
    BY <1>1, <1>5, <1>6 DEF JobsInv, Apart
  <1>8. OneHolder' /\ Distinct'
    BY <1>2, <1>4, <1>7 DEF JobsInv, OneHolder, Distinct
  <1>9. Apart'
    <2>1. Elements(items)' = Elements(items) /\ Elements(results)' = Elements(results)
          /\ Elements(popped)' = Elements(popped)
      BY <1>2
    <2> QED
      BY <1>1, <1>2, <1>4, <1>5, <2>1 DEF JobsInv, Apart
  <1>10. AtFront'
    BY <1>1, <1>2, <1>3, <1>4, <1>6 DEF JobsInv, AtFront, j
  <1>11. Working' = Working
    <2>1. \A v \in Workers : pc'[v] \in InWorking <=> pc[v] \in InWorking
      BY <1>1, <1>2 DEF InWorking
    <2>2. \A v \in Workers : pc[v] \in InWorking => job'[v] = job[v]
      BY <1>1, <1>2, <1>4 DEF InWorking
    <2> QED
      BY <2>1, <2>2 DEF Working, InWorking
  <1> QED
    BY <1>2, <1>8, <1>9, <1>10, <1>11 DEF JobsInv, Pool!poolVars

LEMMA JobsPopItem ==
  ASSUME PoolInv, JobsInv, NEW w \in Workers, PopItem(w)
  PROVE  JobsInv' /\ Pool!Start
  <1>1. w \in Threads /\ Workers \subseteq Threads /\ None \notin Jobs
    BY SortsOfThreads
  <1>2. /\ pc[w] = "pop" /\ pc'[w] = "proc" /\ \A u \in Threads \ {w} : pc'[u] = pc[u]
        /\ UNCHANGED <<results, popped, job>> /\ items' = SubSeq(items, 2, Len(items))
    BY <1>1, GotoFacts DEF PopItem, resultVars, PcValues
  <1>3. items # <<>> /\ items \in Seq(Jobs) /\ job[w] = Head(items)
    BY <1>2 DEF JobsInv, AtFront, PoolInv, TypeOK
  <1>4. items' = Tail(items)
    BY <1>2, <1>3, WithoutFirst
  <1>5. /\ Elements(items) = {job[w]} \cup Elements(items')
        /\ job[w] \in Jobs /\ job[w] # None
        /\ job[w] \notin Elements(items')
        /\ Distinct'
    BY <1>1, <1>3, <1>4, ElementsOfTail DEF JobsInv, Distinct
  <1>6. \A t \in Threads \ {w} : job[t] # job[w]
    BY <1>1, <1>5 DEF JobsInv, OneHolder
  <1>7. OneHolder' /\ Apart'
    BY <1>1, <1>2, <1>5 DEF JobsInv, OneHolder, Apart
  <1>8. AtFront'
    <2>1. \A u \in Threads \ {w} : pc[u] \notin {"front", "pop"}
      BY <1>1, <1>2 DEF PoolInv, InvMutex
    <2> QED
      BY <1>1, <1>2, <2>1 DEF AtFront
  <1>9. job[w] \notin Working
    BY <1>1, <1>2, <1>6, WorkingIs DEF InWorking
  <1>10. Working' = Working \cup {job[w]}
    <2>1. \A v \in Workers \ {w} : pc'[v] = pc[v]
      BY <1>1, <1>2
    <2> QED
      BY <1>2, <1>5, <2>1 DEF Working
  <1> QED
    BY <1>2, <1>3, <1>4, <1>5, <1>7, <1>8, <1>9, <1>10 DEF JobsInv, Pool!Start

LEMMA JobsResultPush ==
  ASSUME PoolInv, JobsInv, NEW w \in Workers, ResultPush(w)
  PROVE  JobsInv' /\ Pool!Finish
  <1> DEFINE j == job[w]
  <1>1. w \in Threads /\ Workers \subseteq Threads /\ None \notin Jobs
    BY SortsOfThreads
  <1>2. /\ pc[w] = "rpush" /\ pc'[w] = "rwrite" /\ \A u \in Threads \ {w} : pc'[u] = pc[u]
        /\ UNCHANGED <<items, popped>>
        /\ results' = Append(results, j) /\ job' = [job EXCEPT ![w] = None]
    BY <1>1, GotoFacts DEF ResultPush, queueVars, PcValues
  <1>3. results \in Seq(Jobs) /\ j \in Jobs /\ w # Reader
    BY <1>1, <1>2, SortsOfThreads DEF PoolInv, TypeOK, InvJob, HoldsJob
  <1>4. job'[w] = None /\ \A t \in Threads \ {w} : job'[t] = job[t]
    BY <1>1, <1>2 DEF PoolInv, TypeOK
  <1>5. /\ \A t \in Threads \ {w} : job[t] # j
        /\ j \notin Elements(items)
    BY <1>1, <1>2, <1>3 DEF JobsInv, OneHolder, Apart
  <1>6. Elements(results') = Elements(results) \cup {j}
    BY <1>2, <1>3, ElementsOfAppend
  <1>7. j \in Working
    BY <1>1, <1>2, <1>3, WorkingIs DEF InWorking
  <1> HIDE DEF j
  <1>8. OneHolder' /\ Distinct'
    BY <1>1, <1>2, <1>4 DEF JobsInv, OneHolder, Distinct
  <1>9. Apart'
    <2>1. Elements(items)' = Elements(items) /\ Elements(popped)' = Elements(popped)
      BY <1>2
    <2> QED
      BY <1>1, <1>2, <1>4, <1>5, <1>6, <2>1 DEF JobsInv, Apart
  <1>10. AtFront'
    BY <1>1, <1>2, <1>4 DEF JobsInv, AtFront
  <1>11. Working' = Working \ {j}
    <2>1. \A v \in Workers \ {w} : pc'[v] = pc[v] /\ job'[v] = job[v] /\ job[v] # j
      BY <1>1, <1>2, <1>4, <1>5
    <2>2. pc[w] \in InWorking /\ pc'[w] \notin InWorking /\ job[w] = j
      BY <1>2 DEF InWorking, j
    <2> QED
      BY <2>1, <2>2 DEF Working, InWorking
  <1> QED
    BY <1>2, <1>7, <1>8, <1>9, <1>10, <1>11 DEF JobsInv, Pool!Finish

(* pop() finds a result, since a byte said so. *)
LEMMA JobsReaderTake ==
  ASSUME PoolInv, JobsInv, InvBytes, ReaderTake
  PROVE  JobsInv' /\ Pool!Deliver
  <1>1. Reader \in Threads /\ Reader \notin Workers /\ Workers \subseteq Threads
    BY SortsOfThreads
  <1>2. pc[Reader] = "rtake" /\ bytes \in Nat /\ results \in Seq(Jobs) /\ popped \in Seq(Jobs)
    BY SortsOfThreads DEF ReaderTake, Goto, PoolInv, TypeOK
  <1>3. results # <<>>
    <2>1. CASE rmutex \in Workers /\ pc[rmutex] \in {"rwrite", "dead"}
      <3>1. bytes + 1 + 1 = Len(results)
        BY <1>2, <2>1 DEF InvBytes
      <3> QED
        BY <1>2, <3>1, EmptySeq
    <2>2. CASE ~(rmutex \in Workers /\ pc[rmutex] \in {"rwrite", "dead"})
      <3>1. bytes + 1 + 0 = Len(results)
        BY <1>2, <2>2 DEF InvBytes
      <3> QED
        BY <1>2, <3>1, EmptySeq
    <2> QED
      BY <2>1, <2>2
  <1>4. /\ pc'[Reader] = "read" /\ \A u \in Threads \ {Reader} : pc'[u] = pc[u]
        /\ UNCHANGED <<items, job>>
        /\ popped' = Append(popped, Head(results)) /\ results' = Tail(results)
    BY <1>1, <1>3, GotoFacts DEF ReaderTake, queueVars, PcValues
  <1>5. /\ Elements(results) = {Head(results)} \cup Elements(results')
        /\ Elements(popped') = Elements(popped) \cup {Head(results)}
    BY <1>2, <1>3, <1>4, ElementsOfTail, ElementsOfAppend
  <1>6. OneHolder' /\ Distinct'
    BY <1>4 DEF JobsInv, OneHolder, Distinct
  <1>7. Apart'
    <2>1. Elements(items)' = Elements(items)
      BY <1>4
    <2>2. \A t \in Threads : pc'[t] # "pop" => pc[t] # "pop"
      BY <1>2, <1>4
    <2> QED
      BY <1>4, <1>5, <2>1, <2>2 DEF JobsInv, Apart
  <1>8. AtFront' /\ Working' = Working
    <2>1. \A w \in Workers : pc'[w] = pc[w]
      BY <1>1, <1>4
    <2> QED
      BY <1>4, <2>1 DEF JobsInv, AtFront, Working
  <1> QED
    BY <1>3, <1>4, <1>6, <1>7, <1>8 DEF JobsInv, Pool!Deliver

LEMMA JobsReaderWaits ==
  ASSUME PoolInv, JobsInv, Read \/ ReaderLock
  PROVE  JobsInv' /\ UNCHANGED Pool!poolVars
  <1>1. Reader \in Threads /\ Reader \notin Workers /\ Workers \subseteq Threads
    BY SortsOfThreads
  <1>2. /\ UNCHANGED <<items, results, popped, job>>
        /\ \A u \in Threads \ {Reader} : pc'[u] = pc[u]
        /\ pc[Reader] # "pop" /\ pc'[Reader] # "pop"
    BY <1>1, GotoFacts DEF Read, ReaderLock, queueVars, PcValues
  <1>3. \A w \in Workers : pc'[w] = pc[w]
    BY <1>1, <1>2
  <1>4. \A t \in Threads : pc'[t] = "pop" <=> pc[t] = "pop"
    BY <1>2
  <1> QED
    BY <1>2, <1>3, <1>4, QuietStep

LEMMA JobsNext ==
  PoolInv /\ InvBytes /\ JobsInv /\ [Next]_vars => JobsInv' /\ [Pool!PoolNext]_(Pool!poolVars)
  <1> SUFFICES ASSUME PoolInv, InvBytes, JobsInv, [Next]_vars
               PROVE  JobsInv' /\ [Pool!PoolNext]_(Pool!poolVars)
    OBVIOUS
  <1>1. ASSUME NEW p \in Producers, PushLock(p) \/ ProducerStep(p)
        PROVE  JobsInv' /\ [Pool!PoolNext]_(Pool!poolVars)
    BY <1>1, JobsPushLock, JobsPushItem, JobsSignal DEF ProducerStep, Pool!PoolNext
  <1>2. ASSUME NEW w \in Workers, Front(w) \/ PopItem(w) \/ ResultPush(w)
        PROVE  JobsInv' /\ [Pool!PoolNext]_(Pool!poolVars)
    BY <1>2, JobsFront, JobsPopItem, JobsResultPush DEF Pool!PoolNext
  <1>3. ASSUME NEW w \in Workers, StartWorker(w) \/ WorkerStep(w) \/ Spurious(w) \/ Cancel(w)
        PROVE  JobsInv' /\ [Pool!PoolNext]_(Pool!poolVars)
    BY <1>2, <1>3, JobsQuiet DEF WorkerStep
  <1>4. CASE ReaderStep
    BY <1>4, JobsReaderTake, JobsReaderWaits DEF ReaderStep, Pool!PoolNext
  <1>5. CASE UNCHANGED vars
    <2>1. UNCHANGED <<items, results, popped, job, pc>>
      BY <1>5 DEF vars, queueVars, resultVars
    <2> QED
      BY <2>1, QuietStep
  <1> QED
    BY <1>1, <1>3, <1>4, <1>5 DEF Next

(* WorkerPool of thread.h keeps the promise of a pool, until and after     *)
(* stop(): jobs are started in the order of the calls to push(), each      *)
(* once, and each result comes out of pop() once, in the order in which    *)
(* the jobs were finished.                                                 *)
THEOREM PoolRefinement == Spec => Implements
  <1>1. Init => PoolInv /\ InvBytes /\ JobsInv
    BY PoolInitInv, BytesInit, JobsInit
  <1>2. Init => Pool!PoolInit
    <2> SUFFICES ASSUME Init PROVE Working = {}
      BY DEF Init, Pool!PoolInit
    <2> QED
      BY SortsOfThreads DEF Init, Working
  <1>3. PoolInv /\ InvBytes /\ [Next]_vars => (PoolInv /\ InvBytes)'
    BY PoolNextInv, BytesNext
  <1> QED
    BY <1>1, <1>2, <1>3, JobsNext, PTL DEF Spec, Implements, Pool!PoolSpec

=============================================================================
