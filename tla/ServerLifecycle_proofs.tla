---------------------- MODULE ServerLifecycle_proofs ----------------------
(***************************************************************************)
(* Proofs about ServerLifecycle, for any number of cores, signals and      *)
(* packets: TypeOK, InvStore, InvDone and InvCounts are invariants.        *)
(***************************************************************************)
EXTENDS ServerLifecycle, NatInduction

(* main() creates the threads in order, joins them in order, and reaches   *)
(* kvstore_destroy() when all are joined.                                  *)
InvMain ==
  /\ main = "create" => \A t \in Threads : t >= created => pc[t] = "none"
  /\ main = "join" => \A t \in Threads : t < created => pc[t] = "joined"
  /\ main \in {"destroy", "return"} => \A t \in Threads : pc[t] = "joined"

(* A thread inside SignalHandler was interrupted, and stays so at least    *)
(* until the handler returns.                                              *)
InvHandler == \A t \in Threads : hpos[t] # -1 => intr[t]

(* pthread_kill is aimed at the thread the handler's loop is at. *)
InvAim == \A p \in Processes : aim[p] => hpos[p] \in Threads

IInv == TypeOK /\ InvMain /\ InvStore /\ InvHandler /\ InvDone /\ InvAim

LEMMA ThreadFacts ==
  /\ Threads \subseteq Nat
  /\ \A t \in Threads : t < CoreLimit
  /\ Main \notin Threads
  /\ CoreLimit \in Nat
  /\ Processes = Threads \cup {Main}
  BY LifecycleAssumption DEF Threads, Processes

LEMMA InitIInv == Init => IInv
<1> SUFFICES ASSUME Init PROVE IInv
  OBVIOUS
<1>1. TypeOK
  BY ThreadFacts, LifecycleAssumption DEF Init, TypeOK, PcValues
<1>2. InvMain /\ InvStore /\ InvHandler /\ InvDone /\ InvAim
  BY ThreadFacts DEF Init, InvMain, InvStore, InvHandler, InvDone, InvAim
<1> QED
  BY <1>1, <1>2 DEF IInv

(* A step of main() keeps the handlers' state. *)
LEMMA MainIInv == IInv /\ process = "up" /\ MainStep => IInv'
<1> SUFFICES ASSUME IInv, MainStep PROVE IInv'
  OBVIOUS
<1> USE ThreadFacts DEF signalVars, counterVars
<1>1. CASE CreateThread
  <2>1. MoreThreads => created \in Threads /\ created + 1 \in 0..CoreLimit
    BY DEF MoreThreads, IInv, TypeOK, Threads
  <2>4. TypeOK'
    <3>1. done' \in [Threads -> BOOLEAN] /\ pc' \in [Threads -> PcValues]
      BY <1>1, <2>1 DEF CreateThread, IInv, TypeOK, PcValues
    <3>2. created' \in 0..CoreLimit
      BY <1>1, <2>1 DEF CreateThread, Exit, IInv, TypeOK
    <3> QED
      BY <1>1, <3>1, <3>2 DEF CreateThread, Exit, IInv, TypeOK, PcValues
  <2>2. InvMain' /\ InvStore' /\ InvDone'
    BY <1>1 DEF CreateThread, MoreThreads, Exit, IInv, TypeOK, InvMain, InvStore, InvDone
  <2>3. InvHandler' /\ InvAim'
    BY <1>1 DEF CreateThread, IInv, InvHandler, InvAim
  <2> QED
    BY <2>2, <2>3, <2>4 DEF IInv
<1>2. CASE JoinThread
  <2>1. MoreThreads => created \in Threads /\ created + 1 \in 0..CoreLimit
    BY DEF MoreThreads, IInv, TypeOK, Threads
  <2>5. TypeOK'
    BY <1>2, <2>1 DEF JoinThread, Joinable, IInv, TypeOK, PcValues
  <2>2. InvMain'
    BY <1>2 DEF JoinThread, MoreThreads, Joinable, IInv, TypeOK, InvMain
  <2>3. InvStore' /\ InvDone'
    BY <1>2 DEF JoinThread, MoreThreads, Joinable, IInv, TypeOK, InvStore, InvDone
  <2>4. InvHandler' /\ InvAim'
    BY <1>2 DEF JoinThread, IInv, InvHandler, InvAim
  <2> QED
    BY <2>2, <2>3, <2>4, <2>5 DEF IInv
<1>3. CASE Destroy
  <2>1. TypeOK'
    BY <1>3 DEF Destroy, IInv, TypeOK
  <2>2. InvMain' /\ InvStore' /\ InvDone'
    BY <1>3 DEF Destroy, IInv, TypeOK, InvMain, InvStore, InvDone
  <2>3. InvHandler' /\ InvAim'
    BY <1>3 DEF Destroy, IInv, InvHandler, InvAim
  <2> QED
    BY <2>1, <2>2, <2>3 DEF IInv
<1> QED
  BY <1>1, <1>2, <1>3 DEF MainStep

(* A running thread is neither unborn nor joined, so its moves disturb     *)
(* neither InvMain nor InvStore.                                           *)
LEMMA GotoKeeps ==
  ASSUME IInv, NEW t \in Threads, NEW from, NEW to, Goto(t, from, to),
         to \notin {"none", "wait"}, UNCHANGED <<main, created, store, done, hpos, aim>>,
         \A u \in Threads : intr'[u] = intr[u] \/ u = t
  PROVE  InvMain' /\ InvStore' /\ InvHandler' /\ InvDone' /\ InvAim'
<1> USE ThreadFacts
<1>1. pc[t] \notin {"none", "joined"} /\ hpos[t] = -1
  BY DEF Goto, Runs, Alive
<1>2. InvMain' /\ InvStore'
  BY <1>1 DEF Goto, IInv, TypeOK, InvMain, InvStore
<1>3. InvDone'
  BY <1>1 DEF Goto, IInv, TypeOK, InvDone
<1>4. InvHandler' /\ InvAim'
  BY <1>1 DEF Goto, IInv, TypeOK, InvHandler, InvAim
<1> QED
  BY <1>2, <1>3, <1>4

LEMMA EpollIInv ==
  ASSUME IInv, NEW t \in Threads, NEW to \in {"leave", "read"}, EpollReturns(t, to)
  PROVE  IInv'
<1> USE ThreadFacts DEF signalVars, counterVars, mainVars
<1>1. TypeOK'
  BY DEF EpollReturns, Goto, IInv, TypeOK, PcValues
<1>2. \A u \in Threads : intr'[u] = intr[u] \/ u = t
  BY DEF EpollReturns, IInv, TypeOK
<1> QED
  BY <1>1, <1>2, GotoKeeps DEF EpollReturns, IInv

LEMMA ThreadIInv ==
  ASSUME IInv, NEW t \in Threads, ThreadStep(t) PROVE IInv'
<1> USE ThreadFacts DEF signalVars, counterVars, mainVars
<1>1. CASE InitThread(t)
  <2>1. TypeOK'
    BY <1>1 DEF InitThread, Goto, Exit, IInv, TypeOK, PcValues
  <2>2. CASE MayFail /\ Runs(t) /\ pc[t] = "init" /\ Exit /\ UNCHANGED pc
    BY <1>1, <2>1, <2>2 DEF InitThread, Exit, IInv, InvMain, InvStore, InvHandler, InvDone, InvAim
  <2>3. CASE \E to \in {"loop", "dead"} : Goto(t, "init", to) /\ UNCHANGED mainVars
    BY <1>1, <2>1, <2>3, GotoKeeps DEF InitThread, IInv
  <2> QED
    BY <1>1, <2>2, <2>3 DEF InitThread
<1>2. CASE Loop(t)
  <2>1. TypeOK'
    BY <1>2 DEF Loop, Goto, IInv, TypeOK, PcValues
  <2>2. CASE Goto(t, "loop", "leave")
    BY <1>2, <2>1, <2>2, GotoKeeps DEF Loop, IInv
  <2>3. CASE ~ done[t] /\ Goto(t, "loop", "wait")
    <3>1. InvMain' /\ InvStore'
      BY <1>2, <2>3 DEF Loop, Goto, Runs, Alive, IInv, TypeOK, InvMain, InvStore
    <3>2. InvDone'
      BY <1>2, <2>3 DEF Loop, Goto, IInv, TypeOK, InvDone
    <3>3. InvHandler' /\ InvAim'
      BY <1>2 DEF Loop, IInv, InvHandler, InvAim
    <3> QED
      BY <2>1, <3>1, <3>2, <3>3 DEF IInv
  <2> QED
    BY <1>2, <2>2, <2>3 DEF Loop
<1>3. CASE EpollInterrupted(t)
  BY <1>3, EpollIInv DEF EpollInterrupted
<1>4. CASE LoadRecvd(t)
  <2>1. TypeOK'
    BY <1>4 DEF LoadRecvd, Goto, IInv, TypeOK, PcValues
  <2> QED
    BY <1>4, <2>1, GotoKeeps DEF LoadRecvd, IInv
<1>5. CASE StoreRecvd(t)
  <2>1. TypeOK'
    BY <1>5 DEF StoreRecvd, CountOne, Goto, IInv, TypeOK, PcValues
  <2> QED
    BY <1>5, <2>1, GotoKeeps DEF StoreRecvd, IInv
<1>6. CASE ProcessPacket(t)
  <2>1. TypeOK'
    BY <1>6 DEF ProcessPacket, Goto, IInv, TypeOK, PcValues
  <2> QED
    BY <1>6, <2>1, GotoKeeps DEF ProcessPacket, IInv
<1>7. CASE StoreWrit(t)
  <2>1. TypeOK'
    BY <1>7 DEF StoreWrit, CountOne, Goto, IInv, TypeOK, PcValues
  <2> QED
    BY <1>7, <2>1, GotoKeeps DEF StoreWrit, IInv
<1>8. CASE Leave(t)
  <2>1. TypeOK'
    BY <1>8 DEF Leave, Goto, IInv, TypeOK, PcValues
  <2> QED
    BY <1>8, <2>1, GotoKeeps DEF Leave, IInv
<1> QED
  BY <1>1, <1>2, <1>3, <1>4, <1>5, <1>6, <1>7, <1>8 DEF ThreadStep

LEMMA EnterIInv ==
  ASSUME IInv, NEW p \in Processes, EnterHandler(p),
         pending' \in [Threads -> BOOLEAN], nsig' \in 0..MaxSigints
  PROVE  IInv'
<1> USE ThreadFacts DEF mainVars, counterVars
<1>1. TypeOK'
  <2>1. 0 \in -1..CoreLimit
    OBVIOUS
  <2> QED
    BY <2>1 DEF EnterHandler, IInv, TypeOK
<1>2. InvHandler' /\ InvDone'
  BY DEF EnterHandler, IInv, TypeOK, InvHandler, InvDone
<1>3. aim[p] = FALSE
  BY DEF EnterHandler, Runs, IInv, TypeOK, InvAim
<1>4. InvAim'
  BY <1>3 DEF EnterHandler, IInv, TypeOK, InvAim
<1>5. InvMain' /\ InvStore'
  BY DEF EnterHandler, IInv, InvMain, InvStore
<1> QED
  BY <1>1, <1>2, <1>4, <1>5 DEF IInv

LEMMA SigintIInv == ASSUME IInv, Sigint PROVE IInv'
<1>1. pending' \in [Threads -> BOOLEAN] /\ nsig' \in 0..MaxSigints
  BY LifecycleAssumption DEF Sigint, IInv, TypeOK
<1> QED
  BY <1>1, EnterIInv DEF Sigint

(* The handler marks only the thread it runs on, which it interrupted. *)
LEMMA HandlerIInv ==
  ASSUME IInv, NEW p \in Processes, HandlerStep(p) PROVE IInv'
<1> USE ThreadFacts DEF mainVars, counterVars
<1>1. CASE p \in Threads /\ HandlerStart(p)
  <2>1. pending' \in [Threads -> BOOLEAN] /\ nsig' \in 0..MaxSigints
    BY <1>1 DEF HandlerStart, IInv, TypeOK
  <2> QED
    BY <1>1, <2>1, EnterIInv DEF HandlerStart
<1>2. CASE HandlerTest(p)
  <2>1. TypeOK'
    <3>1. hpos[p] + 1 \in -1..CoreLimit
      BY <1>2 DEF HandlerTest, Threads
    <3>2. done' \in [Threads -> BOOLEAN]
      <4>1. done' = [done EXCEPT ![hpos[p]] = done[hpos[p]] \/ hpos[p] = p]
        BY <1>2 DEF HandlerTest, Mark
      <4>2. done \in [Threads -> BOOLEAN]
        BY DEF IInv, TypeOK
      <4>3. (done[hpos[p]] \/ hpos[p] = p) \in BOOLEAN
        OBVIOUS
      <4>4. \A b \in BOOLEAN : \A i : [done EXCEPT ![i] = b] \in [Threads -> BOOLEAN]
        BY <4>2
      <4> QED
        BY <4>1, <4>3, <4>4
    <3>3. hpos' \in [Processes -> -1..CoreLimit] /\ aim' \in [Processes -> BOOLEAN]
      <4>1. CASE aim' = [aim EXCEPT ![p] = TRUE] /\ hpos' = hpos
        BY <4>1 DEF IInv, TypeOK
      <4>2. CASE hpos' = [hpos EXCEPT ![p] = hpos[p] + 1] /\ aim' = aim
        BY <3>1, <4>2 DEF IInv, TypeOK
      <4> QED
        BY <1>2, <4>1, <4>2 DEF HandlerTest
    <3>4. UNCHANGED <<process, main, created, store, pc, pending, nsig, intr, recvd, writ, reg, got, sent>>
      BY <1>2 DEF HandlerTest
    <3> QED
      BY <3>2, <3>3, <3>4 DEF IInv, TypeOK
  <2>2. InvHandler'
    BY <1>2 DEF HandlerTest, IInv, TypeOK, InvHandler
  <2>3. InvDone'
    BY <1>2 DEF HandlerTest, Mark, IInv, TypeOK, InvHandler, InvDone
  <2>4. InvAim'
    BY <1>2 DEF HandlerTest, IInv, TypeOK, InvAim
  <2>5. InvMain' /\ InvStore'
    BY <1>2 DEF HandlerTest, IInv, InvMain, InvStore
  <2> QED
    BY <2>1, <2>2, <2>3, <2>4, <2>5 DEF IInv
<1>3. CASE HandlerKill(p)
  <2>1. hpos[p] \in Threads
    BY <1>3 DEF HandlerKill, IInv, InvAim
  <2>2. TypeOK'
    <3>1. pending' \in [Threads -> BOOLEAN]
      <4>1. pending' = [pending EXCEPT ![hpos[p]] = Alive(hpos[p])]
        BY <1>3 DEF HandlerKill
      <4>2. Alive(hpos[p]) \in BOOLEAN
        BY DEF Alive
      <4>3. \A b \in BOOLEAN : \A i : [pending EXCEPT ![i] = b] \in [Threads -> BOOLEAN]
        BY DEF IInv, TypeOK
      <4> QED
        BY <4>1, <4>2, <4>3
    <3>2. hpos[p] + 1 \in -1..CoreLimit
      BY <2>1 DEF Threads
    <3> QED
      BY <1>3, <3>1, <3>2 DEF HandlerKill, IInv, TypeOK
  <2>3. InvHandler' /\ InvAim'
    BY <1>3, <2>1 DEF HandlerKill, IInv, TypeOK, InvHandler, InvAim
  <2>4. InvMain' /\ InvStore' /\ InvDone'
    BY <1>3 DEF HandlerKill, IInv, InvMain, InvStore, InvDone
  <2> QED
    BY <2>2, <2>3, <2>4 DEF IInv
<1>4. CASE HandlerReturn(p)
  <2>1. TypeOK'
    BY <1>4 DEF HandlerReturn, IInv, TypeOK
  <2>2. InvHandler' /\ InvAim'
    BY <1>4 DEF HandlerReturn, IInv, TypeOK, InvHandler, InvAim
  <2>3. InvMain' /\ InvStore' /\ InvDone'
    BY <1>4 DEF HandlerReturn, IInv, InvMain, InvStore, InvDone
  <2> QED
    BY <2>1, <2>2, <2>3 DEF IInv
<1> QED
  BY <1>1, <1>2, <1>3, <1>4 DEF HandlerStep

LEMMA StutterIInv == IInv /\ UNCHANGED vars => IInv'
  BY DEF vars, mainVars, signalVars, counterVars, IInv, TypeOK, InvMain, InvStore,
         InvHandler, InvDone, InvAim

LEMMA NextIInv == IInv /\ [Next]_vars => IInv'
<1>1. ASSUME IInv, NEW t \in Threads, EpollWakes(t) PROVE IInv'
  BY <1>1, EpollIInv DEF EpollWakes
<1> QED
  BY <1>1, MainIInv, ThreadIInv, HandlerIInv, SigintIInv, StutterIInv DEF Next, Over

LEMMA IInvCorrect == Spec => []IInv
  BY InitIInv, NextIInv, PTL DEF Spec

-----------------------------------------------------------------------------
(* The sums of the packets that the threads below n have counted.          *)
AreSums(sum, count, n) ==
  /\ sum \in [0..n -> Nat]
  /\ sum[0] = 0
  /\ \A i \in 0..n - 1 : sum[i + 1] = sum[i] + count[i]

LEMMA SumsExist ==
  ASSUME NEW count \in [Threads -> Nat]
  PROVE  \E sum : AreSums(sum, count, CoreLimit)
<1> DEFINE T == {m \in Nat : m <= CoreLimit => \E sum : AreSums(sum, count, m)}
<1>1. 0 \in T
  <2>1. AreSums([i \in 0..0 |-> 0], count, 0)
    BY DEF AreSums
  <2> QED
    BY <2>1
<1>2. ASSUME NEW m \in Nat, m \in T PROVE m + 1 \in T
  <2> SUFFICES ASSUME m + 1 <= CoreLimit PROVE \E sum : AreSums(sum, count, m + 1)
    OBVIOUS
  <2>1. m \in Threads
    BY ThreadFacts DEF Threads
  <2>2. PICK f : AreSums(f, count, m)
    BY <1>2, ThreadFacts
  <2> DEFINE g == [i \in 0..m + 1 |-> IF i = m + 1 THEN f[m] + count[m] ELSE f[i]]
  <2>3. AreSums(g, count, m + 1)
    BY <2>1, <2>2 DEF AreSums
  <2> QED
    BY <2>3
<1>3. \A n \in Nat : n \in T
  <2> HIDE DEF T
  <2> QED
    BY <1>1, <1>2, Induction
<1> QED
  BY <1>3, ThreadFacts

LEMMA SumsAreSums ==
  ASSUME NEW count \in [Threads -> Nat]
  PROVE  AreSums(Sums(count), count, CoreLimit)
<1> DEFINE Is(g) ==
      g = [n \in 0..CoreLimit |-> IF n = 0 THEN 0 ELSE g[n - 1] + count[n - 1]]
<1>1. PICK f : AreSums(f, count, CoreLimit)
  BY SumsExist
<1>2. Is(f)
  <2>1. ASSUME NEW n \in 0..CoreLimit
        PROVE  f[n] = IF n = 0 THEN 0 ELSE f[n - 1] + count[n - 1]
    BY <1>1, ThreadFacts DEF AreSums
  <2> QED
    BY <1>1, <2>1 DEF AreSums
<1>3. Is(Sums(count))
  <2>1. Sums(count) = CHOOSE g : Is(g)
    BY DEF Sums
  <2> HIDE DEF Is
  <2> QED
    BY <1>2, <2>1, Zenon
<1> DEFINE sum == Sums(count)
<1>4. \A n \in 0..CoreLimit : sum[n] = IF n = 0 THEN 0 ELSE sum[n - 1] + count[n - 1]
  BY <1>3
<1>5. DOMAIN sum = 0..CoreLimit /\ sum = [n \in DOMAIN sum |-> sum[n]]
  BY <1>3
<1> HIDE DEF sum, Is
<1>6. sum[0] = 0 /\ \A i \in 0..CoreLimit - 1 : sum[i + 1] = sum[i] + count[i]
  BY <1>4, ThreadFacts
<1> DEFINE T == {m \in Nat : m <= CoreLimit => sum[m] \in Nat}
<1>7. 0 \in T
  BY <1>6
<1>8. ASSUME NEW m \in Nat, m \in T PROVE m + 1 \in T
  <2> SUFFICES ASSUME m + 1 <= CoreLimit PROVE sum[m + 1] \in Nat
    OBVIOUS
  <2>1. m \in 0..CoreLimit - 1 /\ m \in Threads
    BY ThreadFacts DEF Threads
  <2> QED
    <3>1. sum[m] \in Nat /\ count[m] \in Nat
      BY <1>8, <2>1, ThreadFacts
    <3>2. sum[m + 1] = sum[m] + count[m]
      BY <1>6, <2>1
    <3> QED
      BY <3>1, <3>2
<1>9. \A n \in Nat : n \in T
  <2> HIDE DEF T
  <2> QED
    BY <1>7, <1>8, Induction
<1> QED
  BY <1>5, <1>6, <1>9 DEF AreSums, sum

LEMMA TotalIsNat == ASSUME NEW count \in [Threads -> Nat] PROVE Total(count) \in Nat
  BY SumsAreSums, ThreadFacts DEF Total, AreSums

(* One thread's count goes up, and so does the total.                      *)
LEMMA TotalOfOneMore ==
  ASSUME NEW count \in [Threads -> Nat], NEW t \in Threads
  PROVE  Total([count EXCEPT ![t] = @ + 1]) = Total(count) + 1
<1> DEFINE more == [count EXCEPT ![t] = @ + 1]
           T == {n \in Nat : n <= CoreLimit =>
                   Sums(more)[n] = Sums(count)[n] + (IF n <= t THEN 0 ELSE 1)}
<1>1. AreSums(Sums(count), count, CoreLimit) /\ AreSums(Sums(more), more, CoreLimit)
  <2>1. more \in [Threads -> Nat]
    BY ThreadFacts
  <2> HIDE DEF more
  <2> QED
    BY <2>1, SumsAreSums
<1>2. 0 \in T
  BY <1>1, ThreadFacts DEF AreSums
<1>3. ASSUME NEW n \in Nat, n \in T PROVE n + 1 \in T
  <2> SUFFICES ASSUME n + 1 <= CoreLimit
               PROVE  Sums(more)[n + 1] = Sums(count)[n + 1] + (IF n + 1 <= t THEN 0 ELSE 1)
    OBVIOUS
  <2>1. n \in 0..CoreLimit - 1 /\ n \in 0..CoreLimit /\ n \in Threads /\ t \in Nat
    BY ThreadFacts DEF Threads
  <2>2. more[n] = count[n] + (IF n = t THEN 1 ELSE 0)
    BY <2>1
  <2>3. Sums(more)[n + 1] = Sums(more)[n] + more[n] /\ Sums(count)[n + 1] = Sums(count)[n] + count[n]
    BY <1>1, <2>1 DEF AreSums
  <2>4. Sums(count)[n] \in Nat /\ count[n] \in Nat
    BY <1>1, <2>1 DEF AreSums
  <2>5. Sums(more)[n] = Sums(count)[n] + (IF n <= t THEN 0 ELSE 1)
    BY <1>3, ThreadFacts
  <2> QED
    BY <2>1, <2>2, <2>3, <2>4, <2>5
<1>4. CoreLimit \in T
  <2> HIDE DEF T
  <2> QED
    BY <1>2, <1>3, Induction, ThreadFacts
<1> QED
  BY <1>4, ThreadFacts DEF Total

(* A load-and-store increment writes back at most one more than what the   *)
(* counter was when it was loaded, and by then the total has grown too.    *)
InvBounds ==
  /\ recvd <= Total(got)
  /\ writ <= Total(sent)
  /\ \A t \in Threads : /\ pc[t] = "count" => reg[t] <= Total(got)
                        /\ pc[t] = "tally" => reg[t] <= Total(sent)

(* A thread that is past its first count counts as serving for good.       *)
InvServing == \A t \in Threads : pc[t] \in {"process", "tally"} => got[t] > 0

(* A thread that serves alone finds in its register what the counter is.   *)
InvAlone ==
  \A t \in Threads : (\A u \in Threads \ {t} : ~ Serving(u)) =>
    /\ recvd = got[t] /\ writ = sent[t]
    /\ pc[t] = "count" => reg[t] = recvd
    /\ pc[t] = "tally" => reg[t] = writ

CountInv == InvBounds /\ InvServing /\ InvAlone

LEMMA InitCountInv == Init => CountInv
<1> SUFFICES ASSUME Init PROVE CountInv
  OBVIOUS
<1>1. Total(got) \in Nat /\ Total(sent) \in Nat
  BY TotalIsNat DEF Init
<1> QED
  BY <1>1 DEF Init, CountInv, InvBounds, InvServing, InvAlone

(* A step that is not part of an increment.                                *)
LEMMA CountsKept ==
  ASSUME TypeOK, CountInv, UNCHANGED counterVars,
         \A t \in Threads : \/ pc'[t] = pc[t]
                            \/ /\ pc[t] \notin {"read", "count", "process", "tally"}
                               /\ pc'[t] \notin {"count", "process", "tally"}
  PROVE  CountInv'
<1> USE DEF counterVars
<1>1. InvBounds' /\ InvServing'
  BY DEF CountInv, InvBounds, InvServing
<1>2. \A t \in Threads : Serving(t) => Serving(t)'
  BY DEF Serving
<1>3. InvAlone'
  BY <1>2 DEF CountInv, InvAlone
<1> QED
  BY <1>1, <1>3 DEF CountInv

LEMMA MainCountInv == ASSUME IInv, CountInv, MainStep PROVE CountInv'
<1> USE ThreadFacts
<1>1. CASE CreateThread
  <2>1. MoreThreads => pc[created] = "none"
    BY <1>1 DEF CreateThread, MoreThreads, Threads, IInv, TypeOK, InvMain
  <2> QED
    BY <1>1, <2>1, CountsKept DEF CreateThread, IInv, TypeOK
<1>2. CASE JoinThread
  BY <1>2, CountsKept DEF JoinThread, Joinable, IInv, TypeOK
<1>3. CASE Destroy
  BY <1>3, CountsKept DEF Destroy, IInv
<1> QED
  BY <1>1, <1>2, <1>3 DEF MainStep

LEMMA ThreadCountInv ==
  ASSUME IInv, CountInv, NEW t \in Threads, ThreadStep(t) \/ EpollWakes(t) PROVE CountInv'
<1> USE ThreadFacts
<1>0. /\ TypeOK /\ pc \in [Threads -> PcValues]
      /\ recvd \in Nat /\ writ \in Nat /\ reg \in [Threads -> Nat]
      /\ got \in [Threads -> Nat] /\ sent \in [Threads -> Nat]
      /\ Total(got) \in Nat /\ Total(sent) \in Nat
  BY TotalIsNat DEF IInv, TypeOK
<1>1. CASE InitThread(t) \/ Loop(t) \/ EpollInterrupted(t) \/ EpollWakes(t) \/ Leave(t)
  <2>1. UNCHANGED counterVars
    BY <1>1 DEF InitThread, Loop, EpollInterrupted, EpollWakes, EpollReturns, Leave
  <2>2. \/ UNCHANGED pc
        \/ \E from \in {"init", "loop", "wait", "leave"}, to \in {"loop", "dead", "wait", "leave", "read"} :
             Goto(t, from, to)
    BY <1>1 DEF InitThread, Loop, EpollInterrupted, EpollWakes, EpollReturns, Leave
  <2> QED
    BY <1>0, <2>1, <2>2, CountsKept DEF Goto
<1>2. CASE LoadRecvd(t)
  <2>1. InvBounds' /\ InvServing'
    BY <1>0, <1>2 DEF LoadRecvd, Goto, CountInv, InvBounds, InvServing
  <2>2. \A u \in Threads : Serving(u) => Serving(u)'
    BY <1>0, <1>2 DEF LoadRecvd, Goto, Serving
  <2>3. InvAlone'
    BY <1>0, <1>2, <2>2 DEF LoadRecvd, Goto, CountInv, InvAlone
  <2> QED
    BY <2>1, <2>3 DEF CountInv
<1>3. CASE StoreRecvd(t)
  <2>1. Total(got') = Total(got) + 1
    <3>2. got' = [got EXCEPT ![t] = got[t] + 1]
      BY <1>3 DEF StoreRecvd
    <3>3. Total([got EXCEPT ![t] = got[t] + 1]) = Total(got) + 1
      BY <1>0, TotalOfOneMore
    <3> QED
      BY <3>2, <3>3
  <2>2. InvBounds' /\ InvServing'
    <3>1. Total(sent') = Total(sent)
      BY <1>3 DEF StoreRecvd, Total, Sums
    <3>2. reg[t] <= Total(got)
      BY <1>3 DEF StoreRecvd, Goto, CountInv, InvBounds
    <3>3. \A u \in Threads : reg'[u] = reg[u] /\ (u # t => pc'[u] = pc[u])
      BY <1>0, <1>3 DEF StoreRecvd, Goto
    <3>4. pc'[t] \notin {"count", "tally"}
      BY <1>0, <1>3 DEF StoreRecvd, Goto
    <3>5. InvBounds'
      <4>1. /\ recvd <= Total(got) /\ writ <= Total(sent)
            /\ \A u \in Threads : /\ pc[u] = "count" => reg[u] <= Total(got)
                                  /\ pc[u] = "tally" => reg[u] <= Total(sent)
        BY DEF CountInv, InvBounds
      <4>2. recvd' = reg[t] + 1 /\ writ' = writ /\ reg[t] \in Nat
        BY <1>0, <1>3 DEF StoreRecvd, CountOne
      <4>3. recvd' <= Total(got') /\ writ' <= Total(sent')
        BY <1>0, <2>1, <3>1, <3>2, <4>1, <4>2
      <4>4. ASSUME NEW u \in Threads, pc'[u] \in {"count", "tally"}
            PROVE  u # t /\ pc'[u] = pc[u] /\ reg'[u] = reg[u] /\ reg[u] \in Nat
        BY <1>0, <3>3, <3>4, <4>4
      <4>5. \A u \in Threads : /\ pc'[u] = "count" => reg'[u] <= Total(got')
                               /\ pc'[u] = "tally" => reg'[u] <= Total(sent')
        BY <1>0, <2>1, <3>1, <4>1, <4>4
      <4> QED
        BY <4>3, <4>5 DEF InvBounds
    <3>6. InvServing'
      BY <1>0, <1>3 DEF StoreRecvd, Goto, CountInv, InvServing
    <3> QED
      BY <3>5, <3>6
  <2>3. Serving(t) /\ \A u \in Threads : Serving(u) => Serving(u)'
    BY <1>0, <1>3 DEF StoreRecvd, Goto, Serving
  <2>4. Serving(t)'
    BY <2>3
  <2>5. InvAlone'
    BY <1>0, <1>3, <2>3, <2>4 DEF StoreRecvd, CountOne, Goto, CountInv, InvAlone
  <2> QED
    BY <2>2, <2>5 DEF CountInv
<1>4. CASE ProcessPacket(t)
  <2>1. InvBounds' /\ InvServing'
    BY <1>0, <1>4 DEF ProcessPacket, Goto, CountInv, InvBounds, InvServing
  <2>2. \A u \in Threads : Serving(u) => Serving(u)'
    BY <1>0, <1>4 DEF ProcessPacket, Goto, Serving
  <2>3. Serving(t)'
    BY <1>4 DEF ProcessPacket, Goto, Serving, CountInv, InvServing
  <2>4. InvAlone'
    BY <1>0, <1>4, <2>2, <2>3 DEF ProcessPacket, Goto, CountInv, InvAlone
  <2> QED
    BY <2>1, <2>4 DEF CountInv
<1>5. CASE StoreWrit(t)
  <2>1. Total(sent') = Total(sent) + 1
    <3>2. sent' = [sent EXCEPT ![t] = sent[t] + 1]
      BY <1>5 DEF StoreWrit
    <3>3. Total([sent EXCEPT ![t] = sent[t] + 1]) = Total(sent) + 1
      BY <1>0, TotalOfOneMore
    <3> QED
      BY <3>2, <3>3
  <2>2. InvBounds' /\ InvServing'
    <3>1. Total(got') = Total(got)
      BY <1>5 DEF StoreWrit, Total, Sums
    <3>2. reg[t] <= Total(sent)
      BY <1>5 DEF StoreWrit, Goto, CountInv, InvBounds
    <3>3. \A u \in Threads : reg'[u] = reg[u] /\ (u # t => pc'[u] = pc[u])
      BY <1>0, <1>5 DEF StoreWrit, Goto
    <3>4. pc'[t] \notin {"count", "tally"}
      BY <1>0, <1>5 DEF StoreWrit, Goto
    <3>5. InvBounds'
      <4>1. /\ recvd <= Total(got) /\ writ <= Total(sent)
            /\ \A u \in Threads : /\ pc[u] = "count" => reg[u] <= Total(got)
                                  /\ pc[u] = "tally" => reg[u] <= Total(sent)
        BY DEF CountInv, InvBounds
      <4>2. writ' = reg[t] + 1 /\ recvd' = recvd /\ reg[t] \in Nat
        BY <1>0, <1>5 DEF StoreWrit, CountOne
      <4>3. writ' <= Total(sent') /\ recvd' <= Total(got')
        BY <1>0, <2>1, <3>1, <3>2, <4>1, <4>2
      <4>4. ASSUME NEW u \in Threads, pc'[u] \in {"count", "tally"}
            PROVE  u # t /\ pc'[u] = pc[u] /\ reg'[u] = reg[u] /\ reg[u] \in Nat
        BY <1>0, <3>3, <3>4, <4>4
      <4>5. \A u \in Threads : /\ pc'[u] = "count" => reg'[u] <= Total(got')
                               /\ pc'[u] = "tally" => reg'[u] <= Total(sent')
        BY <1>0, <2>1, <3>1, <4>1, <4>4
      <4> QED
        BY <4>3, <4>5 DEF InvBounds
    <3>6. InvServing'
      BY <1>0, <1>5 DEF StoreWrit, Goto, CountInv, InvServing
    <3> QED
      BY <3>5, <3>6
  <2>3. \A u \in Threads : Serving(u) => Serving(u)'
    BY <1>0, <1>5 DEF StoreWrit, Goto, Serving
  <2>4. Serving(t)'
    BY <1>5 DEF StoreWrit, Goto, Serving, CountInv, InvServing
  <2>5. InvAlone'
    BY <1>0, <1>5, <2>3, <2>4 DEF StoreWrit, CountOne, Goto, CountInv, InvAlone
  <2> QED
    BY <2>2, <2>5 DEF CountInv
<1> QED
  BY <1>1, <1>2, <1>3, <1>4, <1>5 DEF ThreadStep

LEMMA NextCountInv == IInv /\ CountInv /\ [Next]_vars => CountInv'
<1> SUFFICES ASSUME IInv, CountInv, [Next]_vars PROVE CountInv'
  OBVIOUS
<1>1. CASE Sigint \/ UNCHANGED vars \/ \E p \in Processes : HandlerStep(p)
  <2>1. UNCHANGED <<pc, counterVars>>
    BY <1>1 DEF Sigint, vars, EnterHandler, HandlerStep, HandlerStart, HandlerTest, HandlerKill, HandlerReturn
  <2> QED
    BY <2>1, CountsKept DEF IInv
<1> QED
  BY <1>1, MainCountInv, ThreadCountInv DEF Next, Over

-----------------------------------------------------------------------------

(* Every variable of the server process keeps its type: in particular      *)
(* main()'s loops and the handler's loop stay within app_thread[].         *)
THEOREM TypeCorrect == Spec => []TypeOK
<1>1. IInv => TypeOK
  BY DEF IInv
<1> QED
  BY <1>1, IInvCorrect, PTL

(* kvstore_destroy() deletes the store after every server thread has been  *)
(* joined.                                                                 *)
THEOREM StoreCorrect == Spec => []InvStore
<1>1. IInv => InvStore
  BY DEF IInv
<1> QED
  BY <1>1, IInvCorrect, PTL

(* SignalHandler loses no wake-up: a thread whose done[] is set does not   *)
(* sleep in mtcp_epoll_wait.                                               *)
THEOREM DoneCorrect == Spec => []InvDone
<1>1. IInv => InvDone
  BY DEF IInv
<1> QED
  BY <1>1, IInvCorrect, PTL

(* num_pkts_recvd and num_pkts_writ are never larger than what the threads *)
(* received and wrote, and exact as long as one thread serves alone,       *)
(* although an increment is a load and a store without a lock.             *)
THEOREM CountsCorrect == Spec => []InvCounts
<1>1. CountInv => InvCounts
  BY DEF CountInv, InvBounds, InvAlone, InvCounts
<1> QED
  BY <1>1, IInvCorrect, InitCountInv, NextCountInv, PTL DEF Spec

=============================================================================
