---------------------------- MODULE Application ----------------------------
(***************************************************************************)
(* server-5204's Application with its log: processes that share a pid file *)
(* (PidFile) and a log (LogFile).  init() opens the log; run() writes to   *)
(* it from several threads, and returns when they are done; a crash may    *)
(* come in the middle of a rotation.                                       *)
(***************************************************************************)
EXTENDS PidFile, LogFile

(* The two modules speak of the same processes. *)
ASSUME SameProcesses == Loggers = Pids

vars == <<pidVars, logVars>>

TypeOK == PidTypeOK /\ LogTypeOK

Init == PidInit /\ LogInit

Ending == {p \in Pids : pc[p] # "off" /\ pc'[p] = "off"}

OpenLog(p) == LogOpened(p) /\ LogOpen(p)

ForkLog(p, c) ==
  /\ Daemonize(p, c)
  /\ IF pc'[c] = "off" THEN LogEnd({p}) ELSE LogFork(p, c)

Return(p) ==
  /\ MutexFree(p)
  /\ RunReturns(p)
  /\ UNCHANGED logVars

Log(p, t) ==
  /\ pc[p] = "run"
  /\ LogStep(p, t)
  /\ UNCHANGED pidVars

(* main() without run(). *)
MainStep(p) ==
  \/ (InitStep(p) \/ NoLog(p) \/ RemovePidfile(p)) /\ LogEnd(Ending)
  \/ OpenLog(p)
  \/ \E c \in Pids : ForkLog(p, c)

Next ==
  \E p \in Pids :
    \/ (Begin(p) \/ BeginOther(p)) /\ UNCHANGED logVars
    \/ MainStep(p)
    \/ Return(p)
    \/ \E t \in Threads : Log(p, t)
    \/ Crash(p) /\ LogEnd(Ending)

(* Each process is scheduled, and its run() returns after SIGTERM. *)
Fairness ==
  \A p \in Pids :
    WF_vars(\/ MainStep(p)
            \/ terminated[p] /\ (Return(p) \/ \E t \in Threads : Log(p, t)))

Spec == Init /\ [][Next]_vars /\ Fairness

-----------------------------------------------------------------------------
(* The threads of a server do not write to a closed log, and its Logger    *)
(* rotates in time, after a restart too: the mutex keeps the threads out   *)
(* of rotate(), and the pid file other servers, whose writes would not be  *)
(* counted and whose rename would take the file away.  A full disk only    *)
(* makes the Logger rotate early, until the next open.  A rotation that    *)
(* fails (log.cpp:178) spoils the log of its own process, not of the next  *)
(* one.  With overlapping commands none of this holds.                     *)
InvOpen == ~overlap => NoUseAfterClose /\ SizeKnown

=============================================================================
