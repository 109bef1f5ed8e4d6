------------------------- MODULE Application_proofs -------------------------
(***************************************************************************)
(* The invariants of Application, for any number of processes, threads and *)
(* messages, any rotate_size_ and any time: types, one server to a pid     *)
(* file, no message lost from the log, and no write to a closed one.       *)
(***************************************************************************)
EXTENDS Application, TLAPS

(* While commands do not overlap, one process at most is between its start *)
(* and run(),                                                              *)
OneStarting ==
  ~overlap => \A p, q \in Pids : pc[p] \in Starting /\ pc[q] \in Starting => p = q

(* and past check_pidfile(), or past a kill -0 that found nobody, no       *)
(* server is left.                                                         *)
Free == {"stale", "log", "daemon", "create", "write"}

NoServer ==
  ~overlap => \A p, q \in Pids : pc[p] \in Free => pc[q] \notin Serving

(* The pid that was read is that of the server, if there still is one. *)
TargetKnown ==
  ~overlap => \A p, q \in Pids : pc[p] = "probe" /\ pc[q] \in Serving => target[p] = q

(* Nobody touches the file between fopen() and fclose(). *)
OwnFile ==
  ~overlap => \A p \in Pids : pc[p] = "write" => pidfile = "empty"

PidInv == PidTypeOK /\ OneStarting /\ NoServer /\ TargetKnown /\ OwnFile /\ InvOneServer

LEMMA PidInitInv == PidInit => PidInv
  <1> SUFFICES ASSUME PidInit PROVE PidInv
    OBVIOUS
  <1>1. PidTypeOK
    <2>1. commands \in 0..MaxCommands
      BY PidAssumption DEF PidInit
    <2>2. overlap \in BOOLEAN /\ crashed \in BOOLEAN
      BY Zenon DEF PidInit
    <2>3. terminated \in [Pids -> BOOLEAN]
      BY Zenon DEF PidInit
    <2> QED
      BY <2>1, <2>2, <2>3 DEF PidInit, PidTypeOK
  <1>2. \A p \in Pids : pc[p] = "off"
    BY DEF PidInit
  <1> QED
    BY <1>1, <1>2 DEF PidInv, OneStarting, NoServer, TargetKnown, OwnFile, InvOneServer,
                      Starting, Free, Serving

-----------------------------------------------------------------------------
LEMMA GotoTypes ==
  ASSUME PidTypeOK, NEW p \in Pids, NEW from, NEW to \in Starting \cup Serving,
         Goto(p, from, to), target' \in [Pids -> Pids \cup {"none"}],
         pidfile' \in Pids \cup {"absent", "empty"}
  PROVE  PidTypeOK'
  BY DEF PidTypeOK, Goto

LEMMA ExitTypes ==
  ASSUME PidTypeOK, NEW ps \in SUBSET Pids, Exit(ps), crashed' \in BOOLEAN,
         pidfile' \in Pids \cup {"absent", "empty"}
  PROVE  PidTypeOK'
  BY DEF PidTypeOK, Exit

(* A process that ends disturbs nothing, if it leaves the file alone. *)
LEMMA ExitKeeps ==
  ASSUME PidInv, NEW p \in Pids, Exit({p}), pidfile' = pidfile, crashed' \in BOOLEAN
  PROVE  PidInv'
  <1>1. PidTypeOK'
    BY ExitTypes DEF PidInv, PidTypeOK
  <1>2. /\ \A q \in Pids : pc'[q] = IF q = p THEN "off" ELSE pc[q]
        /\ \A q \in Pids : target'[q] = IF q = p THEN "none" ELSE target[q]
        /\ overlap' = overlap /\ pidfile' = pidfile
    BY DEF Exit
  <1>3. OneStarting' /\ NoServer' /\ OwnFile'
    BY <1>2 DEF PidInv, OneStarting, NoServer, OwnFile, Starting, Free, Serving
  <1>4. TargetKnown' /\ InvOneServer'
    BY <1>2 DEF PidInv, TargetKnown, InvOneServer, Serving
  <1> QED
    BY <1>1, <1>3, <1>4 DEF PidInv

(* A process that goes on in init(), not as far as where NoServer and      *)
(* TargetKnown say something of it.                                        *)
LEMMA GotoKeeps ==
  ASSUME PidInv, NEW p \in Pids, NEW from \in Starting, NEW to \in Starting,
         Goto(p, from, to), pidfile' = pidfile,
         \A q \in Pids \ {p} : target'[q] = target[q],
         target' \in [Pids -> Pids \cup {"none"}],
         ~overlap /\ to \in Free => \A q \in Pids : pc[q] \notin Serving,
         ~overlap /\ to = "probe" => \A q \in Pids : pc[q] \in Serving => target'[p] = q,
         to # "write"
  PROVE  PidInv'
  <1>1. PidTypeOK'
    BY GotoTypes DEF PidInv, PidTypeOK
  <1>2. /\ \A q \in Pids : pc'[q] = IF q = p THEN to ELSE pc[q]
        /\ pc[p] = from /\ overlap' = overlap
    BY DEF PidInv, PidTypeOK, Goto
  <1>3. to \notin Serving /\ from \notin Serving
    BY DEF Starting, Serving
  <1>4. OneStarting' /\ OwnFile'
    BY <1>2 DEF PidInv, OneStarting, OwnFile
  <1>5. NoServer' /\ TargetKnown'
    BY <1>2, <1>3 DEF PidInv, NoServer, TargetKnown
  <1>6. InvOneServer'
    BY <1>2, <1>3 DEF PidInv, InvOneServer
  <1> QED
    BY <1>1, <1>4, <1>5, <1>6 DEF PidInv

LEMMA BeginKeeps ==
  ASSUME PidInv, NEW p \in Pids, Begin(p) \/ BeginOther(p)
  PROVE  PidInv'
  <1>1. CASE Begin(p)
    <2>1. PICK c \in Commands : /\ cmd' = [cmd EXCEPT ![p] = c]
                                /\ pc' = [pc EXCEPT ![p] = FirstStep[c]]
      BY <1>1 DEF Begin
    <2>2. FirstStep[c] \in {"check", "read", "exists"}
      BY DEF Commands, FirstStep
    <2>3. /\ overlap' = (overlap \/ \E q \in Pids : pc[q] \in Starting)
          /\ UNCHANGED <<target, pidfile, terminated, crashed>>
          /\ commands < MaxCommands /\ commands' = commands + 1 /\ pc[p] = "off"
      BY <1>1 DEF Begin, Launch
    <2>4. PidTypeOK'
      BY <2>1, <2>2, <2>3, PidAssumption DEF PidInv, PidTypeOK, Starting
    <2>5. \A q \in Pids : pc'[q] = IF q = p THEN FirstStep[c] ELSE pc[q]
      BY <2>1 DEF PidInv, PidTypeOK
    <2>6. OneStarting' /\ OwnFile'
      BY <2>2, <2>3, <2>5 DEF PidInv, OneStarting, OwnFile
    <2>7. NoServer' /\ TargetKnown'
      BY <2>2, <2>3, <2>5 DEF PidInv, NoServer, TargetKnown, Free, Serving
    <2>8. InvOneServer'
      BY <2>2, <2>3, <2>5 DEF PidInv, InvOneServer, Serving
    <2> QED
      BY <2>4, <2>6, <2>7, <2>8 DEF PidInv
  <1>2. CASE BeginOther(p)
    <2>1. /\ pc' = [pc EXCEPT ![p] = "other"]
          /\ UNCHANGED <<cmd, target, pidfile, terminated, overlap, crashed>>
          /\ commands < MaxCommands /\ commands' = commands + 1
      BY <1>2 DEF BeginOther, Launch
    <2>2. PidTypeOK'
      BY <2>1, PidAssumption DEF PidInv, PidTypeOK
    <2>3. \A q \in Pids : pc'[q] = IF q = p THEN "other" ELSE pc[q]
      BY <2>1 DEF PidInv, PidTypeOK
    <2>4. OneStarting' /\ OwnFile' /\ NoServer' /\ TargetKnown'
      BY <2>1, <2>3 DEF PidInv, OneStarting, OwnFile, NoServer, TargetKnown, Starting, Free, Serving
    <2>5. InvOneServer'
      BY <2>1, <2>3 DEF PidInv, InvOneServer, Serving
    <2> QED
      BY <2>2, <2>4, <2>5 DEF PidInv
  <1> QED
    BY <1>1, <1>2

(* init() up to the log. *)
LEMMA LookKeeps ==
  ASSUME PidInv, NEW p \in Pids,
         Exists(p) \/ ReadPid(p) \/ Probe(p) \/ WaitGone(p) \/ CheckPidfile(p) \/ NoLog(p)
  PROVE  PidInv'
  <1> USE DEF Starting, Free
  <1>1. target \in [Pids -> Pids \cup {"none"}] /\ pidfile \in Pids \cup {"absent", "empty"}
    BY DEF PidInv, PidTypeOK
  <1>2. pidfile = "absent" /\ ~overlap => \A q \in Pids : pc[q] \notin Serving
    BY PidAssumption DEF PidInv, InvOneServer
  <1>3. CASE Exists(p)
    BY <1>1, <1>3, GotoKeeps DEF Exists
  <1>4. CASE ReadPid(p)
    <2>1. CASE pidfile \in Pids
      <3>1. /\ Goto(p, "read", "probe") /\ pidfile' = pidfile
            /\ target' = [target EXCEPT ![p] = pidfile]
        BY <1>4, <2>1 DEF ReadPid
      <3>2. ~overlap => \A q \in Pids : pc[q] \in Serving => target'[p] = q
        BY <1>1, <2>1, <3>1, PidAssumption DEF PidInv, InvOneServer
      <3>3. /\ target' \in [Pids -> Pids \cup {"none"}]
            /\ \A q \in Pids \ {p} : target'[q] = target[q]
        BY <1>1, <2>1, <3>1
      <3> QED
        BY <3>1, <3>2, <3>3, GotoKeeps
    <2>2. CASE pidfile \notin Pids
      BY <1>4, <2>2, ExitKeeps DEF ReadPid, ExitAt, PidInv, PidTypeOK
    <2> QED
      BY <2>1, <2>2
  <1>5. CASE Probe(p)
    <2>1. ~overlap /\ Gone(p) => \A q \in Pids : pc[q] \notin Serving
      BY <1>5 DEF Probe, Goto, Gone, PidInv, TargetKnown, Serving
    <2> QED
      BY <1>1, <1>5, <2>1, GotoKeeps DEF Probe
  <1>6. CASE WaitGone(p)
    <2>1. CASE ExitAt(p, "wait")
      BY <1>6, <2>1, ExitKeeps DEF WaitGone, ExitAt, PidInv, PidTypeOK
    <2>2. CASE Goto(p, "wait", "check") /\ target' = [target EXCEPT ![p] = "none"]
      BY <1>1, <1>6, <2>2, GotoKeeps DEF WaitGone
    <2> QED
      BY <1>6, <2>1, <2>2 DEF WaitGone, Killed
  <1>7. CASE CheckPidfile(p)
    <2>1. CASE pidfile = "absent"
      BY <1>1, <1>2, <1>7, <2>1, GotoKeeps DEF CheckPidfile
    <2>2. CASE pidfile # "absent"
      BY <1>7, <2>2, ExitKeeps DEF CheckPidfile, ExitAt, PidInv, PidTypeOK
    <2> QED
      BY <2>1, <2>2
  <1>8. CASE NoLog(p)
    BY <1>8, ExitKeeps DEF NoLog, ExitAt, PidInv, PidTypeOK
  <1> QED
    BY <1>3, <1>4, <1>5, <1>6, <1>7, <1>8

(* The file of a process that is gone is removed: there is no server. *)
LEMMA StaleKeeps ==
  ASSUME PidInv, NEW p \in Pids, RemoveStale(p)
  PROVE  PidInv'
  <1>1. /\ pc[p] = "stale" /\ pidfile' = "absent" /\ overlap' = overlap
        /\ \A q \in Pids : pc'[q] = pc[q] \/ (q = p /\ pc'[q] \in {"off", "check"})
    <2>1. CASE ExitAt(p, "stale")
      BY <2>1 DEF RemoveStale, ExitAt, Exit
    <2>2. CASE Goto(p, "stale", "check")
      BY <2>2 DEF RemoveStale, Goto, PidInv, PidTypeOK
    <2> QED
      BY <2>1, <2>2 DEF RemoveStale, Killed
  <1>2. ~overlap => \A q \in Pids : pc'[q] \notin Serving
    BY <1>1 DEF PidInv, NoServer, Free, Serving
  <1>3. PidTypeOK'
    <2>1. CASE ExitAt(p, "stale")
      BY <1>1, <2>1, ExitTypes DEF ExitAt, PidInv, PidTypeOK
    <2>2. CASE Goto(p, "stale", "check") /\ target' = [target EXCEPT ![p] = "none"]
      <3>1. target' \in [Pids -> Pids \cup {"none"}]
        BY <2>2 DEF PidInv, PidTypeOK
      <3> QED
        BY <1>1, <2>2, <3>1, GotoTypes DEF PidInv, Starting
    <2> QED
      BY <2>1, <2>2 DEF RemoveStale, Killed
  <1>4. OneStarting' /\ OwnFile'
    BY <1>1 DEF PidInv, OneStarting, OwnFile, Starting
  <1>5. NoServer' /\ TargetKnown' /\ InvOneServer'
    BY <1>1, <1>2 DEF NoServer, TargetKnown, InvOneServer
  <1> QED
    BY <1>3, <1>4, <1>5 DEF PidInv

LEMMA SignalKeeps ==
  ASSUME PidInv, NEW p \in Pids, Signal(p)
  PROVE  PidInv'
  <1>1. pidfile' = pidfile /\ PidTypeOK
    BY DEF Signal, PidInv
  <1>2. CASE ExitAt(p, "signal")
    BY <1>1, <1>2, ExitKeeps DEF ExitAt, PidTypeOK
  <1>3. CASE Exit({p}) /\ crashed' = TRUE
    BY <1>1, <1>3, ExitKeeps
  <1>4. CASE /\ pc[p] = "signal"
             /\ pc' = [pc EXCEPT ![p] = "wait"]
             /\ terminated' = [terminated EXCEPT ![target[p]] = TRUE]
             /\ UNCHANGED <<cmd, target, commands, overlap, crashed>>
    <2>1. \A q \in Pids : pc'[q] = IF q = p THEN "wait" ELSE pc[q]
      BY <1>1, <1>4 DEF PidTypeOK
    <2>2. PidTypeOK'
      BY <1>1, <1>4 DEF PidTypeOK, Starting
    <2>3. OneStarting' /\ OwnFile' /\ NoServer'
      BY <1>1, <1>4, <2>1 DEF PidInv, OneStarting, OwnFile, NoServer, Starting, Free, Serving
    <2>4. TargetKnown' /\ InvOneServer'
      BY <1>1, <1>4, <2>1 DEF PidInv, TargetKnown, InvOneServer, Serving
    <2> QED
      BY <2>2, <2>3, <2>4 DEF PidInv
  <1>5. CASE /\ pc[p] = "signal" /\ target[p] # p
             /\ pc' = [pc EXCEPT ![p] = "wait", ![target[p]] = "off"]
             /\ cmd' = [cmd EXCEPT ![target[p]] = "none"]
             /\ target' = [target EXCEPT ![target[p]] = "none"]
             /\ crashed' = TRUE
             /\ UNCHANGED <<terminated, commands, overlap>>
    <2>1. \A q \in Pids : pc'[q] = IF q = target[p] THEN "off" ELSE IF q = p THEN "wait" ELSE pc[q]
      BY <1>1, <1>5 DEF PidTypeOK
    <2>2. \A q \in Pids : target'[q] = IF q = target[p] THEN "none" ELSE target[q]
      BY <1>1, <1>5 DEF PidTypeOK
    <2>3. PidTypeOK'
      <3>1. pc' \in [Pids -> {"off", "other"} \cup Starting \cup Serving]
        <4>1. "wait" \in Starting
          BY DEF Starting
        <4> QED
          BY <1>1, <1>5, <4>1 DEF PidTypeOK
      <3>2. crashed' \in BOOLEAN
        BY <1>5, Zenon
      <3> QED
        BY <1>1, <1>5, <3>1, <3>2 DEF PidTypeOK
    <2>4. /\ \A q \in Pids : pc'[q] = pc[q] \/ pc'[q] = "off" \/ (q = p /\ pc'[q] = "wait")
          /\ \A q \in Pids : pc'[q] = pc[q] => target'[q] = target[q] \/ pc[q] = "off"
          /\ pc[p] = "signal" /\ overlap' = overlap /\ pidfile' = pidfile
      BY <1>1, <1>5, <2>1, <2>2
    <2>5. OneStarting' /\ OwnFile' /\ NoServer'
      BY <2>4 DEF PidInv, OneStarting, OwnFile, NoServer, Starting, Free, Serving
    <2>6. TargetKnown' /\ InvOneServer'
      BY <2>4 DEF PidInv, TargetKnown, InvOneServer, Serving
    <2> QED
      BY <2>3, <2>5, <2>6 DEF PidInv
  <1> QED
    BY <1>2, <1>3, <1>4, <1>5 DEF Signal

(* init() from the log on: it has made sure that there is no server. *)
LEMMA FreeFact ==
  ASSUME PidInv, NEW p \in Pids, pc[p] \in Free, ~overlap
  PROVE  \A q \in Pids : pc[q] \notin Serving
  BY DEF PidInv, NoServer

LEMMA OpenKeeps ==
  ASSUME PidInv, NEW p \in Pids, LogOpened(p) \/ NoDaemon(p)
  PROVE  PidInv'
  <1> USE DEF Starting, Free
  <1>1. target \in [Pids -> Pids \cup {"none"}]
    BY DEF PidInv, PidTypeOK
  <1>2. CASE LogOpened(p)
    BY <1>1, <1>2, FreeFact, GotoKeeps DEF LogOpened, Goto
  <1>3. CASE NoDaemon(p)
    BY <1>1, <1>3, FreeFact, GotoKeeps DEF NoDaemon, Goto
  <1> QED
    BY <1>2, <1>3

LEMMA DaemonizeKeeps ==
  ASSUME PidInv, NEW p \in Pids, NEW c \in Pids, Daemonize(p, c)
  PROVE  PidInv'
  <1>1. /\ pc[p] = "daemon" /\ pc[c] = "off" /\ pidfile' = pidfile
        /\ PidTypeOK
    BY DEF Daemonize, PidInv
  <1>2. CASE ExitAt(p, "daemon")
    BY <1>1, <1>2, ExitKeeps DEF ExitAt, PidTypeOK
  <1>3. CASE /\ pc' = [pc EXCEPT ![p] = "off", ![c] = "create"]
             /\ cmd' = [cmd EXCEPT ![p] = "none", ![c] = cmd[p]]
             /\ UNCHANGED <<target, terminated, commands, overlap, crashed>>
    <2>1. PidTypeOK'
      <3>1. pc' \in [Pids -> {"off", "other"} \cup Starting \cup Serving]
        <4>1. "create" \in Starting
          BY DEF Starting
        <4> QED
          BY <1>1, <1>3, <4>1 DEF PidTypeOK
      <3> QED
        BY <1>1, <1>3, <3>1 DEF PidTypeOK
    <2>2. /\ \A q \in Pids : pc'[q] = IF q = c THEN "create" ELSE IF q = p THEN "off" ELSE pc[q]
          /\ overlap' = overlap /\ target' = target
      BY <1>1, <1>3 DEF PidTypeOK
    <2>3. ~overlap => \A q \in Pids : pc[q] \notin Serving
      BY <1>1, FreeFact DEF Free
    <2>4. OneStarting' /\ OwnFile'
      BY <1>1, <2>2 DEF PidInv, OneStarting, OwnFile, Starting
    <2>5. NoServer' /\ TargetKnown' /\ InvOneServer'
      BY <2>2, <2>3 DEF NoServer, TargetKnown, InvOneServer, Serving
    <2> QED
      BY <2>1, <2>4, <2>5 DEF PidInv
  <1> QED
    BY <1>2, <1>3 DEF Daemonize

LEMMA WriteKeeps ==
  ASSUME PidInv, NEW p \in Pids, CreatePidfile(p) \/ WritePid(p)
  PROVE  PidInv'
  <1>1. target' \in [Pids -> Pids \cup {"none"}] /\ PidTypeOK
    BY DEF CreatePidfile, WritePid, ExitAt, Exit, PidInv, PidTypeOK
  <1>2. CASE Goto(p, "create", "write") /\ pidfile' = "empty" /\ target' = target
    <2>1. PidTypeOK'
      BY <1>1, <1>2, GotoTypes DEF Starting
    <2>2. /\ \A q \in Pids : pc'[q] = IF q = p THEN "write" ELSE pc[q]
          /\ pc[p] = "create" /\ overlap' = overlap
      BY <1>1, <1>2 DEF PidTypeOK, Goto
    <2>3. OneStarting' /\ OwnFile'
      BY <1>2, <2>2 DEF PidInv, OneStarting, OwnFile, Starting
    <2>4. NoServer' /\ TargetKnown'
      BY <1>2, <2>2 DEF PidInv, NoServer, TargetKnown, Free, Serving
    <2>5. InvOneServer'
      BY <1>2, <2>2 DEF PidInv, InvOneServer, Serving
    <2> QED
      BY <2>1, <2>3, <2>4, <2>5 DEF PidInv
  <1>3. CASE ExitAt(p, "create") /\ pidfile' = pidfile
    BY <1>1, <1>3, ExitKeeps DEF ExitAt, PidTypeOK
  <1>4. CASE WritePid(p)
    <2>1. /\ \A q \in Pids : pc'[q] = IF q = p THEN "run" ELSE pc[q]
          /\ pc[p] = "write" /\ overlap' = overlap /\ target' = target
          /\ pidfile' \in {pidfile, IF pidfile = "absent" THEN "absent" ELSE p}
      BY <1>1, <1>4 DEF PidTypeOK, WritePid, Goto
    <2>2. PidTypeOK'
      BY <1>1, <1>4, <2>1, GotoTypes DEF WritePid, Serving, PidTypeOK
    <2>3. ~overlap => /\ \A q \in Pids : pc[q] \notin Serving
                      /\ \A q \in Pids \ {p} : pc[q] \notin Starting
      BY <2>1, FreeFact DEF Free, PidInv, OneStarting, Starting
    <2>4. OneStarting' /\ OwnFile' /\ NoServer' /\ TargetKnown'
      BY <2>1, <2>3 DEF OneStarting, OwnFile, NoServer, TargetKnown, Starting, Free, Serving
    <2>5. ~overlap => pidfile = "empty"
      BY <2>1 DEF PidInv, OwnFile
    <2>6. InvOneServer'
      BY <2>1, <2>3, <2>5 DEF InvOneServer, Serving
    <2> QED
      BY <2>2, <2>4, <2>6 DEF PidInv
  <1> QED
    BY <1>2, <1>3, <1>4 DEF CreatePidfile

LEMMA ReturnKeeps ==
  ASSUME PidInv, NEW p \in Pids, RunReturns(p) \/ RemovePidfile(p) \/ Crash(p)
  PROVE  PidInv'
  <1>1. PidTypeOK
    BY DEF PidInv
  <1>2. CASE RunReturns(p)
    <2>1. /\ \A q \in Pids : pc'[q] = IF q = p THEN "remove" ELSE pc[q]
          /\ pc[p] = "run" /\ overlap' = overlap /\ target' = target /\ pidfile' = pidfile
      BY <1>1, <1>2 DEF PidTypeOK, RunReturns, Goto
    <2>2. PidTypeOK'
      BY <1>1, <1>2, <2>1, GotoTypes DEF RunReturns, Serving, PidTypeOK
    <2>3. OneStarting' /\ OwnFile' /\ NoServer'
      BY <2>1 DEF PidInv, OneStarting, OwnFile, NoServer, Starting, Free, Serving
    <2>4. TargetKnown' /\ InvOneServer'
      BY <2>1 DEF PidInv, TargetKnown, InvOneServer, Serving
    <2> QED
      BY <2>2, <2>3, <2>4 DEF PidInv
  <1>3. CASE RemovePidfile(p)
    <2>1. /\ Exit({p}) /\ pc[p] = "remove" /\ pidfile' = "absent" /\ crashed' = crashed
          /\ \A q \in Pids : pc'[q] = IF q = p THEN "off" ELSE pc[q]
          /\ overlap' = overlap
      BY <1>3 DEF RemovePidfile, ExitAt, Exit
    <2>2. PidTypeOK'
      BY <1>1, <2>1, ExitTypes DEF PidTypeOK
    <2>3. ~overlap => \A q \in Pids : pc'[q] \notin Serving /\ pc'[q] # "write"
      BY <2>1 DEF PidInv, InvOneServer, NoServer, Serving, Free
    <2>4. OneStarting'
      BY <2>1 DEF PidInv, OneStarting, Starting
    <2>5. OwnFile' /\ NoServer' /\ TargetKnown' /\ InvOneServer'
      BY <2>1, <2>3 DEF OwnFile, NoServer, TargetKnown, InvOneServer
    <2> QED
      BY <2>2, <2>4, <2>5 DEF PidInv
  <1>4. CASE Crash(p)
    <2>1. crashed' \in BOOLEAN
      <3>1. crashed' = (crashed \/ pc[p] # "other")
        BY <1>4 DEF Crash
      <3> QED
        BY <1>1, <3>1, Zenon DEF PidTypeOK
    <2> QED
      BY <1>4, <2>1, ExitKeeps DEF Crash
  <1> QED
    BY <1>2, <1>3, <1>4

(* The steps of the processes, with the log's left out. *)
PidStep(p) ==
  \/ Begin(p) \/ BeginOther(p) \/ InitStep(p) \/ NoLog(p) \/ RemovePidfile(p)
  \/ LogOpened(p) \/ (\E c \in Pids : Daemonize(p, c)) \/ RunReturns(p) \/ Crash(p)

LEMMA PidNextInv ==
  ASSUME PidInv, (\E p \in Pids : PidStep(p)) \/ UNCHANGED pidVars
  PROVE  PidInv'
  <1>1. ASSUME NEW p \in Pids, PidStep(p)
        PROVE  PidInv'
    BY <1>1, BeginKeeps, LookKeeps, StaleKeeps, SignalKeeps, OpenKeeps, DaemonizeKeeps,
       WriteKeeps, ReturnKeeps DEF PidStep, InitStep
  <1>2. CASE UNCHANGED pidVars
    BY <1>2 DEF pidVars, PidInv, PidTypeOK, OneStarting, NoServer, TargetKnown, OwnFile,
                InvOneServer
  <1> QED
    BY <1>1, <1>2

LEMMA StepsOfPids ==
  [Next]_vars => (\E p \in Pids : PidStep(p)) \/ UNCHANGED pidVars
  BY DEF Next, MainStep, OpenLog, ForkLog, Return, Log, PidStep, vars

(* While commands are given one at a time there is one server at most, and *)
(* the file holds its pid: check_pidfile() and kill_process() (app.cpp)    *)
(* see to it, for any number of processes, crashes and pids that other     *)
(* programs get again.                                                     *)
THEOREM OneServerCorrect == Spec => []InvOneServer
  <1>1. Init => PidInv
    BY PidInitInv DEF Init
  <1>2. PidInv /\ [Next]_vars => PidInv'
    BY PidNextInv, StepsOfPids
  <1>3. PidInv => InvOneServer
    BY DEF PidInv
  <1> QED
    BY <1>1, <1>2, <1>3, PTL DEF Spec

-----------------------------------------------------------------------------
(* The log.  The mutex: one thread of a process is in rotate(),            *)
Rotating == {"rotate", "rename", "reopen"}

OneRotates ==
  \A p \in Loggers : \A t, u \in Threads :
    at[p][t] \in Rotating /\ at[p][u] \in Rotating => t = u

(* which has a new name for the file;                                      *)
NewName == \A p \in Loggers : \A t \in Threads : at[p][t] = "rename" => newpath[p] # Current

(* and files that are open have a name, where no name was used twice.      *)
OpenIsLinked == ~clash => \A p \in Loggers : fp[p] # NoFile => fp[p] \in Linked

LogInv == LogTypeOK /\ OneRotates /\ NewName /\ OpenIsLinked /\ InvLog

LEMMA LogInitInv == LogInit => LogInv
  <1> SUFFICES ASSUME LogInit PROVE LogInv
    OBVIOUS
  <1> USE LogAssumption DEF LogInit
  <1>1. inode \in Seq(File)
    <2>1. NewFile(OldSize) \in File
      BY DEF NewFile, File
    <2> QED
      BY <2>1
  <1>2. Len(inode) = 1 /\ Inodes = 1..1
    BY DEF Inodes
  <1>3. /\ dir \in [Names -> {NoFile} \cup Inodes]
        /\ fp \in [Loggers -> {NoFile} \cup Inodes]
        /\ newpath \in [Loggers -> Names]
    BY <1>2 DEF Names, Current, NoFile
  <1>4. clock \in Seconds /\ count \in 0..MaxMessages /\ w_curr \in [Loggers -> Nat]
    BY DEF Seconds
  <1>5. at \in [Loggers -> [Threads -> Positions]]
    BY DEF Positions
  <1>6. /\ clash \in BOOLEAN /\ unwritten \in 0..MaxMessages
        /\ short \in [Loggers -> BOOLEAN] /\ failed \in [Loggers -> BOOLEAN]
    <2>1. clash \in BOOLEAN
      BY Zenon
    <2> QED
      BY <2>1
  <1>7. LogTypeOK
    BY <1>1, <1>3, <1>4, <1>5, <1>6 DEF LogTypeOK
  <1>8. OneRotates /\ NewName
    BY DEF OneRotates, NewName, Rotating
  <1>9. OpenIsLinked /\ InvLog
    BY DEF OpenIsLinked, InvLog
  <1> QED
    BY <1>7, <1>8, <1>9 DEF LogInv

(* fopen(filename, "a"): nothing that has a name loses it. *)
LEMMA OpenAppendFacts ==
  ASSUME LogTypeOK, NEW p \in Loggers, OpenAppend(p)
  PROVE  /\ inode' \in Seq(File)
         /\ dir' \in [Names -> {NoFile} \cup (1..Len(inode'))]
         /\ fp' \in [Loggers -> {NoFile} \cup (1..Len(inode'))]
         /\ fp'[p] = dir'[Current] /\ fp'[p] # NoFile
         /\ \A q \in Loggers \ {p} : fp'[q] = fp[q]
         /\ Linked \subseteq Linked'
         /\ \A i \in Inodes : inode'[i] = inode[i]
         /\ dir[Current] = NoFile => inode'[dir'[Current]] = NewFile(0)
         /\ dir[Current] # NoFile => dir' = dir /\ inode' = inode
  <1>1. /\ inode \in Seq(File) /\ Len(inode) \in Nat
        /\ dir \in [Names -> {NoFile} \cup Inodes]
        /\ fp \in [Loggers -> {NoFile} \cup Inodes]
        /\ Current \in Names
    BY DEF LogTypeOK, Names
  <1>2. CASE dir[Current] # NoFile
    <2>1. fp' = [fp EXCEPT ![p] = dir[Current]] /\ inode' = inode /\ dir' = dir
      BY <1>2 DEF OpenAppend
    <2>2. dir[Current] \in Inodes
      BY <1>1, <1>2
    <2> QED
      BY <1>1, <1>2, <2>1, <2>2 DEF Inodes, Linked
  <1>3. CASE dir[Current] = NoFile
    <2>1. /\ inode' = Append(inode, NewFile(0))
          /\ dir' = [dir EXCEPT ![Current] = Len(inode) + 1]
          /\ fp' = [fp EXCEPT ![p] = Len(inode) + 1]
      BY <1>3 DEF OpenAppend
    <2>2. NewFile(0) \in File
      BY DEF NewFile, File
    <2>3. /\ inode' \in Seq(File) /\ Len(inode') = Len(inode) + 1
          /\ \A i \in Inodes : inode'[i] = inode[i]
          /\ inode'[Len(inode) + 1] = NewFile(0)
      BY <1>1, <2>1, <2>2 DEF Inodes
    <2>4. /\ dir' \in [Names -> {NoFile} \cup (1..Len(inode'))]
          /\ fp' \in [Loggers -> {NoFile} \cup (1..Len(inode'))]
      BY <1>1, <2>1, <2>3 DEF Inodes
    <2>5. /\ dir'[Current] = Len(inode) + 1 /\ fp'[p] = Len(inode) + 1
          /\ fp'[p] # NoFile
          /\ \A q \in Loggers \ {p} : fp'[q] = fp[q]
      BY <1>1, <2>1 DEF NoFile
    <2>6. Linked \subseteq Linked'
      BY <1>1, <1>3, <2>1 DEF Linked
    <2> QED
      BY <1>3, <2>3, <2>4, <2>5, <2>6
  <1> QED
    BY <1>2, <1>3

LEMMA LogOpenKeeps ==
  ASSUME LogInv, NEW p \in Loggers, LogOpen(p)
  PROVE  LogInv'
  <1>1. /\ OpenAppend(p) /\ w_curr' = [w_curr EXCEPT ![p] = SizeAtOpen]
        /\ short' = [short EXCEPT ![p] = FALSE]
        /\ UNCHANGED <<clock, count, unwritten, newpath, at, clash, failed>>
        /\ LogTypeOK
    BY DEF LogOpen, LogInv
  <1>2. SizeAtOpen \in Nat
    <2>1. dir[Current] # NoFile => inode[dir[Current]] \in File
      BY <1>1 DEF LogTypeOK, Inodes, Names
    <2> QED
      BY <2>1 DEF SizeAtOpen, File
  <1>3. LogTypeOK'
    BY <1>1, <1>2, OpenAppendFacts DEF LogTypeOK, Inodes
  <1>4. OneRotates' /\ NewName'
    BY <1>1 DEF LogInv, OneRotates, NewName
  <1>5. OpenIsLinked'
    <2>1. fp'[p] \in Linked'
      BY <1>1, OpenAppendFacts DEF Linked, Names
    <2> QED
      BY <1>1, <2>1, OpenAppendFacts DEF LogInv, OpenIsLinked
  <1>6. InvLog'
    <2>1. Linked \subseteq Inodes
      BY <1>1 DEF LogTypeOK, Linked
    <2>2. \A i \in Linked : i \in Linked' /\ inode'[i] = inode[i]
      BY <1>1, <2>1, OpenAppendFacts
    <2> QED
      BY <1>1, <2>2 DEF LogInv, InvLog
  <1> QED
    BY <1>3, <1>4, <1>5, <1>6 DEF LogInv

LEMMA LogEndKeeps ==
  ASSUME LogInv, NEW ps, LogEnd(ps)
  PROVE  LogInv'
  <1>1. LogTypeOK'
    BY DEF LogInv, LogTypeOK, LogEnd, Names, Inodes, Positions
  <1>2. OneRotates' /\ NewName'
    BY DEF LogInv, OneRotates, NewName, LogEnd, Rotating
  <1>3. OpenIsLinked' /\ InvLog'
    BY DEF LogInv, OpenIsLinked, InvLog, LogEnd, Linked
  <1> QED
    BY <1>1, <1>2, <1>3 DEF LogInv

LEMMA LogForkKeeps ==
  ASSUME LogInv, NEW p \in Loggers, NEW c \in Loggers, LogFork(p, c)
  PROVE  LogInv'
  <1>1. LogTypeOK'
    BY DEF LogInv, LogTypeOK, LogFork, Inodes
  <1>2. OneRotates' /\ NewName'
    BY DEF LogInv, OneRotates, NewName, LogFork
  <1>3. OpenIsLinked' /\ InvLog'
    BY DEF LogInv, LogTypeOK, OpenIsLinked, InvLog, LogFork, Linked
  <1> QED
    BY <1>1, <1>2, <1>3 DEF LogInv

(* A thread goes on with the mutex held, or takes it. *)
LEMMA StepFacts ==
  ASSUME LogInv, NEW p \in Loggers, NEW t \in Threads, NEW from, NEW to \in Positions,
         Step(p, t, from, to), from \in Rotating \/ MutexFree(p)
  PROVE  /\ at' \in [Loggers -> [Threads -> Positions]]
         /\ at[p][t] = from /\ at'[p][t] = to
         /\ \A q \in Loggers, u \in Threads : q # p \/ u # t => at'[q][u] = at[q][u]
         /\ \A u \in Threads \ {t} : at[p][u] \notin Rotating
         /\ OneRotates'
  <1>1. /\ at \in [Loggers -> [Threads -> Positions]]
        /\ at[p][t] = from /\ at' = [at EXCEPT ![p][t] = to]
    BY DEF LogInv, LogTypeOK, Step
  <1>2. /\ at' \in [Loggers -> [Threads -> Positions]]
        /\ at'[p][t] = to
        /\ \A q \in Loggers, u \in Threads : q # p \/ u # t => at'[q][u] = at[q][u]
    BY <1>1
  <1>3. \A u \in Threads \ {t} : at[p][u] \notin Rotating
    BY <1>1 DEF LogInv, OneRotates, MutexFree, Rotating
  <1>4. OneRotates'
    BY <1>2, <1>3 DEF LogInv, OneRotates
  <1> QED
    BY <1>1, <1>2, <1>3, <1>4

LEMMA WriteLogKeeps ==
  ASSUME LogInv, NEW p \in Loggers, NEW t \in Threads, Write(p, t)
  PROVE  LogInv'
  <1>1. /\ UNCHANGED <<dir, clock, fp, newpath, clash, failed>>
        /\ MutexFree(p) /\ count + unwritten < MaxMessages
        /\ count \in 0..MaxMessages /\ unwritten \in 0..MaxMessages /\ MaxMessages \in Nat
        /\ inode \in Seq(File) /\ fp \in [Loggers -> {NoFile} \cup Inodes]
        /\ w_curr \in [Loggers -> Nat] /\ short \in [Loggers -> BOOLEAN]
    BY LogAssumption DEF Write, LogInv, LogTypeOK
  <1>2. CASE fp[p] # NoFile
    <2>1. PICK len \in Lengths :
             /\ WriteAll(p, len) \/ WritePart(p, len)
             /\ w_curr' = [w_curr EXCEPT ![p] = @ + len]
      BY <1>2 DEF Write
    <2>2. len \in Nat /\ fp[p] \in Inodes /\ inode[fp[p]] \in File
      BY <1>1, <1>2, LogAssumption DEF Inodes
    <2>3. /\ inode' \in Seq(File) /\ Len(inode') = Len(inode)
          /\ \A i \in Inodes : inode[i].messages \subseteq inode'[i].messages
          /\ \/ count' = count
             \/ count' = count + 1 /\ count + 1 \in inode'[fp[p]].messages
          /\ count' \in 0..MaxMessages /\ unwritten' \in 0..MaxMessages
          /\ short' \in [Loggers -> BOOLEAN]
      <3>1. CASE WriteAll(p, len)
        <4>1. /\ inode' = [inode EXCEPT ![fp[p]] =
                             [messages |-> inode[fp[p]].messages \cup {count + 1},
                              size |-> inode[fp[p]].size + len]]
              /\ count' = count + 1 /\ unwritten' = unwritten /\ short' = short
          BY <3>1 DEF WriteAll
        <4>2. [messages |-> inode[fp[p]].messages \cup {count + 1},
               size |-> inode[fp[p]].size + len] \in File
          <5>1. /\ inode[fp[p]].messages \in SUBSET (1..MaxMessages)
                /\ inode[fp[p]].size \in Nat
            BY <2>2 DEF File
          <5>2. count + 1 \in 1..MaxMessages
            BY <1>1
          <5>3. inode[fp[p]].messages \cup {count + 1} \in SUBSET (1..MaxMessages)
            BY <5>1, <5>2
          <5>4. inode[fp[p]].size + len \in Nat
            BY <2>2, <5>1
          <5> QED
            BY <5>3, <5>4 DEF File
        <4>3. /\ inode' \in Seq(File) /\ Len(inode') = Len(inode)
              /\ \A i \in Inodes : inode[i].messages \subseteq inode'[i].messages
              /\ count + 1 \in inode'[fp[p]].messages
          BY <1>1, <2>2, <4>1, <4>2 DEF Inodes
        <4> QED
          BY <1>1, <4>1, <4>3
      <3>2. CASE WritePart(p, len)
        <4>1. PICK part \in 0..len - 1 :
                inode' = [inode EXCEPT ![fp[p]].size = @ + part]
          BY <3>2 DEF WritePart
        <4>2. /\ count' = count /\ unwritten' = unwritten + 1
              /\ short' = [short EXCEPT ![p] = TRUE]
          BY <3>2 DEF WritePart
        <4>3. /\ [inode[fp[p]] EXCEPT !.size = @ + part] \in File
              /\ [inode[fp[p]] EXCEPT !.size = @ + part].messages = inode[fp[p]].messages
              /\ inode' = [inode EXCEPT ![fp[p]] = [inode[fp[p]] EXCEPT !.size = @ + part]]
          BY <2>2, <4>1 DEF File
        <4>4. /\ inode' \in Seq(File) /\ Len(inode') = Len(inode)
              /\ \A i \in Inodes : inode[i].messages \subseteq inode'[i].messages
          BY <1>1, <2>2, <4>3 DEF Inodes
        <4> QED
          BY <1>1, <4>2, <4>4
      <3> QED
        BY <2>1, <3>1, <3>2
    <2>5. PICK to \in {"idle", "rotate"} : Step(p, t, "idle", to)
      BY <1>2 DEF Write
    <2>6. to \in Positions /\ to # "rename"
      BY DEF Positions
    <2>7. /\ at' \in [Loggers -> [Threads -> Positions]]
          /\ \A q \in Loggers, u \in Threads : at'[q][u] = "rename" => at[q][u] = "rename"
          /\ OneRotates'
      <3>1. /\ at' \in [Loggers -> [Threads -> Positions]]
            /\ at'[p][t] = to
            /\ \A q \in Loggers, u \in Threads : q # p \/ u # t => at'[q][u] = at[q][u]
            /\ OneRotates'
        BY <1>1, <2>5, <2>6, StepFacts
      <3> QED
        BY <2>6, <3>1
    <2>8. LogTypeOK'
      <3>1. w_curr' \in [Loggers -> Nat]
        BY <1>1, <2>1, <2>2
      <3> QED
        BY <1>1, <2>3, <2>7, <3>1 DEF LogInv, LogTypeOK, Inodes
    <2>9. NewName' /\ OpenIsLinked'
      BY <1>1, <2>7 DEF LogInv, NewName, OpenIsLinked, Linked
    <2>10. InvLog'
      <3> SUFFICES ASSUME ~clash, NEW m \in 1..count'
                   PROVE  \E i \in Linked : m \in inode'[i].messages
        BY <1>1 DEF InvLog, Linked
      <3>1. CASE m \notin 1..count
        <4>1. m = count + 1 /\ m \in inode'[fp[p]].messages
          BY <1>1, <2>3, <3>1
        <4> QED
          BY <1>2, <4>1 DEF LogInv, OpenIsLinked
      <3>2. CASE m \in 1..count
        <4>1. PICK i \in Linked : m \in inode[i].messages
          BY <3>2 DEF LogInv, InvLog
        <4>2. i \in Inodes
          BY DEF LogInv, LogTypeOK, Linked
        <4> QED
          BY <2>3, <4>1, <4>2
      <3> QED
        BY <3>1, <3>2
    <2> QED
      BY <2>7, <2>8, <2>9, <2>10 DEF LogInv
  <1>3. CASE fp[p] = NoFile
    <2>0. /\ Step(p, t, "idle", "broken")
          /\ UNCHANGED <<count, unwritten, inode, w_curr, short>>
      BY <1>3 DEF Write
    <2>1. /\ at' \in [Loggers -> [Threads -> Positions]]
          /\ \A q \in Loggers, u \in Threads : at'[q][u] = "rename" => at[q][u] = "rename"
          /\ OneRotates'
      <3>1. "broken" \in Positions /\ MutexFree(p) /\ Step(p, t, "idle", "broken")
        BY <1>1, <2>0 DEF Positions
      <3> QED
        BY <3>1, StepFacts
    <2>2. LogTypeOK'
      BY <1>1, <2>0, <2>1 DEF LogInv, LogTypeOK, Inodes
    <2>3. NewName' /\ OpenIsLinked' /\ InvLog'
      BY <1>1, <2>0, <2>1 DEF LogInv, NewName, OpenIsLinked, InvLog, Linked
    <2> QED
      BY <2>1, <2>2, <2>3 DEF LogInv
  <1> QED
    BY <1>2, <1>3

LEMMA RotateKeeps ==
  ASSUME LogInv, NEW p \in Loggers, NEW t \in Threads, Rotate(p, t)
  PROVE  LogInv'
  <1>1. /\ Step(p, t, "rotate", "rename")
        /\ fp' = [fp EXCEPT ![p] = NoFile]
        /\ clock' \in clock..MaxTime
        /\ newpath' = [newpath EXCEPT ![p] = clock']
        /\ UNCHANGED <<inode, dir, count, unwritten, w_curr, clash, short, failed>>
    BY DEF Rotate, histories
  <1>2. /\ at' \in [Loggers -> [Threads -> Positions]]
        /\ \A q \in Loggers, u \in Threads : q # p /\ at'[q][u] = "rename" => at[q][u] = "rename"
        /\ OneRotates'
    BY <1>1, StepFacts DEF Positions, Rotating
  <1>3. clock' \in Seconds /\ clock' # Current /\ clock' \in Names
    BY <1>1, LogAssumption DEF LogInv, LogTypeOK, Seconds, Current, Names
  <1>4. LogTypeOK'
    BY <1>1, <1>2, <1>3 DEF LogInv, LogTypeOK, Inodes
  <1>5. NewName' /\ OpenIsLinked' /\ InvLog'
    BY <1>1, <1>2, <1>3 DEF LogInv, LogTypeOK, NewName, OpenIsLinked, InvLog, Linked
  <1> QED
    BY <1>2, <1>4, <1>5 DEF LogInv

(* rename() moves the file to a name that is free: all that had one have   *)
(* one still.                                                              *)
LEMMA RenameKeeps ==
  ASSUME LogInv, NEW p \in Loggers, NEW t \in Threads, Rename(p, t)
  PROVE  LogInv'
  <1>1. PICK to \in {"reopen", "idle"} : Step(p, t, "rename", to)
    BY DEF Rename
  <1>2. /\ at' \in [Loggers -> [Threads -> Positions]]
        /\ at[p][t] = "rename"
        /\ \A q \in Loggers, u \in Threads :
             at'[q][u] = "rename" => q # p /\ at[q][u] = "rename"
        /\ OneRotates'
    BY <1>1, StepFacts DEF Positions, Rotating
  <1>3. /\ newpath' = [newpath EXCEPT ![p] = Current]
        /\ UNCHANGED <<inode, clock, count, unwritten, fp, w_curr, short>>
    BY DEF Rename
  <1>4. NewName'
    BY <1>2, <1>3 DEF LogInv, LogTypeOK, NewName
  <1>5. newpath[p] \in Names /\ newpath[p] # Current /\ Current \in Names
    BY <1>2 DEF LogInv, LogTypeOK, NewName, Names
  <1>6. CASE /\ dir[Current] # NoFile
             /\ dir' = [dir EXCEPT ![newpath[p]] = dir[Current], ![Current] = NoFile]
             /\ clash' = (clash \/ dir[newpath[p]] # NoFile)
             /\ UNCHANGED failed
    <2>1. dir' \in [Names -> {NoFile} \cup Inodes]
      BY <1>5, <1>6 DEF LogInv, LogTypeOK
    <2>2. ~clash' => ~clash /\ Linked \subseteq Linked'
      <3> SUFFICES ASSUME ~clash'
                   PROVE  ~clash /\ Linked \subseteq Linked'
        OBVIOUS
      <3>1. ~clash /\ dir[newpath[p]] = NoFile
        BY <1>6
      <3>2. /\ dir'[newpath[p]] = dir[Current]
            /\ \A n \in Names \ {newpath[p], Current} : dir'[n] = dir[n]
        BY <1>5, <1>6 DEF LogInv, LogTypeOK
      <3>3. Linked \subseteq Linked'
        BY <1>5, <3>1, <3>2 DEF Linked
      <3> QED
        BY <3>1, <3>3
    <2>3. LogTypeOK'
      <3>1. clash' \in BOOLEAN
        BY <1>6, Zenon
      <3> QED
        BY <1>2, <1>3, <1>5, <1>6, <2>1, <3>1 DEF LogInv, LogTypeOK, Inodes
    <2>4. OpenIsLinked' /\ InvLog'
      BY <1>3, <2>2 DEF LogInv, OpenIsLinked, InvLog
    <2> QED
      BY <1>2, <1>4, <2>3, <2>4 DEF LogInv
  <1>7. CASE /\ UNCHANGED <<dir, clash>>
             /\ failed' = [failed EXCEPT ![p] = @ \/ dir[Current] # NoFile]
    <2>1. LogTypeOK'
      <3>1. failed' \in [Loggers -> BOOLEAN]
        BY <1>7 DEF LogInv, LogTypeOK
      <3> QED
        BY <1>2, <1>3, <1>5, <1>7, <3>1 DEF LogInv, LogTypeOK, Inodes
    <2>2. OpenIsLinked' /\ InvLog'
      BY <1>3, <1>7 DEF LogInv, OpenIsLinked, InvLog, Linked
    <2> QED
      BY <1>2, <1>4, <2>1, <2>2 DEF LogInv
  <1> QED
    BY <1>6, <1>7 DEF Rename

LEMMA ReopenKeeps ==
  ASSUME LogInv, NEW p \in Loggers, NEW t \in Threads, Reopen(p, t)
  PROVE  LogInv'
  <1>1. /\ Step(p, t, "reopen", "idle")
        /\ UNCHANGED <<clock, count, unwritten, newpath, clash>>
        /\ LogTypeOK
    BY DEF Reopen, LogInv
  <1>2. /\ at' \in [Loggers -> [Threads -> Positions]]
        /\ \A q \in Loggers, u \in Threads : at'[q][u] = "rename" => at[q][u] = "rename"
        /\ OneRotates'
    BY <1>1, StepFacts DEF Positions, Rotating
  <1>3. NewName'
    BY <1>1, <1>2 DEF LogInv, NewName
  <1>4. CASE /\ OpenAppend(p)
             /\ w_curr' = [w_curr EXCEPT ![p] = 0]
             /\ short' = [short EXCEPT ![p] = FALSE]
             /\ UNCHANGED failed
    <2>1. LogTypeOK'
      BY <1>1, <1>2, <1>4, OpenAppendFacts DEF LogTypeOK, Inodes
    <2>2. fp'[p] \in Linked'
      BY <1>1, <1>4, OpenAppendFacts DEF Linked, Names
    <2>3. OpenIsLinked'
      BY <1>1, <1>4, <2>2, OpenAppendFacts DEF LogInv, OpenIsLinked
    <2>4. Linked \subseteq Inodes
      BY <1>1 DEF LogTypeOK, Linked
    <2>5. \A i \in Linked : i \in Linked' /\ inode'[i] = inode[i]
      BY <1>1, <1>4, <2>4, OpenAppendFacts
    <2>6. InvLog'
      BY <1>1, <2>5 DEF LogInv, InvLog
    <2> QED
      BY <1>2, <1>3, <2>1, <2>3, <2>6 DEF LogInv
  <1>5. CASE /\ fp' = [fp EXCEPT ![p] = NoFile]
             /\ failed' = [failed EXCEPT ![p] = TRUE]
             /\ UNCHANGED <<inode, dir, w_curr, short>>
    <2>1. LogTypeOK'
      <3>1. failed' \in [Loggers -> BOOLEAN]
        BY <1>5 DEF LogInv, LogTypeOK
      <3> QED
        BY <1>1, <1>2, <1>5, <3>1 DEF LogTypeOK, Inodes
    <2>2. OpenIsLinked' /\ InvLog'
      BY <1>1, <1>5 DEF LogInv, LogTypeOK, OpenIsLinked, InvLog, Linked
    <2> QED
      BY <1>2, <1>3, <2>1, <2>2 DEF LogInv
  <1> QED
    BY <1>4, <1>5 DEF Reopen

LEMMA LogNextInv ==
  ASSUME LogInv, [Next]_vars
  PROVE  LogInv'
  <1> USE SameProcesses
  <1>1. ASSUME NEW p \in Pids, NEW t \in Threads, LogStep(p, t)
        PROVE  LogInv'
    BY <1>1, WriteLogKeeps, RotateKeeps, RenameKeeps, ReopenKeeps DEF LogStep
  <1>2. CASE UNCHANGED logVars
    BY <1>2 DEF logVars, histories, LogInv, LogTypeOK, OneRotates, NewName, OpenIsLinked, InvLog, Linked, Inodes
  <1>3. ASSUME NEW p \in Pids, MainStep(p)
        PROVE  LogInv'
    BY <1>3, LogOpenKeeps, LogForkKeeps, LogEndKeeps DEF MainStep, OpenLog, ForkLog
  <1> QED
    BY <1>1, <1>2, <1>3, LogEndKeeps DEF Next, Log, Return, vars

(* Every variable of the processes and of the log keeps its type. *)
THEOREM AppTypeCorrect == Spec => []TypeOK
  <1>1. Init => PidInv /\ LogInv
    BY PidInitInv, LogInitInv DEF Init
  <1>2. PidInv /\ LogInv /\ [Next]_vars => (PidInv /\ LogInv)'
    BY PidNextInv, StepsOfPids, LogNextInv
  <1>3. PidInv /\ LogInv => TypeOK
    BY DEF PidInv, LogInv, TypeOK
  <1> QED
    BY <1>1, <1>2, <1>3, PTL DEF Spec

(* Each message written is in a file that has a name, unless two rotations *)
(* had the same: Logger::rotate() (log.cpp) loses none, for any number of  *)
(* threads, sizes and restarts, nor does a crash in the middle of it.      *)
THEOREM LogCorrect == Spec => []InvLog
  <1>1. Init => LogInv
    BY LogInitInv DEF Init
  <1>2. LogInv /\ [Next]_vars => LogInv'
    BY LogNextInv
  <1>3. LogInv => InvLog
    BY DEF LogInv
  <1> QED
    BY <1>1, <1>2, <1>3, PTL DEF Spec

-----------------------------------------------------------------------------
(* The two together.  A process has the log open from log_open() on,       *)
Open == {"daemon", "create", "write"} \cup Serving

UsersOpen ==
  /\ \A p \in Pids : fp[p] # NoFile => pc[p] \in Open
  /\ \A p \in Pids : \A t \in Threads : at[p][t] \in Rotating => pc[p] = "run"
  /\ \A p \in Pids : failed[p] => pc[p] \in Serving

(* and has lost it only while a thread is in the middle of rotate(), or    *)
(* after a rotate() that failed;                                           *)
HasFile ==
  ~overlap => \A p \in Pids : pc[p] \in Open =>
    \/ fp[p] # NoFile \/ failed[p]
    \/ \E t \in Threads : at[p][t] \in {"rename", "reopen"}

(* the file it has open is the one of that name, which is there before     *)
(* rename() and not there after it, when none is open.                     *)
InDir ==
  ~overlap => \A p \in Pids :
    /\ fp[p] # NoFile => fp[p] = dir[Current]
    /\ \A t \in Threads :
         /\ at[p][t] = "rotate" => fp[p] # NoFile
         /\ at[p][t] = "rename" => dir[Current] # NoFile
         /\ at[p][t] = "reopen" => dir[Current] = NoFile
         /\ at[p][t] \in {"rename", "reopen"} => fp[p] = NoFile

AppInv == UsersOpen /\ HasFile /\ InDir /\ InvOpen

LEMMA AppInitInv == Init => AppInv
  BY SameProcesses DEF Init, PidInit, LogInit, AppInv, UsersOpen, HasFile, InDir, InvOpen,
     NoUseAfterClose, SizeKnown, Open, Serving, Rotating

(* One process at a time has the log open. *)
LEMMA OneOpen ==
  ASSUME PidInv, ~overlap, NEW p \in Pids, NEW q \in Pids, pc[p] \in Open, pc[q] \in Open
  PROVE  p = q
  <1>1. CASE pc[p] \in Serving /\ pc[q] \in Serving
    BY <1>1 DEF PidInv, InvOneServer
  <1>2. CASE pc[p] \notin Serving /\ pc[q] \notin Serving
    BY <1>2 DEF PidInv, OneStarting, Starting, Open
  <1>3. CASE pc[p] \notin Serving /\ pc[q] \in Serving
    BY <1>3 DEF PidInv, NoServer, Free, Open
  <1>4. CASE pc[p] \in Serving /\ pc[q] \notin Serving
    BY <1>4 DEF PidInv, NoServer, Free, Open
  <1> QED
    BY <1>1, <1>2, <1>3, <1>4

(* Processes end, and the others keep the log or do without it. *)
LEMMA EndKeepsApp ==
  ASSUME LogInv, AppInv, LogEnd(Ending), overlap' = overlap,
         \A q \in Pids : pc'[q] # "off" => (pc'[q] \in Open <=> pc[q] \in Open),
         \A q \in Pids : pc'[q] # "off" => (pc[q] = "run" => pc'[q] = "run"),
         \A q \in Pids : pc'[q] # "off" => (pc[q] \in Serving => pc'[q] \in Serving)
  PROVE  AppInv'
  <1>1. /\ UNCHANGED <<inode, dir>>
        /\ \A q \in Ending : fp'[q] = NoFile /\ ~failed'[q]
        /\ \A q \in Ending : \A t \in Threads : at'[q][t] = "idle"
        /\ \A q \in Pids \ Ending : fp'[q] = fp[q] /\ w_curr'[q] = w_curr[q]
        /\ \A q \in Pids \ Ending : failed'[q] = failed[q] /\ short'[q] = short[q]
        /\ \A q \in Pids \ Ending : \A t \in Threads : at'[q][t] = at[q][t]
    <2>1. LogTypeOK
      BY DEF LogInv
    <2> QED
      BY <2>1, SameProcesses DEF LogEnd, Ending, LogTypeOK
  <1>2. "off" \notin Open
    BY DEF Open, Serving
  <1>3. \A q \in Pids \ Ending : pc[q] \in Open => pc'[q] \in Open
    BY <1>2 DEF Ending
  <1>4. UsersOpen'
    <2> SUFFICES ASSUME NEW q \in Pids
                 PROVE  /\ fp'[q] # NoFile => pc'[q] \in Open
                        /\ \A t \in Threads : at'[q][t] \in Rotating => pc'[q] = "run"
                        /\ failed'[q] => pc'[q] \in Serving
      BY DEF UsersOpen
    <2>1. CASE q \in Ending
      BY <1>1, <2>1 DEF Rotating
    <2>2. CASE q \notin Ending
      <3>1. /\ fp[q] # NoFile => pc[q] \in Open
            /\ \A t \in Threads : at[q][t] \in Rotating => pc[q] = "run"
            /\ failed[q] => pc[q] \in Serving
        BY DEF AppInv, UsersOpen
      <3>2. /\ pc[q] = "run" => pc'[q] = "run"
            /\ pc[q] \in Serving => pc'[q] \in Serving
        <4>1. "off" \notin Serving
          BY DEF Serving
        <4> QED
          BY <2>2, <4>1 DEF Ending
      <3> QED
        BY <1>1, <1>3, <2>2, <3>1, <3>2
    <2> QED
      BY <2>1, <2>2
  <1>5. HasFile'
    <2> SUFFICES ASSUME ~overlap, NEW q \in Pids, pc'[q] \in Open
                 PROVE  \/ fp'[q] # NoFile \/ failed'[q]
                        \/ \E t \in Threads : at'[q][t] \in {"rename", "reopen"}
      BY <1>1 DEF HasFile
    <2>1. q \notin Ending /\ pc[q] \in Open
      BY <1>2 DEF Ending
    <2>2. \/ fp[q] # NoFile \/ failed[q]
          \/ \E t \in Threads : at[q][t] \in {"rename", "reopen"}
      BY <2>1 DEF AppInv, HasFile
    <2>3. \A t \in Threads : at'[q][t] = at[q][t]
      BY <1>1, <2>1
    <2> QED
      BY <1>1, <2>1, <2>2, <2>3
  <1>6. InDir'
    <2> SUFFICES ASSUME ~overlap, NEW q \in Pids
                 PROVE  /\ fp'[q] # NoFile => fp'[q] = dir[Current]
                        /\ \A t \in Threads :
                             /\ at'[q][t] = "rotate" => fp'[q] # NoFile
                             /\ at'[q][t] = "rename" => dir[Current] # NoFile
                             /\ at'[q][t] = "reopen" => dir[Current] = NoFile
                             /\ at'[q][t] \in {"rename", "reopen"} => fp'[q] = NoFile
      BY <1>1 DEF InDir
    <2>1. CASE q \in Ending
      BY <1>1, <2>1
    <2>2. CASE q \notin Ending
      BY <1>1, <2>2 DEF AppInv, InDir
    <2> QED
      BY <2>1, <2>2
  <1>7. InvOpen'
    <2> SUFFICES ASSUME ~overlap PROVE NoUseAfterClose' /\ SizeKnown'
      BY DEF InvOpen
    <2>1. NoUseAfterClose /\ SizeKnown
      BY DEF AppInv, InvOpen
    <2>2. NoUseAfterClose'
      BY <1>1, <2>1, SameProcesses DEF NoUseAfterClose
    <2>3. SizeKnown'
      BY <1>1, <2>1, SameProcesses DEF SizeKnown
    <2> QED
      BY <2>2, <2>3
  <1> QED
    BY <1>4, <1>5, <1>6, <1>7 DEF AppInv

(* pc moves on, and the log stays as it is. *)
LEMMA MoveKeepsApp ==
  ASSUME AppInv, UNCHANGED logVars, ~overlap' => ~overlap,
         NEW p \in Pids, \A q \in Pids \ {p} : pc'[q] = pc[q],
         pc'[p] \in Open <=> pc[p] \in Open,
         pc[p] \in Serving => pc'[p] \in Serving,
         pc[p] = "run" => \A t \in Threads : at[p][t] \notin Rotating
  PROVE  AppInv'
  <1>1. UsersOpen'
    BY DEF AppInv, UsersOpen, logVars, histories
  <1>2. HasFile'
    BY DEF AppInv, HasFile, logVars, histories
  <1>3. InDir' /\ InvOpen'
    BY DEF AppInv, InDir, InvOpen, NoUseAfterClose, SizeKnown, logVars, histories
  <1> QED
    BY <1>1, <1>2, <1>3 DEF AppInv

LEMMA BeginKeepsApp ==
  ASSUME PidInv, AppInv, NEW p \in Pids, Begin(p) \/ BeginOther(p), UNCHANGED logVars
  PROVE  AppInv'
  <1>1. pc[p] = "off" /\ (~overlap' => ~overlap)
    <2>1. pc[p] = "off"
      BY DEF Begin, BeginOther, Launch
    <2>2. CASE Begin(p)
      <3>1. overlap' = (overlap \/ \E q \in Pids : pc[q] \in Starting)
        BY <2>2 DEF Begin
      <3> QED
        BY <2>1, <3>1, Zenon
    <2>3. CASE BeginOther(p)
      BY <2>1, <2>3 DEF BeginOther
    <2> QED
      BY <2>2, <2>3
  <1>2. /\ \A q \in Pids \ {p} : pc'[q] = pc[q]
        /\ pc'[p] \in {"exists", "read", "check", "other"}
    <2>1. CASE Begin(p)
      <3>1. PICK c \in Commands : pc' = [pc EXCEPT ![p] = FirstStep[c]]
        BY <2>1 DEF Begin
      <3>2. FirstStep[c] \in {"exists", "read", "check"}
        BY DEF FirstStep, Commands
      <3> QED
        BY <3>1, <3>2 DEF PidInv, PidTypeOK
    <2>2. CASE BeginOther(p)
      BY <2>2 DEF BeginOther, PidInv, PidTypeOK
    <2> QED
      BY <2>1, <2>2
  <1> QED
    BY <1>1, <1>2, MoveKeepsApp DEF Open, Serving

LEMMA ReturnKeepsApp ==
  ASSUME PidInv, AppInv, NEW p \in Pids, Return(p)
  PROVE  AppInv'
  <1>1. /\ UNCHANGED logVars /\ overlap' = overlap /\ pc[p] = "run"
        /\ \A t \in Threads : at[p][t] \notin Rotating
    BY DEF Return, RunReturns, Goto, MutexFree, Rotating
  <1>2. pc'[p] = "remove" /\ \A q \in Pids \ {p} : pc'[q] = pc[q]
    BY DEF Return, RunReturns, Goto, PidInv, PidTypeOK
  <1> QED
    BY <1>1, <1>2, MoveKeepsApp DEF Open, Serving

(* Where the steps of init() lead to, when the log stays as it is. *)
LEMMA InitMoves ==
  ASSUME PidTypeOK, NEW p \in Pids,
         InitStep(p) \/ NoLog(p) \/ RemovePidfile(p) \/ Crash(p), NEW q \in Pids
  PROVE  /\ overlap' = overlap
         /\ pc'[q] # "off" => (pc'[q] \in Open <=> pc[q] \in Open)
         /\ pc'[q] # "off" => (pc[q] = "run" => pc'[q] = "run")
         /\ pc'[q] # "off" => (pc[q] \in Serving => pc'[q] \in Serving)
  <1>1. ASSUME NEW from, NEW to, Goto(p, from, to), to \in Open <=> from \in Open, from \notin Serving
        PROVE  /\ overlap' = overlap
               /\ pc'[q] # "off" => (pc'[q] \in Open <=> pc[q] \in Open)
               /\ pc'[q] # "off" => (pc[q] = "run" => pc'[q] = "run")
               /\ pc'[q] # "off" => (pc[q] \in Serving => pc'[q] \in Serving)
    BY <1>1 DEF Goto, PidTypeOK, Serving
  <1>2. ASSUME NEW ps, Exit(ps)
        PROVE  /\ overlap' = overlap
               /\ pc'[q] # "off" => (pc'[q] \in Open <=> pc[q] \in Open)
               /\ pc'[q] # "off" => (pc[q] = "run" => pc'[q] = "run")
               /\ pc'[q] # "off" => (pc[q] \in Serving => pc'[q] \in Serving)
    BY <1>2 DEF Exit
  <1>3. CASE Exists(p) \/ Probe(p) \/ ReadPid(p) \/ CheckPidfile(p)
    BY <1>1, <1>2, <1>3 DEF Exists, Probe, ReadPid, CheckPidfile, ExitAt, Open, Serving
  <1>4. CASE RemoveStale(p) \/ WaitGone(p)
    BY <1>1, <1>2, <1>4 DEF RemoveStale, WaitGone, Killed, ExitAt, Open, Serving
  <1>5. CASE NoDaemon(p) \/ CreatePidfile(p) \/ WritePid(p)
    BY <1>1, <1>2, <1>5 DEF NoDaemon, CreatePidfile, WritePid, ExitAt, Open, Serving
  <1>6. CASE NoLog(p) \/ RemovePidfile(p) \/ Crash(p)
    BY <1>2, <1>6 DEF NoLog, RemovePidfile, Crash, ExitAt
  <1>7. CASE Signal(p)
    <2>1. CASE Exit({p}) \/ ExitAt(p, "signal")
      BY <1>2, <2>1 DEF ExitAt
    <2>2. CASE pc' = [pc EXCEPT ![p] = "wait"] /\ overlap' = overlap
      BY <1>7, <2>2 DEF Signal, PidTypeOK, Open, Serving
    <2>3. CASE pc' = [pc EXCEPT ![p] = "wait", ![target[p]] = "off"] /\ overlap' = overlap
      <3>1. pc'[q] \in {"off", pc[q]} \/ (q = p /\ pc'[q] = "wait")
        BY <2>3 DEF PidTypeOK
      <3>2. pc[p] = "signal"
        BY <1>7 DEF Signal
      <3> QED
        BY <2>3, <3>1, <3>2 DEF Open, Serving
    <2> QED
      BY <1>7, <2>1, <2>2, <2>3 DEF Signal
  <1> QED
    BY <1>3, <1>4, <1>5, <1>6, <1>7 DEF InitStep

LEMMA OpenLogKeepsApp ==
  ASSUME PidInv, LogInv, AppInv, NEW p \in Pids, OpenLog(p)
  PROVE  AppInv'
  <1>1. /\ LogOpen(p) /\ LogTypeOK /\ OpenAppend(p) /\ p \in Loggers
        /\ UNCHANGED <<at, failed>>
        /\ pc[p] = "log" /\ overlap' = overlap
        /\ w_curr' = [w_curr EXCEPT ![p] = SizeAtOpen]
        /\ short' = [short EXCEPT ![p] = FALSE]
    BY SameProcesses DEF OpenLog, LogOpened, Goto, LogOpen, LogInv
  <1>2. pc'[p] = "daemon" /\ \A q \in Pids \ {p} : pc'[q] = pc[q]
    BY DEF OpenLog, LogOpened, Goto, PidInv, PidTypeOK
  <1>3. /\ fp'[p] = dir'[Current] /\ fp'[p] # NoFile
        /\ \A q \in Pids \ {p} : fp'[q] = fp[q]
        /\ dir[Current] = NoFile => inode'[dir'[Current]] = NewFile(0)
        /\ dir[Current] # NoFile => dir' = dir /\ inode' = inode
    BY <1>1, OpenAppendFacts, SameProcesses
  <1>4. UsersOpen'
    BY <1>1, <1>2, <1>3 DEF AppInv, UsersOpen, Open, Serving
  <1>5. ~overlap => \A q \in Pids \ {p} : pc[q] \notin Open
    BY <1>1 DEF PidInv, OneStarting, NoServer, Starting, Free, Open
  <1>6. ~overlap => \A q \in Pids \ {p} : fp[q] = NoFile
    BY <1>5 DEF AppInv, UsersOpen
  <1>7. ~overlap => \A q \in Pids : \A t \in Threads : at[q][t] \notin Rotating
    BY <1>1, <1>5 DEF AppInv, UsersOpen, Open, Serving
  <1>8. HasFile'
    BY <1>1, <1>2, <1>3, <1>5 DEF HasFile
  <1>9. InDir'
    BY <1>1, <1>3, <1>6, <1>7 DEF InDir, Rotating
  <1>10. w_curr'[p] = inode'[fp'[p]].size /\ w_curr'[p] \in Nat
    <2>1. w_curr'[p] = SizeAtOpen
      BY <1>1 DEF LogTypeOK
    <2>2. SizeAtOpen \in Nat
      <3>1. dir[Current] # NoFile => inode[dir[Current]] \in File
        BY <1>1 DEF LogTypeOK, Inodes, Names
      <3> QED
        BY <3>1 DEF SizeAtOpen, File
    <2> QED
      BY <1>3, <2>1, <2>2 DEF SizeAtOpen, NewFile
  <1>11. InvOpen'
    <2> SUFFICES ASSUME ~overlap PROVE NoUseAfterClose' /\ SizeKnown'
      BY <1>1 DEF InvOpen
    <2>1. \A q \in Pids : fp'[q] # NoFile => q = p
      BY <1>3, <1>6
    <2>2. NoUseAfterClose'
      BY <1>1 DEF AppInv, InvOpen, NoUseAfterClose
    <2>3. SizeKnown'
      BY <1>10, <2>1, SameProcesses DEF SizeKnown
    <2> QED
      BY <2>2, <2>3
  <1> QED
    BY <1>4, <1>8, <1>9, <1>11 DEF AppInv

(* fork(): the child has the log open, and its parent has ended. *)
LEMMA ForkKeepsApp ==
  ASSUME PidInv, LogInv, AppInv, NEW p \in Pids, NEW c \in Pids, ForkLog(p, c)
  PROVE  AppInv'
  <1>1. /\ Daemonize(p, c) /\ pc[p] = "daemon" /\ pc[c] = "off" /\ p # c
        /\ PidTypeOK /\ LogTypeOK
    BY DEF ForkLog, Daemonize, PidInv, LogInv
  <1>2. CASE ExitAt(p, "daemon")
    <2>1. /\ \A q \in Pids : pc'[q] = IF q = p THEN "off" ELSE pc[q]
          /\ overlap' = overlap
      BY <1>2 DEF ExitAt, Exit
    <2>2. Ending = {p} /\ pc'[c] = "off"
      BY <1>1, <2>1 DEF Ending
    <2>3. LogEnd(Ending)
      BY <2>2 DEF ForkLog
    <2> QED
      BY <2>1, <2>3, EndKeepsApp
  <1>3. CASE /\ pc' = [pc EXCEPT ![p] = "off", ![c] = "create"]
             /\ overlap' = overlap
    <2>1. /\ pc'[c] = "create" /\ pc'[p] = "off"
          /\ \A q \in Pids \ {p, c} : pc'[q] = pc[q]
      BY <1>1, <1>3 DEF PidTypeOK
    <2>2. /\ fp' = [fp EXCEPT ![p] = NoFile, ![c] = fp[p]]
          /\ w_curr' = [w_curr EXCEPT ![p] = 0, ![c] = w_curr[p]]
          /\ short' = [short EXCEPT ![p] = FALSE, ![c] = short[p]]
          /\ UNCHANGED <<inode, dir, at, failed>>
      BY <2>1 DEF ForkLog, LogFork
    <2>3. /\ fp'[c] = fp[p] /\ fp'[p] = NoFile
          /\ w_curr'[c] = w_curr[p] /\ short'[c] = short[p]
          /\ \A q \in Pids \ {p, c} :
               fp'[q] = fp[q] /\ w_curr'[q] = w_curr[q] /\ short'[q] = short[q]
      BY <1>1, <2>2, SameProcesses DEF LogTypeOK
    <2>4. \A t \in Threads : at[p][t] \notin Rotating /\ at[c][t] \notin Rotating
      BY <1>1 DEF AppInv, UsersOpen
    <2>5. UsersOpen'
      BY <1>1, <2>1, <2>2, <2>3, <2>4 DEF AppInv, UsersOpen, Open, Serving
    <2>6. ~overlap => fp[p] # NoFile
      BY <1>1, <2>4 DEF AppInv, UsersOpen, HasFile, Open, Serving, Rotating
    <2>7. HasFile'
      <3> SUFFICES ASSUME ~overlap, NEW q \in Pids, pc'[q] \in Open
                   PROVE  fp'[q] # NoFile \/ failed[q] \/ \E t \in Threads : at[q][t] \in {"rename", "reopen"}
        BY <1>3, <2>2 DEF HasFile
      <3>1. q # p
        BY <2>1 DEF Open, Serving
      <3>2. CASE q = c
        BY <2>3, <2>6, <3>2
      <3>3. CASE q # c
        BY <2>1, <2>3, <3>1, <3>3 DEF AppInv, HasFile
      <3> QED
        BY <3>2, <3>3
    <2>8. InDir'
      <3> SUFFICES ASSUME ~overlap, NEW q \in Pids
                   PROVE  /\ fp'[q] # NoFile => fp'[q] = dir[Current]
                          /\ \A t \in Threads :
                               /\ at[q][t] = "rotate" => fp'[q] # NoFile
                               /\ at[q][t] = "rename" => dir[Current] # NoFile
                               /\ at[q][t] = "reopen" => dir[Current] = NoFile
                               /\ at[q][t] \in {"rename", "reopen"} => fp'[q] = NoFile
        BY <1>3, <2>2 DEF InDir
      <3>1. CASE q \in {p, c}
        <4>1. \A t \in Threads : at[q][t] \notin {"rotate", "rename", "reopen"}
          BY <2>4, <3>1 DEF Rotating
        <4>2. fp[p] # NoFile => fp[p] = dir[Current]
          BY <1>1 DEF AppInv, InDir
        <4> QED
          BY <2>3, <3>1, <4>1, <4>2
      <3>2. CASE q \notin {p, c}
        <4>1. fp'[q] = fp[q]
          BY <2>3, <3>2
        <4> QED
          BY <4>1 DEF AppInv, InDir
      <3> QED
        BY <3>1, <3>2
    <2>9. InvOpen'
      <3>1. NoUseAfterClose' = NoUseAfterClose
        BY <2>2 DEF NoUseAfterClose
      <3>2. SizeKnown => SizeKnown'
        <4> SUFFICES ASSUME SizeKnown, NEW q \in Pids, fp'[q] # NoFile
                     PROVE  /\ inode[fp'[q]].size <= w_curr'[q]
                            /\ ~short'[q] => w_curr'[q] = inode[fp'[q]].size
          BY <2>2, SameProcesses DEF SizeKnown
        <4>1. q # p
          BY <2>3
        <4>2. CASE q = c
          BY <2>3, <4>2, SameProcesses DEF SizeKnown
        <4>3. CASE q # c
          BY <2>3, <4>1, <4>3, SameProcesses DEF SizeKnown
        <4> QED
          BY <4>2, <4>3
      <3> QED
        BY <1>3, <2>2, <3>1, <3>2 DEF AppInv, InvOpen
    <2> QED
      BY <2>5, <2>7, <2>8, <2>9 DEF AppInv
  <1> QED
    BY <1>1, <1>2, <1>3 DEF Daemonize

(* A thread of the only server writes to the log, or rotates it. *)
LEMMA LogStepKeepsApp ==
  ASSUME PidInv, LogInv, AppInv, NEW p \in Pids, NEW t \in Threads, Log(p, t)
  PROVE  AppInv'
  <1>1. /\ pc[p] = "run" /\ LogStep(p, t) /\ pc' = pc /\ overlap' = overlap
        /\ p \in Loggers /\ LogTypeOK
    BY SameProcesses DEF Log, pidVars, LogInv
  <1>2. /\ \A q \in Pids \ {p} : fp'[q] = fp[q] /\ w_curr'[q] = w_curr[q]
        /\ \A q \in Pids \ {p} : failed'[q] = failed[q] /\ short'[q] = short[q]
        /\ \A q \in Pids \ {p} : \A u \in Threads : at'[q][u] = at[q][u]
        /\ \A u \in Threads \ {t} : at'[p][u] = at[p][u]
        /\ failed[p] => failed'[p]
    <2>1. /\ \A q \in Loggers \ {p} : fp'[q] = fp[q] /\ w_curr'[q] = w_curr[q]
          /\ \E from, to : Step(p, t, from, to)
      BY <1>1 DEF LogStep, Write, Rotate, Rename, Reopen, OpenAppend, LogTypeOK
    <2>2. /\ \A q \in Loggers \ {p} : at'[q] = at[q]
          /\ \A u \in Threads \ {t} : at'[p][u] = at[p][u]
      BY <2>1 DEF Step, LogTypeOK
    <2>3. \/ short' = short
          \/ \E b : short' = [short EXCEPT ![p] = b]
      BY <1>1 DEF LogStep, Write, WriteAll, WritePart, Rotate, Rename, Reopen, histories
    <2>4. \/ failed' = failed
          \/ failed' = [failed EXCEPT ![p] = TRUE]
          \/ failed' = [failed EXCEPT ![p] = @ \/ dir[Current] # NoFile]
      BY <1>1 DEF LogStep, Write, Rotate, Rename, Reopen, histories
    <2>5. \A q \in Loggers \ {p} : short'[q] = short[q]
      BY <1>1, <2>3 DEF LogTypeOK
    <2>6. (\A q \in Loggers \ {p} : failed'[q] = failed[q]) /\ (failed[p] => failed'[p])
      BY <1>1, <2>4 DEF LogTypeOK
    <2> QED
      BY <2>1, <2>2, <2>5, <2>6, SameProcesses
  <1>3. UsersOpen'
    BY <1>1, <1>2 DEF AppInv, UsersOpen, Open, Serving
  <1>4. ~overlap => \A q \in Pids \ {p} : /\ fp[q] = NoFile /\ pc[q] \notin Open
                                       /\ \A u \in Threads : at[q][u] \notin Rotating
    <2>1. ~overlap => \A q \in Pids \ {p} : pc[q] \notin Open
      BY <1>1, OneOpen DEF Open, Serving
    <2> QED
      BY <1>1, <2>1 DEF AppInv, UsersOpen, Open, Serving
  <1>5. SUFFICES ASSUME ~overlap
                 PROVE  /\ fp'[p] # NoFile \/ failed'[p] \/ at'[p][t] \in {"rename", "reopen"}
                        /\ fp'[p] # NoFile => fp'[p] = dir'[Current]
                        /\ at'[p][t] = "rotate" => fp'[p] # NoFile
                        /\ at'[p][t] = "rename" => dir'[Current] # NoFile
                        /\ at'[p][t] = "reopen" => dir'[Current] = NoFile
                        /\ at'[p][t] \in {"rename", "reopen"} => fp'[p] = NoFile
                        /\ \A u \in Threads \ {t} : at[p][u] \notin Rotating
                        /\ at'[p][t] = "broken" => failed'[p]
                        /\ fp'[p] # NoFile =>
                             /\ inode'[fp'[p]].size <= w_curr'[p]
                             /\ ~short'[p] => w_curr'[p] = inode'[fp'[p]].size
    <2>1. ASSUME overlap PROVE AppInv'
      <3>1. HasFile' /\ InDir' /\ InvOpen'
        BY <1>1, <2>1 DEF HasFile, InDir, InvOpen
      <3> QED
        BY <1>3, <3>1 DEF AppInv
    <2>2. ASSUME ~overlap,
                 /\ fp'[p] # NoFile \/ failed'[p] \/ at'[p][t] \in {"rename", "reopen"}
                 /\ fp'[p] # NoFile => fp'[p] = dir'[Current]
                 /\ at'[p][t] = "rotate" => fp'[p] # NoFile
                 /\ at'[p][t] = "rename" => dir'[Current] # NoFile
                 /\ at'[p][t] = "reopen" => dir'[Current] = NoFile
                 /\ at'[p][t] \in {"rename", "reopen"} => fp'[p] = NoFile
                 /\ \A u \in Threads \ {t} : at[p][u] \notin Rotating
                 /\ at'[p][t] = "broken" => failed'[p]
                 /\ fp'[p] # NoFile =>
                      /\ inode'[fp'[p]].size <= w_curr'[p]
                      /\ ~short'[p] => w_curr'[p] = inode'[fp'[p]].size
          PROVE  AppInv'
      <3>2. HasFile'
        BY <1>1, <1>4, <2>2 DEF HasFile
      <3>3. InDir'
        BY <1>2, <1>4, <2>2 DEF InDir, Rotating
      <3>4. InvOpen'
        <4>1. NoUseAfterClose
          BY <2>2 DEF AppInv, InvOpen
        <4>2. NoUseAfterClose'
          BY <1>2, <2>2, <4>1, SameProcesses DEF NoUseAfterClose
        <4>3. SizeKnown'
          <5> SUFFICES ASSUME NEW q \in Pids, fp'[q] # NoFile
                       PROVE  /\ inode'[fp'[q]].size <= w_curr'[q]
                              /\ ~short'[q] => w_curr'[q] = inode'[fp'[q]].size
            BY SameProcesses DEF SizeKnown
          <5>1. q = p
            BY <1>2, <1>4, <2>2
          <5> QED
            BY <2>2, <5>1
        <4> QED
          BY <4>2, <4>3 DEF InvOpen
      <3> QED
        BY <1>3, <3>2, <3>3, <3>4 DEF AppInv
    <2> QED
      BY <2>1, <2>2
  <1>6. /\ HasFile /\ InDir /\ InvOpen /\ ~overlap
        /\ fp \in [Loggers -> {NoFile} \cup Inodes] /\ inode \in Seq(File)
        /\ w_curr \in [Loggers -> Nat] /\ dir \in [Names -> {NoFile} \cup Inodes]
        /\ short \in [Loggers -> BOOLEAN] /\ failed \in [Loggers -> BOOLEAN]
    BY <1>1, <1>5 DEF AppInv, LogTypeOK
  <1>7. CASE Write(p, t)
    <2>1. MutexFree(p) /\ dir' = dir /\ fp' = fp /\ failed' = failed
      BY <1>7 DEF Write
    <2>2. \A u \in Threads : at[p][u] \notin Rotating
      BY <2>1 DEF MutexFree, Rotating
    <2>3. PICK to \in {"idle", "rotate", "broken"} : Step(p, t, "idle", to)
      BY <1>7 DEF Write
    <2>4. at'[p][t] = to
      BY <2>1, <2>3, <1>1, StepFacts DEF Positions
    <2>5. CASE fp[p] = NoFile
      <3>1. failed[p]
        BY <1>1, <1>6, <2>2, <2>5 DEF HasFile, Open, Serving, Rotating
      <3>2. at'[p][t] = "broken"
        <4>1. Step(p, t, "idle", "broken")
          BY <1>7, <2>5 DEF Write
        <4> QED
          BY <1>1, <2>1, <4>1, StepFacts DEF Positions
      <3> QED
        BY <2>1, <2>2, <2>5, <3>1, <3>2
    <2>6. CASE fp[p] # NoFile
      <3>1. /\ fp[p] = dir[Current] /\ inode[fp[p]].size <= w_curr[p]
            /\ ~short[p] => w_curr[p] = inode[fp[p]].size
        BY <1>1, <1>6, <2>6, SameProcesses DEF InDir, InvOpen, SizeKnown
      <3>2. PICK len \in Lengths :
              /\ WriteAll(p, len) \/ WritePart(p, len)
              /\ w_curr' = [w_curr EXCEPT ![p] = @ + len]
        BY <1>7, <2>6 DEF Write
      <3>3. to # "broken"
        <4>1. Step(p, t, "idle", IF MustRotate(w_curr'[p]) THEN "rotate" ELSE "idle")
          BY <1>7, <2>6 DEF Write
        <4>2. at'[p][t] = IF MustRotate(w_curr'[p]) THEN "rotate" ELSE "idle"
          BY <1>1, <2>1, <4>1, StepFacts DEF Positions
        <4> QED
          BY <2>4, <4>2
      <3>4. /\ fp[p] \in 1..Len(inode) /\ fp[p] \in DOMAIN inode /\ inode[fp[p]].size \in Nat
            /\ len \in Nat /\ w_curr[p] \in Nat
        <4>1. fp[p] \in 1..Len(inode) /\ fp[p] \in DOMAIN inode
          BY <1>1, <1>6, <2>6 DEF Inodes
        <4>2. inode[fp[p]] \in File
          BY <1>6, <4>1
        <4>3. len \in Nat /\ w_curr[p] \in Nat
          BY <1>1, <1>6, <3>2, LogAssumption
        <4> QED
          BY <4>1, <4>2, <4>3 DEF File
      <3>5. w_curr'[p] = w_curr[p] + len
        BY <1>1, <1>6, <3>2
      <3>6. CASE WriteAll(p, len)
        <4>1. inode'[fp[p]].size = inode[fp[p]].size + len /\ short' = short
          BY <3>4, <3>6 DEF WriteAll
        <4> QED
          BY <2>1, <2>2, <2>4, <2>6, <3>1, <3>3, <3>4, <3>5, <4>1
      <3>7. CASE WritePart(p, len)
        <4>1. PICK part \in 0..len - 1 : inode' = [inode EXCEPT ![fp[p]].size = @ + part]
          BY <3>7 DEF WritePart
        <4>2. inode'[fp[p]].size = inode[fp[p]].size + part
          <5>1. inode[fp[p]] \in File
            BY <1>6, <3>4
          <5> QED
            BY <3>4, <4>1, <5>1 DEF File
        <4>3. short'[p]
          BY <1>1, <1>6, <3>7 DEF WritePart
        <4>4. inode'[fp[p]].size <= w_curr'[p]
          BY <3>1, <3>4, <3>5, <4>2
        <4> QED
          BY <2>1, <2>2, <2>4, <2>6, <3>1, <3>3, <4>3, <4>4
      <3> QED
        BY <3>2, <3>6, <3>7
    <2> QED
      BY <2>5, <2>6
  <1>8. CASE Rotate(p, t)
    <2>1. dir' = dir /\ Step(p, t, "rotate", "rename") /\ fp'[p] = NoFile /\ failed' = failed
      BY <1>1, <1>6, <1>8 DEF Rotate, histories
    <2>2. /\ at[p][t] = "rotate" /\ at'[p][t] = "rename"
          /\ \A u \in Threads \ {t} : at[p][u] \notin Rotating
      BY <1>1, <2>1, StepFacts DEF Positions, Rotating
    <2>3. fp[p] # NoFile /\ dir[Current] # NoFile
      BY <1>1, <1>6, <2>2, SameProcesses DEF InDir
    <2> QED
      BY <2>1, <2>2, <2>3
  <1>9. CASE Rename(p, t)
    <2>1. PICK to \in {"reopen", "idle"} : Step(p, t, "rename", to)
      BY <1>9 DEF Rename
    <2>2. /\ at[p][t] = "rename" /\ at'[p][t] = to
          /\ \A u \in Threads \ {t} : at[p][u] \notin Rotating
      BY <1>1, <2>1, StepFacts DEF Positions, Rotating
    <2>3. dir[Current] # NoFile /\ fp[p] = NoFile /\ fp' = fp
      BY <1>6, <1>9, <2>2 DEF InDir, Rename
    <2>4. CASE dir' = [dir EXCEPT ![newpath[p]] = dir[Current], ![Current] = NoFile] /\ to = "reopen"
      <3>1. dir'[Current] = NoFile
        BY <1>6, <2>4 DEF Names
      <3> QED
        BY <2>2, <2>3, <2>4, <3>1
    <2>5. CASE failed' = [failed EXCEPT ![p] = @ \/ dir[Current] # NoFile] /\ to = "idle"
      <3>1. failed'[p]
        BY <1>1, <1>6, <2>3, <2>5
      <3> QED
        BY <2>2, <2>3, <2>5, <3>1
    <2>6. ASSUME NEW from, NEW next, Step(p, t, from, next), next \in Positions, from \in Rotating
          PROVE  next = to
      BY <1>1, <2>2, <2>6, StepFacts
    <2> QED
      BY <1>9, <2>4, <2>5, <2>6 DEF Rename, Positions, Rotating
  <1>10. CASE Reopen(p, t)
    <2>1. Step(p, t, "reopen", "idle")
      BY <1>10 DEF Reopen
    <2>2. /\ at[p][t] = "reopen" /\ at'[p][t] = "idle"
          /\ \A u \in Threads \ {t} : at[p][u] \notin Rotating
      BY <1>1, <2>1, StepFacts DEF Positions, Rotating
    <2>3. CASE OpenAppend(p) /\ w_curr' = [w_curr EXCEPT ![p] = 0]
      <3>1. w_curr'[p] = 0
        BY <1>1, <1>6, <2>3
      <3>2. dir[Current] = NoFile
        BY <1>6, <2>2 DEF InDir
      <3>3. fp'[p] = dir'[Current] /\ fp'[p] # NoFile /\ inode'[dir'[Current]] = NewFile(0)
        BY <1>1, <2>3, <3>2, OpenAppendFacts
      <3>4. inode'[fp'[p]].size = 0
        BY <3>3 DEF NewFile
      <3> QED
        BY <2>2, <3>1, <3>3, <3>4
    <2>4. CASE fp' = [fp EXCEPT ![p] = NoFile] /\ failed' = [failed EXCEPT ![p] = TRUE]
      <3>1. fp'[p] = NoFile /\ failed'[p]
        BY <1>1, <1>6, <2>4
      <3> QED
        BY <2>2, <3>1
    <2> QED
      BY <1>10, <2>3, <2>4 DEF Reopen
  <1> QED
    BY <1>1, <1>7, <1>8, <1>9, <1>10 DEF LogStep

LEMMA AppNextInv ==
  ASSUME PidInv, LogInv, AppInv, [Next]_vars
  PROVE  AppInv'
  <1>1. ASSUME NEW p \in Pids,
               InitStep(p) \/ NoLog(p) \/ RemovePidfile(p) \/ Crash(p), LogEnd(Ending)
        PROVE  AppInv'
    <2>1. \A q \in Pids : /\ overlap' = overlap
                          /\ pc'[q] # "off" => (pc'[q] \in Open <=> pc[q] \in Open)
                          /\ pc'[q] # "off" => (pc[q] = "run" => pc'[q] = "run")
                          /\ pc'[q] # "off" => (pc[q] \in Serving => pc'[q] \in Serving)
      BY <1>1, InitMoves DEF PidInv
    <2> QED
      BY <1>1, <2>1, EndKeepsApp
  <1>2. ASSUME NEW p \in Pids, MainStep(p)
        PROVE  AppInv'
    BY <1>1, <1>2, OpenLogKeepsApp, ForkKeepsApp DEF MainStep
  <1>3. CASE UNCHANGED vars
    <2>1. UNCHANGED <<pc, overlap, fp, at, dir, inode, w_curr, short, failed>>
      BY <1>3 DEF vars, pidVars, logVars, histories
    <2>2. NoUseAfterClose' = NoUseAfterClose /\ SizeKnown' = SizeKnown
      BY <2>1 DEF NoUseAfterClose, SizeKnown
    <2>3. InvOpen'
      BY <2>1, <2>2 DEF AppInv, InvOpen
    <2> QED
      BY <2>1, <2>3 DEF AppInv, UsersOpen, HasFile, InDir
  <1>4. ASSUME NEW p \in Pids,
               \/ (Begin(p) \/ BeginOther(p)) /\ UNCHANGED logVars
               \/ Return(p)
               \/ \E t \in Threads : Log(p, t)
        PROVE  AppInv'
    BY <1>4, BeginKeepsApp, ReturnKeepsApp, LogStepKeepsApp
  <1> QED
    BY <1>1, <1>2, <1>3, <1>4 DEF Next

(* Logger::logv() and rotate() (log.cpp), while commands do not overlap:   *)
(* no thread writes to a closed log unless a rename or an open of its own  *)
(* process has failed, and no Logger thinks its file smaller than it is,   *)
(* whether or not writes fail.  The mutex and the pid file together see to *)
(* it, for any number of threads and processes.                            *)
THEOREM OpenCorrect == Spec => []InvOpen
  <1>1. Init => PidInv /\ LogInv /\ AppInv
    BY PidInitInv, LogInitInv, AppInitInv DEF Init
  <1>2. PidInv /\ LogInv /\ AppInv /\ [Next]_vars => (PidInv /\ LogInv /\ AppInv)'
    BY PidNextInv, StepsOfPids, LogNextInv, AppNextInv
  <1>3. PidInv /\ LogInv /\ AppInv => InvOpen
    BY DEF AppInv
  <1> QED
    BY <1>1, <1>2, <1>3, PTL DEF Spec

=============================================================================
