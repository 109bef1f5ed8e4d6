------------------------------ MODULE PidFile ------------------------------
(***************************************************************************)
(* server-5204/util/app.cpp: Application::main() of the processes that     *)
(* start, stop and restart a server, and the pid file they share.  A       *)
(* process is its pid, which the kernel gives to another one once it has   *)
(* ended.  "other" stands for any other program: it may have the pid that  *)
(* a crashed server left in the file.                                      *)
(*                                                                         *)
(* run() belongs to the subclass: it returns after SIGTERM, or by itself.  *)
(* A configuration that cannot be loaded ends a process before it touches  *)
(* anything, and is left out.                                              *)
(***************************************************************************)
EXTENDS Naturals

CONSTANTS
  Pids,         \* the processes
  MaxCommands   \* bound: programs started

ASSUME PidAssumption ==
  /\ {"absent", "empty", "none"} \cap Pids = {}
  /\ MaxCommands \in Nat

VARIABLES
  pc,          \* where main() is, "off" when there is no such process
  cmd,         \* app_args.start_opt
  target,      \* what read_pid() returned
  pidfile,     \* the file: "absent", "empty", or the pid in it
  terminated,  \* has run() got SIGTERM
  commands,    \* the programs started
  overlap,     \* history: a command began while another was in init()
  crashed      \* history: a process died without removing its pid file

pidVars == <<pc, cmd, target, pidfile, terminated, commands, overlap, crashed>>

Commands == {"start", "stop", "restart"}

(* The part of main() from init() to write_pid(). *)
Starting == {"exists", "read", "probe", "stale", "signal", "wait",
             "check", "log", "daemon", "create", "write"}

(* run() and remove_pidfile(). *)
Serving == {"run", "remove"}

PidTypeOK ==
  /\ pc \in [Pids -> {"off", "other"} \cup Starting \cup Serving]
  /\ cmd \in [Pids -> Commands \cup {"none"}]
  /\ target \in [Pids -> Pids \cup {"none"}]
  /\ pidfile \in Pids \cup {"absent", "empty"}
  /\ terminated \in [Pids -> BOOLEAN]
  /\ commands \in 0..MaxCommands
  /\ overlap \in BOOLEAN
  /\ crashed \in BOOLEAN

PidInit ==
  /\ pc = [p \in Pids |-> "off"]
  /\ cmd = [p \in Pids |-> "none"]
  /\ target = [p \in Pids |-> "none"]
  /\ pidfile = "absent"
  /\ terminated = [p \in Pids |-> FALSE]
  /\ commands = 0
  /\ overlap = FALSE
  /\ crashed = FALSE

-----------------------------------------------------------------------------
(* main() goes on at another place, and the rest is as it was. *)
Goto(p, from, to) ==
  /\ pc[p] = from
  /\ pc' = [pc EXCEPT ![p] = to]
  /\ UNCHANGED <<cmd, terminated, commands, overlap, crashed>>

(* exit(): of the processes that end nothing is left. *)
Exit(ps) ==
  /\ pc' = [p \in Pids |-> IF p \in ps THEN "off" ELSE pc[p]]
  /\ cmd' = [p \in Pids |-> IF p \in ps THEN "none" ELSE cmd[p]]
  /\ target' = [p \in Pids |-> IF p \in ps THEN "none" ELSE target[p]]
  /\ terminated' = [p \in Pids |-> p \notin ps /\ terminated[p]]
  /\ UNCHANGED <<commands, overlap>>

ExitAt(p, from) == pc[p] = from /\ Exit({p}) /\ UNCHANGED crashed

FirstStep == [start |-> "check", stop |-> "read", restart |-> "exists"]

Launch(p) ==
  /\ pc[p] = "off"
  /\ commands < MaxCommands
  /\ commands' = commands + 1
  /\ UNCHANGED <<target, pidfile, terminated, crashed>>

Begin(p) ==
  /\ Launch(p)
  /\ \E c \in Commands :
       /\ cmd' = [cmd EXCEPT ![p] = c]
       /\ pc' = [pc EXCEPT ![p] = FirstStep[c]]
  /\ overlap' = (overlap \/ \E q \in Pids : pc[q] \in Starting)

BeginOther(p) ==
  /\ Launch(p)
  /\ pc' = [pc EXCEPT ![p] = "other"]
  /\ UNCHANGED <<cmd, overlap>>

(* restart looks for the file before it kills. *)
Exists(p) ==
  /\ Goto(p, "exists", IF pidfile = "absent" THEN "check" ELSE "read")
  /\ UNCHANGED <<target, pidfile>>

ReadPidUnchecked(p) ==
  /\ pidfile # "absent"
  /\ Goto(p, "read", "probe")
  /\ target' = [target EXCEPT ![p] = pidfile]
  /\ UNCHANGED pidfile

ReadPid(p) ==
  \/ /\ pidfile \in Pids
     /\ Goto(p, "read", "probe")
     /\ target' = [target EXCEPT ![p] = pidfile]
     /\ UNCHANGED pidfile
  \/ /\ pidfile \notin Pids
     /\ ExitAt(p, "read")
     /\ UNCHANGED pidfile

Gone(p) == pc[target[p]] = "off"

Probe(p) ==
  /\ Goto(p, "probe", IF Gone(p) THEN "stale" ELSE "signal")
  /\ UNCHANGED <<target, pidfile>>

(* After kill_process(), stop exits and restart goes on. *)
Killed(p, from) ==
  \/ /\ cmd[p] = "stop"
     /\ ExitAt(p, from)
  \/ /\ cmd[p] = "restart"
     /\ Goto(p, from, "check")
     /\ target' = [target EXCEPT ![p] = "none"]

RemoveStale(p) ==
  /\ Killed(p, "stale")
  /\ pidfile' = "absent"

(* SIGTERM: run() handles it, a process past it no longer minds, and any   *)
(* other dies of it, were it the sender.                                   *)
Signal(p) ==
  /\ pc[p] = "signal"
  /\ \/ /\ Gone(p)
        /\ ExitAt(p, "signal")
     \/ /\ pc[target[p]] \in Serving
        /\ pc' = [pc EXCEPT ![p] = "wait"]
        /\ terminated' = [terminated EXCEPT ![target[p]] = TRUE]
        /\ UNCHANGED <<cmd, target, commands, overlap, crashed>>
     \/ /\ target[p] = p
        /\ Exit({p})
        /\ crashed' = TRUE
     \/ /\ target[p] # p
        /\ pc[target[p]] \in Starting \cup {"other"}
        /\ pc' = [pc EXCEPT ![p] = "wait", ![target[p]] = "off"]
        /\ cmd' = [cmd EXCEPT ![target[p]] = "none"]
        /\ target' = [target EXCEPT ![target[p]] = "none"]
        /\ crashed' = TRUE
        /\ UNCHANGED <<terminated, commands, overlap>>
  /\ UNCHANGED pidfile

WaitGone(p) ==
  /\ pidfile = "absent"
  /\ Killed(p, "wait")
  /\ UNCHANGED pidfile

CheckNothing(p) == Goto(p, "check", "log") /\ UNCHANGED <<target, pidfile>>

CheckPidfile(p) ==
  /\ \/ pidfile = "absent" /\ Goto(p, "check", "log") /\ UNCHANGED target
     \/ pidfile # "absent" /\ ExitAt(p, "check")
  /\ UNCHANGED pidfile

(* log_open() and the test of work_dir: either may fail. *)
LogOpened(p) == Goto(p, "log", "daemon") /\ UNCHANGED <<target, pidfile>>
NoLog(p) == ExitAt(p, "log") /\ UNCHANGED pidfile

(* daemonize() is not asked for, or fork() fails, which init() does not    *)
(* look at.                                                                *)
NoDaemon(p) == Goto(p, "daemon", "create") /\ UNCHANGED <<target, pidfile>>

(* The child c goes on under its pid, unless setsid() or the like fails. *)
Daemonize(p, c) ==
  /\ pc[p] = "daemon"
  /\ pc[c] = "off"
  /\ \/ /\ pc' = [pc EXCEPT ![p] = "off", ![c] = "create"]
        /\ cmd' = [cmd EXCEPT ![p] = "none", ![c] = cmd[p]]
        /\ UNCHANGED <<target, terminated, commands, overlap, crashed>>
     \/ ExitAt(p, "daemon")
  /\ UNCHANGED pidfile

(* file_put_contents(): fopen("wb") leaves an empty file, or fails. *)
CreatePidfile(p) ==
  \/ /\ Goto(p, "create", "write")
     /\ pidfile' = "empty"
     /\ UNCHANGED target
  \/ /\ ExitAt(p, "create")
     /\ UNCHANGED pidfile

(* The pid gets there with fclose(), whose failure nobody notices; a file  *)
(* that was removed meanwhile stays so.                                    *)
WritePid(p) ==
  /\ Goto(p, "write", "run")
  /\ pidfile' \in {pidfile, IF pidfile = "absent" THEN "absent" ELSE p}
  /\ UNCHANGED target

RunReturns(p) == Goto(p, "run", "remove") /\ UNCHANGED <<target, pidfile>>

LeavePidfile(p) == ExitAt(p, "remove") /\ UNCHANGED pidfile

RemovePidfile(p) ==
  /\ ExitAt(p, "remove")
  /\ pidfile' = "absent"

(* kill -9, or a crash; or another program ends. *)
Crash(p) ==
  /\ pc[p] # "off"
  /\ Exit({p})
  /\ crashed' = (crashed \/ pc[p] # "other")
  /\ UNCHANGED pidfile

InitStep(p) ==
  \/ Exists(p) \/ ReadPid(p) \/ Probe(p) \/ RemoveStale(p) \/ Signal(p)
  \/ WaitGone(p) \/ CheckPidfile(p) \/ NoDaemon(p) \/ CreatePidfile(p)
  \/ WritePid(p)

-----------------------------------------------------------------------------
(* While commands are given one at a time, the pid file keeps one server   *)
(* at most: no two processes are past write_pid(), and the file holds the  *)
(* pid of the one that is, or nothing when writing it failed.  It rests on *)
(* check_pidfile() and on kill_process() waiting for the old server.       *)
InvOneServer ==
  ~overlap =>
    \A p \in Pids : pc[p] \in Serving =>
      /\ \A q \in Pids : pc[q] \in Serving => q = p
      /\ pidfile \in {p, "empty"}

(* A command that finds a server to kill does not wait for ever: the       *)
(* server removes the file, and the command goes on.  Of two commands at   *)
(* once, one may wait for the file of the other's new server, and a        *)
(* crashed server leaves its file behind (app.cpp:197).                    *)
Ends ==
  (\E p \in Pids : pc[p] \in Starting)
    ~> overlap \/ crashed \/ (\A p \in Pids : pc[p] \notin Starting)

=============================================================================
