------------------------------ MODULE LogFile ------------------------------
(***************************************************************************)
(* server-5204/util/log.cpp: the log of some processes.  Each has a Logger *)
(* that its Threads share; all have one file name.  logv() writes with the *)
(* mutex held and rotates a file that has grown past rotate_size_: close,  *)
(* rename to a name made of the time in seconds, open again.               *)
(*                                                                         *)
(* Messages are numbered.  A file is the set of its messages with its      *)
(* size, and has an inode number; the directory maps names to those.       *)
(***************************************************************************)
EXTENDS Naturals, Sequences

CONSTANTS
  Loggers,       \* the processes
  Threads,       \* the threads of a process that log
  RotateSize,    \* rotate_size_, 0 for none
  Lengths,       \* lengths of a message
  OldSize,       \* the size of the log that is there from earlier runs
  MaxMessages,   \* bound: messages
  MaxTime,       \* bound: seconds
  LogIoFails     \* may writes fail, and rename() and fopen() in rotate()

ASSUME LogAssumption ==
  /\ RotateSize \in Nat /\ Lengths \subseteq Nat /\ OldSize \in Nat
  /\ MaxMessages \in Nat /\ MaxTime \in Nat \ {0}
  /\ LogIoFails \in BOOLEAN

VARIABLES
  inode,     \* the files' contents, of those without a name too
  dir,       \* the directory: 0 is the log's name, a second a rotated one's
  clock,     \* the time of the last rotation, in seconds
  count,     \* messages written
  unwritten, \* messages of which a part was written, or nothing
  fp,        \* fp of a process; NoFile when not open, closed, or NULL
  w_curr,    \* stats.w_curr
  newpath,   \* rotate()'s new name
  at,        \* where a thread of a process is in logv()
  clash,     \* history: a rotation replaced a rotated file
  short,     \* history: short[p]: a write to the file p has open failed
  failed     \* history: failed[p]: a rename() or fopen() of p's rotate()
             \* failed for another reason than a missing file

histories == <<clash, short, failed>>
logVars == <<inode, dir, clock, count, unwritten, fp, w_curr, newpath, at, histories>>

Current == 0                 \* the name of the log
Seconds == 1..MaxTime
Names == {Current} \cup Seconds
NoFile == 0
Inodes == 1..Len(inode)

File == [messages : SUBSET (1..MaxMessages), size : Nat]
NewFile(size) == [messages |-> {}, size |-> size]

Positions == {"idle", "rotate", "rename", "reopen", "broken"}

LogTypeOK ==
  /\ inode \in Seq(File)
  /\ dir \in [Names -> {NoFile} \cup Inodes]
  /\ clock \in Seconds
  /\ count \in 0..MaxMessages
  /\ unwritten \in 0..MaxMessages
  /\ fp \in [Loggers -> {NoFile} \cup Inodes]
  /\ w_curr \in [Loggers -> Nat]
  /\ newpath \in [Loggers -> Names]
  /\ at \in [Loggers -> [Threads -> Positions]]
  /\ clash \in BOOLEAN
  /\ short \in [Loggers -> BOOLEAN]
  /\ failed \in [Loggers -> BOOLEAN]

LogInit ==
  /\ inode = <<NewFile(OldSize)>>
  /\ dir = [n \in Names |-> IF n = Current THEN 1 ELSE NoFile]
  /\ clock = 1
  /\ count = 0
  /\ unwritten = 0
  /\ fp = [p \in Loggers |-> NoFile]
  /\ w_curr = [p \in Loggers |-> 0]
  /\ newpath = [p \in Loggers |-> Current]
  /\ at = [p \in Loggers |-> [t \in Threads |-> "idle"]]
  /\ clash = FALSE
  /\ short = [p \in Loggers |-> FALSE]
  /\ failed = [p \in Loggers |-> FALSE]

Step(p, t, from, to) ==
  /\ at[p][t] = from
  /\ at' = [at EXCEPT ![p][t] = to]

OpenTruncate(p) ==
  /\ dir[Current] # NoFile
  /\ inode' = [inode EXCEPT ![dir[Current]] = NewFile(0)]
  /\ fp' = [fp EXCEPT ![p] = dir[Current]]
  /\ UNCHANGED dir

(* fopen(filename, "a") opens the file of that name, or makes one. *)
OpenAppend(p) ==
  IF dir[Current] # NoFile
  THEN /\ fp' = [fp EXCEPT ![p] = dir[Current]]
       /\ UNCHANGED <<inode, dir>>
  ELSE /\ inode' = Append(inode, NewFile(0))
       /\ dir' = [dir EXCEPT ![Current] = Len(inode) + 1]
       /\ fp' = [fp EXCEPT ![p] = Len(inode) + 1]

-----------------------------------------------------------------------------
(* Logger::open() takes over what the file holds. *)
SizeAtOpen == IF dir[Current] = NoFile THEN 0 ELSE inode[dir[Current]].size

LogOpen(p) ==
  /\ OpenAppend(p)
  /\ w_curr' = [w_curr EXCEPT ![p] = SizeAtOpen]
  /\ short' = [short EXCEPT ![p] = FALSE]
  /\ UNCHANGED <<clock, count, unwritten, newpath, at, clash, failed>>

MustRotate(size) == RotateSize > 0 /\ size > RotateSize

NoMutex(p) == TRUE

MutexFree(p) == \A t \in Threads : at[p][t] \in {"idle", "broken"}

(* fwrite() and fflush() write a message, *)
WriteAll(p, len) ==
  /\ count' = count + 1
  /\ inode' = [inode EXCEPT ![fp[p]] =
                 [messages |-> @.messages \cup {count + 1}, size |-> @.size + len]]
  /\ UNCHANGED <<unwritten, short>>

(* or, when the disk is full, a part of it at most.                        *)
WritePart(p, len) ==
  /\ LogIoFails
  /\ unwritten' = unwritten + 1
  /\ \E part \in 0..len - 1 : inode' = [inode EXCEPT ![fp[p]].size = @ + part]
  /\ short' = [short EXCEPT ![p] = TRUE]
  /\ UNCHANGED count

(* logv() takes the mutex and keeps it to the end of rotate().  It does    *)
(* not look at what fwrite() and fflush() return, and counts the message   *)
(* all the same.  On a closed file they may do anything, and the model     *)
(* follows that process's log no further.                                  *)
Write(p, t) ==
  /\ MutexFree(p)
  /\ count + unwritten < MaxMessages
  /\ \/ /\ fp[p] # NoFile
        /\ \E len \in Lengths :
             /\ WriteAll(p, len) \/ WritePart(p, len)
             /\ w_curr' = [w_curr EXCEPT ![p] = @ + len]
        /\ Step(p, t, "idle", IF MustRotate(w_curr'[p]) THEN "rotate" ELSE "idle")
     \/ /\ fp[p] = NoFile
        /\ Step(p, t, "idle", "broken")
        /\ UNCHANGED <<count, unwritten, inode, w_curr, short>>
  /\ UNCHANGED <<dir, clock, fp, newpath, clash, failed>>

(* fclose(), and the new name from gettimeofday(), whenever it is by now. *)
Rotate(p, t) ==
  /\ Step(p, t, "rotate", "rename")
  /\ fp' = [fp EXCEPT ![p] = NoFile]
  /\ clock' \in clock..MaxTime
  /\ newpath' = [newpath EXCEPT ![p] = clock']
  /\ UNCHANGED <<inode, dir, count, unwritten, w_curr, histories>>

Rename(p, t) ==
  \/ /\ dir[Current] # NoFile
     /\ Step(p, t, "rename", "reopen")
     /\ dir' = [dir EXCEPT ![newpath[p]] = dir[Current], ![Current] = NoFile]
     /\ newpath' = [newpath EXCEPT ![p] = Current]
     /\ clash' = (clash \/ dir[newpath[p]] # NoFile)
     /\ UNCHANGED <<inode, clock, count, unwritten, fp, w_curr, short, failed>>
  \/ /\ dir[Current] = NoFile \/ LogIoFails
     /\ Step(p, t, "rename", "idle")
     /\ newpath' = [newpath EXCEPT ![p] = Current]
     /\ failed' = [failed EXCEPT ![p] = @ \/ dir[Current] # NoFile]
     /\ UNCHANGED <<inode, dir, clock, count, unwritten, fp, w_curr, clash, short>>

Reopen(p, t) ==
  \/ /\ Step(p, t, "reopen", "idle")
     /\ OpenAppend(p)
     /\ w_curr' = [w_curr EXCEPT ![p] = 0]
     /\ short' = [short EXCEPT ![p] = FALSE]
     /\ UNCHANGED <<clock, count, unwritten, newpath, clash, failed>>
  \/ /\ LogIoFails
     /\ Step(p, t, "reopen", "idle")
     /\ fp' = [fp EXCEPT ![p] = NoFile]
     /\ failed' = [failed EXCEPT ![p] = TRUE]
     /\ UNCHANGED <<inode, dir, clock, count, unwritten, w_curr, newpath, clash, short>>

LogStep(p, t) ==
  Write(p, t) \/ Rotate(p, t) \/ Rename(p, t) \/ Reopen(p, t)

(* fork(): the child c has the Logger of p, which ends. *)
LogFork(p, c) ==
  /\ fp' = [fp EXCEPT ![p] = NoFile, ![c] = fp[p]]
  /\ w_curr' = [w_curr EXCEPT ![p] = 0, ![c] = w_curr[p]]
  /\ short' = [short EXCEPT ![p] = FALSE, ![c] = short[p]]
  /\ UNCHANGED <<inode, dir, clock, count, unwritten, newpath, at, clash, failed>>

(* The processes ps end, wherever their threads are. *)
LogEnd(ps) ==
  /\ fp' = [p \in Loggers |-> IF p \in ps THEN NoFile ELSE fp[p]]
  /\ w_curr' = [p \in Loggers |-> IF p \in ps THEN 0 ELSE w_curr[p]]
  /\ newpath' = [p \in Loggers |-> IF p \in ps THEN Current ELSE newpath[p]]
  /\ at' = [p \in Loggers |-> IF p \in ps THEN [t \in Threads |-> "idle"] ELSE at[p]]
  /\ short' = [p \in Loggers |-> p \notin ps /\ short[p]]
  /\ failed' = [p \in Loggers |-> p \notin ps /\ failed[p]]
  /\ UNCHANGED <<inode, dir, clock, count, unwritten, clash>>

-----------------------------------------------------------------------------
Linked == {dir[n] : n \in Names} \ {NoFile}

(* No message is lost once it is written: it is in a file that has a      *)
(* name, the log's or a rotated one's, through rotations, crashes in the   *)
(* middle of one, and restarts.  Two rotations in one second are the       *)
(* exception, as the second replaces the file of the first (log.cpp:178).  *)
InvLog == ~clash => \A m \in 1..count : \E i \in Linked : m \in inode[i].messages

(* Nobody writes to a file that rotate() has closed, unless it has failed  *)
(* to open another in this very process (log.cpp:179).                     *)
NoUseAfterClose ==
  \A p \in Loggers : \A t \in Threads : at[p][t] = "broken" => failed[p]

(* A Logger never thinks its file smaller than it is, so that it does not  *)
(* outgrow rotate_size_; and it has the size right until a write fails.    *)
SizeKnown ==
  \A p \in Loggers : fp[p] # NoFile =>
    /\ inode[fp[p]].size <= w_curr[p]
    /\ ~short[p] => w_curr[p] = inode[fp[p]].size

=============================================================================
