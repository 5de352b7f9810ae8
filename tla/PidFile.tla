------------------------------ MODULE PidFile ------------------------------
(***************************************************************************)
(* How jpcomd sees to it that it runs once: "start" looks for a pid file   *)
(* that another process has locked, then writes and locks its own; "stop"  *)
(* sends SIGTERM to the pid it reads there.  A lock belongs to a file, not *)
(* to its name, and ends with its process.                                 *)
(***************************************************************************)
EXTENDS Integers, FiniteSets

CONSTANTS
  Starters,    (* processes "jpcomd start"; each stands for its own pid    *)
  Stale,       (* the pid of a jpcomd that is long gone                    *)
  None,        (* no pid, no process, no file                              *)
  MaxFiles,    (* bound on the files made under the name                   *)
  Killable,    (* the processes that may be killed or fail to initialise   *)
  MaxStops,    (* bound on "jpcomd stop"                                   *)
  DiskFull     (* TRUE: the pid may not fit on the disk                    *)

ASSUME PidFileAssumption ==
  /\ None \notin Starters /\ Stale \notin Starters \cup {None}
  /\ Killable \subseteq Starters
  /\ MaxFiles \in Nat \ {0} /\ MaxStops \in Nat /\ DiskFull \in BOOLEAN

Files == 1 .. MaxFiles
NoFile == 0

VARIABLES
  path,     (* the file that has the name g_pidpath, or NoFile             *)
  made,     (* files made so far                                           *)
  content,  (* per file: the pid in it, None while it is empty             *)
  lock,     (* per file: the process with the lock on it                   *)
  pc,       (* per starter                                                 *)
  fd,       (* per starter: the file it writes its pid to                  *)
  termed,   (* starters with a SIGTERM pending                             *)
  target,   (* what "stop" read: the set is empty or has one pid           *)
  stops,    (* history: stops begun                                        *)
  mishaps   (* history: "kill", "disk": what went wrong so far             *)

vars == <<path, made, content, lock, pc, fd, termed, target, stops, mishaps>>
stopper == <<target, stops, mishaps>>

Init ==
  /\ \/ path = NoFile /\ made = 0 /\ content = [f \in Files |-> None]
     \/ path = 1 /\ made = 1 /\ content = [f \in Files |-> IF f = 1 THEN Stale ELSE None]
  /\ lock = [f \in Files |-> None]
  /\ pc = [s \in Starters |-> "idle"]
  /\ fd = [s \in Starters |-> NoFile]
  /\ termed = {} /\ target = {} /\ stops = 0 /\ mishaps = {}

At(s, where) == pc[s] = where
Goto(s, where) == pc' = [pc EXCEPT ![s] = where]
Unlocked(s) == [f \in Files |-> IF lock[f] = s THEN None ELSE lock[f]]

Out(s) == Goto(s, "out") /\ lock' = Unlocked(s)
Free(s, f) == lock[f] \in {None, s}

----------------------------------------------------------------------------
(* "If the pid file exists ...                                             *)
ReadPID(s) ==
  /\ At(s, "idle")
  /\ Goto(s, IF path = NoFile THEN "init" ELSE "try")
  /\ UNCHANGED <<path, made, content, lock, fd, termed, stopper>>

(* Mutant: a pid file is enough to give up.                                *)
TryLockNot(s) ==
  /\ At(s, "try")
  /\ Out(s)
  /\ UNCHANGED <<path, made, content, fd, termed, stopper>>

(* ... and cannot be locked, a jpcomd is running already."                 *)
TryLock(s) ==
  /\ At(s, "try")
  /\ IF path # NoFile /\ Free(s, path)
     THEN lock' = [lock EXCEPT ![path] = s] /\ Goto(s, "untry")
     ELSE Out(s)
  /\ UNCHANGED <<path, made, content, fd, termed, stopper>>

unLockFile(s) ==
  /\ At(s, "untry")
  /\ lock' = [f \in Files |-> IF f = path /\ lock[f] = s THEN None ELSE lock[f]]
  /\ Goto(s, "init")
  /\ UNCHANGED <<path, made, content, fd, termed, stopper>>

(* InitProc; toBackground, in a child that inherits no lock.               *)
ToBackground(s) ==
  /\ At(s, "init")
  /\ lock' = Unlocked(s)
  /\ Goto(s, "creat")
  /\ UNCHANGED <<path, made, content, fd, termed, stopper>>

(* SavePID: the file is made or emptied, then written.                     *)
Creat(s) ==
  /\ At(s, "creat")
  /\ path = NoFile => made < MaxFiles
  /\ LET f == IF path = NoFile THEN made + 1 ELSE path IN
       /\ path' = f
       /\ made' = IF path = NoFile THEN made + 1 ELSE made
       /\ content' = [content EXCEPT ![f] = None]
       /\ fd' = [fd EXCEPT ![s] = f]
  /\ Goto(s, "write")
  /\ UNCHANGED <<lock, termed, stopper>>

WritePid(s) ==
  /\ At(s, "write")
  /\ \/ /\ content' = [content EXCEPT ![fd[s]] = s]
        /\ Goto(s, "lock")
        /\ UNCHANGED <<path, lock, mishaps>>
     \/ /\ DiskFull
        /\ path' = NoFile
        /\ Out(s)
        /\ mishaps' = mishaps \cup {"disk"}
        /\ UNCHANGED content
  /\ UNCHANGED <<made, fd, termed, target, stops>>

(* Mutant: the refusal of the lock is ignored.                             *)
LockFileAnyway(s) ==
  /\ At(s, "lock")
  /\ IF path # NoFile THEN lock' = [lock EXCEPT ![path] = s] ELSE UNCHANGED lock
  /\ Goto(s, "unblocked")
  /\ UNCHANGED <<path, made, content, fd, termed, stopper>>

LockFile(s) ==
  /\ At(s, "lock")
  /\ IF path # NoFile /\ Free(s, path)
     THEN lock' = [lock EXCEPT ![path] = s] /\ Goto(s, "unblocked")
     ELSE Out(s)
  /\ UNCHANGED <<path, made, content, fd, termed, stopper>>

BlockSignal(s) ==
  /\ At(s, "unblocked")
  /\ Goto(s, "main")
  /\ UNCHANGED <<path, made, content, lock, fd, termed, stopper>>

(* After ProcMain.                                                         *)
DelePID(s) ==
  /\ At(s, "main") /\ s \in termed
  /\ path' = NoFile
  /\ Goto(s, "leave")
  /\ UNCHANGED <<made, content, lock, fd, termed, stopper>>

Exit(s) ==
  /\ At(s, "leave")
  /\ Out(s)
  /\ UNCHANGED <<path, made, content, fd, termed, stopper>>

Kill(s) ==
  /\ s \in Killable /\ pc[s] \notin {"idle", "out"}
  /\ Out(s)
  /\ mishaps' = mishaps \cup {"kill"}
  /\ UNCHANGED <<path, made, content, fd, termed, target, stops>>

----------------------------------------------------------------------------
(* "jpcomd stop": read, then kill.                                         *)
StopRead ==
  /\ stops < MaxStops /\ target = {}
  /\ path # NoFile
  /\ stops' = stops + 1
  /\ target' = {content[path]}
  /\ UNCHANGED <<path, made, content, lock, pc, fd, termed, mishaps>>

(* A SIGTERM ends a process that does not block it yet.                    *)
StopKill ==
  /\ target # {}
  /\ target' = {}
  /\ LET hit == {s \in target \cap Starters : pc[s] \notin {"idle", "out"}} IN
       /\ termed' = termed \cup {s \in hit : pc[s] \in {"main", "leave"}}
       /\ pc' = [s \in Starters |->
                   IF s \in hit \ termed' THEN "out" ELSE pc[s]]
       /\ lock' = [f \in Files |-> IF lock[f] \in hit \ termed' THEN None ELSE lock[f]]
  /\ UNCHANGED <<path, made, content, fd, stops, mishaps>>

Next ==
  \/ \E s \in Starters :
       \/ ReadPID(s) \/ TryLock(s) \/ unLockFile(s) \/ ToBackground(s)
       \/ Creat(s) \/ WritePid(s) \/ LockFile(s) \/ BlockSignal(s)
       \/ DelePID(s) \/ Exit(s) \/ Kill(s)
  \/ StopRead \/ StopKill

Spec == Init /\ [][Next]_vars

----------------------------------------------------------------------------
Steps == {"idle", "try", "untry", "init", "creat", "write", "lock", "unblocked",
          "main", "leave", "out"}

TypeOK ==
  /\ path \in {NoFile} \cup 1 .. made /\ made \in 0 .. MaxFiles
  /\ pc \in [Starters -> Steps]
  /\ \A f \in Files : content[f] # None \/ lock[f] # None => f <= made
  /\ \A f \in Files : lock[f] # None => pc[lock[f]] \notin {"idle", "out"}
  /\ termed \subseteq Starters /\ Cardinality(target) <= 1
  /\ mishaps \subseteq {"kill", "disk"}

(* However starts, stops and kills are interleaved, and whatever pid file  *)
(* is left over, one jpcomd runs at a time ("to prevent it from running    *)
(* twice": main), unless a pid could not be written: SavePID then removes  *)
(* the file, whoever has it locked.                                        *)
RunsOnce ==
  "disk" \notin mishaps => Cardinality({s \in Starters : At(s, "main")}) <= 1

(* Processes that are started together do not all give way to each other,  *)
(* and a pid file left over keeps nobody from starting.                    *)
SomeoneRuns ==
  /\ \A s \in Starters : pc[s] \in {"idle", "main", "out"}
  /\ \E s \in Starters : At(s, "out")
  /\ mishaps = {} /\ stops = 0
  => \E s \in Starters : At(s, "main")

(* While a jpcomd runs the pid file names it: "stop" sends SIGTERM to the  *)
(* process that is running.                                                *)
(* Does not hold: README, "Where code and comments part".                  *)
PidFileNamesIt ==
  \A s \in Starters : At(s, "main") => path # NoFile /\ content[path] = s
=============================================================================
