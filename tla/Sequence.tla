------------------------------ MODULE Sequence ------------------------------
(***************************************************************************)
(* The sequence file: one line with a name and a number.  jpsq_read polls  *)
(* for a lock, reads the line into an array that it does not clear, and    *)
(* writes the number plus one; jpsq_init writes without the lock.          *)
(***************************************************************************)
EXTENDS Integers, FiniteSets

CONSTANTS
  Readers, Initers, NoProc,
  InitVals,   (* what jpsq_init is asked to store                          *)
  Digits,     (* the digits the array may hold behind what was read, or    *)
  NoDigit,    (*   NoDigit where another character follows                 *)
  Half,       (* int holds -Half .. Half - 1                               *)
  MaxNum,     (* bound: no jpsq_read starts at this number                 *)
  Killable,   (* the processes that may be killed                          *)
  Absent,     (* no file yet                                               *)
  Empty,      (* created, and nothing written                              *)
  Junk        (* not a line of a sequence file                             *)

Procs == Readers \cup Initers

SequenceParameters ==
  /\ NoProc \notin Procs /\ Killable \subseteq Procs
  /\ Half \in Nat \ {0} /\ InitVals \subseteq -Half .. Half - 1
  /\ {Absent, Empty, Junk} \cap (-Half .. Half - 1) = {} /\ Absent # Empty
  /\ Digits \subseteq (0 .. 9) \cup {NoDigit} /\ Digits # {}
  /\ MaxNum \in Nat

ASSUME SequenceAssumption == SequenceParameters

CInt == -Half .. Half - 1

VARIABLES
  file,   (* Absent, Empty or the number in the file                       *)
  lock,   (* the process with the lock on the first byte                   *)
  pc,
  buf,    (* seq and sTemp of each process: the number or Junk             *)
  given   (* history: the numbers taken since the last jpsq_init           *)

vars == <<file, lock, pc, buf, given>>

Init ==
  /\ file \in InitVals \cup {Absent}
  /\ lock = NoProc
  /\ pc = [p \in Procs |-> "idle"]
  /\ buf = [p \in Procs |-> Junk]
  /\ given = {}

At(p, where) == pc[p] = where
Goto(p, where) == pc' = [pc EXCEPT ![p] = where]

(* Mutant: the lock stays with a process that leaves.                      *)
LeaveKeepsLock(p) ==
  /\ Goto(p, "idle")
  /\ UNCHANGED lock

(* The descriptor is closed, and with it goes the lock.                    *)
Leave(p) ==
  /\ Goto(p, "idle")
  /\ lock' = IF lock = p THEN NoProc ELSE lock

Wrap(n) == ((n + Half) % (2 * Half)) - Half

(* atol on the digits read and those that follow them by accident.         *)
Value(n, d) == Wrap(IF d = NoDigit THEN n ELSE IF n < 0 THEN 10 * n - d ELSE 10 * n + d)

----------------------------------------------------------------------------
StartRead(r) ==
  /\ At(r, "idle")
  /\ file # Absent
  /\ file # Empty => file < MaxNum
  /\ Goto(r, "lock")
  /\ UNCHANGED <<file, lock, buf, given>>

(* Mutant: the result of the lock request is ignored.                      *)
GetLockAnyway(r) ==
  /\ At(r, "lock")
  /\ lock' = r
  /\ Goto(r, "read")
  /\ UNCHANGED <<file, buf, given>>

GetLock(r) ==
  /\ At(r, "lock")
  /\ lock = NoProc
  /\ lock' = r
  /\ Goto(r, "read")
  /\ UNCHANGED <<file, buf, given>>

(* JP_NOWAIT; without it the process sleeps and asks again.                *)
LockRefused(r) ==
  /\ At(r, "lock")
  /\ lock # NoProc
  /\ Leave(r)
  /\ UNCHANGED <<file, buf, given>>

(* An empty file leaves the array as it was: junk, or the last line.       *)
Read(r) ==
  /\ At(r, "read")
  /\ \E d \in Digits :
       buf' = [buf EXCEPT ![r] = IF file = Empty THEN @ ELSE Value(file, d)]
  /\ Goto(r, "write")
  /\ UNCHANGED <<file, lock, given>>

BadName(r) ==
  /\ At(r, "read")
  /\ file = Empty
  /\ Leave(r)
  /\ UNCHANGED <<file, buf, given>>

(* The read or the write fails.                                            *)
Fails(r) ==
  /\ pc[r] \in {"read", "write"}
  /\ Leave(r)
  /\ UNCHANGED <<file, buf, given>>

Write(r) ==
  /\ At(r, "write")
  /\ buf[r] # Junk
  /\ file' = Wrap(buf[r] + 1)
  /\ given' = given \cup {buf[r]}
  /\ Goto(r, "close")
  /\ UNCHANGED <<lock, buf>>

Return(r) ==
  /\ At(r, "close")
  /\ Leave(r)
  /\ UNCHANGED <<file, buf, given>>

----------------------------------------------------------------------------
(* jpsq_init; without JP_CREAT it wants a file with a line in it.          *)
InitOpen(i) ==
  /\ At(i, "idle")
  /\ file' = IF file = Absent THEN Empty ELSE file
  /\ Goto(i, "store")
  /\ UNCHANGED <<lock, buf, given>>

InitStore(i) ==
  /\ At(i, "store")
  /\ \E v \in InitVals : file' = v
  /\ given' = {}
  /\ Goto(i, "idle")
  /\ UNCHANGED <<lock, buf>>

Crash(p) ==
  /\ p \in Killable
  /\ ~At(p, "idle")
  /\ Leave(p)
  /\ UNCHANGED <<file, buf, given>>

ReadStep(r) ==
  GetLock(r) \/ Read(r) \/ BadName(r) \/ Fails(r) \/ Write(r) \/ Return(r)

Next ==
  \/ \E r \in Readers : StartRead(r) \/ LockRefused(r) \/ ReadStep(r)
  \/ \E i \in Initers : InitOpen(i) \/ InitStore(i)
  \/ \E p \in Procs : Crash(p)

Spec == Init /\ [][Next]_vars

(* A process in a call keeps running; nothing makes it call.               *)
Fairness == \A r \in Readers : WF_vars(ReadStep(r))
FairSpec == Spec /\ Fairness

----------------------------------------------------------------------------
TypeOK ==
  /\ file \in CInt \cup {Absent, Empty}
  /\ lock \in Readers \cup {NoProc}
  /\ \A r \in Readers : lock = r <=> pc[r] \in {"read", "write", "close"}
  /\ \A p \in Procs : pc[p] \in {"idle", "lock", "read", "write", "close", "store"}
  /\ \A p \in Procs : buf[p] \in CInt \cup {Junk}
  /\ given \subseteq CInt

(* No number is taken twice between two initialisations, even by processes *)
(* that read at the same time, one of them killed, or one overtaken by a   *)
(* jpsq_init.                                                              *)
TakenOnce == [][\A r \in Readers : Write(r) => buf[r] \notin given]_vars

(* Whoever leaves, however it leaves, gives the lock back: a poller is not *)
(* kept out by a process that is gone ("unlocking is done by close()").    *)
LockComesFree ==
  \A r \in Readers : At(r, "lock") ~> lock = NoProc \/ ~At(r, "lock")

(* A jpsq_read adds one to the number in the file ("reads the sequence     *)
(* file and increases the value by 1", where no jpsq_init runs).            *)
(* Does not hold: README, "Where code and comments part".                  *)
AddsOne == [][\A r \in Readers : Write(r) => file' = file + 1]_vars
=============================================================================
