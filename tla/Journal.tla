------------------------------ MODULE Journal ------------------------------
(***************************************************************************)
(* The journal: a data file to which records are appended and an index     *)
(* file with one entry per record.  jpjn_write and jpjn_read hold a lock   *)
(* on the data file, jpjn_init and jpjn_init_daily do not; a lock request  *)
(* that a signal interrupts fails, and nobody looks at its result.         *)
(***************************************************************************)
EXTENDS Integers, Sequences

CONSTANTS
  Writers, Readers, Initers, NoProc,
  Data,        (* what a record may consist of                             *)
  Lens,        (* lengths of records                                       *)
  MaxEntries,  (* bound: no write starts with this many entries            *)
  MaxDay,      (* bound on the calendar                                    *)
  YearLen,     (* days after which month and day repeat                    *)
  Crashes,     (* TRUE: a process may be killed between two system calls   *)
  DiskFull,    (* TRUE: writes may be short                                *)
  Interrupts   (* TRUE: lock requests may be interrupted                   *)

Procs == Writers \cup Readers \cup Initers
Zero == "zero"   \* what a hole in a file reads as

ASSUME JournalAssumption ==
  /\ NoProc \notin Procs /\ Zero \notin Data
  /\ Writers \cap Readers = {} /\ (Writers \cup Readers) \cap Initers = {}
  /\ Lens \subseteq Nat \ {0}
  /\ MaxEntries \in Nat /\ MaxDay \in Nat /\ YearLen \in Nat \ {0}
  /\ {Crashes, DiskFull, Interrupts} \subseteq BOOLEAN

VARIABLES
  dat,    (* the data file, byte by byte                                   *)
  idx,    (* the index file, struct jpjn_idx by struct jpjn_idx            *)
  torn,   (* TRUE: a part of an entry follows the last whole one           *)
  ctime,  (* the day the index file last changed                           *)
  today,
  lock,   (* the process with the lock on the data file                    *)
  pc, loc, (* where each process is, and its local variables               *)
  acked,  (* history: the records whose write returned since the last      *)
          (*   initialisation, with the day                                *)
  raced   (* history: an initialisation was cut off, or ran beside another *)
          (*   call                                                        *)

vars == <<dat, idx, torn, ctime, today, lock, pc, loc, acked, raced>>
history == <<acked, raced>>
files == <<dat, idx, torn, ctime>>

NoLoc == [seq |-> 0]
Entry == [ofs : Nat, len : Nat]
Hole == [ofs |-> 0, len |-> 0]

Init ==
  /\ dat = <<>> /\ idx = <<>> /\ torn = FALSE
  /\ ctime = 0 /\ today = 0
  /\ lock = NoProc
  /\ pc = [p \in Procs |-> "idle"]
  /\ loc = [p \in Procs |-> NoLoc]
  /\ acked = {} /\ raced = FALSE

At(p, where) == pc[p] = where
Goto(p, where) == pc' = [pc EXCEPT ![p] = where]

(* Leaving a call closes the files, and with the data file goes the lock.  *)
Leave(p) ==
  /\ Goto(p, "idle")
  /\ loc' = [loc EXCEPT ![p] = NoLoc]
  /\ lock' = IF lock = p THEN NoProc ELSE lock

(* File contents after values vals are written from position at (0 based). *)
Written(file, at, vals, hole) ==
  [i \in 1 .. (IF at + Len(vals) > Len(file) THEN at + Len(vals) ELSE Len(file)) |->
     IF i > at /\ i <= at + Len(vals) THEN vals[i - at]
     ELSE IF i <= Len(file) THEN file[i] ELSE hole]

Bytes(d, n) == [i \in 1 .. n |-> d]

----------------------------------------------------------------------------
(* Mutant: no lock is taken.                                               *)
StartUnlocked(p, l, next) ==
  /\ At(p, "idle")
  /\ loc' = [loc EXCEPT ![p] = l]
  /\ raced' = (raced \/ \E i \in Initers : At(i, "truncidx"))
  /\ Goto(p, next)
  /\ UNCHANGED <<files, today, acked, lock>>

(* jpjn_write and jpjn_read, up to the check of the index file's size.     *)
Start(p, l, next) ==
  /\ At(p, "idle")
  /\ loc' = [loc EXCEPT ![p] = l]
  /\ \/ lock = NoProc /\ lock' = p
     \/ Interrupts /\ UNCHANGED lock
  /\ raced' = (raced \/ \E i \in Initers : At(i, "truncidx"))
  /\ Goto(p, next)
  /\ UNCHANGED <<files, today, acked>>

StartWrite(w, d, n) ==
  /\ Len(idx) < MaxEntries
  /\ Start(w, [seq |-> 0, data |-> d, len |-> n, ofs |-> 0], "wstat")

StartRead(r, k) == Start(r, [seq |-> k, ofs |-> 0, len |-> 0], "rstat")

(* Mutant: the new record gets the number of the last one.                 *)
StatLast(p) ==
  /\ pc[p] \in {"wstat", "rstat"}
  /\ ~torn
  /\ Goto(p, IF At(p, "wstat") THEN "next" ELSE "entry")
  /\ loc' = IF At(p, "wstat") /\ idx # <<>> THEN [loc EXCEPT ![p].seq = Len(idx) - 1] ELSE loc
  /\ UNCHANGED <<files, today, history, lock>>

Stat(p) ==
  /\ pc[p] \in {"wstat", "rstat"}
  /\ IF torn THEN Leave(p)
     ELSE /\ Goto(p, IF At(p, "wstat") THEN "next" ELSE "entry")
          /\ loc' = IF At(p, "wstat") THEN [loc EXCEPT ![p].seq = Len(idx)] ELSE loc
          /\ UNCHANGED lock
  /\ UNCHANGED <<files, today, history>>

(* jpjn_next_idx: the new record goes behind the last one.                 *)
NextOfs(e) == e.ofs + e.len

(* Mutant: the record is appended to the data file as it is found.         *)
NextIdxAppends(w) ==
  /\ At(w, "next")
  /\ Goto(w, "data")
  /\ loc' = [loc EXCEPT ![w].ofs = Len(dat)]
  /\ UNCHANGED <<files, today, history, lock>>

(* Mutant: the record starts where the last one starts.                    *)
NextIdxOverlaps(w) ==
  /\ At(w, "next")
  /\ Goto(w, "data")
  /\ loc' = IF loc[w].seq = 0 THEN loc ELSE [loc EXCEPT ![w].ofs = idx[loc[w].seq].ofs]
  /\ loc[w].seq <= Len(idx)
  /\ UNCHANGED <<files, today, history, lock>>

NextIdx(w) ==
  /\ At(w, "next")
  /\ IF loc[w].seq = 0 THEN Goto(w, "data") /\ UNCHANGED <<loc, lock>>
     ELSE IF loc[w].seq > Len(idx) THEN Leave(w)     \* nothing to read
     ELSE /\ Goto(w, "data")
          /\ loc' = [loc EXCEPT ![w].ofs = NextOfs(idx[loc[w].seq])]
          /\ UNCHANGED lock
  /\ UNCHANGED <<files, today, history>>

WriteData(w) ==
  /\ At(w, "data")
  /\ \/ /\ dat' = Written(dat, loc[w].ofs, Bytes(loc[w].data, loc[w].len), Zero)
        /\ Goto(w, "index") /\ UNCHANGED <<loc, lock>>
     \/ /\ DiskFull
        /\ \E n \in 0 .. loc[w].len - 1 :
             dat' = Written(dat, loc[w].ofs, Bytes(loc[w].data, n), Zero)
        /\ Leave(w)
  /\ UNCHANGED <<idx, torn, ctime, today, history>>

(* The entry is written where the last one was read to, and the call       *)
(* returns its number.                                                     *)
WriteIndex(w) ==
  /\ At(w, "index")
  /\ LET l == loc[w] IN
       \/ /\ idx' = Written(idx, l.seq, <<[ofs |-> l.ofs, len |-> l.len]>>, Hole)
          /\ torn' = (torn /\ l.seq < Len(idx))
          /\ acked' = acked \cup {[seq |-> l.seq, data |-> l.data, len |-> l.len,
                                   day |-> today]}
       \/ /\ DiskFull /\ l.seq >= Len(idx)
          /\ torn' = TRUE
          /\ UNCHANGED <<idx, acked>>
  /\ ctime' = today
  /\ Leave(w)
  /\ UNCHANGED <<dat, today, raced>>

----------------------------------------------------------------------------
(* jpjn_read: the entry, then the data; 0 when there is no such entry.     *)
ReadEntry(r) ==
  /\ At(r, "entry")
  /\ IF loc[r].seq >= Len(idx) THEN Leave(r)
     ELSE /\ LET e == idx[loc[r].seq + 1] IN
             loc' = [loc EXCEPT ![r].ofs = e.ofs, ![r].len = e.len]
          /\ Goto(r, "bytes") /\ UNCHANGED lock
  /\ UNCHANGED <<files, today, history>>

(* What the caller gets; an error when the data file ends before.          *)
BytesRead(r) ==
  SubSeq(dat, loc[r].ofs + 1, NextOfs(loc[r]))

ReadData(r) ==
  /\ At(r, "bytes")
  /\ Leave(r)
  /\ UNCHANGED <<files, today, history>>

----------------------------------------------------------------------------
(* jpjn_init_daily, and jpjn_init with JP_CREAT: no lock, one file after   *)
(* the other.  Month and day of the index file's last change are compared  *)
(* with today's.                                                           *)
InitDaily(i) ==
  /\ At(i, "idle")
  /\ IF ctime % YearLen = today % YearLen
     THEN Goto(i, "inited") ELSE Goto(i, "truncdat")
  /\ UNCHANGED <<files, today, lock, loc, history>>

InitCreat(i) ==
  /\ At(i, "idle")
  /\ Goto(i, "truncdat")
  /\ UNCHANGED <<files, today, lock, loc, history>>

Beside(i) == \E p \in Procs \ {i} : ~At(p, "idle")

TruncDat(i) ==
  /\ At(i, "truncdat")
  /\ dat' = <<>>
  /\ acked' = {}
  /\ raced' = (raced \/ Beside(i))
  /\ Goto(i, "truncidx")
  /\ UNCHANGED <<idx, torn, ctime, today, lock, loc>>

TruncIdx(i) ==
  /\ At(i, "truncidx")
  /\ idx' = <<>> /\ torn' = FALSE
  /\ ctime' = today
  /\ acked' = {}
  /\ raced' = (raced \/ Beside(i))
  /\ Goto(i, "inited")
  /\ UNCHANGED <<dat, today, lock, loc>>

InitReturns(i) ==
  /\ At(i, "inited")
  /\ Goto(i, "idle")
  /\ UNCHANGED <<files, today, lock, loc, history>>

----------------------------------------------------------------------------
Midnight ==
  /\ today < MaxDay
  /\ today' = today + 1
  /\ UNCHANGED <<files, lock, pc, loc, history>>

(* The kernel closes the files of a killed process.                        *)
Crash(p) ==
  /\ Crashes
  /\ ~At(p, "idle")
  /\ Leave(p)
  /\ raced' = (raced \/ At(p, "truncidx"))
  /\ UNCHANGED <<files, today, acked>>

Next ==
  \/ \E w \in Writers : \/ \E d \in Data, n \in Lens : StartWrite(w, d, n)
                        \/ Stat(w) \/ NextIdx(w) \/ WriteData(w) \/ WriteIndex(w)
  \/ \E r \in Readers : \/ \E k \in 0 .. MaxEntries - 1 : StartRead(r, k)
                        \/ Stat(r) \/ ReadEntry(r) \/ ReadData(r)
  \/ \E i \in Initers : \/ InitDaily(i) \/ InitCreat(i)
                        \/ TruncDat(i) \/ TruncIdx(i) \/ InitReturns(i)
  \/ Midnight
  \/ \E p \in Procs : Crash(p)

Spec == Init /\ [][Next]_vars

----------------------------------------------------------------------------
(* Types; without interrupted lock requests a writer or reader inside its  *)
(* call has the lock.                                                      *)
TypeOK ==
  /\ dat \in Seq(Data \cup {Zero})
  /\ idx \in Seq(Entry)
  /\ torn \in BOOLEAN
  /\ ctime \in 0 .. MaxDay /\ today \in 0 .. MaxDay
  /\ lock \in Procs \cup {NoProc}
  /\ \A p \in Writers \cup Readers : Interrupts \/ (lock = p <=> ~At(p, "idle"))

(* Where no initialisation was cut off or ran beside other calls, the      *)
(* number a write returned is the number of an entry that holds what was   *)
(* written, and no later write reaches into its bytes ("the number of the  *)
(* index added": jpjn_write).                                              *)
AckedAreStored ==
  ~raced => \A a \in acked :
              /\ a.seq < Len(idx)
              /\ LET e == idx[a.seq + 1] IN
                   NextOfs(e) <= Len(dat) /\ SubSeq(dat, e.ofs + 1, NextOfs(e)) = Bytes(a.data, a.len)

(* The records lie one behind the other, in the order of their numbers,    *)
(* whoever was killed in between.                                          *)
RecordsContiguous ==
  ~raced => \A k \in 1 .. Len(idx) - 1 : idx[k + 1].ofs = NextOfs(idx[k])

(* No two records share a byte, even with the files cut off under a writer *)
(* by jpjn_init, which takes no lock.                                      *)
RecordsDisjoint ==
  \A j, k \in DOMAIN idx : j < k => NextOfs(idx[j]) <= idx[k].ofs \/ idx[j].len = 0

(* A reader gets a whole record of one writer, and finds its bytes.        *)
ReadsAreWhole ==
  [][\A r \in Readers :
       ReadData(r) /\ ~raced =>
         NextOfs(loc[r]) <= Len(dat)
         /\ \E a \in acked : a.seq = loc[r].seq /\ BytesRead(r) = Bytes(a.data, a.len)]_vars

(* After jpjn_init_daily the journal holds nothing of another day ("it is  *)
(* initialised when the day it was made differs").                         *)
(* Does not hold: README, "Where code and comments part".                  *)
DailyIsFresh ==
  [][\A i \in Initers : InitDaily(i) /\ pc'[i] = "inited" =>
       \A a \in acked : a.day = today]_vars

=============================================================================
