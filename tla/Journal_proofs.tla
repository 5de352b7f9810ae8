--------------------------- MODULE Journal_proofs ---------------------------
(***************************************************************************)
(* For any number of processes and any records: what jpjn_write returned   *)
(* the number of is in the journal, the records lie one behind the other,  *)
(* and jpjn_read gets whole records, unless an initialisation ran beside   *)
(* another call or a lock request was interrupted; and no two records      *)
(* share a byte, initialisations or not.  At the end the sequence files,   *)
(* whose numbers are taken once.                                           *)
(***************************************************************************)
EXTENDS Journal, SequenceTheorems, TLAPS

Users == Writers \cup Readers
End == IF idx = <<>> THEN 0 ELSE NextOfs(idx[Len(idx)])
Holds(ofs, len, d) == ofs + len <= Len(dat) /\ \A b \in ofs + 1 .. ofs + len : dat[b] = d
NoneTruncates == \A i \in Initers : ~At(i, "truncidx")

Shape ==
  /\ dat \in Seq(Data \cup {Zero}) /\ idx \in Seq(Entry)
  /\ DOMAIN pc = Procs /\ DOMAIN loc = Procs
  /\ \A w \in Writers : pc[w] \in {"idle", "wstat", "next", "data", "index"}
  /\ \A r \in Readers : pc[r] \in {"idle", "rstat", "entry", "bytes"}
  /\ \A i \in Initers : pc[i] \in {"idle", "inited", "truncdat", "truncidx"}

Locked ==
  /\ lock \in Users \cup {NoProc}
  /\ \A p \in Users : lock = p <=> ~At(p, "idle")

(* Between the two files an initialisation is alone.                       *)
InitsAlone ==
  \A i \in Initers : At(i, "truncidx") =>
    /\ acked = {}
    /\ \A p \in Users : At(p, "idle")
    /\ \A j \in Initers \ {i} : ~At(j, "truncidx")

InLine ==
  /\ \A k \in 1 .. Len(idx) - 1 : idx[k + 1].ofs = NextOfs(idx[k])
  /\ \A k \in 1 .. Len(idx) : NextOfs(idx[k]) <= End

Kept ==
  \A a \in acked :
    /\ a.seq \in Nat /\ a.len \in Nat /\ a.seq < Len(idx)
    /\ idx[a.seq + 1].len = a.len
    /\ Holds(idx[a.seq + 1].ofs, a.len, a.data)

AllAcked == NoneTruncates => \A k \in 1 .. Len(idx) : \E a \in acked : a.seq = k - 1

(* A writer that has read the size writes behind the last record.          *)
WriterReady(w) ==
  ~At(w, "idle") =>
    /\ loc[w] \in [seq : Nat, data : Data, len : Lens, ofs : Nat]
    /\ pc[w] \in {"wstat", "next"} => loc[w].ofs = 0
    /\ pc[w] \in {"next", "data", "index"} => loc[w].seq = Len(idx)
    /\ pc[w] \in {"data", "index"} => loc[w].ofs = End
    /\ At(w, "index") => Holds(loc[w].ofs, loc[w].len, loc[w].data)

ReaderReady(r) ==
  ~At(r, "idle") =>
    /\ loc[r] \in [seq : Nat, ofs : Nat, len : Nat]
    /\ At(r, "bytes") => /\ loc[r].seq < Len(idx)
                         /\ loc[r].ofs = idx[loc[r].seq + 1].ofs
                         /\ loc[r].len = idx[loc[r].seq + 1].len

Ready ==
  /\ \A w \in Writers : WriterReady(w)
  /\ \A r \in Readers : ReaderReady(r)

Good == Shape /\ Locked /\ InitsAlone /\ InLine /\ Kept /\ AllAcked /\ Ready

IInv == ~raced => Good

LEMMA InitInv == Init => IInv
<1>. SUFFICES ASSUME Init PROVE Good
  BY DEF IInv
<1>1. /\ dat = <<>> /\ idx = <<>> /\ Len(idx) = 0 /\ acked = {} /\ lock = NoProc
      /\ DOMAIN pc = Procs /\ DOMAIN loc = Procs
      /\ \A p \in Procs : pc[p] = "idle"
  BY DEF Init
<1>2. Shape
  BY <1>1 DEF Shape, Procs
<1>3. Locked
  BY <1>1, JournalAssumption DEF Locked, At, Users, Procs
<1>4. InitsAlone /\ Kept
  BY <1>1 DEF InitsAlone, Kept, At, Procs
<1>5. InLine /\ AllAcked
  BY <1>1 DEF InLine, AllAcked
<1>6. Ready
  BY <1>1 DEF Ready, WriterReady, ReaderReady, At, Procs
<1>. QED
  BY <1>2, <1>3, <1>4, <1>5, <1>6 DEF Good

(* pwrite: what was there stays, but for the places written.               *)
WrittenAs(new, file, at, vals) ==
  /\ Len(new) = IF at + Len(vals) > Len(file) THEN at + Len(vals) ELSE Len(file)
  /\ \A i \in 1 .. Len(file) : i <= at => new[i] = file[i]
  /\ \A i \in at + 1 .. at + Len(vals) : new[i] = vals[i - at]

LEMMA WrittenPlaces ==
  ASSUME NEW S, NEW file \in Seq(S), NEW at \in Nat, NEW vals \in Seq(S), NEW hole \in S
  PROVE  /\ Written(file, at, vals, hole) \in Seq(S)
         /\ WrittenAs(Written(file, at, vals, hole), file, at, vals)
<1>. DEFINE n == IF at + Len(vals) > Len(file) THEN at + Len(vals) ELSE Len(file)
<1>. DEFINE f == Written(file, at, vals, hole)
<1>1. /\ Len(vals) \in Nat /\ Len(file) \in Nat /\ n \in Nat
      /\ at + Len(vals) <= n /\ Len(file) <= n
  BY LenProperties
<1>2. f = [i \in 1 .. n |-> IF i > at /\ i <= at + Len(vals) THEN vals[i - at]
                            ELSE IF i <= Len(file) THEN file[i] ELSE hole]
  BY DEF Written
<1>. HIDE DEF n, f
<1>3. ASSUME NEW i \in 1 .. n PROVE f[i] \in S
  <2>1. CASE i > at /\ i <= at + Len(vals)
    <3>1. i - at \in 1 .. Len(vals)
      BY <1>1, <2>1
    <3>2. vals[i - at] \in S
      BY <3>1, ElementOfSeq
    <3>. QED
      BY <1>2, <2>1, <3>2
  <2>2. CASE ~(i > at /\ i <= at + Len(vals)) /\ i <= Len(file)
    <3>1. file[i] \in S
      BY <1>1, <2>2, ElementOfSeq
    <3>. QED
      BY <1>2, <2>2, <3>1
  <2>3. CASE ~(i > at /\ i <= at + Len(vals)) /\ ~(i <= Len(file))
    BY <1>2, <2>3
  <2>. QED
    BY <2>1, <2>2, <2>3
<1>4. f \in [1 .. n -> S]
  BY <1>2, <1>3
<1>5. f \in Seq(S) /\ Len(f) = n
  BY <1>1, <1>4, IsASeq, LenProperties
<1>6. \A i \in 1 .. Len(file) : i <= at => f[i] = file[i]
  BY <1>1, <1>2
<1>7. \A i \in at + 1 .. at + Len(vals) : f[i] = vals[i - at]
  BY <1>1, <1>2
<1>8. WrittenAs(f, file, at, vals)
  BY <1>5, <1>6, <1>7 DEF WrittenAs, n
<1>. QED
  BY <1>5, <1>8 DEF f

LEMMA BytesPlaces ==
  ASSUME NEW S, NEW d \in S, NEW n \in Nat
  PROVE  /\ Bytes(d, n) \in Seq(S) /\ Len(Bytes(d, n)) = n
         /\ \A i \in 1 .. n : Bytes(d, n)[i] = d
<1>1. Bytes(d, n) \in [1 .. n -> S]
  BY DEF Bytes
<1>2. Bytes(d, n) \in Seq(S) /\ Len(Bytes(d, n)) = n
  BY <1>1, IsASeq, LenProperties
<1>. QED
  BY <1>2 DEF Bytes

(* The kernel gives the lock back with the file.                           *)
LEMMA LeaveUnlocks ==
  ASSUME Good, NEW p \in Procs, Leave(p)
  PROVE  Locked'
<1>1. /\ \A q \in Procs \ {p} : pc'[q] = pc[q]
      /\ pc'[p] = "idle"
  BY DEF Leave, Goto, Good, Shape
<1>2. lock' = IF lock = p THEN NoProc ELSE lock
  BY DEF Leave
<1>3. NoProc \notin Users /\ Users \subseteq Procs
  BY JournalAssumption DEF Users, Procs
<1>. QED
  BY <1>1, <1>2, <1>3 DEF Good, Locked, At

(* A step that leaves the files as they are, and the other processes.      *)
LEMMA LocalStep ==
  ASSUME Good, NEW p \in Procs, UNCHANGED <<dat, idx, acked>>,
         DOMAIN pc' = Procs, DOMAIN loc' = Procs,
         \A q \in Procs \ {p} : pc'[q] = pc[q] /\ loc'[q] = loc[q],
         Locked',
         pc[p] # "truncidx", pc'[p] # "truncidx",
         p \in Users /\ pc'[p] # "idle" => NoneTruncates,
         p \in Writers => pc'[p] \in {"idle", "wstat", "next", "data", "index"} /\ WriterReady(p)',
         p \in Readers => pc'[p] \in {"idle", "rstat", "entry", "bytes"} /\ ReaderReady(p)',
         p \in Initers => pc'[p] \in {"idle", "inited", "truncdat", "truncidx"}
  PROVE  Good'
<1>. USE DEF Good
<1>0. Writers \subseteq Procs /\ Readers \subseteq Procs /\ Initers \subseteq Procs
      /\ Users \subseteq Procs /\ Users \cap Initers = {}
  BY JournalAssumption DEF Procs, Users
<1>1. Shape'
  BY <1>0 DEF Shape
<1>2. InitsAlone'
  BY <1>0 DEF InitsAlone, At, NoneTruncates
<1>3. InLine' /\ Kept'
  BY DEF InLine, Kept, End, Holds, NextOfs
<1>4. NoneTruncates' <=> NoneTruncates
  BY <1>0 DEF NoneTruncates, At
<1>5. AllAcked'
  BY <1>4 DEF AllAcked
<1>6. \A w \in Writers \ {p} : WriterReady(w)'
  BY <1>0 DEF Ready, WriterReady, At, End, Holds, NextOfs
<1>7. \A r \in Readers \ {p} : ReaderReady(r)'
  BY <1>0 DEF Ready, ReaderReady, At
<1>8. Ready'
  BY <1>6, <1>7 DEF Ready
<1>. QED
  BY <1>1, <1>2, <1>3, <1>5, <1>8

LEMMA LeaveKeeps ==
  ASSUME Good, NEW p \in Procs, Leave(p), UNCHANGED <<dat, idx, acked>>, pc[p] # "truncidx"
  PROVE  Good'
<1>1. /\ DOMAIN pc' = Procs /\ DOMAIN loc' = Procs
      /\ \A q \in Procs \ {p} : pc'[q] = pc[q] /\ loc'[q] = loc[q]
      /\ pc'[p] = "idle"
  BY DEF Leave, Goto, Good, Shape
<1>2. WriterReady(p)' /\ ReaderReady(p)'
  BY <1>1 DEF WriterReady, ReaderReady, At
<1>3. Locked'
  BY LeaveUnlocks
<1>. QED
  BY <1>1, <1>2, <1>3, LocalStep

(* Who is inside a call keeps the other users, and initialisations between *)
(* the files, out.                                                         *)
LEMMA InsideAlone ==
  ASSUME Good, NEW p \in Users, ~At(p, "idle")
  PROVE  /\ lock = p /\ NoneTruncates
         /\ \A q \in Users \ {p} : At(q, "idle")
BY DEF Good, Locked, InitsAlone, NoneTruncates

LEMMA Classes ==
  /\ Users = Writers \cup Readers /\ Users \subseteq Procs /\ Initers \subseteq Procs
  /\ Writers \cap Readers = {} /\ Users \cap Initers = {} /\ NoProc \notin Procs
BY JournalAssumption DEF Users, Procs

LEMMA StartKeeps ==
  ASSUME Good, ~raced', ~Interrupts, NEW p \in Users, NEW l, NEW next, Start(p, l, next),
         \/ p \in Writers /\ next = "wstat"
            /\ l \in [seq : Nat, data : Data, len : Lens, ofs : {0}]
         \/ p \in Readers /\ next = "rstat" /\ l \in [seq : Nat, ofs : Nat, len : Nat]
  PROVE  Good'
<1>1. /\ UNCHANGED <<dat, idx, acked>> /\ NoneTruncates
      /\ At(p, "idle") /\ lock = NoProc /\ lock' = p
      /\ pc' = [pc EXCEPT ![p] = next] /\ loc' = [loc EXCEPT ![p] = l]
  BY DEF Start, Goto, files, NoneTruncates
<1>2. /\ DOMAIN pc' = Procs /\ DOMAIN loc' = Procs
      /\ \A q \in Procs \ {p} : pc'[q] = pc[q] /\ loc'[q] = loc[q]
      /\ pc'[p] = next /\ loc'[p] = l /\ pc[p] = "idle"
  BY <1>1, Classes DEF Good, Shape, At
<1>3. Locked'
  BY <1>1, <1>2, Classes DEF Good, Locked, At
<1>4. p \in Writers => WriterReady(p)'
  BY <1>2, Classes DEF WriterReady, At
<1>5. p \in Readers => ReaderReady(p)'
  BY <1>2, Classes DEF ReaderReady, At
<1>. QED
  BY <1>1, <1>2, <1>3, <1>4, <1>5, Classes, LocalStep

LEMMA StatKeeps ==
  ASSUME Good, NEW p \in Users, Stat(p)
  PROVE  Good'
<1>1. UNCHANGED <<dat, idx, acked>> /\ pc[p] \in {"wstat", "rstat"}
  BY DEF Stat, files, history
<1>2. CASE torn
  BY <1>1, <1>2, Classes, LeaveKeeps DEF Stat
<1>3. CASE ~torn
  <2>1. /\ pc' = [pc EXCEPT ![p] = IF At(p, "wstat") THEN "next" ELSE "entry"]
        /\ loc' = IF At(p, "wstat") THEN [loc EXCEPT ![p].seq = Len(idx)] ELSE loc
        /\ UNCHANGED lock
    BY <1>3 DEF Stat, Goto
  <2>2. /\ DOMAIN pc' = Procs /\ DOMAIN loc' = Procs
        /\ \A q \in Procs \ {p} : pc'[q] = pc[q] /\ loc'[q] = loc[q]
    BY <2>1, Classes DEF Good, Shape
  <2>3. NoneTruncates
    BY <1>1, InsideAlone DEF At
  <2>4. CASE p \in Writers
    <3>1. pc[p] = "wstat" /\ pc'[p] = "next" /\ p \in Procs
      BY <1>1, <2>1, <2>4, Classes DEF Good, Shape, At
    <3>2. /\ loc[p] \in [seq : Nat, data : Data, len : Lens, ofs : Nat]
          /\ loc[p].ofs = 0
      BY <2>4, <3>1 DEF Good, Ready, WriterReady, At
    <3>3. loc'[p] = [loc[p] EXCEPT !.seq = Len(idx)] /\ Len(idx) \in Nat
      BY <2>1, <3>1, LenProperties DEF Good, Shape, At
    <3>4. /\ loc'[p] \in [seq : Nat, data : Data, len : Lens, ofs : Nat]
          /\ loc'[p].ofs = 0 /\ loc'[p].seq = Len(idx)
      BY <3>2, <3>3
    <3>5. WriterReady(p)'
      BY <1>1, <3>1, <3>4 DEF WriterReady, At
    <3>6. Locked'
      BY <2>1, <2>2, <3>1, Classes DEF Good, Locked, At
    <3>. QED
      BY <1>1, <2>2, <2>3, <2>4, <3>1, <3>5, <3>6, Classes, LocalStep
  <2>5. CASE p \in Readers
    <3>1. pc[p] = "rstat" /\ pc'[p] = "entry" /\ p \in Procs /\ loc' = loc
      BY <1>1, <2>1, <2>5, Classes DEF Good, Shape, At
    <3>2. ReaderReady(p)'
      BY <2>5, <3>1 DEF Good, Ready, ReaderReady, At
    <3>3. Locked'
      BY <2>1, <2>2, <3>1, Classes DEF Good, Locked, At
    <3>. QED
      BY <1>1, <2>2, <2>3, <2>5, <3>1, <3>2, <3>3, Classes, LocalStep
  <2>. QED
    BY <2>4, <2>5, Classes
<1>. QED
  BY <1>2, <1>3

LEMMA NextIdxKeeps ==
  ASSUME Good, NEW w \in Writers, NextIdx(w)
  PROVE  Good'
<1>1. UNCHANGED <<dat, idx, acked>> /\ pc[w] = "next" /\ w \in Users /\ w \in Procs
  BY Classes DEF NextIdx, files, history, At
<1>2. /\ loc[w] \in [seq : Nat, data : Data, len : Lens, ofs : Nat]
      /\ loc[w].ofs = 0 /\ loc[w].seq = Len(idx)
  BY <1>1 DEF Good, Ready, WriterReady, At
<1>3. NoneTruncates
  BY <1>1, InsideAlone DEF At
<1>4. ~(loc[w].seq > Len(idx))
  BY <1>2
<1>5. /\ pc' = [pc EXCEPT ![w] = "data"] /\ UNCHANGED lock
      /\ loc' = IF loc[w].seq = 0 THEN loc
                ELSE [loc EXCEPT ![w].ofs = NextOfs(idx[loc[w].seq])]
  BY <1>4 DEF NextIdx, Goto
<1>6. loc'[w] \in [seq : Nat, data : Data, len : Lens, ofs : Nat]
      /\ loc'[w].seq = Len(idx) /\ loc'[w].ofs = End
  <2>1. idx \in Seq(Entry)
    BY DEF Good, Shape
  <2>2. CASE loc[w].seq = 0
    BY <1>2, <1>5, <2>1, <2>2, EmptySeq DEF End
  <2>3. CASE loc[w].seq # 0
    <3>1. idx # <<>> /\ idx[Len(idx)] \in Entry
      BY <1>2, <2>1, <2>3, ElementOfSeq, EmptySeq
    <3>2. NextOfs(idx[Len(idx)]) \in Nat
      BY <3>1 DEF NextOfs, Entry
    <3>3. loc'[w] = [loc[w] EXCEPT !.ofs = NextOfs(idx[Len(idx)])]
      BY <1>1, <1>2, <1>5, <2>3 DEF Good, Shape
    <3>. QED
      BY <1>2, <3>1, <3>2, <3>3 DEF End
  <2>. QED
    BY <2>2, <2>3
<1>7. /\ DOMAIN pc' = Procs /\ DOMAIN loc' = Procs /\ pc'[w] = "data"
      /\ \A q \in Procs \ {w} : pc'[q] = pc[q] /\ loc'[q] = loc[q]
  BY <1>1, <1>5 DEF Good, Shape
<1>8. WriterReady(w)'
  BY <1>1, <1>6, <1>7 DEF WriterReady, At, End, NextOfs
<1>9. Locked'
  BY <1>1, <1>5, <1>7, Classes DEF Good, Locked, At
<1>. QED
  BY <1>1, <1>3, <1>7, <1>8, <1>9, Classes, LocalStep

LEMMA ReadEntryKeeps ==
  ASSUME Good, NEW r \in Readers, ReadEntry(r)
  PROVE  Good'
<1>1. UNCHANGED <<dat, idx, acked>> /\ pc[r] = "entry" /\ r \in Users /\ r \in Procs
  BY Classes DEF ReadEntry, files, history, At
<1>2. CASE loc[r].seq >= Len(idx)
  BY <1>1, <1>2, LeaveKeeps DEF ReadEntry
<1>3. CASE ~(loc[r].seq >= Len(idx))
  <2>1. /\ pc' = [pc EXCEPT ![r] = "bytes"] /\ UNCHANGED lock
        /\ loc' = [loc EXCEPT ![r].ofs = idx[loc[r].seq + 1].ofs,
                              ![r].len = idx[loc[r].seq + 1].len]
    BY <1>3 DEF ReadEntry, Goto
  <2>2. /\ DOMAIN pc' = Procs /\ DOMAIN loc' = Procs /\ pc'[r] = "bytes"
        /\ \A q \in Procs \ {r} : pc'[q] = pc[q] /\ loc'[q] = loc[q]
        /\ loc'[r] = [loc[r] EXCEPT !.ofs = idx[loc[r].seq + 1].ofs,
                                    !.len = idx[loc[r].seq + 1].len]
    BY <1>1, <2>1 DEF Good, Shape
  <2>3. loc[r] \in [seq : Nat, ofs : Nat, len : Nat]
    BY <1>1 DEF Good, Ready, ReaderReady, At
  <2>4. loc[r].seq < Len(idx) /\ idx[loc[r].seq + 1] \in Entry
    <3>1. idx \in Seq(Entry) /\ Len(idx) \in Nat
      BY LenProperties DEF Good, Shape
    <3>2. loc[r].seq + 1 \in 1 .. Len(idx) /\ loc[r].seq < Len(idx)
      BY <1>3, <2>3, <3>1
    <3>. QED
      BY <3>1, <3>2, ElementOfSeq
  <2>5. /\ loc'[r] \in [seq : Nat, ofs : Nat, len : Nat]
        /\ loc'[r].seq = loc[r].seq
        /\ loc'[r].ofs = idx[loc[r].seq + 1].ofs /\ loc'[r].len = idx[loc[r].seq + 1].len
    BY <2>2, <2>3, <2>4 DEF Entry
  <2>6. ReaderReady(r)'
    BY <1>1, <2>4, <2>5 DEF ReaderReady, At
  <2>7. NoneTruncates
    BY <1>1, InsideAlone DEF At
  <2>8. Locked'
    BY <1>1, <2>1, <2>2, Classes DEF Good, Locked, At
  <2>. QED
    BY <1>1, <2>2, <2>6, <2>7, <2>8, Classes, LocalStep
<1>. QED
  BY <1>2, <1>3

LEMMA ReadDataKeeps ==
  ASSUME Good, NEW r \in Readers, ReadData(r)
  PROVE  Good'
<1>1. UNCHANGED <<dat, idx, acked>> /\ Leave(r) /\ r \in Procs /\ pc[r] # "truncidx"
  BY Classes DEF ReadData, files, history, At
<1>. QED
  BY <1>1, LeaveKeeps

LEMMA CrashKeeps ==
  ASSUME Good, ~raced', NEW p \in Procs, Crash(p)
  PROVE  Good'
<1>1. UNCHANGED <<dat, idx, acked>> /\ Leave(p) /\ pc[p] # "truncidx"
  BY DEF Crash, files, At
<1>. QED
  BY <1>1, LeaveKeeps

(* Bytes written behind the last record touch none of the records.         *)
LEMMA AppendKeeps ==
  ASSUME Good, NEW w \in Writers, At(w, "data"), NEW n \in 0 .. loc[w].len,
         dat' = Written(dat, loc[w].ofs, Bytes(loc[w].data, n), Zero),
         UNCHANGED <<idx, acked>>
  PROVE  /\ dat' \in Seq(Data \cup {Zero}) /\ InLine' /\ Kept'
         /\ loc' = loc /\ n = loc[w].len => Holds(loc[w].ofs, n, loc[w].data)'
<1>1. /\ loc[w] \in [seq : Nat, data : Data, len : Lens, ofs : Nat]
      /\ loc[w].ofs = End
  BY DEF Good, Ready, WriterReady, At
<1>. DEFINE at == loc[w].ofs
<1>. DEFINE d == loc[w].data
<1>2. at \in Nat /\ d \in Data /\ n \in Nat
  BY <1>1, JournalAssumption
<1>3. dat \in Seq(Data \cup {Zero}) /\ idx \in Seq(Entry)
  BY DEF Good, Shape
<1>. HIDE DEF at, d
<1>4. /\ Bytes(d, n) \in Seq(Data \cup {Zero}) /\ Len(Bytes(d, n)) = n
      /\ \A i \in 1 .. n : Bytes(d, n)[i] = d
  BY <1>2, BytesPlaces
<1>5. /\ dat' \in Seq(Data \cup {Zero})
      /\ at + n > Len(dat) => Len(dat') = at + n
      /\ at + n <= Len(dat) => Len(dat') = Len(dat)
      /\ \A i \in 1 .. Len(dat) : i <= at => dat'[i] = dat[i]
      /\ \A i \in at + 1 .. at + n : dat'[i] = Bytes(d, n)[i - at]
  <2>1. dat' = Written(dat, at, Bytes(d, n), Zero)
    BY DEF at, d
  <2>2. Zero \in Data \cup {Zero}
    OBVIOUS
  <2>. DEFINE v == Bytes(d, n)
  <2>3. v \in Seq(Data \cup {Zero}) /\ Len(v) = n
    BY <1>4
  <2>. HIDE DEF v
  <2>4. Written(dat, at, v, Zero) \in Seq(Data \cup {Zero})
        /\ WrittenAs(Written(dat, at, v, Zero), dat, at, v)
    BY ONLY <1>2, <1>3, <2>2, <2>3, WrittenPlaces
  <2>5. dat' = Written(dat, at, v, Zero)
    BY <2>1 DEF v
  <2>. QED
    BY <2>3, <2>4, <2>5 DEF v, WrittenAs
<1>6. InLine'
  BY DEF Good, InLine, End, NextOfs
<1>7. Kept'
  <2>. SUFFICES ASSUME NEW a \in acked
                PROVE  /\ a.seq \in Nat /\ a.len \in Nat /\ a.seq < Len(idx)
                       /\ idx[a.seq + 1].len = a.len
                       /\ Holds(idx[a.seq + 1].ofs, a.len, a.data)'
    BY DEF Kept
  <2>1. /\ a.seq \in Nat /\ a.len \in Nat /\ a.seq < Len(idx)
        /\ idx[a.seq + 1].len = a.len
        /\ Holds(idx[a.seq + 1].ofs, a.len, a.data)
    BY DEF Good, Kept
  <2>2. a.seq + 1 \in 1 .. Len(idx) /\ idx[a.seq + 1] \in Entry
    BY <1>3, <2>1, LenProperties, ElementOfSeq
  <2>3. idx[a.seq + 1].ofs + a.len <= at
    BY <1>1, <2>1, <2>2 DEF Good, InLine, NextOfs, at
  <2>4. Holds(idx[a.seq + 1].ofs, a.len, a.data)'
    <3>. DEFINE o == idx[a.seq + 1].ofs
    <3>1. o \in Nat /\ o + a.len <= Len(dat) /\ Len(dat) \in Nat
      BY <1>3, <2>1, <2>2, LenProperties DEF Holds, Entry
    <3>2. \A b \in o + 1 .. o + a.len : dat[b] = a.data
      BY <2>1 DEF Holds
    <3>3. o + a.len <= at
      BY <2>3
    <3>. HIDE DEF o
    <3>4. o + a.len <= Len(dat')
      BY <1>2, <1>5, <2>1, <3>1
    <3>5. ASSUME NEW b \in o + 1 .. o + a.len PROVE dat'[b] = a.data
      <4>1. b \in 1 .. Len(dat) /\ b <= at
        BY <1>2, <2>1, <3>1, <3>3
      <4>. QED
        BY <1>5, <3>2, <4>1
    <3>. QED
      BY <3>4, <3>5 DEF Holds, o
  <2>. QED
    BY <2>1, <2>4
<1>8. at + n <= Len(dat') /\ \A b \in at + 1 .. at + n : dat'[b] = d
  <2>1. Len(dat) \in Nat
    BY <1>3, LenProperties
  <2>2. at + n <= Len(dat')
    BY <1>2, <1>5, <2>1
  <2>3. ASSUME NEW b \in at + 1 .. at + n PROVE dat'[b] = d
    <3>1. b - at \in 1 .. n
      BY <1>2
    <3>. QED
      BY <1>4, <1>5, <3>1
  <2>. QED
    BY <2>2, <2>3
<1>. QED
  BY <1>5, <1>6, <1>7, <1>8 DEF Holds, at, d

LEMMA WriteDataKeeps ==
  ASSUME Good, NEW w \in Writers, WriteData(w)
  PROVE  Good'
<1>1. UNCHANGED <<idx, acked>> /\ pc[w] = "data" /\ At(w, "data") /\ w \in Users /\ w \in Procs
  BY Classes DEF WriteData, history, At
<1>2. /\ NoneTruncates /\ lock = w
      /\ \A q \in Users \ {w} : pc[q] = "idle"
  BY <1>1, InsideAlone DEF At
<1>3. loc[w] \in [seq : Nat, data : Data, len : Lens, ofs : Nat]
  BY <1>1 DEF Good, Ready, WriterReady, At
<1>4. loc[w].len \in Nat
  BY <1>3, JournalAssumption
<1>5. /\ dat' \in Seq(Data \cup {Zero}) /\ InLine' /\ Kept'
      /\ pc'[w] \in {"idle", "index"}
      /\ DOMAIN pc' = Procs /\ DOMAIN loc' = Procs
      /\ \A q \in Procs \ {w} : pc'[q] = pc[q]
      /\ WriterReady(w)' /\ Locked'
  <2>1. CASE /\ dat' = Written(dat, loc[w].ofs, Bytes(loc[w].data, loc[w].len), Zero)
             /\ Goto(w, "index") /\ UNCHANGED <<loc, lock>>
    <3>1. loc[w].len \in 0 .. loc[w].len
      BY <1>4
    <3>2. /\ dat' \in Seq(Data \cup {Zero}) /\ InLine' /\ Kept'
          /\ Holds(loc[w].ofs, loc[w].len, loc[w].data)'
      BY <1>1, <2>1, <3>1, AppendKeeps
    <3>3. /\ pc'[w] = "index" /\ DOMAIN pc' = Procs /\ DOMAIN loc' = Procs
          /\ \A q \in Procs \ {w} : pc'[q] = pc[q]
      BY <1>1, <2>1 DEF Goto, Good, Shape
    <3>4. WriterReady(w)'
      <4>1. loc[w].seq = Len(idx) /\ loc[w].ofs = End
        BY <1>1 DEF Good, Ready, WriterReady, At
      <4>2. End' = End
        BY <1>1 DEF End, NextOfs
      <4>. QED
        BY <1>1, <1>3, <2>1, <3>2, <3>3, <4>1, <4>2 DEF WriterReady, At
    <3>5. Locked'
      BY <1>1, <2>1, <3>3, Classes DEF Good, Locked, At
    <3>. QED
      BY <3>2, <3>3, <3>4, <3>5
  <2>2. CASE /\ \E n \in 0 .. loc[w].len - 1 :
                  dat' = Written(dat, loc[w].ofs, Bytes(loc[w].data, n), Zero)
             /\ Leave(w)
    <3>1. PICK n \in 0 .. loc[w].len - 1 :
            dat' = Written(dat, loc[w].ofs, Bytes(loc[w].data, n), Zero)
      BY <2>2
    <3>2. n \in 0 .. loc[w].len
      BY <1>4
    <3>3. dat' \in Seq(Data \cup {Zero}) /\ InLine' /\ Kept'
      BY <1>1, <3>1, <3>2, AppendKeeps
    <3>4. /\ pc'[w] = "idle" /\ DOMAIN pc' = Procs /\ DOMAIN loc' = Procs
          /\ \A q \in Procs \ {w} : pc'[q] = pc[q]
      BY <1>1, <2>2 DEF Leave, Goto, Good, Shape
    <3>5. WriterReady(w)'
      BY <3>4 DEF WriterReady, At
    <3>6. Locked'
      BY <1>1, <2>2, LeaveUnlocks
    <3>. QED
      BY <3>3, <3>4, <3>5, <3>6
  <2>. QED
    BY <2>1, <2>2 DEF WriteData
<1>6. Shape'
  BY <1>1, <1>5, Classes DEF Good, Shape
<1>7. NoneTruncates'
  BY <1>1, <1>2, <1>5, Classes DEF NoneTruncates, At
<1>8. InitsAlone' /\ AllAcked'
  BY <1>1, <1>2, <1>7 DEF InitsAlone, AllAcked, NoneTruncates, Good
<1>9. Ready'
  BY <1>1, <1>2, <1>5, Classes DEF Ready, WriterReady, ReaderReady, At
<1>. QED
  BY <1>5, <1>6, <1>8, <1>9 DEF Good

LEMMA WriteIndexKeeps ==
  ASSUME Good, NEW w \in Writers, WriteIndex(w)
  PROVE  Good'
<1>1. UNCHANGED dat /\ Leave(w) /\ pc[w] = "index" /\ w \in Users /\ w \in Procs
  BY Classes DEF WriteIndex, At
<1>2. CASE UNCHANGED <<idx, acked>>
  BY <1>1, <1>2, LeaveKeeps
<1>. DEFINE e == [ofs |-> loc[w].ofs, len |-> loc[w].len]
<1>. DEFINE new == [seq |-> loc[w].seq, data |-> loc[w].data, len |-> loc[w].len, day |-> today]
<1>3. CASE idx' = Written(idx, loc[w].seq, <<e>>, Hole) /\ acked' = acked \cup {new}
  <2>1. /\ loc[w] \in [seq : Nat, data : Data, len : Lens, ofs : Nat]
        /\ loc[w].seq = Len(idx) /\ loc[w].ofs = End
        /\ Holds(loc[w].ofs, loc[w].len, loc[w].data)
    BY <1>1 DEF Good, Ready, WriterReady, At
  <2>2. /\ e \in Entry /\ e.ofs = End /\ NextOfs(e) = End + e.len
        /\ e.len \in Nat /\ e.ofs \in Nat /\ End \in Nat
    BY <2>1, JournalAssumption DEF Entry, NextOfs
  <2>3. /\ new.seq = Len(idx) /\ new.len = e.len /\ new.data = loc[w].data
        /\ Holds(e.ofs, new.len, new.data)
    BY <2>1
  <2>. HIDE DEF e, new
  <2>4. idx \in Seq(Entry) /\ Len(idx) \in Nat /\ Hole \in Entry
    BY LenProperties DEF Good, Shape, Hole, Entry
  <2>5. /\ idx' \in Seq(Entry) /\ Len(idx') = Len(idx) + 1
        /\ \A k \in 1 .. Len(idx) : idx'[k] = idx[k]
        /\ idx'[Len(idx) + 1] = e
    <3>1. <<e>> \in Seq(Entry) /\ Len(<<e>>) = 1 /\ <<e>>[1] = e
      BY <2>2
    <3>2. idx' = Written(idx, Len(idx), <<e>>, Hole)
      BY <1>3, <2>1
    <3>3. /\ idx' \in Seq(Entry)
          /\ Len(idx) + 1 > Len(idx) => Len(idx') = Len(idx) + 1
          /\ \A k \in 1 .. Len(idx) : k <= Len(idx) => idx'[k] = idx[k]
          /\ \A k \in Len(idx) + 1 .. Len(idx) + 1 : idx'[k] = <<e>>[k - Len(idx)]
      <4>. DEFINE v == <<e>>
      <4>. DEFINE at == Len(idx)
      <4>1. v \in Seq(Entry) /\ Len(v) = 1 /\ at \in Nat
        BY <2>4, <3>1
      <4>. HIDE DEF v, at
      <4>2. Written(idx, at, v, Hole) \in Seq(Entry)
            /\ WrittenAs(Written(idx, at, v, Hole), idx, at, v)
        BY ONLY <2>4, <4>1, WrittenPlaces
      <4>3. idx' = Written(idx, at, v, Hole)
        BY <3>2 DEF v, at
      <4>. QED
        BY <4>1, <4>2, <4>3 DEF v, at, WrittenAs
    <3>4. idx'[Len(idx) + 1] = <<e>>[Len(idx) + 1 - Len(idx)]
      BY <2>4, <3>3
    <3>5. Len(idx) + 1 - Len(idx) = 1
      BY <2>4
    <3>. QED
      BY <2>4, <3>1, <3>3, <3>4, <3>5
  <2>6. End' = NextOfs(e)
    BY <2>4, <2>5, EmptySeq DEF End, NextOfs
  <2>7. InLine'
    <3>1. ASSUME NEW k \in 1 .. Len(idx') - 1 PROVE idx'[k + 1].ofs = NextOfs(idx'[k])
      <4>1. CASE k = Len(idx)
        <5>1. idx # <<>> /\ idx'[k] = idx[k] /\ idx'[k + 1] = e
          BY <2>4, <2>5, <4>1, EmptySeq
        <5>. QED
          BY <2>2, <4>1, <5>1 DEF End, NextOfs
      <4>2. CASE k # Len(idx)
        <5>1. k \in 1 .. Len(idx) - 1 /\ k \in 1 .. Len(idx) /\ k + 1 \in 1 .. Len(idx)
          BY <2>4, <2>5, <4>2
        <5>. QED
          BY <2>5, <5>1 DEF Good, InLine, NextOfs
      <4>. QED
        BY <4>1, <4>2
    <3>2. ASSUME NEW k \in 1 .. Len(idx') PROVE NextOfs(idx'[k]) <= End'
      <4>1. CASE k = Len(idx) + 1
        BY <2>2, <2>5, <2>6, <4>1
      <4>2. CASE k # Len(idx) + 1
        <5>1. k \in 1 .. Len(idx)
          BY <2>4, <2>5, <4>2
        <5>2. NextOfs(idx[k]) <= End /\ NextOfs(idx[k]) \in Nat /\ idx'[k] = idx[k]
          <6>1. idx[k] \in Entry
            BY <2>4, <5>1, ElementOfSeq
          <6>2. NextOfs(idx[k]) \in Nat
            BY <6>1 DEF NextOfs, Entry
          <6>. QED
            BY <2>5, <5>1, <6>2 DEF Good, InLine
        <5>. QED
          BY <2>2, <2>6, <5>2
      <4>. QED
        BY <4>1, <4>2
    <3>. QED
      BY <3>1, <3>2 DEF InLine, NextOfs
  <2>8. Kept'
    <3>. SUFFICES ASSUME NEW a \in acked'
                  PROVE  /\ a.seq \in Nat /\ a.len \in Nat /\ a.seq < Len(idx')
                         /\ idx'[a.seq + 1].len = a.len
                         /\ Holds(idx'[a.seq + 1].ofs, a.len, a.data)
      BY <1>1 DEF Kept, Holds
    <3>1. CASE a = new
      BY <2>2, <2>3, <2>4, <2>5, <3>1
    <3>2. CASE a \in acked
      <4>1. /\ a.seq \in Nat /\ a.len \in Nat /\ a.seq < Len(idx)
            /\ idx[a.seq + 1].len = a.len
            /\ Holds(idx[a.seq + 1].ofs, a.len, a.data)
        BY <3>2 DEF Good, Kept
      <4>2. a.seq + 1 \in 1 .. Len(idx) /\ a.seq < Len(idx')
        BY <2>4, <2>5, <4>1
      <4>3. idx'[a.seq + 1] = idx[a.seq + 1]
        BY <2>5, <4>2
      <4>. QED
        BY <4>1, <4>2, <4>3
    <3>. QED
      BY <1>3, <3>1, <3>2
  <2>9. /\ pc'[w] = "idle" /\ DOMAIN pc' = Procs /\ DOMAIN loc' = Procs
        /\ \A q \in Procs \ {w} : pc'[q] = pc[q]
    BY <1>1 DEF Leave, Goto, Good, Shape
  <2>10. NoneTruncates /\ \A q \in Users \ {w} : pc[q] = "idle"
    BY <1>1, InsideAlone DEF At
  <2>11. NoneTruncates'
    BY <2>9, <2>10, Classes DEF NoneTruncates, At
  <2>12. AllAcked'
    <3>. SUFFICES ASSUME NEW k \in 1 .. Len(idx') PROVE \E a \in acked' : a.seq = k - 1
      BY DEF AllAcked
    <3>1. CASE k = Len(idx) + 1
      BY <1>3, <2>3, <2>4, <3>1
    <3>2. CASE k # Len(idx) + 1
      <4>1. k \in 1 .. Len(idx)
        BY <2>4, <2>5, <3>2
      <4>. QED
        BY <1>3, <2>10, <4>1 DEF Good, AllAcked
    <3>. QED
      BY <3>1, <3>2
  <2>13. Shape'
    BY <1>1, <2>5, <2>9, Classes DEF Good, Shape
  <2>14. Ready'
    BY <2>9, <2>10, Classes DEF Ready, WriterReady, ReaderReady, At
  <2>15. InitsAlone' /\ Locked'
    BY <1>1, <2>11, LeaveUnlocks DEF InitsAlone, NoneTruncates
  <2>. QED
    BY <2>7, <2>8, <2>12, <2>13, <2>14, <2>15 DEF Good
<1>. QED
  BY <1>2, <1>3 DEF WriteIndex

(* An initialisation that starts or returns changes nothing.               *)
LEMMA InitStepKeeps ==
  ASSUME Good, NEW i \in Initers, InitDaily(i) \/ InitCreat(i) \/ InitReturns(i)
  PROVE  Good'
<1>1. /\ UNCHANGED <<dat, idx, acked, loc, lock>>
      /\ pc[i] # "truncidx" /\ i \in Procs /\ i \notin Users
      /\ \/ pc' = [pc EXCEPT ![i] = "inited"]
         \/ pc' = [pc EXCEPT ![i] = "truncdat"]
         \/ pc' = [pc EXCEPT ![i] = "idle"]
  BY Classes DEF InitDaily, InitCreat, InitReturns, Goto, files, history, At
<1>2. /\ DOMAIN pc' = Procs /\ DOMAIN loc' = Procs
      /\ pc'[i] \in {"inited", "truncdat", "idle"}
      /\ \A q \in Procs \ {i} : pc'[q] = pc[q] /\ loc'[q] = loc[q]
  BY <1>1 DEF Good, Shape
<1>3. Locked'
  BY <1>1, <1>2, Classes DEF Good, Locked, At
<1>. QED
  BY <1>1, <1>2, <1>3, Classes, LocalStep

(* Nobody is beside an initialisation that cuts a file.                    *)
LEMMA TruncKeeps ==
  ASSUME Good, ~raced', NEW i \in Initers, TruncDat(i) \/ TruncIdx(i)
  PROVE  Good'
<1>1. /\ acked' = {} /\ UNCHANGED <<loc, lock>> /\ i \in Procs /\ i \notin Users
      /\ \A p \in Procs \ {i} : pc[p] = "idle"
  BY Classes DEF TruncDat, TruncIdx, Beside, At
<1>2. /\ DOMAIN pc' = Procs /\ pc'[i] \in {"truncidx", "inited"}
      /\ \A p \in Procs \ {i} : pc'[p] = "idle"
  BY <1>1 DEF TruncDat, TruncIdx, Goto, Good, Shape
<1>3. \/ TruncDat(i) /\ pc'[i] = "truncidx" /\ dat' = <<>> /\ idx' = idx
      \/ TruncIdx(i) /\ pc'[i] = "inited" /\ idx' = <<>> /\ dat' = dat
  BY <1>1 DEF TruncDat, TruncIdx, Goto, Good, Shape
<1>4. Shape'
  <2>1. dat' \in Seq(Data \cup {Zero}) /\ idx' \in Seq(Entry)
    BY <1>3, EmptySeq DEF Good, Shape
  <2>2. DOMAIN pc' = Procs /\ DOMAIN loc' = Procs
    BY <1>1, <1>2 DEF Good, Shape
  <2>3. /\ \A p \in Users : pc'[p] = "idle"
        /\ \A j \in Initers : pc'[j] \in {"idle", "inited", "truncdat", "truncidx"}
    BY <1>1, <1>2, Classes
  <2>. QED
    BY <2>1, <2>2, <2>3, Classes DEF Shape
<1>5. Locked'
  BY <1>1, <1>2, Classes DEF Good, Locked, At
<1>6. InitsAlone' /\ Kept' /\ Ready'
  BY <1>1, <1>2, Classes DEF InitsAlone, Kept, Ready, WriterReady, ReaderReady, At
<1>7. InLine' /\ AllAcked'
  <2>1. CASE idx' = <<>>
    <3>1. Len(idx') = 0
      BY <2>1
    <3>. QED
      BY <3>1 DEF InLine, AllAcked
  <2>2. CASE idx' = idx /\ pc'[i] = "truncidx"
    BY <2>2 DEF Good, InLine, AllAcked, NoneTruncates, At, End, NextOfs
  <2>. QED
    BY <1>3, <2>1, <2>2
<1>. QED
  BY <1>4, <1>5, <1>6, <1>7 DEF Good

LEMMA StillKeeps ==
  ASSUME Good, UNCHANGED <<dat, idx, acked, lock, pc, loc>>
  PROVE  Good'
BY DEF Good, Shape, Locked, InitsAlone, InLine, Kept, AllAcked, Ready, WriterReady,
       ReaderReady, NoneTruncates, Holds, End, NextOfs, At

LEMMA StepInv == ~Interrupts => (IInv /\ [Next]_vars => IInv')
<1>. SUFFICES ASSUME ~Interrupts, IInv, [Next]_vars, ~raced' PROVE Good'
  BY DEF IInv
<1>1. CASE UNCHANGED vars
  <2>1. Good
    BY <1>1 DEF IInv, vars
  <2>. QED
    BY <1>1, <2>1, StillKeeps DEF vars
<1>2. ASSUME NEW w \in Writers, NEW d \in Data, NEW n \in Lens, StartWrite(w, d, n) PROVE Good'
  <2>1. Good
    BY <1>2 DEF IInv, StartWrite, Start
  <2>2. [seq |-> 0, data |-> d, len |-> n, ofs |-> 0] \in
          [seq : Nat, data : Data, len : Lens, ofs : {0}]
    OBVIOUS
  <2>. QED
    BY <1>2, <2>1, <2>2, StartKeeps DEF StartWrite, Users
<1>3. ASSUME NEW r \in Readers, NEW k \in 0 .. MaxEntries - 1, StartRead(r, k) PROVE Good'
  <2>1. Good
    BY <1>3 DEF IInv, StartRead, Start
  <2>2. [seq |-> k, ofs |-> 0, len |-> 0] \in [seq : Nat, ofs : Nat, len : Nat]
    BY JournalAssumption
  <2>. QED
    BY <1>3, <2>1, <2>2, StartKeeps DEF StartRead, Users
<1>4. ASSUME NEW p \in Users, Stat(p) PROVE Good'
  BY <1>4, StatKeeps DEF IInv, Stat, history
<1>5. ASSUME NEW w \in Writers, NextIdx(w) \/ WriteData(w) \/ WriteIndex(w) PROVE Good'
  BY <1>5, NextIdxKeeps, WriteDataKeeps, WriteIndexKeeps
     DEF IInv, NextIdx, WriteData, WriteIndex, history
<1>6. ASSUME NEW r \in Readers, ReadEntry(r) \/ ReadData(r) PROVE Good'
  BY <1>6, ReadEntryKeeps, ReadDataKeeps DEF IInv, ReadEntry, ReadData, history
<1>7. ASSUME NEW i \in Initers, InitDaily(i) \/ InitCreat(i) \/ InitReturns(i) PROVE Good'
  BY <1>7, InitStepKeeps DEF IInv, InitDaily, InitCreat, InitReturns, history
<1>8. ASSUME NEW i \in Initers, TruncDat(i) \/ TruncIdx(i) PROVE Good'
  BY <1>8, TruncKeeps DEF IInv, TruncDat, TruncIdx
<1>9. ASSUME Midnight PROVE Good'
  BY <1>9, StillKeeps DEF IInv, Midnight, files, history
<1>10. ASSUME NEW p \in Procs, Crash(p) PROVE Good'
  BY <1>10, CrashKeeps DEF IInv, Crash
<1>. QED
  BY <1>1, <1>2, <1>3, <1>4, <1>5, <1>6, <1>7, <1>8, <1>9, <1>10 DEF Next, Users

----------------------------------------------------------------------------
LEMMA IInvHolds == ASSUME ~Interrupts PROVE Spec => []IInv
<1>1. IInv /\ [Next]_vars => IInv'
  BY StepInv
<1>. QED
  BY InitInv, <1>1, PTL DEF Spec

LEMMA HeldBytes ==
  ASSUME dat \in Seq(Data \cup {Zero}), NEW ofs \in Nat, NEW len \in Nat, NEW d,
         Holds(ofs, len, d)
  PROVE  SubSeq(dat, ofs + 1, ofs + len) = Bytes(d, len)
<1>. DEFINE f == SubSeq(dat, ofs + 1, ofs + len)
<1>2. \A b \in ofs + 1 .. ofs + len : dat[b] \in {d}
  BY DEF Holds
<1>3. /\ f \in Seq({d})
      /\ Len(f) = IF ofs + 1 <= ofs + len THEN (ofs + len) - (ofs + 1) + 1 ELSE 0
  BY <1>2, SubSeqProperties
<1>. HIDE DEF f
<1>4. Len(f) = len
  BY <1>3
<1>5. f \in [1 .. len -> {d}]
  BY <1>3, <1>4, LenProperties
<1>6. f = [b \in 1 .. len |-> d]
  BY <1>5
<1>. QED
  BY <1>6 DEF f, Bytes

(* The number jpjn_write returned finds what was written, whoever writes,  *)
(* reads, fails or is killed.                                              *)
THEOREM WritesAreStored == ASSUME ~Interrupts PROVE Spec => []AckedAreStored
<1>1. IInv => AckedAreStored
  <2>. SUFFICES ASSUME Good, NEW a \in acked
                PROVE  /\ a.seq < Len(idx)
                       /\ NextOfs(idx[a.seq + 1]) <= Len(dat)
                       /\ SubSeq(dat, idx[a.seq + 1].ofs + 1, NextOfs(idx[a.seq + 1]))
                            = Bytes(a.data, a.len)
    BY DEF IInv, AckedAreStored
  <2>1. /\ a.seq \in Nat /\ a.len \in Nat /\ a.seq < Len(idx)
        /\ idx[a.seq + 1].len = a.len
        /\ Holds(idx[a.seq + 1].ofs, a.len, a.data)
    BY DEF Good, Kept
  <2>2. idx \in Seq(Entry) /\ dat \in Seq(Data \cup {Zero}) /\ Len(idx) \in Nat
    BY LenProperties DEF Good, Shape
  <2>3. idx[a.seq + 1] \in Entry
    BY <2>1, <2>2, ElementOfSeq
  <2>4. idx[a.seq + 1].ofs \in Nat /\ NextOfs(idx[a.seq + 1]) = idx[a.seq + 1].ofs + a.len
    BY <2>1, <2>3 DEF Entry, NextOfs
  <2>. QED
    BY <2>1, <2>2, <2>4, HeldBytes DEF Holds
<1>. QED
  BY IInvHolds, <1>1, PTL

(* jpjn_next_idx: every record starts where the last one ends.             *)
THEOREM RecordsInLine == ASSUME ~Interrupts PROVE Spec => []RecordsContiguous
<1>1. IInv => RecordsContiguous
  BY DEF IInv, Good, InLine, RecordsContiguous
<1>. QED
  BY IInvHolds, <1>1, PTL

(* jpjn_read: the bytes read are those of one record, as it was written.   *)
THEOREM ReadsGetRecords == ASSUME ~Interrupts PROVE Spec => ReadsAreWhole
<1>. DEFINE Whole(r) == ReadData(r) /\ ~raced =>
              NextOfs(loc[r]) <= Len(dat)
              /\ \E a \in acked : a.seq = loc[r].seq /\ BytesRead(r) = Bytes(a.data, a.len)
<1>1. IInv => \A r \in Readers : Whole(r)
  <2>. SUFFICES ASSUME Good, NEW r \in Readers, ReadData(r)
                PROVE  NextOfs(loc[r]) <= Len(dat)
                       /\ \E a \in acked : a.seq = loc[r].seq /\ BytesRead(r) = Bytes(a.data, a.len)
    BY DEF IInv
  <2>1. pc[r] = "bytes" /\ r \in Users
    BY DEF ReadData, At, Users
  <2>2. /\ loc[r] \in [seq : Nat, ofs : Nat, len : Nat] /\ loc[r].seq < Len(idx)
        /\ loc[r].ofs = idx[loc[r].seq + 1].ofs /\ loc[r].len = idx[loc[r].seq + 1].len
    BY <2>1 DEF Good, Ready, ReaderReady, At
  <2>3. idx \in Seq(Entry) /\ dat \in Seq(Data \cup {Zero}) /\ Len(idx) \in Nat
    BY LenProperties DEF Good, Shape
  <2>4. NoneTruncates
    BY <2>1, InsideAlone DEF At
  <2>5. loc[r].seq + 1 \in 1 .. Len(idx)
    BY <2>2, <2>3
  <2>6. PICK a \in acked : a.seq = loc[r].seq
    <3>. DEFINE k == loc[r].seq + 1
    <3>1. k \in 1 .. Len(idx)
      BY <2>5
    <3>. HIDE DEF k
    <3>2. \E a \in acked : a.seq = k - 1
      BY <2>4, <3>1 DEF Good, AllAcked
    <3>3. k - 1 = loc[r].seq
      BY <2>2 DEF k
    <3>. QED
      BY <3>2, <3>3
  <2>7. a.len = loc[r].len /\ Holds(loc[r].ofs, loc[r].len, a.data)
    BY <2>2, <2>6 DEF Good, Kept
  <2>8. loc[r].ofs \in Nat /\ loc[r].len \in Nat /\ NextOfs(loc[r]) = loc[r].ofs + loc[r].len
    BY <2>2 DEF NextOfs
  <2>9. SubSeq(dat, loc[r].ofs + 1, loc[r].ofs + loc[r].len) = Bytes(a.data, loc[r].len)
    BY <2>3, <2>7, <2>8, HeldBytes
  <2>10. BytesRead(r) = Bytes(a.data, a.len)
    BY <2>7, <2>8, <2>9 DEF BytesRead
  <2>11. NextOfs(loc[r]) <= Len(dat)
    BY <2>7, <2>8 DEF Holds
  <2>. QED
    BY <2>6, <2>10, <2>11
<1>2. IInv => [\A r \in Readers : Whole(r)]_vars
  BY <1>1
<1>. QED
  BY IInvHolds, <1>2, PTL DEF ReadsAreWhole

(***************************************************************************)
(* Where the records lie does not depend on who empties the files, or      *)
(* when: a writer keeps the lock, so that the index is as long as it found *)
(* it, or has been emptied since and is empty still.                       *)
(***************************************************************************)
Stages ==
  /\ DOMAIN pc = Procs /\ DOMAIN loc = Procs
  /\ \A w \in Writers : pc[w] \in {"idle", "wstat", "next", "data", "index"}
  /\ \A r \in Readers : pc[r] \in {"idle", "rstat", "entry", "bytes"}
  /\ \A i \in Initers : pc[i] \in {"idle", "inited", "truncdat", "truncidx"}

Below(ofs) == \A k \in 1 .. Len(idx) : NextOfs(idx[k]) <= ofs \/ idx[k].len = 0

Ahead(w) ==
  ~At(w, "idle") =>
    /\ loc[w] \in [seq : Nat, data : Data, len : Lens, ofs : Nat]
    /\ pc[w] \in {"wstat", "next"} => loc[w].ofs = 0
    /\ pc[w] \in {"next", "data", "index"} => loc[w].seq = Len(idx) \/ idx = <<>>
    /\ pc[w] \in {"data", "index"} => Below(loc[w].ofs)

Placed ==
  /\ idx \in Seq(Entry)
  /\ Stages /\ Locked /\ RecordsDisjoint
  /\ \A w \in Writers : Ahead(w)

LEMMA InitPlaced == Init => Placed
<1>. SUFFICES ASSUME Init PROVE Placed
  OBVIOUS
<1>1. /\ idx = <<>> /\ Len(idx) = 0 /\ DOMAIN idx = {} /\ lock = NoProc
      /\ DOMAIN pc = Procs /\ DOMAIN loc = Procs
      /\ \A p \in Procs : pc[p] = "idle"
  BY DEF Init
<1>2. idx \in Seq(Entry)
  BY <1>1
<1>3. Stages
  BY <1>1 DEF Stages, Procs
<1>4. Locked
  BY <1>1, JournalAssumption DEF Locked, At, Users, Procs
<1>5. RecordsDisjoint
  BY <1>1 DEF RecordsDisjoint
<1>6. \A w \in Writers : Ahead(w)
  BY <1>1 DEF Ahead, At, Procs
<1>. QED
  BY <1>2, <1>3, <1>4, <1>5, <1>6 DEF Placed

(* The locks after a step of a process that has or takes or leaves its own.*)
LEMMA LockFollows ==
  ASSUME Locked, NEW p \in Procs,
         \A q \in Procs \ {p} : pc'[q] = pc[q],
         \/ pc'[p] = "idle" /\ lock' = IF lock = p THEN NoProc ELSE lock
         \/ p \in Users /\ lock = NoProc /\ lock' = p /\ pc'[p] # "idle"
         \/ pc'[p] # "idle" /\ pc[p] # "idle" /\ UNCHANGED lock
         \/ p \notin Users /\ UNCHANGED lock
  PROVE  Locked'
BY Classes DEF Locked, At

LEMMA OneInside ==
  ASSUME Locked, NEW p \in Users, ~At(p, "idle")
  PROVE  \A q \in Users \ {p} : At(q, "idle")
BY DEF Locked

(* A step that leaves the index as it is.                                  *)
LEMMA SameIndex ==
  ASSUME Placed, NEW p \in Procs, UNCHANGED idx,
         DOMAIN pc' = Procs, DOMAIN loc' = Procs,
         \A q \in Procs \ {p} : pc'[q] = pc[q] /\ loc'[q] = loc[q],
         Locked',
         p \in Writers => pc'[p] \in {"idle", "wstat", "next", "data", "index"} /\ Ahead(p)',
         p \in Readers => pc'[p] \in {"idle", "rstat", "entry", "bytes"},
         p \in Initers => pc'[p] \in {"idle", "inited", "truncdat", "truncidx"}
  PROVE  Placed'
<1>1. Stages'
  BY Classes DEF Stages, Placed
<1>2. RecordsDisjoint'
  BY DEF RecordsDisjoint, Placed, NextOfs
<1>3. ASSUME NEW w \in Writers \ {p} PROVE Ahead(w)'
  <2>1. pc'[w] = pc[w] /\ loc'[w] = loc[w] /\ Ahead(w)
    BY Classes DEF Placed
  <2>. QED
    BY <2>1 DEF Ahead, At, Below, NextOfs
<1>4. \A w \in Writers : Ahead(w)'
  BY <1>3
<1>5. (idx \in Seq(Entry))'
  BY DEF Placed
<1>. QED
  BY <1>1, <1>2, <1>4, <1>5 DEF Placed

LEMMA LeavePlaced ==
  ASSUME Placed, NEW p \in Procs, Leave(p), UNCHANGED idx
  PROVE  Placed'
<1>1. /\ DOMAIN pc' = Procs /\ DOMAIN loc' = Procs
      /\ \A q \in Procs \ {p} : pc'[q] = pc[q] /\ loc'[q] = loc[q]
      /\ pc'[p] = "idle" /\ lock' = IF lock = p THEN NoProc ELSE lock
  BY DEF Leave, Goto, Placed, Stages
<1>2. Locked'
  BY <1>1, LockFollows DEF Placed
<1>3. Ahead(p)'
  BY <1>1 DEF Ahead, At
<1>. QED
  BY <1>1, <1>2, <1>3, SameIndex

(* A step of one call: pc and loc of its process, the lock as it was.      *)
LEMMA CallPlaced ==
  ASSUME Placed, NEW p \in Procs, UNCHANGED <<idx, lock>>, NEW to, NEW l,
         pc' = [pc EXCEPT ![p] = to], loc' = [loc EXCEPT ![p] = l] \/ UNCHANGED loc,
         p \notin Users \/ (pc[p] # "idle" /\ to # "idle"),
         p \in Writers => to \in {"idle", "wstat", "next", "data", "index"} /\ Ahead(p)',
         p \in Readers => to \in {"idle", "rstat", "entry", "bytes"},
         p \in Initers => to \in {"idle", "inited", "truncdat", "truncidx"}
  PROVE  Placed'
<1>1. /\ DOMAIN pc' = Procs /\ DOMAIN loc' = Procs
      /\ \A q \in Procs \ {p} : pc'[q] = pc[q] /\ loc'[q] = loc[q]
      /\ pc'[p] = to
  BY DEF Placed, Stages
<1>2. Locked'
  BY <1>1, LockFollows DEF Placed
<1>. QED
  BY <1>1, <1>2, SameIndex

LEMMA StartPlaced ==
  ASSUME Placed, ~Interrupts, NEW p \in Users, NEW l, NEW next, Start(p, l, next),
         \/ p \in Writers /\ next = "wstat"
            /\ l \in [seq : Nat, data : Data, len : Lens, ofs : {0}]
         \/ p \in Readers /\ next = "rstat"
  PROVE  Placed'
<1>1. /\ UNCHANGED idx /\ lock = NoProc /\ lock' = p
      /\ pc' = [pc EXCEPT ![p] = next] /\ loc' = [loc EXCEPT ![p] = l]
  BY DEF Start, Goto, files
<1>2. /\ DOMAIN pc' = Procs /\ DOMAIN loc' = Procs
      /\ \A q \in Procs \ {p} : pc'[q] = pc[q] /\ loc'[q] = loc[q]
      /\ pc'[p] = next /\ loc'[p] = l /\ p \in Procs
  BY <1>1, Classes DEF Placed, Stages
<1>3. Locked'
  BY <1>1, <1>2, LockFollows DEF Placed
<1>4. p \in Writers => Ahead(p)'
  BY <1>2, Classes DEF Ahead, At
<1>. QED
  BY <1>1, <1>2, <1>3, <1>4, Classes, SameIndex

LEMMA StatPlaced ==
  ASSUME Placed, NEW p \in Users, Stat(p)
  PROVE  Placed'
<1>1. UNCHANGED idx /\ pc[p] \in {"wstat", "rstat"} /\ p \in Procs
  BY Classes DEF Stat, files
<1>2. CASE torn
  BY <1>1, <1>2, LeavePlaced DEF Stat
<1>3. CASE ~torn /\ p \in Writers
  <2>1. pc[p] = "wstat"
    BY <1>1, <1>3 DEF Placed, Stages
  <2>2. /\ pc' = [pc EXCEPT ![p] = "next"] /\ UNCHANGED lock
        /\ loc' = [loc EXCEPT ![p].seq = Len(idx)]
    BY <1>3, <2>1 DEF Stat, Goto, At
  <2>3. /\ loc[p] \in [seq : Nat, data : Data, len : Lens, ofs : Nat]
        /\ loc[p].ofs = 0
    BY <1>3, <2>1 DEF Placed, Ahead, At
  <2>4. Len(idx) \in Nat
    BY LenProperties DEF Placed
  <2>. DEFINE l == [loc[p] EXCEPT !.seq = Len(idx)]
  <2>5. loc' = [loc EXCEPT ![p] = l] /\ loc'[p] = l /\ pc'[p] = "next"
    BY <1>1, <2>2 DEF Placed, Stages
  <2>6. /\ l \in [seq : Nat, data : Data, len : Lens, ofs : Nat]
        /\ l.ofs = 0 /\ l.seq = Len(idx)
    BY <2>3, <2>4
  <2>. HIDE DEF l
  <2>7. Ahead(p)'
    BY <1>1, <2>5, <2>6 DEF Ahead, At
  <2>. QED
    BY <1>1, <1>3, <2>1, <2>2, <2>5, <2>7, Classes, CallPlaced
<1>4. CASE ~torn /\ p \in Readers
  <2>1. pc[p] = "rstat"
    BY <1>1, <1>4 DEF Placed, Stages
  <2>2. pc' = [pc EXCEPT ![p] = "entry"] /\ UNCHANGED <<lock, loc>>
    BY <1>4, <2>1 DEF Stat, Goto, At
  <2>. QED
    BY <1>1, <1>4, <2>1, <2>2, Classes, CallPlaced
<1>. QED
  BY <1>2, <1>3, <1>4, Classes

LEMMA NextIdxPlaced ==
  ASSUME Placed, NEW w \in Writers, NextIdx(w)
  PROVE  Placed'
<1>1. UNCHANGED idx /\ pc[w] = "next" /\ w \in Users /\ w \in Procs
  BY Classes DEF NextIdx, files, At
<1>2. /\ loc[w] \in [seq : Nat, data : Data, len : Lens, ofs : Nat]
      /\ loc[w].ofs = 0 /\ (loc[w].seq = Len(idx) \/ idx = <<>>)
  BY <1>1 DEF Placed, Ahead, At
<1>3. idx \in Seq(Entry) /\ Len(idx) \in Nat
  BY LenProperties DEF Placed
<1>4. CASE loc[w].seq = 0
  <2>1. pc' = [pc EXCEPT ![w] = "data"] /\ UNCHANGED <<lock, loc>>
    BY <1>4 DEF NextIdx, Goto
  <2>2. Len(idx) = 0
    BY <1>2, <1>3, <1>4, EmptySeq
  <2>3. pc'[w] = "data" /\ loc'[w] = loc[w]
    BY <1>1, <2>1 DEF Placed, Stages
  <2>4. Ahead(w)'
    BY <1>1, <1>2, <2>2, <2>3 DEF Ahead, At, Below
  <2>. QED
    BY <1>1, <2>1, <2>4, Classes, CallPlaced
<1>5. CASE loc[w].seq # 0 /\ loc[w].seq > Len(idx)
  BY <1>1, <1>5, LeavePlaced DEF NextIdx
<1>6. CASE loc[w].seq # 0 /\ ~(loc[w].seq > Len(idx))
  <2>1. loc[w].seq = Len(idx) /\ Len(idx) \in 1 .. Len(idx)
    BY <1>2, <1>3, <1>6, EmptySeq
  <2>. DEFINE last == idx[Len(idx)]
  <2>. DEFINE l == [loc[w] EXCEPT !.ofs = NextOfs(last)]
  <2>2. last \in Entry
    BY <1>3, <2>1, ElementOfSeq
  <2>3. NextOfs(last) \in Nat /\ NextOfs(last) >= last.ofs
    BY <2>2 DEF NextOfs, Entry
  <2>4. /\ pc' = [pc EXCEPT ![w] = "data"] /\ UNCHANGED lock
        /\ loc' = [loc EXCEPT ![w].ofs = NextOfs(last)]
    BY <1>6, <2>1 DEF NextIdx, Goto
  <2>5. loc' = [loc EXCEPT ![w] = l] /\ loc'[w] = l /\ pc'[w] = "data"
    BY <1>1, <2>4 DEF Placed, Stages
  <2>6. /\ l \in [seq : Nat, data : Data, len : Lens, ofs : Nat]
        /\ l.ofs = NextOfs(last) /\ l.seq = Len(idx)
    BY <1>2, <2>1, <2>3
  <2>. HIDE DEF l
  <2>7. Below(NextOfs(last))
    <3>. SUFFICES ASSUME NEW k \in 1 .. Len(idx), idx[k].len # 0
                  PROVE  NextOfs(idx[k]) <= NextOfs(last)
      BY DEF Below
    <3>1. CASE k = Len(idx)
      BY <2>3, <3>1
    <3>2. CASE k # Len(idx)
      <4>1. k < Len(idx) /\ k \in DOMAIN idx /\ Len(idx) \in DOMAIN idx
        BY <1>3, <2>1, <3>2
      <4>2. NextOfs(idx[k]) <= last.ofs
        BY <4>1 DEF Placed, RecordsDisjoint
      <4>3. NextOfs(idx[k]) \in Nat
        <5>1. idx[k] \in Entry
          BY <1>3, ElementOfSeq
        <5>. QED
          BY <5>1 DEF NextOfs, Entry
      <4>4. last.ofs \in Nat
        BY <2>2 DEF Entry
      <4>. HIDE DEF last
      <4>. QED
        BY <2>3, <4>2, <4>3, <4>4
    <3>. QED
      BY <3>1, <3>2
  <2>. HIDE DEF last
  <2>8. Ahead(w)'
    BY <1>1, <2>5, <2>6, <2>7 DEF Ahead, At, Below, NextOfs
  <2>. QED
    BY <1>1, <2>4, <2>5, <2>8, Classes, CallPlaced
<1>. QED
  BY <1>4, <1>5, <1>6

LEMMA WriteDataPlaced ==
  ASSUME Placed, NEW w \in Writers, WriteData(w)
  PROVE  Placed'
<1>1. UNCHANGED idx /\ pc[w] = "data" /\ w \in Users /\ w \in Procs
  BY Classes DEF WriteData, At
<1>2. CASE Leave(w)
  BY <1>1, <1>2, LeavePlaced
<1>3. CASE Goto(w, "index") /\ UNCHANGED <<loc, lock>>
  <2>1. pc' = [pc EXCEPT ![w] = "index"]
    BY <1>3 DEF Goto
  <2>2. pc'[w] = "index" /\ loc'[w] = loc[w]
    BY <1>1, <1>3, <2>1 DEF Placed, Stages
  <2>3. Ahead(w)'
    BY <1>1, <2>2 DEF Ahead, At, Below, NextOfs, Placed
  <2>. QED
    BY <1>1, <1>3, <2>1, <2>3, Classes, CallPlaced
<1>. QED
  BY <1>2, <1>3 DEF WriteData

(* The entry comes behind the last one, or behind holes in an index that   *)
(* has been emptied.                                                       *)
LEMMA WriteIndexPlaced ==
  ASSUME Placed, NEW w \in Writers, WriteIndex(w)
  PROVE  Placed'
<1>1. pc[w] = "index" /\ w \in Users /\ w \in Procs /\ Leave(w)
  BY Classes DEF WriteIndex, At
<1>2. CASE UNCHANGED idx
  BY <1>1, <1>2, LeavePlaced
<1>. DEFINE l == loc[w]
<1>. DEFINE e == [ofs |-> l.ofs, len |-> l.len]
<1>3. CASE idx' = Written(idx, l.seq, <<e>>, Hole)
  <2>1. /\ l \in [seq : Nat, data : Data, len : Lens, ofs : Nat]
        /\ (l.seq = Len(idx) \/ idx = <<>>) /\ Below(l.ofs)
    BY <1>1 DEF Placed, Ahead, At
  <2>2. idx \in Seq(Entry) /\ Len(idx) \in Nat /\ (idx = <<>> <=> Len(idx) = 0)
    BY LenProperties, EmptySeq DEF Placed
  <2>3. e \in Entry /\ Hole \in Entry /\ l.seq \in Nat /\ l.ofs \in Nat
    BY <2>1, JournalAssumption DEF Entry, Hole
  <2>. DEFINE n == l.seq
  <2>4. <<e>> \in Seq(Entry) /\ Len(<<e>>) = 1 /\ <<e>>[1] = e
    BY <2>3
  <2>. HIDE DEF e, l
  <2>5. /\ idx' \in Seq(Entry) /\ WrittenAs(idx', idx, n, <<e>>)
    BY <1>3, <2>2, <2>3, <2>4, WrittenPlaces
  <2>6. n >= Len(idx)
    BY <2>1, <2>2, <2>3
  <2>7. /\ Len(idx') = n + 1 /\ idx'[n + 1] = e
        /\ \A k \in 1 .. Len(idx) : idx'[k] = idx[k]
    <3>1. n \in Nat /\ n + 1 \in n + 1 .. n + 1 /\ (n + 1) - n = 1
      BY <2>3 DEF l
    <3>2. Len(idx') = n + 1
      BY <2>2, <2>4, <2>5, <2>6, <3>1 DEF WrittenAs
    <3>3. idx'[n + 1] = <<e>>[(n + 1) - n]
      BY <2>4, <2>5, <3>1 DEF WrittenAs
    <3>4. \A k \in 1 .. Len(idx) : idx'[k] = idx[k]
      BY <2>2, <2>5, <2>6, <3>1 DEF WrittenAs
    <3>. QED
      BY <2>4, <3>1, <3>2, <3>3, <3>4
  <2>8. \A k \in 1 .. n : k > Len(idx) => idx'[k] = Hole
    BY <1>3, <2>2, <2>3, <2>4, <2>6 DEF Written
  <2>9. DOMAIN idx' = 1 .. n + 1
    BY <2>5, <2>7, LenProperties
  <2>10. ASSUME NEW j \in DOMAIN idx', NEW k \in DOMAIN idx', j < k, idx'[j].len # 0
         PROVE  NextOfs(idx'[j]) <= idx'[k].ofs
    <3>1. j \in 1 .. n /\ k \in 1 .. n + 1
      BY <2>3, <2>9, <2>10
    <3>2. j \in 1 .. Len(idx)
      BY <2>2, <2>8, <2>10, <3>1 DEF Hole
    <3>3. n = Len(idx)
      BY <2>1, <2>2, <3>2 DEF l
    <3>4. CASE k = n + 1
      BY <2>1, <2>7, <2>10, <3>2, <3>4 DEF Below, e
    <3>5. CASE k # n + 1
      <4>1. k \in 1 .. Len(idx) /\ j \in DOMAIN idx /\ k \in DOMAIN idx
        BY <2>2, <3>1, <3>2, <3>3, <3>5
      <4>. QED
        BY <2>7, <2>10, <3>2, <4>1 DEF Placed, RecordsDisjoint
    <3>. QED
      BY <3>4, <3>5
  <2>11. RecordsDisjoint'
    BY <2>10 DEF RecordsDisjoint, NextOfs
  <2>12. /\ DOMAIN pc' = Procs /\ DOMAIN loc' = Procs
         /\ \A q \in Procs \ {w} : pc'[q] = pc[q] /\ loc'[q] = loc[q]
         /\ pc'[w] = "idle" /\ lock' = IF lock = w THEN NoProc ELSE lock
    BY <1>1 DEF Leave, Goto, Placed, Stages
  <2>13. Locked'
    BY <1>1, <2>12, LockFollows DEF Placed
  <2>14. Stages'
    BY <2>12, Classes DEF Stages, Placed
  <2>15. \A v \in Writers : pc'[v] = "idle"
    <3>1. \A q \in Users \ {w} : At(q, "idle")
      BY <1>1, OneInside DEF At, Placed
    <3>. QED
      BY <2>12, <3>1, Classes DEF At
  <2>16. \A v \in Writers : Ahead(v)'
    BY <2>15 DEF Ahead, At
  <2>. QED
    BY <2>5, <2>11, <2>13, <2>14, <2>16 DEF Placed
<1>. QED
  BY <1>2, <1>3 DEF WriteIndex

LEMMA ReaderPlaced ==
  ASSUME Placed, NEW r \in Readers, ReadEntry(r) \/ ReadData(r)
  PROVE  Placed'
<1>1. UNCHANGED idx /\ r \in Users /\ r \in Procs /\ r \notin Writers /\ r \notin Initers
  BY Classes DEF ReadEntry, ReadData, files
<1>2. CASE Leave(r)
  BY <1>1, <1>2, LeavePlaced
<1>3. CASE ~Leave(r)
  <2>1. /\ pc[r] = "entry" /\ pc' = [pc EXCEPT ![r] = "bytes"] /\ UNCHANGED lock
        /\ loc' = [loc EXCEPT ![r].ofs = idx[loc[r].seq + 1].ofs,
                              ![r].len = idx[loc[r].seq + 1].len]
    BY <1>3 DEF ReadEntry, ReadData, Goto, At
  <2>2. loc' = [loc EXCEPT ![r] = loc'[r]]
    BY <1>1, <2>1 DEF Placed, Stages
  <2>. QED
    BY <1>1, <2>1, <2>2, CallPlaced
<1>. QED
  BY <1>2, <1>3

(* An initialisation, beside whomever it runs.                             *)
LEMMA InitPlacedToo ==
  ASSUME Placed, NEW i \in Initers,
         InitDaily(i) \/ InitCreat(i) \/ TruncDat(i) \/ TruncIdx(i) \/ InitReturns(i)
  PROVE  Placed'
<1>1. i \in Procs /\ i \notin Users /\ i \notin Writers /\ i \notin Readers
  BY Classes
<1>2. /\ UNCHANGED <<lock, loc>>
      /\ \E to \in {"idle", "inited", "truncdat", "truncidx"} : pc' = [pc EXCEPT ![i] = to]
      /\ idx' = <<>> \/ UNCHANGED idx
  BY DEF InitDaily, InitCreat, TruncDat, TruncIdx, InitReturns, Goto, files
<1>3. PICK to \in {"idle", "inited", "truncdat", "truncidx"} : pc' = [pc EXCEPT ![i] = to]
  BY <1>2
<1>4. CASE UNCHANGED idx
  BY <1>1, <1>2, <1>3, <1>4, CallPlaced
<1>5. CASE idx' = <<>>
  <2>1. idx' \in Seq(Entry) /\ Len(idx') = 0 /\ DOMAIN idx' = {}
    BY <1>5
  <2>2. /\ DOMAIN pc' = Procs /\ DOMAIN loc' = Procs
        /\ \A q \in Procs \ {i} : pc'[q] = pc[q] /\ loc'[q] = loc[q]
        /\ pc'[i] = to
    BY <1>1, <1>2, <1>3 DEF Placed, Stages
  <2>3. Locked'
    BY <1>1, <1>2, <2>2, LockFollows DEF Placed
  <2>4. Stages'
    BY <1>1, <2>2, Classes DEF Stages, Placed
  <2>5. RecordsDisjoint'
    BY <2>1 DEF RecordsDisjoint
  <2>6. \A w \in Writers : pc'[w] = pc[w] /\ loc'[w] = loc[w] /\ Ahead(w)
    BY <1>1, <2>2, Classes DEF Placed
  <2>7. \A w \in Writers : Ahead(w)'
    BY <1>5, <2>1, <2>6 DEF Ahead, At, Below
  <2>. QED
    BY <2>1, <2>3, <2>4, <2>5, <2>7 DEF Placed
<1>. QED
  BY <1>2, <1>4, <1>5

LEMMA CrashPlaced ==
  ASSUME Placed, NEW p \in Procs, Crash(p)
  PROVE  Placed'
<1>1. Leave(p) /\ UNCHANGED idx
  BY DEF Crash, files
<1>. QED
  BY <1>1, LeavePlaced

LEMMA StillPlaced ==
  ASSUME Placed, UNCHANGED <<idx, lock, pc, loc>>
  PROVE  Placed'
BY DEF Placed, Stages, Locked, At, RecordsDisjoint, Ahead, Below, NextOfs

LEMMA PlacedStep == ASSUME ~Interrupts PROVE Placed /\ [Next]_vars => Placed'
<1>. SUFFICES ASSUME Placed, [Next]_vars PROVE Placed'
  OBVIOUS
<1>1. ASSUME NEW w \in Writers, NEW d \in Data, NEW n \in Lens, StartWrite(w, d, n)
      PROVE  Placed'
  <2>1. [seq |-> 0, data |-> d, len |-> n, ofs |-> 0]
          \in [seq : Nat, data : Data, len : Lens, ofs : {0}]
    OBVIOUS
  <2>. QED
    BY <1>1, <2>1, Classes, StartPlaced DEF StartWrite
<1>2. ASSUME NEW r \in Readers, NEW k \in 0 .. MaxEntries - 1, StartRead(r, k)
      PROVE  Placed'
  BY <1>2, Classes, StartPlaced DEF StartRead
<1>3. ASSUME NEW p \in Users, Stat(p) PROVE Placed'
  BY <1>3, StatPlaced
<1>4. ASSUME NEW w \in Writers, NextIdx(w) \/ WriteData(w) \/ WriteIndex(w) PROVE Placed'
  BY <1>4, NextIdxPlaced, WriteDataPlaced, WriteIndexPlaced
<1>5. ASSUME NEW r \in Readers, ReadEntry(r) \/ ReadData(r) PROVE Placed'
  BY <1>5, ReaderPlaced
<1>6. ASSUME NEW i \in Initers,
             InitDaily(i) \/ InitCreat(i) \/ TruncDat(i) \/ TruncIdx(i) \/ InitReturns(i)
      PROVE  Placed'
  BY <1>6, InitPlacedToo
<1>7. ASSUME NEW p \in Procs, Crash(p) PROVE Placed'
  BY <1>7, CrashPlaced
<1>8. CASE Midnight \/ UNCHANGED vars
  BY <1>8, StillPlaced DEF Midnight, vars, files
<1>. QED
  BY <1>1, <1>2, <1>3, <1>4, <1>5, <1>6, <1>7, <1>8 DEF Next, Users

(* jpjn_init takes no lock; still no write puts one record over another.   *)
THEOREM RecordsApart == ASSUME ~Interrupts PROVE Spec => []RecordsDisjoint
<1>1. Placed => RecordsDisjoint
  BY DEF Placed
<1>2. Placed /\ [Next]_vars => Placed'
  BY PlacedStep
<1>. QED
  BY InitPlaced, <1>1, <1>2, PTL DEF Spec

----------------------------------------------------------------------------
(* The sequence file beside the journal: for any number of readers and     *)
(* initialisers, any of them killed, no number is taken twice between two  *)
(* initialisations, as long as the numbers stay below the largest int and  *)
(* nothing follows a number in the array it is read into.                  *)
CONSTANTS SeqReaders, SeqIniters, InitVals, Digits, NoDigit, Half, MaxNum, Killable,
          Absent, Empty, Junk
VARIABLES file, seqlock, seqpc, buf, given

Sq == INSTANCE Sequence WITH Readers <- SeqReaders, Initers <- SeqIniters,
                             lock <- seqlock, pc <- seqpc

(* The premises: adding one does not go past the largest int, and the      *)
(* array was clear.                                                        *)
SqNoWrap == \A r \in SeqReaders : buf[r] # Junk => buf[r] < Half - 1
SqArrayClear == Digits = {NoDigit}

(* Before the first number is stored nobody has read one.                  *)
SqFreshIsEmpty ==
  /\ file = Absent => \A p \in Sq!Procs : seqpc[p] = "idle"
  /\ file \in {Absent, Empty} => given = {} /\ \A p \in Sq!Procs : buf[p] = Junk

(* The file, and the process that is about to write it, are past all       *)
(* numbers taken.                                                          *)
SqFileIsAhead == file \in Sq!CInt => \A g \in given : g < file
SqWriterIsAhead ==
  \A r \in SeqReaders : Sq!At(r, "write") /\ buf[r] # Junk => \A g \in given : g < buf[r]

SqSteps == {"idle", "lock", "read", "write", "close", "store"}

(* The type invariant with the functions it leaves open.                   *)
SqTypes == Sq!TypeOK /\ seqpc \in [Sq!Procs -> SqSteps] /\ buf \in [Sq!Procs -> Sq!CInt \cup {Junk}]

SqIInv == SqTypes /\ SqFreshIsEmpty /\ SqFileIsAhead /\ SqWriterIsAhead

----------------------------------------------------------------------------
LEMMA SqModSmall ==
  ASSUME NEW a \in Nat, NEW b \in Nat \ {0}, a < b
  PROVE  a % b = a
OBVIOUS

(* Nothing happens to a number that fits an int.                           *)
LEMMA SqWrapFits == Sq!SequenceParameters => \A n \in Sq!CInt : Sq!Wrap(n) = n
<1>. SUFFICES ASSUME Sq!SequenceParameters PROVE \A n \in Sq!CInt : Sq!Wrap(n) = n
  OBVIOUS
<1>. TAKE n \in Sq!CInt
<1>1. Half \in Nat \ {0}
  BY DEF Sq!SequenceParameters
<1>2. n + Half \in Nat /\ 2 * Half \in Nat \ {0} /\ n + Half < 2 * Half /\ n \in Int
  BY <1>1 DEF Sq!CInt
<1>3. (n + Half) % (2 * Half) = n + Half
  BY <1>2, SqModSmall
<1>. QED
  BY <1>1, <1>2, <1>3 DEF Sq!Wrap

LEMMA SqValueIsRead ==
  Sq!SequenceParameters /\ SqArrayClear =>
    \A n \in Sq!CInt, d \in Digits : Sq!Value(n, d) = n
BY SqWrapFits DEF SqArrayClear, Sq!Value

LEMMA SqInitInv == Sq!SequenceParameters /\ Sq!Init => SqIInv
<1>. SUFFICES ASSUME Sq!SequenceParameters, Sq!Init PROVE SqIInv
  OBVIOUS
<1>. USE DEF Sq!SequenceParameters, Sq!Init
<1>1. SqTypes
  BY DEF SqTypes, SqSteps, Sq!TypeOK, Sq!CInt, Sq!Procs
<1>2. SqFreshIsEmpty /\ SqFileIsAhead /\ SqWriterIsAhead
  BY DEF SqFreshIsEmpty, SqFileIsAhead, SqWriterIsAhead
<1>. QED
  BY <1>1, <1>2 DEF SqIInv

(* A process that leaves, for whatever reason, disturbs nobody.            *)
LEMMA SqLeaveKeeps ==
  ASSUME Sq!SequenceParameters, SqIInv, NEW p \in Sq!Procs, Sq!Leave(p), UNCHANGED <<file, buf, given>>
  PROVE  SqIInv'
<1>. USE DEF Sq!SequenceParameters, SqIInv, SqTypes, SqSteps, Sq!Leave, Sq!Goto, Sq!At
<1>1. SqTypes'
  BY DEF Sq!TypeOK, Sq!Procs
<1>2. SqFreshIsEmpty' /\ SqFileIsAhead'
  BY DEF SqFreshIsEmpty, SqFileIsAhead
<1>3. SqWriterIsAhead'
  BY DEF SqWriterIsAhead, Sq!Procs
<1>. QED
  BY <1>1, <1>2, <1>3

LEMMA SqReadKeeps ==
  ASSUME Sq!SequenceParameters, SqArrayClear, SqIInv, NEW r \in SeqReaders, Sq!Read(r)
  PROVE  SqIInv'
<1>. USE DEF Sq!SequenceParameters, SqIInv, SqTypes, SqSteps, Sq!Goto, Sq!At, Sq!Read
<1>1. file # Absent /\ r \in Sq!Procs /\ seqlock = r
  BY DEF SqFreshIsEmpty, Sq!Procs, Sq!TypeOK
<1>2. buf' = [buf EXCEPT ![r] = IF file = Empty THEN @ ELSE file]
  BY <1>1, SqValueIsRead DEF SqArrayClear, Sq!TypeOK
<1>3. SqTypes'
  BY <1>1, <1>2 DEF Sq!TypeOK, Sq!Procs
<1>4. SqFreshIsEmpty' /\ SqFileIsAhead'
  BY <1>1, <1>2 DEF SqFreshIsEmpty, SqFileIsAhead
<1>5. ASSUME NEW x \in SeqReaders, Sq!At(x, "write")', buf'[x] # Junk, NEW g \in given
      PROVE  g < buf'[x]
  <2>1. CASE x = r
    BY <1>1, <1>2, <1>5, <2>1 DEF SqFreshIsEmpty, SqFileIsAhead, Sq!TypeOK
  <2>2. CASE x # r
    BY <1>1, <1>2, <1>5, <2>2 DEF Sq!TypeOK, Sq!Procs
  <2>. QED
    BY <2>1, <2>2
<1>6. SqWriterIsAhead'
  BY <1>5 DEF SqWriterIsAhead
<1>. QED
  BY <1>3, <1>4, <1>6

LEMMA SqWriteKeeps ==
  ASSUME Sq!SequenceParameters, SqNoWrap, SqIInv, NEW r \in SeqReaders, Sq!Write(r)
  PROVE  SqIInv' /\ buf[r] \notin given
<1>. USE DEF Sq!SequenceParameters, SqIInv, SqTypes, SqSteps, Sq!Goto, Sq!At, Sq!Write
<1>1. r \in Sq!Procs /\ seqlock = r /\ buf[r] \in Sq!CInt /\ buf[r] + 1 \in Sq!CInt
  BY DEF Sq!TypeOK, Sq!Procs, SqNoWrap, Sq!CInt
<1>2. file' = buf[r] + 1
  BY <1>1, SqWrapFits
<1>3. SqTypes'
  BY <1>1, <1>2 DEF Sq!TypeOK, Sq!Procs
<1>4. \A g \in given : g \in Int /\ g < buf[r]
  BY <1>1 DEF SqWriterIsAhead, Sq!TypeOK, Sq!CInt
<1>5. SqFreshIsEmpty'
  <2>1. file' \notin {Absent, Empty}
    BY <1>1, <1>2 DEF Sq!CInt
  <2>. QED
    BY <2>1 DEF SqFreshIsEmpty
<1>6. SqFileIsAhead'
  BY <1>1, <1>2, <1>4 DEF SqFileIsAhead, Sq!CInt
<1>7. SqWriterIsAhead'
  BY <1>1 DEF SqWriterIsAhead, Sq!TypeOK
<1>. QED
  BY <1>1, <1>3, <1>4, <1>5, <1>6, <1>7 DEF Sq!CInt

LEMMA SqStepInv ==
  ASSUME Sq!SequenceParameters, SqArrayClear
  PROVE  SqNoWrap /\ SqIInv /\ [Sq!Next]_(Sq!vars) => SqIInv'
<1>. SUFFICES ASSUME SqNoWrap, SqIInv, [Sq!Next]_(Sq!vars) PROVE SqIInv'
  OBVIOUS
<1>1. ASSUME NEW r \in SeqReaders, Sq!StartRead(r) \/ Sq!GetLock(r) PROVE SqIInv'
  <2>. USE DEF Sq!SequenceParameters, SqIInv, SqTypes, SqSteps, Sq!Goto, Sq!At, Sq!StartRead, Sq!GetLock
  <2>1. r \in Sq!Procs /\ file # Absent /\ UNCHANGED <<file, buf, given>>
    BY <1>1 DEF Sq!Procs, SqFreshIsEmpty
  <2>2. SqTypes'
    BY <1>1, <2>1 DEF Sq!TypeOK, Sq!Procs
  <2>3. SqFreshIsEmpty' /\ SqFileIsAhead'
    BY <2>1 DEF SqFreshIsEmpty, SqFileIsAhead
  <2>4. \A x \in SeqReaders : Sq!At(x, "write")' => Sq!At(x, "write")
    BY <1>1, <2>1 DEF Sq!Procs
  <2>5. SqWriterIsAhead'
    BY <2>1, <2>4 DEF SqWriterIsAhead
  <2>. QED
    BY <2>2, <2>3, <2>5
<1>2. ASSUME NEW r \in SeqReaders, Sq!LockRefused(r) \/ Sq!BadName(r) \/ Sq!Fails(r) \/ Sq!Return(r)
      PROVE  SqIInv'
  BY <1>2, SqLeaveKeeps DEF Sq!LockRefused, Sq!BadName, Sq!Fails, Sq!Return, Sq!Procs
<1>3. ASSUME NEW r \in SeqReaders, Sq!Read(r) \/ Sq!Write(r) PROVE SqIInv'
  BY <1>3, SqReadKeeps, SqWriteKeeps
<1>4. ASSUME NEW i \in SeqIniters, Sq!InitOpen(i) \/ Sq!InitStore(i) PROVE SqIInv'
  <2>. USE DEF Sq!SequenceParameters, SqIInv, SqTypes, SqSteps, Sq!Goto, Sq!At, Sq!InitOpen, Sq!InitStore
  <2>1. i \in Sq!Procs /\ buf' = buf /\ given' \subseteq given
    BY <1>4 DEF Sq!Procs
  <2>2. file' \in Sq!CInt \cup {Absent, Empty} /\ file' # Absent
    BY <1>4 DEF Sq!TypeOK, Sq!CInt
  <2>3. SqTypes'
    BY <1>4, <2>1, <2>2 DEF Sq!TypeOK, Sq!Procs
  <2>4. SqFreshIsEmpty'
    <3>1. CASE Sq!InitOpen(i)
      BY <2>1, <2>2, <3>1 DEF SqFreshIsEmpty
    <3>2. CASE Sq!InitStore(i)
      BY <2>2, <3>2 DEF SqFreshIsEmpty, Sq!CInt
    <3>. QED
      BY <1>4, <3>1, <3>2
  <2>5. SqFileIsAhead'
    BY <1>4 DEF SqFileIsAhead, Sq!CInt
  <2>6. \A x \in SeqReaders : Sq!At(x, "write")' => Sq!At(x, "write")
    BY <1>4, <2>1 DEF Sq!Procs
  <2>7. SqWriterIsAhead'
    BY <2>1, <2>6 DEF SqWriterIsAhead
  <2>. QED
    BY <2>3, <2>4, <2>5, <2>7
<1>5. ASSUME NEW p \in Sq!Procs, Sq!Crash(p) PROVE SqIInv'
  BY <1>5, SqLeaveKeeps DEF Sq!Crash
<1>6. CASE UNCHANGED Sq!vars
  BY <1>6 DEF Sq!vars, SqIInv, SqTypes, Sq!TypeOK, SqFreshIsEmpty, SqFileIsAhead, SqWriterIsAhead, Sq!At
<1>. QED
  BY <1>1, <1>2, <1>3, <1>4, <1>5, <1>6 DEF Sq!Next, Sq!ReadStep

(* A step that stores a number stores one that was not taken.              *)
LEMMA SqStepTakenOnce ==
  Sq!SequenceParameters /\ SqNoWrap /\ SqIInv =>
    \A r \in SeqReaders : Sq!Write(r) => buf[r] \notin given
BY SqWriteKeeps

(* While there are numbers left and the array is clear, no number is taken *)
(* twice, whoever reads, initialises or is killed.                         *)
THEOREM NumbersTakenOnce ==
  ASSUME Sq!SequenceParameters, SqArrayClear
  PROVE  Sq!Spec /\ []SqNoWrap => Sq!TakenOnce
<1>1. Sq!Init => SqIInv
  BY SqInitInv
<1>2. SqNoWrap /\ SqIInv /\ [Sq!Next]_(Sq!vars) => SqIInv'
  BY SqStepInv
<1>3. SqNoWrap /\ SqIInv => \A r \in SeqReaders : Sq!Write(r) => buf[r] \notin given
  BY SqStepTakenOnce
<1>. QED
  BY <1>1, <1>2, <1>3, PTL DEF Sq!Spec, Sq!TakenOnce
=============================================================================
