-------------------------- MODULE Scheduler_proofs --------------------------
(***************************************************************************)
(* For any lines, jobs, configurations and periods: jpcomd knows every     *)
(* process it has started for a program that no configuration names twice, *)
(* and no such process outlives it; every pid it keeps is that of a child  *)
(* it has not waited for; and every job is started in the minute it is     *)
(* due, unless it is due at midnight and midnight parts the two readings.  *)
(***************************************************************************)
EXTENDS Scheduler, SequenceTheorems, WellFoundedInduction, TLAPS

Things == Lines \cup Jobs
States == Live \cup {"zombie", "reaped"}
Readable == {c \in Confs : c.schd # BadConf}
Windows == {Excluded} \cup UNION {{c.schd[l] : l \in DOMAIN c.schd} : c \in Readable}
Entry == [win : Windows, pid : {NoPid} \cup (Lines \X Nat), ran : BOOLEAN, kil : Nat]
Job == [pid : {NoPid} \cup (Jobs \X Nat), run : {0, 1}]

(* The tables have entries for lines and for jobs, and a pid in them is    *)
(* that of a process that was started.                                     *)
Types ==
  /\ child \in [Things -> Seq(States)]
  /\ DOMAIN sched \subseteq Lines /\ sched \in [DOMAIN sched -> Entry]
  /\ DOMAIN bats \subseteq Jobs /\ bats \in [DOMAIN bats -> Job]
  /\ \A pid \in Pids(sched) : pid[2] \in DOMAIN child[pid[1]]
  /\ \A pid \in Pids(bats) : pid[2] \in DOMAIN child[pid[1]]
  /\ conf \in Confs

IInv == Types /\ ProcessesKnown /\ PidsAreChildren

(* A pid is a pair, of who it was started for and a place.                 *)
LEMMA PairOfPid ==
  ASSUME Types, NEW pid \in Pids(sched) \cup Pids(bats)
  PROVE  pid = <<pid[1], pid[2]>> /\ pid[1] \in Things /\ pid[2] \in DOMAIN child[pid[1]]
<1>1. CASE pid \in Pids(sched)
  <2>1. PICK l \in DOMAIN sched : pid = sched[l].pid /\ pid # NoPid
    BY <1>1 DEF Pids
  <2>2. sched[l].pid \in Lines \X Nat
    BY <2>1 DEF Types, Entry
  <2>. QED
    BY <1>1, <2>1, <2>2 DEF Types, Things
<1>2. CASE pid \in Pids(bats)
  <2>1. PICK j \in DOMAIN bats : pid = bats[j].pid /\ pid # NoPid
    BY <1>2 DEF Pids
  <2>2. bats[j].pid \in Jobs \X Nat
    BY <2>1 DEF Types, Job
  <2>. QED
    BY <1>2, <2>1, <2>2 DEF Types, Things
<1>. QED
  BY <1>1, <1>2

(* The line of a program that no configuration names twice.                *)
LEMMA TheLine ==
  ASSUME NEW p \in Once
  PROVE  FirstLine(p) \in Lines /\ p \in Progs /\ \A l \in Lines : l[1] = p => l = FirstLine(p)
BY SchedulerAssumption DEF Once

LEMMA InitInv == Init => IInv
<1>. SUFFICES ASSUME Init PROVE IInv
  OBVIOUS
<1>1. conf \in Readable /\ DOMAIN conf.schd \subseteq Lines
  BY SchedulerAssumption DEF Init, Readable
<1>2. /\ DOMAIN sched = DOMAIN conf.schd /\ sched \in [DOMAIN sched -> Entry]
      /\ Pids(sched) = {}
  <2>1. \A l \in DOMAIN conf.schd : Listed(conf.schd[l]) \in Entry
                                    /\ Listed(conf.schd[l]).pid = NoPid
    BY <1>1 DEF Listed, Entry, Windows
  <2>. QED
    BY <2>1 DEF Init, LoadSchd, Pids
<1>3. DOMAIN bats = Jobs /\ bats \in [Jobs -> Job] /\ Pids(bats) = {}
  BY DEF Init, LoadBats, FreshJob, Job, Pids
<1>4. child \in [Things -> Seq(States)] /\ \A x \in Things : child[x] = <<>>
  BY DEF Init, Things
<1>5. Types
  BY <1>1, <1>2, <1>3, <1>4 DEF Types, Readable
<1>6. ProcessesKnown
  BY <1>4, TheLine DEF ProcessesKnown, Things
<1>7. PidsAreChildren
  BY <1>2, <1>3 DEF PidsAreChildren, Pids
<1>. QED
  BY <1>5, <1>6, <1>7 DEF IInv

(* The list of a line's or a job's processes, changed place by place.      *)
LEMMA PlaceByPlace ==
  ASSUME NEW S, NEW s \in Seq(S), NEW f \in [DOMAIN s -> S]
  PROVE  f \in Seq(S) /\ DOMAIN f = DOMAIN s
BY SeqDef

LEMMA StatesOf ==
  ASSUME Types, NEW x \in Things, NEW n \in DOMAIN child[x]
  PROVE  child[x][n] \in States /\ n \in Nat \ {0}
BY ElementOfSeq, LenProperties DEF Types

(* A step that waits for nobody and starts nobody, makes no pid up, has    *)
(* each in one entry, and keeps that of a program on one line.             *)
LEMMA Frame ==
  ASSUME IInv, Types', Over => Over',
         \A x \in Things :
           /\ DOMAIN child'[x] = DOMAIN child[x]
           /\ \A n \in DOMAIN child[x] : child'[x][n] = "reaped" <=> child[x][n] = "reaped",
         Pids(sched') \subseteq Pids(sched), Pids(bats') \subseteq Pids(bats),
         \A l, m \in DOMAIN sched' :
           sched'[l].pid = sched'[m].pid => l = m \/ sched'[l].pid = NoPid,
         \A p \in Once :
           LET l == FirstLine(p) IN
             l \in DOMAIN sched /\ sched[l].pid # NoPid
               => l \in DOMAIN sched' /\ sched'[l].pid = sched[l].pid
  PROVE  IInv'
<1>. USE DEF IInv
<1>1. ProcessesKnown'
  <2>. SUFFICES ASSUME NEW p \in Once, NEW n \in DOMAIN child'[FirstLine(p)],
                       child'[FirstLine(p)][n] # "reaped", ~Over'
                PROVE  /\ FirstLine(p) \in DOMAIN sched'
                       /\ sched'[FirstLine(p)].pid = <<FirstLine(p), n>>
    BY DEF ProcessesKnown
  <2>1. FirstLine(p) \in Things
    BY TheLine DEF Things
  <2>2. n \in DOMAIN child[FirstLine(p)] /\ child[FirstLine(p)][n] # "reaped" /\ ~Over
    BY <2>1
  <2>3. FirstLine(p) \in DOMAIN sched /\ sched[FirstLine(p)].pid = <<FirstLine(p), n>>
    BY <2>2 DEF ProcessesKnown
  <2>4. sched[FirstLine(p)].pid # NoPid
    BY <2>3 DEF NoPid
  <2>. QED
    BY <2>3, <2>4
<1>2. ASSUME NEW pid \in Pids(sched') \cup Pids(bats')
      PROVE  Status(pid)' # "reaped"
  <2>1. pid \in Pids(sched) \cup Pids(bats)
    BY <1>2
  <2>2. pid[1] \in Things /\ pid[2] \in DOMAIN child[pid[1]]
    BY <2>1, PairOfPid
  <2>3. Status(pid) # "reaped"
    BY <2>1 DEF PidsAreChildren
  <2>. QED
    BY <2>2, <2>3 DEF Status
<1>. QED
  BY <1>1, <1>2 DEF PidsAreChildren

(* The tables stay as they are.                                            *)
LEMMA TablesStay ==
  ASSUME IInv, UNCHANGED <<sched, bats>>, conf' \in Confs, Over => Over',
         child' \in [Things -> Seq(States)],
         \A x \in Things :
           /\ DOMAIN child'[x] = DOMAIN child[x]
           /\ \A n \in DOMAIN child[x] : child'[x][n] = "reaped" <=> child[x][n] = "reaped"
  PROVE  IInv'
<1>1. Types'
  <2>1. \A pid \in Pids(sched) \cup Pids(bats) : pid[2] \in DOMAIN child'[pid[1]]
    BY PairOfPid DEF IInv
  <2>2. /\ \A pid \in Pids(sched') : pid[2] \in DOMAIN child'[pid[1]]
        /\ \A pid \in Pids(bats') : pid[2] \in DOMAIN child'[pid[1]]
    BY <2>1, sched' = sched, bats' = bats DEF Pids
  <2>3. sched' = sched /\ bats' = bats
    OBVIOUS
  <2>. HIDE DEF Pids
  <2>. QED
    BY <2>2, <2>3 DEF IInv, Types
<1>2. Pids(sched') = Pids(sched) /\ Pids(bats') = Pids(bats)
  BY sched' = sched, bats' = bats DEF Pids
<1>. QED
  BY <1>1, <1>2, Frame DEF IInv, PidsAreChildren

----------------------------------------------------------------------------
(* A set of numbers that is not empty has a least one: the library proves  *)
(* that < is well-founded.                                                 *)
Below == {ss \in Nat \X Nat : ss[1] < ss[2]}

LEMMA BelowIsWellFounded == IsWellFoundedOn(Below, Nat)
BY NatLessThanWellFounded DEF OpToRel, Below

LEMMA LeastOf ==
  ASSUME NEW S \in SUBSET Nat, S # {}
  PROVE  \E i \in S : \A j \in S : i <= j
<1>1. \E i \in S : \A j \in S : ~ (<<j, i>> \in Below)
  BY ONLY S \subseteq Nat, S # {}, BelowIsWellFounded, WFMin
<1>2. PICK i \in S : \A j \in S : ~ (<<j, i>> \in Below)
  BY <1>1
<1>3. ASSUME NEW j \in S PROVE i <= j
  <2>1. i \in Nat /\ j \in Nat
    OBVIOUS
  <2>2. ~ (<<j, i>> \in Below)
    BY <1>2
  <2>3. ~ (j < i)
    BY <2>1, <2>2 DEF Below
  <2>. QED
    BY <2>1, <2>3
<1>. QED
  BY <1>3

LEMMA PlaceOfLine ==
  ASSUME NEW l \in Lines
  PROVE  /\ l = <<l[1], l[2]>> /\ l[1] \in Progs
         /\ l[2] \in Nat /\ MAX_PROCSCHD_NUM - l[2] \in Nat
BY SchedulerAssumption

(* A program with lines in the table has a last one, and one with live     *)
(* lines a first of these.                                                 *)
LEMMA LastLineIn ==
  ASSUME Types, NEW p, LinesOf(p) # {}
  PROVE  LastLine(p) \in LinesOf(p)
<1>. DEFINE S == {MAX_PROCSCHD_NUM - l[2] : l \in LinesOf(p)}
<1>1. LinesOf(p) \subseteq Lines
  BY DEF LinesOf, Types
<1>2. S \in SUBSET Nat /\ S # {}
  BY <1>1, PlaceOfLine
<1>3. PICK i \in S : \A j \in S : i <= j
  <2>. HIDE DEF S
  <2>. QED
    BY <1>2, LeastOf
<1>4. PICK l \in LinesOf(p) : i = MAX_PROCSCHD_NUM - l[2]
  OBVIOUS
<1>5. \A m \in LinesOf(p) : m[2] <= l[2]
  <2>. SUFFICES ASSUME NEW m \in LinesOf(p) PROVE m[2] <= l[2]
    OBVIOUS
  <2>1. MAX_PROCSCHD_NUM - l[2] <= MAX_PROCSCHD_NUM - m[2]
    BY <1>3, <1>4
  <2>2. l[2] \in Nat /\ m[2] \in Nat /\ MAX_PROCSCHD_NUM \in Nat
    BY <1>1, PlaceOfLine, SchedulerAssumption
  <2>. QED
    BY <2>1, <2>2
<1>. QED
  BY <1>5 DEF LastLine

LEMMA FirstLiveIn ==
  ASSUME Types, NEW p, LiveLines(p) # {}
  PROVE  (CHOOSE l \in LiveLines(p) : \A m \in LiveLines(p) : l[2] <= m[2]) \in LiveLines(p)
<1>. DEFINE S == {l[2] : l \in LiveLines(p)}
<1>1. LiveLines(p) \subseteq Lines
  BY DEF LiveLines, LinesOf, Types
<1>2. S \in SUBSET Nat /\ S # {}
  BY <1>1, PlaceOfLine
<1>3. PICK i \in S : \A j \in S : i <= j
  <2>. HIDE DEF S
  <2>. QED
    BY <1>2, LeastOf
<1>4. PICK l \in LiveLines(p) : \A m \in LiveLines(p) : l[2] <= m[2]
  BY <1>3
<1>. QED
  BY <1>4

(* What is carried over for a program is nothing, or a pid of its lines,   *)
(* and that of its line if it has one only.                                *)
LEMMA CarriedPid ==
  ASSUME Types, NEW p
  PROVE  /\ Carried(p) # NoPid => \E l \in DOMAIN sched : l[1] = p /\ Carried(p) = sched[l].pid
         /\ Carried(p) \in {NoPid} \cup (Lines \X Nat)
         /\ p \in Once /\ FirstLine(p) \in DOMAIN sched => Carried(p) = sched[FirstLine(p)].pid
<1>1. CASE LinesOf(p) = {}
  <2>1. Carried(p) = NoPid
    BY <1>1 DEF Carried
  <2>2. FirstLine(p) \notin DOMAIN sched
    BY <1>1 DEF LinesOf, FirstLine
  <2>. QED
    BY <2>1, <2>2
<1>2. CASE LinesOf(p) # {}
  <2>1. LastLine(p) \in DOMAIN sched /\ LastLine(p)[1] = p /\ Carried(p) = sched[LastLine(p)].pid
    BY <1>2, LastLineIn DEF Carried, LinesOf
  <2>2. LastLine(p) \in Lines /\ sched[LastLine(p)] \in Entry
    BY <2>1 DEF Types
  <2>3. p \in Once => LastLine(p) = FirstLine(p)
    BY <2>1, <2>2, TheLine
  <2>. QED
    BY <2>1, <2>2, <2>3 DEF Entry
<1>. QED
  BY <1>1, <1>2

(* An entry of the new table: a line that is listed, or the one left over  *)
(* of a program that is not.                                               *)
LEMMA NewEntry ==
  ASSUME Types, conf.schd # BadConf, sched' = reLoadSchdDaly, NEW l \in DOMAIN sched'
  PROVE  /\ l \in Lines /\ sched'[l] \in Entry
         /\ sched'[l].pid = IF l = FirstLine(l[1]) THEN Carried(l[1]) ELSE NoPid
<1>. DEFINE kept == {FirstLine(p) : p \in {q \in Progs : LiveLines(q) # {}}}
            gone == {m \in kept : m \notin DOMAIN conf.schd}
<1>1. conf \in Readable /\ DOMAIN conf.schd \subseteq Lines
  BY SchedulerAssumption DEF Types, Readable
<1>2. /\ l \in DOMAIN conf.schd \cup gone
      /\ sched'[l] = IF l \in gone THEN Left(l[1])
                     ELSE [Listed(conf.schd[l]) EXCEPT
                             !.pid = IF l = FirstLine(l[1]) THEN Carried(l[1]) ELSE NoPid]
  BY DEF reLoadSchdDaly
<1>3. Carried(l[1]) \in {NoPid} \cup (Lines \X Nat)
  BY CarriedPid
<1>4. CASE l \in gone
  <2>1. PICK p \in Progs : LiveLines(p) # {} /\ l = FirstLine(p)
    BY <1>4
  <2>2. l[1] = p /\ l = FirstLine(l[1]) /\ l \in Lines
    BY <2>1, SchedulerAssumption DEF FirstLine
  <2>. DEFINE first == CHOOSE m \in LiveLines(p) : \A k \in LiveLines(p) : m[2] <= k[2]
  <2>3. first \in DOMAIN sched
    BY <2>1, FirstLiveIn DEF LiveLines, LinesOf
  <2>4. sched[first] \in Entry
    BY <2>3 DEF Types
  <2>5. sched'[l] = [sched[first] EXCEPT !.win = Excluded, !.pid = Carried(p)]
    BY <1>2, <1>4, <2>2 DEF Left
  <2>6. Excluded \in Windows
    BY DEF Windows
  <2>. HIDE DEF first
  <2>. QED
    BY <1>3, <2>2, <2>4, <2>5, <2>6 DEF Entry
<1>5. CASE l \notin gone
  <2>1. l \in DOMAIN conf.schd /\ l \in Lines
    BY <1>1, <1>2, <1>5
  <2>2. Listed(conf.schd[l]) \in Entry
    BY <1>1, <2>1 DEF Listed, Entry, Windows
  <2>. DEFINE new == IF l = FirstLine(l[1]) THEN Carried(l[1]) ELSE NoPid
  <2>3. sched'[l] = [Listed(conf.schd[l]) EXCEPT !.pid = new]
    BY <1>2, <1>5
  <2>4. new \in {NoPid} \cup (Lines \X Nat)
    BY <1>3
  <2>. HIDE DEF Listed, new
  <2>5. sched'[l] \in Entry /\ sched'[l].pid = new
    BY <2>2, <2>3, <2>4 DEF Entry
  <2>. QED
    BY <2>1, <2>5 DEF new
<1>. QED
  BY <1>4, <1>5

LEMMA ReloadKeeps == IInv /\ Reload => IInv'
<1>. SUFFICES ASSUME IInv, Reload PROVE IInv'
  OBVIOUS
<1>. USE DEF IInv
<1>1. UNCHANGED <<child, conf>> /\ (Over => Over')
  BY DEF Reload, outside, Over
<1>2. CASE UNCHANGED <<sched, bats>>
  BY <1>1, <1>2, TablesStay DEF Types
<1>3. CASE sched' = reLoadSchdDaly /\ bats' = IF conf.bats THEN LoadBats ELSE <<>>
  <2>0. /\ DOMAIN bats' \subseteq Jobs /\ bats' \in [DOMAIN bats' -> Job]
        /\ Pids(bats') = {}
    BY <1>3 DEF LoadBats, FreshJob, Job, Pids
  <2>1. CASE conf.schd = BadConf
    <3>1. sched' = sched
      BY <1>3, <2>1 DEF reLoadSchdDaly
    <3>2. Types'
      BY <1>1, <2>0, <3>1 DEF Types, Pids
    <3>. QED
      BY <1>1, <2>0, <3>1, <3>2, Frame DEF PidsAreChildren
  <2>2. CASE conf.schd # BadConf
    <3>1. \A l \in DOMAIN sched' :
            /\ l \in Lines /\ sched'[l] \in Entry
            /\ sched'[l].pid = IF l = FirstLine(l[1]) THEN Carried(l[1]) ELSE NoPid
      BY <1>3, <2>2, NewEntry
    <3>2. sched' = [l \in DOMAIN sched' |-> sched'[l]]
      BY <1>3, <2>2 DEF reLoadSchdDaly
    <3>3. Pids(sched') \subseteq Pids(sched)
      BY <3>1, CarriedPid DEF Pids
    <3>4. ASSUME NEW l \in DOMAIN sched', NEW m \in DOMAIN sched',
                 sched'[l].pid = sched'[m].pid, sched'[l].pid # NoPid
          PROVE  l = m
      <4>1. /\ l = FirstLine(l[1]) /\ m = FirstLine(m[1])
            /\ Carried(l[1]) = Carried(m[1]) /\ Carried(l[1]) # NoPid
        BY <3>1, <3>4
      <4>2. PICK a \in DOMAIN sched : a[1] = l[1] /\ Carried(l[1]) = sched[a].pid
        BY <4>1, CarriedPid
      <4>3. PICK b \in DOMAIN sched : b[1] = m[1] /\ Carried(m[1]) = sched[b].pid
        BY <4>1, CarriedPid
      <4>4. a = b
        BY <4>1, <4>2, <4>3 DEF PidsAreChildren
      <4>. QED
        BY <4>1, <4>2, <4>3, <4>4
    <3>5. ASSUME NEW p \in Once, FirstLine(p) \in DOMAIN sched, sched[FirstLine(p)].pid # NoPid
          PROVE  FirstLine(p) \in DOMAIN sched' /\ sched'[FirstLine(p)].pid = sched[FirstLine(p)].pid
      <4>1. FirstLine(p)[1] = p /\ p \in Progs
        BY TheLine DEF FirstLine
      <4>2. LiveLines(p) # {}
        BY <3>5, <4>1 DEF LiveLines, LinesOf
      <4>3. FirstLine(p) \in DOMAIN sched'
        BY <1>3, <2>2, <4>1, <4>2 DEF reLoadSchdDaly
      <4>. QED
        BY <3>1, <3>5, <4>1, <4>3, CarriedPid
    <3>6. Types'
      <4>1. \A pid \in Pids(sched') : pid[2] \in DOMAIN child'[pid[1]]
        BY <1>1, <3>3 DEF Types
      <4>2. DOMAIN sched' \subseteq Lines /\ sched' \in [DOMAIN sched' -> Entry]
        BY <3>1, <3>2
      <4>. QED
        BY <1>1, <2>0, <4>1, <4>2 DEF Types
    <3>. QED
      BY <1>1, <2>0, <3>3, <3>4, <3>5, <3>6, Frame
  <2>. QED
    BY <2>1, <2>2
<1>. QED
  BY <1>2, <1>3 DEF Reload


----------------------------------------------------------------------------
LEMMA ReadingsKeep == IInv /\ (ReadWeek \/ CheckSignal) => IInv'
<1>. SUFFICES ASSUME IInv, ReadWeek \/ CheckSignal PROVE IInv'
  OBVIOUS
<1>1. UNCHANGED <<sched, bats, child, conf>> /\ (Over => Over')
  BY DEF ReadWeek, CheckSignal, outside, Over
<1>. QED
  BY <1>1, TablesStay DEF IInv, Types

(* Every process is given a state, and none is started.                    *)
LEMMA AllPlaces ==
  ASSUME Types, NEW f, DOMAIN f = DOMAIN child, f = [x \in DOMAIN f |-> f[x]],
         \A x \in Things :
           f[x] = [n \in DOMAIN child[x] |-> f[x][n]]
           /\ \A n \in DOMAIN child[x] : f[x][n] \in States
  PROVE  f \in [Things -> Seq(States)] /\ \A x \in Things : DOMAIN f[x] = DOMAIN child[x]
<1>1. ASSUME NEW x \in Things PROVE f[x] \in Seq(States) /\ DOMAIN f[x] = DOMAIN child[x]
  <2>1. child[x] \in Seq(States)
    BY DEF Types
  <2>2. f[x] \in [DOMAIN child[x] -> States]
    OBVIOUS
  <2>. QED
    BY <2>1, <2>2, PlaceByPlace
<1>2. DOMAIN f = Things
  BY DEF Types
<1>. QED
  BY <1>1, <1>2

LEMMA ReapedPlaces ==
  ASSUME Types, NEW pids
  PROVE  /\ Reaped(pids) \in [Things -> Seq(States)]
         /\ \A x \in Things :
              /\ DOMAIN Reaped(pids)[x] = DOMAIN child[x]
              /\ \A n \in DOMAIN child[x] :
                   Reaped(pids)[x][n] = IF <<x, n>> \in pids /\ Ended(<<x, n>>)
                                        THEN "reaped" ELSE child[x][n]
<1>. DEFINE f == Reaped(pids)
<1>1. DOMAIN f = DOMAIN child /\ DOMAIN child = Things
  BY DEF Reaped, Types
<1>2. f = [x \in DOMAIN f |-> f[x]]
  BY DEF Reaped
<1>3. \A x \in Things : f[x] = [n \in DOMAIN child[x] |->
                            IF <<x, n>> \in pids /\ Ended(<<x, n>>) THEN "reaped" ELSE child[x][n]]
  BY <1>1 DEF Reaped
<1>. HIDE DEF f
<1>4. \A x \in Things : \A n \in DOMAIN child[x] :
        f[x][n] = IF <<x, n>> \in pids /\ Ended(<<x, n>>) THEN "reaped" ELSE child[x][n]
  BY <1>3
<1>5. \A x \in Things : \A n \in DOMAIN child[x] : f[x][n] \in States
  <2>. SUFFICES ASSUME NEW x \in Things, NEW n \in DOMAIN child[x] PROVE f[x][n] \in States
    OBVIOUS
  <2>1. child[x][n] \in States /\ "reaped" \in States
    BY StatesOf DEF States
  <2>. QED
    BY <1>4, <2>1
<1>6. \A x \in Things : f[x] = [n \in DOMAIN child[x] |-> f[x][n]]
  BY <1>3
<1>7. f \in [Things -> Seq(States)] /\ \A x \in Things : DOMAIN f[x] = DOMAIN child[x]
  BY <1>1, <1>2, <1>5, <1>6, AllPlaces
<1>. QED
  BY <1>4, <1>7 DEF f

(* What a table forgets has ended, and what it keeps has not.              *)
LEMMA Forgotten ==
  ASSUME NEW table
  PROVE  /\ DOMAIN Forget(table) = DOMAIN table
         /\ Forget(table) = [x \in DOMAIN table |-> Forget(table)[x]]
         /\ \A x \in DOMAIN table :
              Forget(table)[x] = IF Ended(table[x].pid) THEN [table[x] EXCEPT !.pid = NoPid]
                                 ELSE table[x]
         /\ Pids(Forget(table)) \subseteq {pid \in Pids(table) : ~Ended(pid)}
<1>1. /\ DOMAIN Forget(table) = DOMAIN table
      /\ \A x \in DOMAIN table :
           Forget(table)[x] = IF Ended(table[x].pid) THEN [table[x] EXCEPT !.pid = NoPid]
                              ELSE table[x]
  BY DEF Forget
<1>2. Forget(table) = [x \in DOMAIN table |-> Forget(table)[x]]
  BY DEF Forget
<1>3. ASSUME NEW pid \in Pids(Forget(table)) PROVE pid \in Pids(table) /\ ~Ended(pid)
  <2>1. PICK x \in DOMAIN table : pid = Forget(table)[x].pid /\ pid # NoPid
    BY <1>1, <1>3 DEF Pids
  <2>2. CASE Ended(table[x].pid)
    <3>1. Forget(table)[x] = [table[x] EXCEPT !.pid = NoPid]
      BY <1>1, <2>2
    <3>2. table[x].pid # NoPid
      BY <2>2 DEF Ended
    <3>. QED
      BY <2>1, <3>1, <3>2 DEF Ended, Pids
  <2>3. CASE ~Ended(table[x].pid)
    BY <1>1, <2>1, <2>3 DEF Pids
  <2>. QED
    BY <2>2, <2>3
<1>. QED
  BY <1>1, <1>2, <1>3

LEMMA SchedForgets ==
  ASSUME Types, sched' = Forget(sched)
  PROVE  /\ DOMAIN sched' = DOMAIN sched /\ sched' \in [DOMAIN sched' -> Entry]
         /\ \A l \in DOMAIN sched :
              sched'[l].pid = IF Ended(sched[l].pid) THEN NoPid ELSE sched[l].pid
         /\ Pids(sched') \subseteq {pid \in Pids(sched) : ~Ended(pid)}
<1>1. /\ DOMAIN sched' = DOMAIN sched /\ sched' = [l \in DOMAIN sched |-> sched'[l]]
      /\ \A l \in DOMAIN sched :
           sched'[l] = IF Ended(sched[l].pid) THEN [sched[l] EXCEPT !.pid = NoPid] ELSE sched[l]
      /\ Pids(sched') \subseteq {pid \in Pids(sched) : ~Ended(pid)}
  BY Forgotten
<1>2. \A l \in DOMAIN sched :
        /\ sched'[l] \in Entry
        /\ sched'[l].pid = IF Ended(sched[l].pid) THEN NoPid ELSE sched[l].pid
  BY <1>1 DEF Types, Entry
<1>. QED
  BY <1>1, <1>2

LEMMA BatsForget ==
  ASSUME Types, bats' = Forget(bats)
  PROVE  /\ DOMAIN bats' = DOMAIN bats /\ bats' \in [DOMAIN bats' -> Job]
         /\ Pids(bats') \subseteq {pid \in Pids(bats) : ~Ended(pid)}
<1>1. /\ DOMAIN bats' = DOMAIN bats /\ bats' = [j \in DOMAIN bats |-> bats'[j]]
      /\ \A j \in DOMAIN bats :
           bats'[j] = IF Ended(bats[j].pid) THEN [bats[j] EXCEPT !.pid = NoPid] ELSE bats[j]
      /\ Pids(bats') \subseteq {pid \in Pids(bats) : ~Ended(pid)}
  BY Forgotten
<1>2. \A j \in DOMAIN bats : bats'[j] \in Job
  BY <1>1 DEF Types, Job
<1>. QED
  BY <1>1, <1>2

(* The processes of the tables that ended are reaped and forgotten.        *)
LEMMA CheckRunProcKeeps == IInv /\ CheckRunProc => IInv'
<1>. SUFFICES ASSUME IInv, CheckRunProc PROVE IInv'
  OBVIOUS
<1>. USE DEF IInv
<1>1. UNCHANGED conf /\ ~Over /\ ~Over'
  BY DEF CheckRunProc, outside, Over
<1>2. CASE UNCHANGED <<sched, bats, child>>
  BY <1>1, <1>2, TablesStay DEF Types
<1>3. CASE /\ sched' = Forget(sched) /\ bats' = Forget(bats)
           /\ child' = Reaped(Pids(sched) \cup Pids(bats))
  <2>. DEFINE pids == Pids(sched) \cup Pids(bats)
  <2>1. /\ child' \in [Things -> Seq(States)]
        /\ \A x \in Things :
             /\ DOMAIN child'[x] = DOMAIN child[x]
             /\ \A n \in DOMAIN child[x] :
                  child'[x][n] = IF <<x, n>> \in pids /\ Ended(<<x, n>>)
                                 THEN "reaped" ELSE child[x][n]
    BY <1>3, ReapedPlaces
  <2>2. /\ DOMAIN sched' = DOMAIN sched /\ sched' \in [DOMAIN sched' -> Entry]
        /\ \A l \in DOMAIN sched :
             sched'[l].pid = IF Ended(sched[l].pid) THEN NoPid ELSE sched[l].pid
        /\ Pids(sched') \subseteq {pid \in Pids(sched) : ~Ended(pid)}
    BY <1>3, SchedForgets
  <2>3. /\ DOMAIN bats' = DOMAIN bats /\ bats' \in [DOMAIN bats' -> Job]
        /\ Pids(bats') \subseteq {pid \in Pids(bats) : ~Ended(pid)}
    BY <1>3, BatsForget
  <2>4. ASSUME NEW pid \in Pids(sched') \cup Pids(bats')
        PROVE  pid[2] \in DOMAIN child'[pid[1]] /\ Status(pid)' # "reaped"
    <3>1. pid \in pids /\ ~Ended(pid)
      BY <2>2, <2>3
    <3>2. pid = <<pid[1], pid[2]>> /\ pid[1] \in Things /\ pid[2] \in DOMAIN child[pid[1]]
      BY <3>1, PairOfPid
    <3>3. Status(pid) # "reaped"
      BY <3>1 DEF PidsAreChildren
    <3>4. child'[pid[1]][pid[2]] = child[pid[1]][pid[2]]
      BY <2>1, <3>1, <3>2
    <3>. QED
      BY <2>1, <3>2, <3>3, <3>4 DEF Status
  <2>5. Types'
    BY <1>1, <2>1, <2>2, <2>3, <2>4 DEF Types
  <2>6. ProcessesKnown'
    <3>. SUFFICES ASSUME NEW p \in Once, NEW n \in DOMAIN child'[FirstLine(p)],
                         child'[FirstLine(p)][n] # "reaped"
                  PROVE  /\ FirstLine(p) \in DOMAIN sched'
                         /\ sched'[FirstLine(p)].pid = <<FirstLine(p), n>>
      BY DEF ProcessesKnown
    <3>. DEFINE l == FirstLine(p)
    <3>1. l \in Things
      BY TheLine DEF Things
    <3>2. /\ n \in DOMAIN child[l] /\ child[l][n] # "reaped"
          /\ ~(<<l, n>> \in pids /\ Ended(<<l, n>>))
      BY <2>1, <3>1
    <3>3. l \in DOMAIN sched /\ sched[l].pid = <<l, n>>
      BY <1>1, <3>2 DEF ProcessesKnown
    <3>4. <<l, n>> \in Pids(sched)
      BY <3>3 DEF Pids, NoPid
    <3>. QED
      BY <2>2, <3>2, <3>3, <3>4
  <2>7. \A l, m \in DOMAIN sched' :
          sched'[l].pid = sched'[m].pid => l = m \/ sched'[l].pid = NoPid
    BY <2>2 DEF PidsAreChildren
  <2>. QED
    BY <2>4, <2>5, <2>6, <2>7 DEF PidsAreChildren
<1>. QED
  BY <1>2, <1>3 DEF CheckRunProc

(* A job whose period is over forgets its process, which nobody keeps.     *)
LEMMA InitBatsKeeps == IInv /\ InitBats => IInv'
<1>. SUFFICES ASSUME IInv, InitBats PROVE IInv'
  OBVIOUS
<1>. USE DEF IInv
<1>1. UNCHANGED <<child, conf, sched>> /\ (Over => Over')
  BY DEF InitBats, outside, Over
<1>2. /\ DOMAIN bats' = DOMAIN bats /\ bats' = [j \in DOMAIN bats' |-> bats'[j]]
      /\ \A j \in DOMAIN bats : bats'[j] = FreshJob \/ bats'[j] = bats[j]
  BY DEF InitBats
<1>3. FreshJob \in Job /\ FreshJob.pid = NoPid
  BY DEF FreshJob, Job
<1>4. Pids(bats') \subseteq Pids(bats)
  BY <1>2, <1>3 DEF Pids
<1>5. \A pid \in Pids(bats') : pid[2] \in DOMAIN child'[pid[1]]
  BY <1>1, <1>4 DEF Types
<1>6. Pids(sched') = Pids(sched)
  BY <1>1 DEF Pids
<1>7. Types'
  BY <1>1, <1>2, <1>3, <1>5, <1>6 DEF Types
<1>. QED
  BY <1>1, <1>4, <1>6, <1>7, Frame DEF PidsAreChildren

(* A process that is started comes last, and has the next pid.             *)
LEMMA AppendedPlace ==
  ASSUME NEW s \in Seq(States)
  PROVE  /\ Append(s, "running") \in Seq(States)
         /\ Len(s) + 1 \notin DOMAIN s /\ DOMAIN Append(s, "running") = DOMAIN s \cup {Len(s) + 1}
         /\ \A n \in DOMAIN s : Append(s, "running")[n] = s[n]
         /\ Append(s, "running")[Len(s) + 1] = "running"
         /\ Len(Append(s, "running")) = Len(s) + 1
<1>1. "running" \in States
  BY DEF States, Live
<1>2. Len(s) \in Nat /\ DOMAIN s = 1 .. Len(s)
  BY LenProperties
<1>3. /\ Append(s, "running") \in Seq(States)
      /\ Len(Append(s, "running")) = Len(s) + 1
      /\ \A n \in 1 .. Len(s) : Append(s, "running")[n] = s[n]
      /\ Append(s, "running")[Len(s) + 1] = "running"
  BY <1>1, AppendProperties
<1>4. DOMAIN Append(s, "running") = 1 .. Len(s) + 1
  BY <1>3, LenProperties
<1>. QED
  BY <1>2, <1>3, <1>4

(* The pid of a new process is not that of a process there has been.       *)
LEMMA PidIsNew ==
  ASSUME Types, NEW x \in Things
  PROVE  /\ NewPid(x) \in Things \X Nat /\ NewPid(x) # NoPid
         /\ NewPid(x)[1] = x /\ NewPid(x)[2] = Len(child[x]) + 1
         /\ NewPid(x) \notin Pids(sched) \cup Pids(bats)
<1>1. child[x] \in Seq(States)
  BY DEF Types
<1>2. Len(child[x]) \in Nat /\ Len(child[x]) + 1 \notin DOMAIN child[x]
  BY <1>1, LenProperties
<1>3. /\ NewPid(x) \in Things \X Nat /\ NewPid(x) # NoPid
      /\ NewPid(x)[1] = x /\ NewPid(x)[2] = Len(child[x]) + 1
  BY <1>2 DEF NewPid, NoPid
<1>4. NewPid(x) \notin Pids(sched) \cup Pids(bats)
  BY <1>2, <1>3, PairOfPid
<1>. QED
  BY <1>3, <1>4

LEMMA RunBatsKeeps == IInv /\ RunBats => IInv'
<1>. SUFFICES ASSUME IInv, RunBats PROVE IInv'
  OBVIOUS
<1>. USE DEF IInv
<1>1. UNCHANGED <<sched, conf>> /\ ~Over
  BY DEF RunBats, outside, Over
<1>2. PICK S \in SUBSET ToRun :
        /\ bats' = [j \in DOMAIN bats |->
                      IF j \in S THEN [pid |-> NewPid(j), run |-> 1] ELSE bats[j]]
        /\ child' = Started(S)
  BY DEF RunBats
<1>3. S \subseteq Jobs /\ S \subseteq DOMAIN bats /\ S \cap Lines = {}
  BY SchedulerAssumption DEF ToRun, Types
<1>4. /\ child' = [x \in Things |-> child'[x]]
      /\ \A x \in Things : child'[x] = IF x \in S THEN Append(child[x], "running") ELSE child[x]
  BY <1>2 DEF Started, Types
<1>5. /\ child' \in [Things -> Seq(States)]
      /\ \A x \in Things :
           /\ x \notin S => child'[x] = child[x]
           /\ x \in S => /\ DOMAIN child'[x] = DOMAIN child[x] \cup {Len(child[x]) + 1}
                         /\ child'[x][Len(child[x]) + 1] = "running"
           /\ \A n \in DOMAIN child[x] : n \in DOMAIN child'[x] /\ child'[x][n] = child[x][n]
  <2>1. ASSUME NEW x \in Things
        PROVE  /\ child'[x] \in Seq(States)
               /\ x \notin S => child'[x] = child[x]
               /\ x \in S => /\ DOMAIN child'[x] = DOMAIN child[x] \cup {Len(child[x]) + 1}
                             /\ child'[x][Len(child[x]) + 1] = "running"
               /\ \A n \in DOMAIN child[x] : n \in DOMAIN child'[x] /\ child'[x][n] = child[x][n]
    <3>1. child[x] \in Seq(States)
      BY DEF Types
    <3>2. CASE x \in S
      <4>1. child'[x] = Append(child[x], "running")
        BY <1>4, <3>2
      <4>. QED
        BY <3>1, <3>2, <4>1, AppendedPlace
    <3>3. CASE x \notin S
      <4>1. child'[x] = child[x]
        BY <1>4, <3>3
      <4>. QED
        BY <3>1, <3>3, <4>1
    <3>. QED
      BY <3>2, <3>3
  <2>. QED
    BY <1>4, <2>1
<1>6. \A j \in DOMAIN bats :
        /\ bats'[j] \in Job
        /\ j \in S => bats'[j].pid = NewPid(j)
        /\ j \notin S => bats'[j].pid = bats[j].pid
  <2>. SUFFICES ASSUME NEW j \in DOMAIN bats
                PROVE  /\ bats'[j] \in Job
                       /\ j \in S => bats'[j].pid = NewPid(j)
                       /\ j \notin S => bats'[j].pid = bats[j].pid
    OBVIOUS
  <2>1. j \in Jobs /\ j \in Things
    BY DEF Types, Things
  <2>2. CASE j \in S
    <3>1. bats'[j] = [pid |-> NewPid(j), run |-> 1]
      BY <1>2, <2>2
    <3>2. NewPid(j) \in Jobs \X Nat
      BY <2>1, PidIsNew DEF NewPid
    <3>. QED
      BY <2>2, <3>1, <3>2 DEF Job
  <2>3. CASE j \notin S
    BY <1>2, <2>3 DEF Types
  <2>. QED
    BY <2>2, <2>3
<1>7. DOMAIN bats' = DOMAIN bats /\ bats' = [j \in DOMAIN bats' |-> bats'[j]]
  BY <1>2
<1>8. ASSUME NEW pid \in Pids(bats')
      PROVE  \/ pid \in Pids(bats)
             \/ \E j \in S : pid = NewPid(j)
  BY <1>6, <1>7 DEF Pids
<1>9. Pids(sched') = Pids(sched)
  BY <1>1 DEF Pids
<1>10. ASSUME NEW pid \in Pids(sched') \cup Pids(bats')
       PROVE  pid[2] \in DOMAIN child'[pid[1]] /\ Status(pid)' # "reaped"
  <2>1. CASE pid \in Pids(sched) \cup Pids(bats)
    <3>1. pid[1] \in Things /\ pid[2] \in DOMAIN child[pid[1]]
      BY <2>1, PairOfPid
    <3>2. Status(pid) # "reaped"
      BY <2>1 DEF PidsAreChildren
    <3>. QED
      BY <1>5, <3>1, <3>2 DEF Status
  <2>2. CASE \E j \in S : pid = NewPid(j)
    <3>1. PICK j \in S : pid = NewPid(j)
      BY <2>2
    <3>2. j \in Things
      BY <1>3 DEF Things
    <3>3. pid[1] = j /\ pid[2] = Len(child[j]) + 1
      BY <3>1, <3>2, PidIsNew
    <3>. QED
      BY <1>5, <3>2, <3>3 DEF Status
  <2>. QED
    BY <1>8, <1>9, <1>10, <2>1, <2>2
<1>11. Types'
  <2>1. bats' \in [DOMAIN bats' -> Job]
    BY <1>6, <1>7
  <2>. QED
    BY <1>1, <1>5, <1>7, <1>10, <2>1 DEF Types
<1>12. ProcessesKnown'
  <2>1. \A p \in Once : child'[FirstLine(p)] = child[FirstLine(p)]
    BY <1>3, <1>5, TheLine DEF Things
  <2>. QED
    BY <1>1, <2>1 DEF ProcessesKnown
<1>. QED
  BY <1>1, <1>10, <1>11, <1>12 DEF PidsAreChildren

----------------------------------------------------------------------------
(* kill makes nobody a process that was waited for, and leaves those that  *)
(* were: the three ways in which states change by signals.                 *)
LEMMA SignalledState ==
  ASSUME Types, NEW x \in Things, NEW n \in DOMAIN child[x], NEW sig
  PROVE  /\ Signalled(x, n, sig) \in States
         /\ Signalled(x, n, sig) = "reaped" <=> child[x][n] = "reaped"
         /\ sig = "KILL" => Signalled(x, n, sig) \in {"killed", "zombie", "reaped"}
BY StatesOf DEF Signalled, States, Live

LEMMA SignalAllPlaces ==
  ASSUME Types, NEW pids, NEW sig
  PROVE  /\ SignalAll(pids, sig) \in [Things -> Seq(States)]
         /\ \A x \in Things :
              /\ DOMAIN SignalAll(pids, sig)[x] = DOMAIN child[x]
              /\ \A n \in DOMAIN child[x] :
                   SignalAll(pids, sig)[x][n] = "reaped" <=> child[x][n] = "reaped"
<1>. DEFINE f == SignalAll(pids, sig)
<1>1. DOMAIN f = DOMAIN child /\ DOMAIN child = Things /\ f = [x \in DOMAIN f |-> f[x]]
  BY DEF SignalAll, Types
<1>2. \A x \in Things : f[x] = [n \in DOMAIN child[x] |->
                            IF <<x, n>> \in pids THEN Signalled(x, n, sig) ELSE child[x][n]]
  BY <1>1 DEF SignalAll
<1>. HIDE DEF f
<1>3. ASSUME NEW x \in Things, NEW n \in DOMAIN child[x]
      PROVE  f[x][n] \in States /\ (f[x][n] = "reaped" <=> child[x][n] = "reaped")
  <2>1. f[x][n] = IF <<x, n>> \in pids THEN Signalled(x, n, sig) ELSE child[x][n]
    BY <1>2
  <2>. QED
    BY <2>1, StatesOf, SignalledState
<1>4. \A x \in Things : f[x] = [n \in DOMAIN child[x] |-> f[x][n]]
  BY <1>2
<1>5. f \in [Things -> Seq(States)] /\ \A x \in Things : DOMAIN f[x] = DOMAIN child[x]
  BY <1>1, <1>3, <1>4, AllPlaces
<1>. QED
  BY <1>3, <1>5 DEF f

LEMMA StoppedPlaces ==
  ASSUME Types, NEW T
  PROVE  /\ Stopped(T) \in [Things -> Seq(States)]
         /\ \A x \in Things :
              /\ DOMAIN Stopped(T)[x] = DOMAIN child[x]
              /\ \A n \in DOMAIN child[x] :
                   Stopped(T)[x][n] = "reaped" <=> child[x][n] = "reaped"
<1>. DEFINE f == Stopped(T)
<1>1. DOMAIN f = DOMAIN child /\ DOMAIN child = Things /\ f = [x \in DOMAIN f |-> f[x]]
  BY DEF Stopped, Types
<1>2. \A x \in Things : f[x] = [n \in DOMAIN child[x] |->
        CASE <<x, n>> \in Told(T, "KILL") -> Signalled(x, n, "KILL")
          [] <<x, n>> \in Told(T, "TERM") -> Signalled(x, n, "TERM")
          [] OTHER -> child[x][n]]
  BY <1>1 DEF Stopped
<1>. HIDE DEF f
<1>3. ASSUME NEW x \in Things, NEW n \in DOMAIN child[x]
      PROVE  f[x][n] \in States /\ (f[x][n] = "reaped" <=> child[x][n] = "reaped")
  <2>1. f[x][n] \in {Signalled(x, n, "KILL"), Signalled(x, n, "TERM"), child[x][n]}
    BY <1>2
  <2>. QED
    BY <2>1, StatesOf, SignalledState
<1>4. \A x \in Things : f[x] = [n \in DOMAIN child[x] |-> f[x][n]]
  BY <1>2
<1>5. f \in [Things -> Seq(States)] /\ \A x \in Things : DOMAIN f[x] = DOMAIN child[x]
  BY <1>1, <1>3, <1>4, AllPlaces
<1>. QED
  BY <1>3, <1>5 DEF f

LEMMA TermProcKeeps == IInv /\ TermProc => IInv'
<1>. SUFFICES ASSUME IInv, TermProc PROVE IInv'
  OBVIOUS
<1>1. /\ UNCHANGED <<sched, bats, conf>> /\ (Over => Over')
      /\ child' = SignalAll(Pids(sched), "TERM")
  BY DEF TermProc, outside, Over
<1>. QED
  BY <1>1, SignalAllPlaces, TablesStay DEF IInv, Types

(* The processes of the programs that ended are reaped and forgotten, the  *)
(* others killed.                                                          *)
LEMMA KillProcPlaces ==
  ASSUME IInv, KillProc
  PROVE  /\ child' \in [Things -> Seq(States)]
         /\ \A x \in Things :
              /\ DOMAIN child'[x] = DOMAIN child[x]
              /\ \A n \in DOMAIN child[x] :
                   child'[x][n] = IF <<x, n>> \notin Pids(sched) THEN child[x][n]
                                  ELSE IF Ended(<<x, n>>) THEN "reaped"
                                  ELSE Signalled(x, n, "KILL")
<1>1. Types /\ DOMAIN child = Things
  BY DEF IInv, Types
<1>. DEFINE f == child'
<1>2. DOMAIN f = DOMAIN child /\ f = [x \in DOMAIN f |-> f[x]]
  BY DEF KillProc
<1>3. \A x \in Things : f[x] = [n \in DOMAIN child[x] |->
        IF <<x, n>> \notin Pids(sched) THEN child[x][n]
        ELSE IF Ended(<<x, n>>) THEN "reaped" ELSE Signalled(x, n, "KILL")]
  BY <1>1 DEF KillProc
<1>4. ASSUME NEW x \in Things, NEW n \in DOMAIN child[x]
      PROVE  f[x][n] \in States
  <2>1. f[x][n] \in {child[x][n], "reaped", Signalled(x, n, "KILL")}
    BY <1>3
  <2>2. "reaped" \in States
    BY DEF States
  <2>. QED
    BY <1>1, <2>1, <2>2, StatesOf, SignalledState
<1>5. \A x \in Things : f[x] = [n \in DOMAIN child[x] |-> f[x][n]]
  BY <1>3
<1>6. f \in [Things -> Seq(States)] /\ \A x \in Things : DOMAIN f[x] = DOMAIN child[x]
  <2>. HIDE DEF f
  <2>. QED
    BY <1>1, <1>2, <1>4, <1>5, AllPlaces
<1>. QED
  BY <1>3, <1>6

LEMMA KillProcKeeps == IInv /\ KillProc => IInv'
<1>. SUFFICES ASSUME IInv, KillProc PROVE IInv'
  OBVIOUS
<1>. USE DEF IInv
<1>1. UNCHANGED <<bats, conf>> /\ Over' /\ sched' = Forget(sched)
  BY DEF KillProc, outside, Over
<1>2. /\ DOMAIN sched' = DOMAIN sched /\ sched' \in [DOMAIN sched' -> Entry]
      /\ \A l \in DOMAIN sched :
           sched'[l].pid = IF Ended(sched[l].pid) THEN NoPid ELSE sched[l].pid
      /\ Pids(sched') \subseteq {pid \in Pids(sched) : ~Ended(pid)}
  BY <1>1, SchedForgets
<1>3. Pids(bats') = Pids(bats)
  BY <1>1 DEF Pids
<1>4. Pids(sched) \cap Pids(bats) = {}
  <2>1. \A pid \in Pids(sched) : pid[1] \in Lines
    BY DEF Pids, Types, Entry
  <2>2. \A pid \in Pids(bats) : pid[1] \in Jobs
    BY DEF Pids, Types, Job
  <2>. QED
    BY <2>1, <2>2, SchedulerAssumption
<1>5. ASSUME NEW pid \in Pids(sched') \cup Pids(bats')
      PROVE  pid[2] \in DOMAIN child'[pid[1]] /\ Status(pid)' # "reaped"
  <2>1. /\ pid \in Pids(sched) \cup Pids(bats)
        /\ pid \in Pids(sched) => ~Ended(pid)
    BY <1>2, <1>3, <1>4
  <2>2. pid = <<pid[1], pid[2]>> /\ pid[1] \in Things /\ pid[2] \in DOMAIN child[pid[1]]
    BY <2>1, PairOfPid
  <2>3. Status(pid) # "reaped"
    BY <2>1 DEF PidsAreChildren
  <2>4. child'[pid[1]][pid[2]] \in {child[pid[1]][pid[2]], Signalled(pid[1], pid[2], "KILL")}
    BY <2>1, <2>2, KillProcPlaces
  <2>5. child'[pid[1]][pid[2]] # "reaped"
    BY <2>2, <2>3, <2>4, SignalledState DEF Status
  <2>. QED
    BY <2>2, <2>5, KillProcPlaces DEF Status
<1>6. Types'
  BY <1>1, <1>2, <1>5, KillProcPlaces DEF Types
<1>7. \A l, m \in DOMAIN sched' : sched'[l].pid = sched'[m].pid => l = m \/ sched'[l].pid = NoPid
  BY <1>2 DEF PidsAreChildren
<1>. QED
  BY <1>1, <1>5, <1>6, <1>7 DEF ProcessesKnown, PidsAreChildren

----------------------------------------------------------------------------
LEMMA EntryWith ==
  ASSUME NEW e \in Entry, NEW pid \in Lines \X Nat
  PROVE  /\ [e EXCEPT !.pid = pid, !.kil = 0, !.ran = TRUE] \in Entry
         /\ [e EXCEPT !.pid = pid, !.kil = 0, !.ran = TRUE].pid = pid
BY DEF Entry

LEMMA EntryCounted ==
  ASSUME NEW e \in Entry, NEW k \in Nat
  PROVE  /\ [e EXCEPT !.ran = FALSE, !.kil = k] \in Entry
         /\ [e EXCEPT !.ran = FALSE, !.kil = k].pid = e.pid
BY DEF Entry

LEMMA CheckSchdDalyKeeps == IInv /\ CheckSchdDaly => IInv'
<1>. SUFFICES ASSUME IInv, CheckSchdDaly PROVE IInv'
  OBVIOUS
<1>. USE DEF IInv
<1>1. UNCHANGED <<bats, conf>> /\ ~Over
  BY DEF CheckSchdDaly, outside, Over
<1>2. PICK S \in SUBSET ToStart, T \in SUBSET ToStop :
        /\ sched' = [l \in DOMAIN sched |->
             IF l \in S THEN [sched[l] EXCEPT !.pid = NewPid(l), !.kil = 0, !.ran = TRUE]
             ELSE IF l \in T THEN StopCounted(l) ELSE sched[l]]
        /\ child' = [x \in DOMAIN child |->
             IF x \in S THEN Append(Stopped(T)[x], "running") ELSE Stopped(T)[x]]
  BY DEF CheckSchdDaly
<1>3. /\ S \subseteq DOMAIN sched /\ S \subseteq Lines
      /\ \A l \in S : sched[l].pid = NoPid
  BY DEF ToStart, Types
<1>. DEFINE g == Stopped(T)
<1>4. /\ g \in [Things -> Seq(States)]
      /\ \A x \in Things :
           /\ DOMAIN g[x] = DOMAIN child[x]
           /\ \A n \in DOMAIN child[x] : g[x][n] = "reaped" <=> child[x][n] = "reaped"
  BY StoppedPlaces
<1>5. child' = [x \in Things |-> child'[x]]
  BY <1>2 DEF Types
<1>6. \A x \in Things : child'[x] = IF x \in S THEN Append(g[x], "running") ELSE g[x]
  BY <1>2 DEF Types
<1>. HIDE DEF g
<1>7. ASSUME NEW x \in Things
      PROVE  /\ child'[x] \in Seq(States)
             /\ x \notin S => DOMAIN child'[x] = DOMAIN child[x]
             /\ x \in S => /\ DOMAIN child'[x] = DOMAIN child[x] \cup {Len(child[x]) + 1}
                           /\ child'[x][Len(child[x]) + 1] = "running"
             /\ \A n \in DOMAIN child[x] :
                  /\ n \in DOMAIN child'[x]
                  /\ child'[x][n] = "reaped" <=> child[x][n] = "reaped"
  <2>1. child[x] \in Seq(States) /\ g[x] \in Seq(States) /\ DOMAIN g[x] = DOMAIN child[x]
    BY <1>4 DEF Types
  <2>2. Len(g[x]) = Len(child[x])
    BY <2>1, LenProperties
  <2>3. CASE x \in S
    <3>1. child'[x] = Append(g[x], "running")
      BY <1>6, <2>3
    <3>2. /\ child'[x] \in Seq(States)
          /\ DOMAIN child'[x] = DOMAIN g[x] \cup {Len(g[x]) + 1}
          /\ child'[x][Len(g[x]) + 1] = "running"
          /\ \A n \in DOMAIN g[x] : child'[x][n] = g[x][n]
      BY <2>1, <3>1, AppendedPlace
    <3>. QED
      BY <1>4, <2>1, <2>2, <2>3, <3>2
  <2>4. CASE x \notin S
    <3>1. child'[x] = g[x]
      BY <1>6, <2>4
    <3>. QED
      BY <1>4, <2>1, <2>4, <3>1
  <2>. QED
    BY <2>3, <2>4
<1>8. DOMAIN sched' = DOMAIN sched /\ sched' = [l \in DOMAIN sched' |-> sched'[l]]
  BY <1>2
<1>9. ASSUME NEW l \in DOMAIN sched
      PROVE  /\ sched'[l] \in Entry
             /\ sched'[l].pid = IF l \in S THEN NewPid(l) ELSE sched[l].pid
  <2>1. sched[l] \in Entry /\ l \in Lines /\ l \in Things
    BY DEF Types, Things
  <2>2. CASE l \in S
    <3>1. sched'[l] = [sched[l] EXCEPT !.pid = NewPid(l), !.kil = 0, !.ran = TRUE]
      BY <1>2, <2>2
    <3>2. NewPid(l) \in Lines \X Nat
      BY <2>1, PidIsNew DEF NewPid
    <3>. DEFINE e == [sched[l] EXCEPT !.pid = NewPid(l), !.kil = 0, !.ran = TRUE]
    <3>3. e \in Entry /\ e.pid = NewPid(l)
      BY <2>1, <3>2, EntryWith
    <3>. HIDE DEF e
    <3>. QED
      BY <2>2, <3>1, <3>3 DEF e
  <2>3. CASE l \notin S
    <3>1. sched'[l] = StopCounted(l) \/ sched'[l] = sched[l]
      BY <1>2, <2>3
    <3>2. StopCounted(l) \in Entry /\ StopCounted(l).pid = sched[l].pid
      <4>. DEFINE k == IF StopSignal(l) = "TERM" THEN sched[l].kil + 1 ELSE sched[l].kil
      <4>1. k \in Nat /\ StopCounted(l) = [sched[l] EXCEPT !.ran = FALSE, !.kil = k]
        BY <2>1 DEF StopCounted, Entry
      <4>. HIDE DEF k
      <4>. QED
        BY <2>1, <4>1, EntryCounted
    <3>. QED
      BY <2>1, <2>3, <3>1, <3>2
  <2>. QED
    BY <2>2, <2>3
<1>10. ASSUME NEW pid \in Pids(sched')
       PROVE  pid \in Pids(sched) \/ \E l \in S : pid = NewPid(l)
  BY <1>8, <1>9 DEF Pids
<1>11. Pids(bats') = Pids(bats)
  BY <1>1 DEF Pids
<1>12. ASSUME NEW pid \in Pids(sched') \cup Pids(bats')
       PROVE  pid[2] \in DOMAIN child'[pid[1]] /\ Status(pid)' # "reaped"
  <2>1. CASE pid \in Pids(sched) \cup Pids(bats)
    <3>1. pid[1] \in Things /\ pid[2] \in DOMAIN child[pid[1]]
      BY <2>1, PairOfPid
    <3>2. Status(pid) # "reaped"
      BY <2>1 DEF PidsAreChildren
    <3>. QED
      BY <1>7, <3>1, <3>2 DEF Status
  <2>2. CASE \E l \in S : pid = NewPid(l)
    <3>1. PICK l \in S : pid = NewPid(l)
      BY <2>2
    <3>2. l \in Things
      BY <1>3 DEF Things
    <3>3. pid[1] = l /\ pid[2] = Len(child[l]) + 1
      BY <3>1, <3>2, PidIsNew
    <3>. QED
      BY <1>7, <3>2, <3>3 DEF Status
  <2>. QED
    BY <1>10, <1>11, <1>12, <2>1, <2>2
<1>13. Types'
  <2>1. sched' \in [DOMAIN sched' -> Entry] /\ child' \in [Things -> Seq(States)]
    BY <1>5, <1>7, <1>8, <1>9
  <2>. QED
    BY <1>1, <1>8, <1>12, <2>1 DEF Types
<1>14. ProcessesKnown'
  <2>. SUFFICES ASSUME NEW p \in Once, NEW n \in DOMAIN child'[FirstLine(p)],
                       child'[FirstLine(p)][n] # "reaped"
                PROVE  /\ FirstLine(p) \in DOMAIN sched'
                       /\ sched'[FirstLine(p)].pid = <<FirstLine(p), n>>
    BY DEF ProcessesKnown
  <2>. DEFINE l == FirstLine(p)
  <2>1. l \in Things
    BY TheLine DEF Things
  <2>2. CASE n \in DOMAIN child[l]
    <3>1. child[l][n] # "reaped"
      BY <1>7, <2>1, <2>2
    <3>2. l \in DOMAIN sched /\ sched[l].pid = <<l, n>>
      BY <1>1, <2>2, <3>1 DEF ProcessesKnown
    <3>3. l \notin S
      BY <1>3, <3>2 DEF NoPid
    <3>. QED
      BY <1>8, <1>9, <3>2, <3>3
  <2>3. CASE n \notin DOMAIN child[l]
    <3>1. l \in S /\ n = Len(child[l]) + 1
      BY <1>7, <2>1, <2>3
    <3>. QED
      BY <1>3, <1>8, <1>9, <3>1 DEF NewPid
  <2>. QED
    BY <2>2, <2>3
<1>15. ASSUME NEW l \in DOMAIN sched', NEW m \in DOMAIN sched',
              sched'[l].pid = sched'[m].pid, sched'[l].pid # NoPid
       PROVE  l = m
  <2>1. l \in Things /\ m \in Things /\ l \in DOMAIN sched /\ m \in DOMAIN sched
    BY <1>8 DEF Types, Things
  <2>2. CASE l \in S /\ m \in S
    <3>1. NewPid(l) = NewPid(m)
      BY <1>9, <1>15, <2>1, <2>2
    <3>. QED
      BY <2>1, <3>1, PidIsNew
  <2>3. CASE l \notin S /\ m \notin S
    BY <1>9, <1>15, <2>1, <2>3 DEF PidsAreChildren
  <2>4. CASE l \in S /\ m \notin S
    <3>1. sched[m].pid = NewPid(l) /\ sched[m].pid # NoPid
      BY <1>9, <1>15, <2>1, <2>4
    <3>2. NewPid(l) \in Pids(sched)
      BY <2>1, <3>1 DEF Pids
    <3>. QED
      BY <2>1, <3>2, PidIsNew
  <2>5. CASE l \notin S /\ m \in S
    <3>1. sched[l].pid = NewPid(m) /\ sched[l].pid # NoPid
      BY <1>9, <1>15, <2>1, <2>5
    <3>2. NewPid(m) \in Pids(sched)
      BY <2>1, <3>1 DEF Pids
    <3>. QED
      BY <2>1, <3>2, PidIsNew
  <2>. QED
    BY <2>2, <2>3, <2>4, <2>5
<1>. QED
  BY <1>12, <1>13, <1>14, <1>15 DEF PidsAreChildren

----------------------------------------------------------------------------
LEMMA ExitKeeps ==
  ASSUME IInv, NEW x \in DOMAIN child, NEW n \in DOMAIN child[x], Exit(x, n)
  PROVE  IInv'
<1>1. /\ UNCHANGED <<sched, bats, conf, pc>> /\ child[x][n] \in Live
      /\ child' = [child EXCEPT ![x][n] = "zombie"]
  BY DEF Exit, outside, inside
<1>2. DOMAIN child = Things /\ child \in [Things -> Seq(States)]
  BY DEF IInv, Types
<1>. DEFINE f == child'
<1>3. DOMAIN f = DOMAIN child /\ f = [y \in DOMAIN f |-> f[y]]
  BY <1>1
<1>4. ASSUME NEW y \in Things
      PROVE  /\ f[y] = [m \in DOMAIN child[y] |-> f[y][m]]
             /\ \A m \in DOMAIN child[y] : f[y][m] = IF y = x /\ m = n THEN "zombie" ELSE child[y][m]
  <2>1. CASE y = x
    <3>1. f[y] = [child[y] EXCEPT ![n] = "zombie"]
      BY <1>1, <1>2, <2>1
    <3>. QED
      BY <2>1, <3>1
  <2>2. CASE y # x
    <3>1. f[y] = child[y] /\ child[y] \in Seq(States)
      BY <1>1, <1>2, <2>2
    <3>2. child[y] = [m \in DOMAIN child[y] |-> child[y][m]]
      BY <3>1, SeqDef
    <3>. QED
      BY <2>2, <3>1, <3>2
  <2>. QED
    BY <2>1, <2>2
<1>5. \A y \in Things : \A m \in DOMAIN child[y] : f[y][m] \in States
  BY <1>4, StatesOf DEF IInv, States
<1>6. /\ f \in [Things -> Seq(States)]
      /\ \A y \in Things : DOMAIN f[y] = DOMAIN child[y]
  <2>. HIDE DEF f
  <2>. QED
    BY <1>3, <1>4, <1>5, AllPlaces DEF IInv
<1>7. \A y \in Things : \A m \in DOMAIN child[y] :
        child'[y][m] = "reaped" <=> child[y][m] = "reaped"
  BY <1>1, <1>4 DEF Live
<1>. QED
  BY <1>1, <1>6, <1>7, TablesStay DEF IInv, Types, Over

LEMMA OutsideKeeps == IInv /\ Outside => IInv'
<1>. SUFFICES ASSUME IInv, Outside PROVE IInv'
  OBVIOUS
<1>1. ASSUME NEW x \in DOMAIN child, NEW n \in DOMAIN child[x], Exit(x, n) PROVE IInv'
  BY <1>1, ExitKeeps
<1>2. ASSUME Tick \/ SendReload \/ SendStop PROVE IInv'
  <2>1. UNCHANGED <<sched, bats, child, pc>>
    BY <1>2 DEF Tick, SendReload, SendStop, inside
  <2>2. conf' \in Confs
    BY <1>2 DEF Tick, SendReload, SendStop, outside, IInv, Types
  <2>. QED
    BY <2>1, <2>2, TablesStay DEF IInv, Types, Over
<1>. QED
  BY <1>1, <1>2 DEF Outside

LEMMA StepInv == IInv /\ [Next]_vars => IInv'
<1>. SUFFICES ASSUME IInv, [Next]_vars PROVE IInv'
  OBVIOUS
<1>1. CASE UNCHANGED vars
  <2>1. UNCHANGED <<sched, bats, child, pc, conf>>
    BY <1>1 DEF vars
  <2>. QED
    BY <2>1, TablesStay DEF IInv, Types, Over
<1>2. CASE Loop
  BY <1>2, ReadingsKeep, ReloadKeeps, CheckRunProcKeeps, InitBatsKeeps, RunBatsKeeps,
     CheckSchdDalyKeeps, TermProcKeeps, KillProcKeeps DEF Loop
<1>3. CASE Outside
  BY <1>3, OutsideKeeps
<1>. QED
  BY <1>1, <1>2, <1>3 DEF Next

----------------------------------------------------------------------------
LEMMA IInvHolds == Spec => []IInv
BY InitInv, StepInv, PTL DEF Spec

(* reLoadSchdDaly, CheckRunProc, CheckSchdDaly: whatever configuration is  *)
(* read and whenever, jpcomd has at most one process for a program that no *)
(* configuration names on two lines, and its pid.                          *)
THEOREM ChildrenKnown == Spec => []ProcessesKnown
<1>1. IInv => ProcessesKnown
  BY DEF IInv
<1>. QED
  BY IInvHolds, <1>1, PTL

(* A pid jpcomd signals or waits for is its own child's, a program's or a  *)
(* batch job's: it was started and has not been waited for; and one entry  *)
(* has it, also of a program on several lines.                             *)
THEOREM PidsAreOwn == Spec => []PidsAreChildren
<1>1. IInv => PidsAreChildren
  BY DEF IInv
<1>. QED
  BY IInvHolds, <1>1, PTL

(* TermProc: the process of a program on one line that was not waited for  *)
(* is in the table, and gets SIGKILL unless it has ended.                  *)
LEMMA EndedStep == IInv /\ ProgramsEndToo /\ [Next]_vars => ProgramsEndToo'
<1>. SUFFICES ASSUME IInv, ProgramsEndToo, [Next]_vars, pc' = "ended",
                     NEW p \in Once, NEW n \in DOMAIN child'[FirstLine(p)]
              PROVE  child'[FirstLine(p)][n] \in {"killed", "zombie", "reaped"}
  BY DEF ProgramsEndToo
<1>. DEFINE l == FirstLine(p)
<1>1. CASE pc = "ended"
  <2>1. UNCHANGED child
    BY <1>1 DEF Next, Loop, Outside, Over, vars, ReadWeek, CheckSignal, Reload, CheckRunProc,
         InitBats, RunBats, CheckSchdDaly, TermProc, KillProc
  <2>. QED
    BY <1>1, <2>1 DEF ProgramsEndToo
<1>2. CASE pc # "ended"
  <2>1. KillProc
    <3>1. CASE Outside
      BY <1>2, <3>1 DEF Outside, Exit, Tick, SendReload, SendStop, inside
    <3>2. CASE UNCHANGED vars
      BY <1>2, <3>2 DEF vars
    <3>3. CASE Loop
      BY <1>2, <3>3 DEF Loop, ReadWeek, CheckSignal, Reload, CheckRunProc, InitBats, RunBats,
           CheckSchdDaly, TermProc
    <3>. QED
      BY <3>1, <3>2, <3>3 DEF Next
  <2>2. ~Over /\ l \in Things /\ Types
    BY <2>1, TheLine DEF KillProc, Over, Things, IInv
  <2>3. n \in DOMAIN child[l]
    BY <2>1, <2>2, KillProcPlaces
  <2>4. child'[l][n] = IF <<l, n>> \notin Pids(sched) THEN child[l][n]
                       ELSE IF Ended(<<l, n>>) THEN "reaped" ELSE Signalled(l, n, "KILL")
    BY <2>1, <2>2, <2>3, KillProcPlaces
  <2>5. CASE <<l, n>> \in Pids(sched)
    BY <2>2, <2>3, <2>4, <2>5, SignalledState
  <2>6. CASE <<l, n>> \notin Pids(sched)
    <3>1. child[l][n] = "reaped"
      <4>1. SUFFICES ASSUME child[l][n] # "reaped" PROVE FALSE
        OBVIOUS
      <4>2. l \in DOMAIN sched /\ sched[l].pid = <<l, n>>
        BY <2>2, <2>3, <4>1 DEF IInv, ProcessesKnown
      <4>. QED
        BY <2>6, <4>2 DEF Pids, NoPid
    <3>. QED
      BY <2>4, <2>6, <3>1
  <2>. QED
    BY <2>5, <2>6
<1>. QED
  BY <1>1, <1>2

(* TermProc: no program that no configuration names on two lines goes on   *)
(* when jpcomd has ended, whatever was reloaded and however often it had   *)
(* been started before.                                                    *)
THEOREM NoProgramOutlives == Spec => []ProgramsEndToo
<1>1. Init => ProgramsEndToo
  BY DEF Init, ProgramsEndToo
<1>. QED
  BY IInvHolds, EndedStep, <1>1, PTL DEF Spec

----------------------------------------------------------------------------
(***************************************************************************)
(* Batch jobs.  A job that counts as run was due in the period of the      *)
(* round before, or of this one: a minute at which it is due again is of   *)
(* another period, and that the period is another is noticed before.  The  *)
(* week's jobs are initialised by the weekdays of two rounds, so that a    *)
(* round must not take longer than a minute.  A weekday that was read      *)
(* before midnight and a time that was read after it stand for the minute  *)
(* before midnight.                                                        *)
(***************************************************************************)
(* Division with a remainder: what it gives, and that nothing else does.   *)
LEMMA DivisionOf ==
  ASSUME NEW b \in Nat \ {0}, NEW a \in Int
  PROVE  a \div b \in Int /\ a % b \in 0 .. b - 1 /\ a = b * (a \div b) + (a % b)
OBVIOUS

LEMMA QuotientIs ==
  ASSUME NEW b \in Nat \ {0}, NEW q \in Int, NEW r \in 0 .. b - 1, NEW a \in Int, a = b * q + r
  PROVE  a \div b = q /\ a % b = r
<1>. DEFINE k == a \div b
            m == a % b
<1>1. k \in Int /\ m \in 0 .. b - 1 /\ a = b * k + m
  BY DivisionOf
<1>. HIDE DEF k, m
<1>2. b * (k - q) = r - m
  BY <1>1
<1>3. ~ (k - q >= 1)
  <2>1. SUFFICES ASSUME k - q >= 1 PROVE FALSE
    OBVIOUS
  <2>2. b * (k - q) >= b
    BY <1>1, <2>1
  <2>. QED
    BY <1>1, <1>2, <2>2
<1>4. ~ (q - k >= 1)
  <2>1. SUFFICES ASSUME q - k >= 1 PROVE FALSE
    OBVIOUS
  <2>2. b * (q - k) >= b
    BY <1>1, <2>1
  <2>3. b * (q - k) = m - r
    BY <1>1, <1>2
  <2>. QED
    BY <1>1, <2>2, <2>3
<1>5. k = q
  BY <1>1, <1>3, <1>4
<1>. QED
  BY <1>1, <1>5 DEF k, m

(* The minute of a week is the weekday and the minute of the day.          *)
LEMMA WeekParts ==
  ASSUME NEW D \in Nat \ {0}, NEW W \in Nat \ {0}, NEW t \in Int
  PROVE  /\ t \div (W * D) = (t \div D) \div W
         /\ t % (W * D) = D * ((t \div D) % W) + (t % D)
<1>. DEFINE a == t \div D
            r == t % D
            b == a \div W
            q == a % W
<1>1. a \in Int /\ r \in 0 .. D - 1 /\ t = D * a + r
  BY DivisionOf
<1>. HIDE DEF a, r
<1>2. b \in Int /\ q \in 0 .. W - 1 /\ a = W * b + q
  BY <1>1, DivisionOf
<1>. HIDE DEF b, q
<1>3. W * D \in Nat \ {0}
  OBVIOUS
<1>4. D * q + r \in 0 .. (W * D) - 1
  <2>1. D * q <= D * (W - 1)
    BY <1>2
  <2>2. D * (W - 1) = W * D - D
    OBVIOUS
  <2>3. D * q \in Nat
    BY <1>2
  <2>. QED
    BY <1>1, <1>3, <2>1, <2>2, <2>3
<1>5. t = (W * D) * b + (D * q + r)
  <2>1. D * (W * b + q) = (W * D) * b + D * q
    BY <1>2
  <2>. QED
    BY <1>1, <1>2, <2>1
<1>6. t \div (W * D) = b /\ t % (W * D) = D * q + r
  BY <1>2, <1>3, <1>4, <1>5, QuotientIs
<1>. QED
  BY <1>6 DEF a, r, b, q

(* Between two minutes of different weeks, two apart at most, a Saturday   *)
(* ends.                                                                   *)
LEMMA WeekEnds ==
  ASSUME NEW D \in Nat \ {0, 1}, NEW W \in Nat \ {0, 1}, NEW u \in Int, NEW v \in Int,
         u <= v, v <= u + 2, u \div (W * D) # v \div (W * D)
  PROVE  (u \div D) % W = W - 1 /\ (v \div D) % W = 0
<1>. DEFINE a == u \div D
            c == v \div D
<1>1. a \in Int /\ c \in Int
  OBVIOUS
<1>2. a <= c /\ c <= a + 1
  OBVIOUS
<1>3. a \div W # c \div W
  BY WeekParts
<1>. HIDE DEF a, c
<1>4. c = a + 1
  BY <1>1, <1>2, <1>3
<1>5. a % W = W - 1 /\ c % W = 0
  BY <1>1, <1>3, <1>4
<1>. QED
  BY <1>5 DEF a, c

(* Two minutes of one period.                                              *)
LEMMA SamePeriod ==
  ASSUME NEW P \in Nat \ {0}, NEW u \in Int, NEW v \in Int, u \div P = v \div P
  PROVE  /\ u <= v => u % P <= v % P
         /\ u < v => u % P < v % P
<1>1. /\ u = P * (u \div P) + (u % P) /\ v = P * (v \div P) + (v % P)
      /\ P * (u \div P) \in Int /\ u % P \in Int /\ v % P \in Int
  BY DivisionOf
<1>. QED
  BY <1>1

(* A minute that is on another day than the one before is midnight.        *)
LEMMA DayEnds ==
  ASSUME NEW D \in Nat \ {0}, NEW t \in Int, (t - 1) \div D # t \div D
  PROVE  t % D = 0 /\ (t - 1) % D \in Nat
OBVIOUS

Minute(j, week, t) == IF j \in Weekly /\ week # Weekday(t) THEN t - 1 ELSE t
Before(j) == Minute(j, dCurrWeek, seen)
Here(j) == Minute(j, dTempWeek, this)

(* Where the weekday was read but not the time, where both were, and where *)
(* the jobs' states are those of the round before.                         *)
Read == pc \in {"reload", "reap", "dates", "bats", "schd"}
Compared == pc \in {"top", "signals", "reload", "reap", "dates"}

Prompt ==
  /\ now <= this + 1 /\ this <= seen + 1
  /\ dCurrWeek \in {Weekday(seen), Weekday(seen - 1)}
  /\ pc = "signals" => \E t \in seen .. now : dTempWeek = Weekday(t)
  /\ Read => \/ dTempWeek = Weekday(this)
             \/ dTempWeek = Weekday(this - 1) /\ seen <= this - 1

Clock ==
  /\ now \in Nat /\ this \in 0 .. now /\ seen \in 0 .. this
  /\ pc \in {"top", "signals"} => seen = this

RunsKnown ==
  \A j \in DOMAIN bats : bats[j].run # 0 =>
    /\ Compared => DueAt[j] <= Before(j) % Period[j]
    /\ pc = "bats" => /\ DueAt[j] <= Before(j) % Period[j]
                      /\ Before(j) \div Period[j] = Here(j) \div Period[j]
    /\ pc = "schd" => DueAt[j] <= Here(j) % Period[j]

JInv == DOMAIN bats \subseteq Jobs /\ Clock /\ (~Pauses => Prompt) /\ RunsKnown

(* At the readings that stand for a minute the clock has gone on since the *)
(* round before, by two minutes at most.                                   *)
LEMMA Minutes ==
  ASSUME ~Pauses \/ Weekly = {}, JInv, NEW j \in Jobs
  PROVE  /\ Before(j) \in Int /\ Here(j) \in Int
         /\ Before(j) \in {seen, seen - 1} /\ Here(j) \in {this, this - 1}
         /\ Read => Before(j) <= Here(j)
         /\ j \in Weekly => Here(j) <= Before(j) + 2
         /\ j \in Weekly => dCurrWeek = Weekday(Before(j))
         /\ j \in Weekly /\ Read => dTempWeek = Weekday(Here(j))
         /\ j \notin Weekly => Before(j) = seen /\ Here(j) = this
<1>1. /\ now \in Nat /\ this \in Nat /\ seen \in Nat /\ seen <= this
      /\ j \in Weekly => Prompt
  BY DEF JInv, Clock
<1>2. CASE j \notin Weekly
  BY <1>1, <1>2 DEF Before, Here, Minute
<1>3. CASE j \in Weekly
  <2>1. /\ Before(j) = IF dCurrWeek = Weekday(seen) THEN seen ELSE seen - 1
        /\ Here(j) = IF dTempWeek = Weekday(this) THEN this ELSE this - 1
    BY <1>3 DEF Before, Here, Minute
  <2>2. /\ this <= seen + 1
        /\ dCurrWeek = Weekday(seen) \/ dCurrWeek = Weekday(seen - 1)
        /\ Read => \/ dTempWeek = Weekday(this)
                   \/ dTempWeek = Weekday(this - 1) /\ seen <= this - 1
    BY <1>1, <1>3 DEF Prompt
  <2>. QED
    BY <1>1, <1>3, <2>1, <2>2
<1>. QED
  BY <1>2, <1>3

LEMMA PeriodOf ==
  ASSUME NEW j \in Jobs
  PROVE  /\ Period[j] \in Nat \ {0} /\ DueAt[j] \in 0 .. Period[j] - 1
         /\ DayLen \in Nat \ {0, 1} /\ WeekLen \in Nat \ {0, 1}
         /\ j \in Weekly => Period[j] = WeekLen * DayLen
BY SchedulerAssumption

LEMMA InitJobs == Init => JInv
<1>. SUFFICES ASSUME Init PROVE JInv
  OBVIOUS
<1>1. Clock
  BY SchedulerAssumption DEF Init, Clock
<1>2. Prompt
  BY <1>1, SchedulerAssumption DEF Init, Clock, Prompt, Read
<1>3. DOMAIN bats = Jobs /\ \A j \in Jobs : bats[j].run = 0
  BY DEF Init, LoadBats, FreshJob
<1>. QED
  BY <1>1, <1>2, <1>3 DEF JInv, RunsKnown

(* When the minutes of two rounds are of different periods the jobs of the *)
(* period are initialised.                                                 *)
LEMMA NewPeriodSeen ==
  ASSUME ~Pauses \/ Weekly = {}, JInv, Read, NEW j \in Jobs,
         Before(j) \div Period[j] # Here(j) \div Period[j]
  PROVE  NewPeriod(j)
<1>1. CASE j \notin Weekly
  BY <1>1, Minutes DEF NewPeriod
<1>2. CASE j \in Weekly
  <2>1. /\ Before(j) \in Int /\ Here(j) \in Int
        /\ Before(j) <= Here(j) /\ Here(j) <= Before(j) + 2
        /\ dCurrWeek = Weekday(Before(j)) /\ dTempWeek = Weekday(Here(j))
    BY <1>2, Minutes
  <2>2. /\ DayLen \in Nat \ {0, 1} /\ WeekLen \in Nat \ {0, 1}
        /\ Before(j) \div (WeekLen * DayLen) # Here(j) \div (WeekLen * DayLen)
    BY <1>2, PeriodOf
  <2>3. /\ (Before(j) \div DayLen) % WeekLen = WeekLen - 1
        /\ (Here(j) \div DayLen) % WeekLen = 0
    BY ONLY <2>1, <2>2, WeekEnds
  <2>. QED
    BY <1>2, <2>1, <2>3 DEF NewPeriod, Weekday
<1>. QED
  BY <1>1, <1>2

(* A job that is due now is at that minute of its period, or past it if    *)
(* midnight was between the two readings.                                  *)
LEMMA DueHere ==
  ASSUME ~Pauses \/ Weekly = {}, JInv, Read, NEW j \in Jobs, Due(j, dTempWeek, this)
  PROVE  /\ DueAt[j] <= Here(j) % Period[j]
         /\ j \notin Weekly \/ ~Parted => this % Period[j] = DueAt[j] /\ Here(j) = this
<1>1. /\ Here(j) \in Int /\ this \in Nat /\ DueAt[j] \in Nat
      /\ Here(j) \in {this, this - 1}
      /\ j \notin Weekly => Here(j) = this
      /\ j \in Weekly => dTempWeek = Weekday(Here(j))
  BY Minutes, PeriodOf DEF JInv, Clock
<1>2. CASE j \notin Weekly
  BY <1>1, <1>2 DEF Due
<1>3. CASE j \in Weekly
  <2>1. /\ DayLen \in Nat \ {0} /\ WeekLen \in Nat \ {0}
        /\ Period[j] = WeekLen * DayLen
    BY <1>3, PeriodOf
  <2>2. dTempWeek = DueAt[j] \div DayLen /\ this % DayLen = DueAt[j] % DayLen
    BY <1>3 DEF Due
  <2>3. Here(j) % Period[j] = DayLen * dTempWeek + (Here(j) % DayLen)
    BY <1>1, <1>3, <2>1, WeekParts DEF Weekday
  <2>4. DueAt[j] = DayLen * dTempWeek + (this % DayLen)
    <3>1. DueAt[j] \in Int /\ DayLen \in Nat \ {0}
      BY <1>1, <2>1
    <3>2. DueAt[j] = DayLen * (DueAt[j] \div DayLen) + (DueAt[j] % DayLen)
      BY <3>1, DivisionOf
    <3>. QED
      BY <2>2, <3>2
  <2>5. CASE Here(j) = this
    <3>1. DueAt[j] = Here(j) % Period[j]
      BY <2>3, <2>4, <2>5
    <3>. QED
      BY <1>1, <2>5, <3>1
  <2>6. CASE Here(j) # this
    <3>1. Here(j) = this - 1 /\ dTempWeek # Weekday(this)
      BY <1>1, <1>3, <2>6 DEF Here, Minute
    <3>2. (this - 1) \div DayLen # this \div DayLen
      BY <1>1, <1>3, <3>1 DEF Weekday
    <3>3. this % DayLen = 0 /\ (this - 1) % DayLen \in Nat
      <4>1. this \in Int /\ DayLen \in Nat \ {0}
        BY <1>1, <2>1
      <4>. QED
        BY <3>2, <4>1, DayEnds
    <3>4. dTempWeek \in Int /\ DayLen * dTempWeek \in Int
      BY <1>1, <2>1, <2>2
    <3>5. DueAt[j] <= Here(j) % Period[j]
      BY <2>3, <2>4, <3>1, <3>3, <3>4
    <3>. QED
      BY <1>3, <3>1, <3>5 DEF Parted
  <2>. QED
    BY <2>5, <2>6
<1>. QED
  BY <1>2, <1>3

times == <<now, this, seen, dTempWeek, dCurrWeek>>

(* A step that leaves the clock and the readings, and does not go on to    *)
(* where they mean something else.                                         *)
LEMMA ClockStays ==
  ASSUME JInv, UNCHANGED times,
         pc' \in {"top", "signals"} => pc \in {"top", "signals"}, pc' = "signals" => pc = "signals",
         Read' => Read
  PROVE  Clock' /\ (~Pauses => Prompt')
BY DEF JInv, Clock, Prompt, times, Weekday

LEMMA MinutesStay ==
  ASSUME UNCHANGED <<seen, dCurrWeek>>, NEW j
  PROVE  Before(j)' = Before(j)
BY DEF Before, Minute, Weekday

(* A step that does not touch the jobs, but perhaps starts them afresh.    *)
LEMMA JobsStay ==
  ASSUME JInv, UNCHANGED times, bats' = bats \/ bats' = LoadBats \/ bats' = <<>>,
         pc' \in {"top", "signals"} => pc \in {"top", "signals"}, pc' = "signals" => pc = "signals",
         Read' => Read,
         Compared' => Compared, pc' = "bats" => pc = "bats", pc' = "schd" => pc = "schd"
  PROVE  JInv'
<1>1. Clock' /\ (~Pauses => Prompt')
  BY ClockStays
<1>2. CASE bats' = bats
  <2>1. \A j : Before(j)' = Before(j) /\ Here(j)' = Here(j)
    BY DEF times, Before, Here, Minute, Weekday
  <2>2. RunsKnown'
    BY <1>2, <2>1 DEF JInv, RunsKnown
  <2>. QED
    BY <1>1, <1>2, <2>2 DEF JInv
<1>3. CASE bats' # bats
  <2>1. DOMAIN bats' \subseteq Jobs /\ \A j \in DOMAIN bats' : bats'[j].run = 0
    BY <1>3 DEF LoadBats, FreshJob
  <2>. QED
    BY <1>1, <2>1 DEF JInv, RunsKnown
<1>. QED
  BY <1>2, <1>3

(* A new round reads the clock, twice.                                     *)
LEMMA ReadWeekJobs == JInv /\ ReadWeek => JInv'
<1>. SUFFICES ASSUME JInv, ReadWeek PROVE JInv'
  OBVIOUS
<1>1. /\ pc = "top" /\ pc' = "signals" /\ dTempWeek' = Weekday(now)
      /\ UNCHANGED <<now, this, seen, dCurrWeek, bats>>
  BY DEF ReadWeek, outside
<1>2. Clock'
  BY <1>1 DEF JInv, Clock
<1>3. ~Pauses => Prompt'
  <2>1. now \in seen .. now
    BY DEF JInv, Clock
  <2>. QED
    BY <1>1, <2>1 DEF JInv, Prompt, Read, Weekday
<1>4. RunsKnown'
  BY <1>1, MinutesStay DEF JInv, RunsKnown, Compared
<1>. QED
  BY <1>1, <1>2, <1>3, <1>4 DEF JInv

LEMMA CheckSignalJobs == JInv /\ CheckSignal => JInv'
<1>. SUFFICES ASSUME JInv, CheckSignal PROVE JInv'
  OBVIOUS
<1>1. /\ pc = "signals" /\ this' = now /\ pc' \in {"term", "reload"}
      /\ UNCHANGED <<now, seen, dTempWeek, dCurrWeek, bats>>
  BY DEF CheckSignal, outside, weeks
<1>2. Clock'
  BY <1>1 DEF JInv, Clock
<1>3. ASSUME ~Pauses PROVE Prompt'
  <2>1. now \in Nat /\ seen \in Nat /\ now <= seen + 1 /\ seen = this
    BY <1>1, <1>3 DEF JInv, Clock, Prompt
  <2>2. PICK t \in seen .. now : dTempWeek = Weekday(t)
    BY <1>1, <1>3 DEF JInv, Prompt
  <2>3. t = now \/ (t = now - 1 /\ seen <= now - 1)
    BY <2>1
  <2>4. dTempWeek = Weekday(now) \/ (dTempWeek = Weekday(now - 1) /\ seen <= now - 1)
    BY <2>2, <2>3
  <2>5. dCurrWeek \in {Weekday(seen), Weekday(seen - 1)}
    BY <1>3 DEF JInv, Prompt
  <2>. QED
    BY <1>1, <2>1, <2>4, <2>5 DEF Prompt, Weekday
<1>4. RunsKnown'
  BY <1>1, MinutesStay DEF JInv, RunsKnown, Compared
<1>. QED
  BY <1>1, <1>2, <1>3, <1>4 DEF JInv

(* A job that counts as run after the dates were compared ran in this      *)
(* period, and before this round unless it is no new minute.               *)
LEMMA InitBatsJobs ==
  ASSUME ~Pauses \/ Weekly = {}, JInv, InitBats
  PROVE  JInv'
<1>1. /\ pc = "dates" /\ pc' = "bats" /\ UNCHANGED times
      /\ bats' = [j \in DOMAIN bats |-> IF NewPeriod(j) THEN FreshJob ELSE bats[j]]
  BY DEF InitBats, outside, weeks, times
<1>2. Clock' /\ (~Pauses => Prompt')
  BY <1>1, ClockStays DEF Read
<1>3. \A j : Before(j)' = Before(j) /\ Here(j)' = Here(j)
  BY <1>1 DEF times, Before, Here, Minute, Weekday
<1>4. ASSUME NEW j \in DOMAIN bats', bats'[j].run # 0
      PROVE  /\ DueAt[j] <= Before(j) % Period[j]
             /\ Before(j) \div Period[j] = Here(j) \div Period[j]
  <2>1. j \in Jobs /\ j \in DOMAIN bats /\ ~NewPeriod(j) /\ bats[j].run # 0
    BY <1>1, <1>4 DEF JInv, FreshJob
  <2>2. DueAt[j] <= Before(j) % Period[j]
    BY <1>1, <2>1 DEF JInv, RunsKnown, Compared
  <2>. QED
    BY <1>1, <2>1, <2>2, NewPeriodSeen DEF Read
<1>5. RunsKnown'
  BY <1>1, <1>3, <1>4 DEF RunsKnown, Compared
<1>. QED
  BY <1>1, <1>2, <1>5 DEF JInv

LEMMA RunBatsJobs ==
  ASSUME ~Pauses \/ Weekly = {}, JInv, RunBats
  PROVE  JInv'
<1>1. PICK S \in SUBSET ToRun :
        bats' = [j \in DOMAIN bats |->
                   IF j \in S THEN [pid |-> NewPid(j), run |-> 1] ELSE bats[j]]
  BY DEF RunBats
<1>2. pc = "bats" /\ pc' \in {"schd", "gone"} /\ UNCHANGED times
  BY DEF RunBats, outside, weeks, times
<1>3. Clock' /\ (~Pauses => Prompt')
  BY <1>2, ClockStays DEF Read
<1>4. \A j : Before(j)' = Before(j) /\ Here(j)' = Here(j)
  BY <1>2 DEF times, Before, Here, Minute, Weekday
<1>5. ASSUME NEW j \in DOMAIN bats', bats'[j].run # 0
      PROVE  DueAt[j] <= Here(j) % Period[j]
  <2>1. j \in Jobs /\ j \in DOMAIN bats /\ Read
    BY <1>1, <1>2 DEF JInv, Read
  <2>2. CASE j \in S
    <3>1. Due(j, dTempWeek, this)
      BY <2>2 DEF ToRun
    <3>. QED
      BY <2>1, <3>1, DueHere
  <2>3. CASE j \notin S
    <3>1. /\ DueAt[j] <= Before(j) % Period[j]
          /\ Before(j) \div Period[j] = Here(j) \div Period[j]
      BY <1>1, <1>2, <1>5, <2>1, <2>3 DEF JInv, RunsKnown
    <3>2. /\ Before(j) \in Int /\ Here(j) \in Int /\ Before(j) <= Here(j)
          /\ Period[j] \in Nat \ {0} /\ DueAt[j] \in Nat
      BY <2>1, Minutes, PeriodOf
    <3>. QED
      BY <3>1, <3>2, SamePeriod
  <2>. QED
    BY <2>2, <2>3
<1>6. RunsKnown'
  BY <1>2, <1>4, <1>5 DEF RunsKnown, Compared
<1>. QED
  BY <1>1, <1>3, <1>6 DEF JInv

LEMMA CheckSchdDalyJobs ==
  ASSUME ~Pauses \/ Weekly = {}, JInv, CheckSchdDaly
  PROVE  JInv'
<1>1. /\ pc = "schd" /\ pc' \in {"top", "gone"} /\ seen' = this /\ dCurrWeek' = dTempWeek
      /\ UNCHANGED <<now, this, bats>>
  BY DEF CheckSchdDaly, outside
<1>2. Clock'
  BY <1>1 DEF JInv, Clock
<1>3. ~Pauses => Prompt'
  BY <1>1 DEF JInv, Prompt, Clock, Read, Weekday
<1>4. \A j : Before(j)' = Here(j)
  BY <1>1 DEF Before, Here, Minute, Weekday
<1>5. RunsKnown'
  BY <1>1, <1>4 DEF JInv, RunsKnown, Compared
<1>. QED
  BY <1>1, <1>2, <1>3, <1>5 DEF JInv

(* The tables of the jobs lose pids, not what has run.                     *)
LEMMA CheckRunProcJobs == JInv /\ CheckRunProc => JInv'
<1>. SUFFICES ASSUME JInv, CheckRunProc PROVE JInv'
  OBVIOUS
<1>1. pc = "reap" /\ pc' = "dates" /\ UNCHANGED times
  BY DEF CheckRunProc, outside, weeks, times
<1>2. bats' = bats \/ bats' = Forget(bats)
  BY DEF CheckRunProc
<1>3. /\ DOMAIN bats' = DOMAIN bats
      /\ \A j \in DOMAIN bats : bats'[j].run # 0 => bats[j].run # 0
  <2>1. CASE bats' = bats
    BY <2>1
  <2>2. CASE bats' = Forget(bats)
    <3>. SUFFICES ASSUME NEW j \in DOMAIN bats PROVE bats'[j].run = bats[j].run
      BY <2>2 DEF Forget
    <3>. QED
      BY <2>2 DEF Forget
  <2>. QED
    BY <1>2, <2>1, <2>2
<1>4. Clock' /\ (~Pauses => Prompt')
  BY <1>1, ClockStays DEF Read
<1>5. \A j : Before(j)' = Before(j)
  BY <1>1, MinutesStay DEF times
<1>6. RunsKnown'
  BY <1>1, <1>3, <1>5 DEF JInv, RunsKnown, Compared
<1>. QED
  BY <1>3, <1>4, <1>6 DEF JInv

LEMMA OutsideJobs == JInv /\ Outside => JInv'
<1>. SUFFICES ASSUME JInv, Outside PROVE JInv'
  OBVIOUS
<1>1. UNCHANGED <<this, seen, dTempWeek, dCurrWeek, bats, pc>>
  BY DEF Outside, Exit, Tick, SendReload, SendStop, inside, weeks
<1>2. now' = now \/ (now' = now + 1 /\ (Pauses \/ this = now))
  BY DEF Outside, Exit, Tick, SendReload, SendStop, outside
<1>3. Clock'
  BY <1>1, <1>2 DEF JInv, Clock
<1>4. ASSUME ~Pauses PROVE Prompt'
  <2>1. now \in Nat /\ now' \in Nat /\ now <= now' /\ seen \in Nat
    BY <1>2 DEF JInv, Clock
  <2>2. now' <= this + 1
    BY <1>2, <1>4, <2>1 DEF JInv, Clock, Prompt
  <2>3. \A t \in seen .. now : t \in seen .. now'
    BY <2>1
  <2>. QED
    BY <1>1, <1>4, <2>2, <2>3 DEF JInv, Prompt, Read, Weekday
<1>5. \A j : Before(j)' = Before(j) /\ Here(j)' = Here(j)
  BY <1>1 DEF Before, Here, Minute, Weekday
<1>6. RunsKnown'
  BY <1>1, <1>5 DEF JInv, RunsKnown, Compared
<1>. QED
  BY <1>1, <1>3, <1>4, <1>6 DEF JInv

LEMMA JobsStep == ASSUME ~Pauses \/ Weekly = {} PROVE JInv /\ [Next]_vars => JInv'
<1>. SUFFICES ASSUME JInv, [Next]_vars PROVE JInv'
  OBVIOUS
<1>1. CASE Reload
  <2>1. UNCHANGED times /\ pc = "reload" /\ pc' = "reap"
    BY <1>1 DEF Reload, outside, weeks, times
  <2>2. bats' = bats \/ bats' = LoadBats \/ bats' = <<>>
    BY <1>1 DEF Reload
  <2>. QED
    BY <2>1, <2>2, JobsStay DEF Compared, Read
<1>2. CASE TermProc \/ KillProc \/ UNCHANGED vars
  <2>1. UNCHANGED <<times, bats>> /\ (pc' = pc \/ pc' \in {"kill", "ended"})
    BY <1>2 DEF TermProc, KillProc, vars, outside, weeks, times
  <2>. QED
    BY <2>1, JobsStay DEF Compared, Read
<1>3. CASE ReadWeek \/ CheckSignal \/ CheckRunProc \/ Outside
  BY <1>3, ReadWeekJobs, CheckSignalJobs, CheckRunProcJobs, OutsideJobs
<1>4. CASE InitBats \/ RunBats \/ CheckSchdDaly
  BY <1>4, InitBatsJobs, RunBatsJobs, CheckSchdDalyJobs
<1>. QED
  BY <1>1, <1>2, <1>3, <1>4 DEF Next, Loop

(* InitBatsDaly, ...Week, ...Mnth, ...Year and RunBats*: in the minute at  *)
(* which a job is due it is started, however often it ran in periods       *)
(* before, if no round takes longer than a minute or there is no weekly    *)
(* job; a weekly job unless midnight falls between the readings of the     *)
(* weekday and of the time.                                                *)
THEOREM JobsRunWhenDue == ASSUME ~Pauses \/ Weekly = {} PROVE Spec => DueJobsRun
<1>. DEFINE Starts(j) == RunBats /\ pc' = "schd" /\ this # seen /\ Due(j, Weekday(this), this)
                           => Len(child'[j]) = Len(child[j]) + 1 \/ (j \in Weekly /\ Parted)
<1>1. IInv /\ JInv => \A j \in DOMAIN bats : Starts(j)
  <2>. SUFFICES ASSUME IInv, JInv, NEW j \in DOMAIN bats,
                       RunBats, pc' = "schd", this # seen, Due(j, Weekday(this), this),
                       ~ (j \in Weekly /\ Parted)
                PROVE  Len(child'[j]) = Len(child[j]) + 1
    OBVIOUS
  <2>1. /\ j \in Jobs /\ seen \in Nat /\ this \in Nat /\ seen < this
        /\ pc = "bats" /\ Read
    BY DEF JInv, Clock, RunBats, Read
  <2>2. Due(j, dTempWeek, this)
    BY DEF Due, Parted
  <2>3. this % Period[j] = DueAt[j] /\ Here(j) = this
    BY <2>1, <2>2, DueHere
  <2>4. bats[j].run = 0
    <3>1. SUFFICES ASSUME bats[j].run # 0 PROVE FALSE
      OBVIOUS
    <3>2. /\ DueAt[j] <= Before(j) % Period[j]
          /\ Before(j) \div Period[j] = Here(j) \div Period[j]
      BY <2>1, <3>1 DEF JInv, RunsKnown
    <3>3. Before(j) \in Int /\ Before(j) < this /\ Period[j] \in Nat \ {0}
      BY <2>1, Minutes, PeriodOf
    <3>4. Before(j) % Period[j] < this % Period[j]
      BY <2>1, <2>3, <3>2, <3>3, SamePeriod
    <3>5. Before(j) % Period[j] \in Int /\ this % Period[j] \in Int
      BY <2>1, <3>3
    <3>. QED
      BY <2>3, <3>2, <3>4, <3>5
  <2>5. j \in ToRun
    BY <2>2, <2>4 DEF ToRun
  <2>6. child' = Started(ToRun)
    BY DEF RunBats
  <2>7. child[j] \in Seq(States) /\ j \in DOMAIN child
    BY <2>1 DEF IInv, Types, Things
  <2>8. child'[j] = Append(child[j], "running")
    BY <2>5, <2>6, <2>7 DEF Started
  <2>. QED
    BY <2>7, <2>8, AppendedPlace
<1>2. IInv /\ JInv => [\A j \in DOMAIN bats : Starts(j)]_vars
  BY <1>1
<1>3. JInv /\ [Next]_vars => JInv'
  BY JobsStep
<1>. QED
  BY IInvHolds, InitJobs, <1>2, <1>3, PTL DEF Spec, DueJobsRun
=============================================================================
