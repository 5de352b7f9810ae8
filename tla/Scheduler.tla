----------------------------- MODULE Scheduler -----------------------------
(***************************************************************************)
(* jpcomd: one loop that looks at its blocked signals, reads its           *)
(* configuration again, reaps children, starts the batch jobs of a minute  *)
(* and keeps the scheduled programs running in their windows and not       *)
(* outside.  Children, signals, files and the clock change at any moment.  *)
(***************************************************************************)
EXTENDS Integers, Sequences

CONSTANTS
  Lines,        (* lines schddaly.conf may have: <<p, i>> is the i-th that *)
                (*   names p, a program with its arguments                 *)
  MAX_PROCSCHD_NUM, (* places in the table                                 *)
  Confs,        (* what the files may say: .schd, the windows of Lines of  *)
                (*   schddaly.conf; .bats, that the bats*.conf can be read *)
  BadConf,      (* .schd if schddaly.conf cannot be read                   *)
  Obstinate,    (* programs that ignore SIGTERM                            *)
  Jobs,         (* batch jobs, daily, weekly, monthly or yearly            *)
  Weekly,       (* those of batsweek.conf                                  *)
  Period,       (* minutes after which a job's state is initialised        *)
  DueAt,        (* the minute of its period at which a job is to run       *)
  DayLen,       (* minutes of a day                                        *)
  WeekLen,      (* days of a week                                          *)
  KillAfter,    (* 3: SIGTERMs before SIGKILL                              *)
  RetryEvery,   (* 10: rounds between restarts of a program                *)
  StartMinutes, (* bound on the minutes at which jpcomd starts             *)
  LastMinute,   (* bound on the clock                                      *)
  Ending,       (* bound on the processes that end by themselves, by pid   *)
  MaxSignals,   (* bound on SIGUSR1s                                       *)
  Pauses,       (* TRUE: a round may take longer than a minute             *)
  ForkFails     (* TRUE: fork may fail                                     *)

Progs == {l[1] : l \in Lines}
FirstLine(p) == <<p, 1>>

(* The programs that no configuration names on two lines.                  *)
Once == {p \in Progs : \A l \in Lines : l[1] = p => l = FirstLine(p)}

ASSUME SchedulerAssumption ==
  /\ Lines \subseteq Progs \X (1 .. MAX_PROCSCHD_NUM)
  /\ MAX_PROCSCHD_NUM \in Nat
  /\ \A p \in Progs : FirstLine(p) \in Lines
  /\ Obstinate \subseteq Progs /\ Weekly \subseteq Jobs
  /\ Lines \cap Jobs = {}
  /\ \A c \in Confs : c.schd = BadConf \/ DOMAIN c.schd \subseteq Lines
  /\ \A j \in Jobs : Period[j] \in Nat \ {0} /\ DueAt[j] \in 0 .. Period[j] - 1
  /\ \A j \in Weekly : Period[j] = WeekLen * DayLen
  /\ {DayLen, WeekLen} \subseteq Nat \ {0, 1} /\ RetryEvery \in Nat \ {0}
  /\ StartMinutes \subseteq Nat
  /\ {KillAfter, LastMinute, MaxSignals} \subseteq Nat

VARIABLES
  now,     (* the clock, in minutes                                        *)
  this,    (* sTempDateTime: the time of this round                        *)
  seen,    (* sCurrDateTime: the time of the round before                  *)
  dTempWeek, dCurrWeek,   (* the weekdays of the two, read before the time *)
  conf,    (* the configuration files                                      *)
  sched,   (* g_sSchdDaly, by line                                         *)
  bats,    (* g_sBats*, by job                                             *)
  cnt,     (* counts the rounds, static in CheckSchdDaly                   *)
  pending, (* blocked signals                                              *)
  flags,   (* g_termflag, g_chkrunflag, g_reloadflag                       *)
  pc,      (* where the loop is                                            *)
  child,   (* the processes started for each line and job: <<x, n>> is the *)
           (*   pid of the n-th for x                                      *)
  sent     (* history: SIGUSR1s sent                                       *)

vars == <<now, this, seen, dTempWeek, dCurrWeek, conf, sched, bats, cnt, pending, flags,
          pc, child, sent>>
outside == <<now, conf, sent>>

weeks == <<dTempWeek, dCurrWeek>>

NoPid == <<>>
Excluded == <<8888, 9999>>   \* the window of a program no longer listed
Live == {"running", "termed", "killed"}

Listed(w) == [win |-> w, pid |-> NoPid, ran |-> FALSE, kil |-> 0]
FreshJob == [pid |-> NoPid, run |-> 0]
LoadSchd(c) == [l \in DOMAIN c |-> Listed(c[l])]
LoadBats == [j \in Jobs |-> FreshJob]

Weekday(t) == (t \div DayLen) % WeekLen

(* InitProc, then ProcMain up to its loop.  The weekday is read before the *)
(* time, here too, so perhaps in the minute before.                        *)
Init ==
  /\ now \in StartMinutes /\ this = now /\ seen = now
  /\ dCurrWeek \in {Weekday(now), Weekday(now - 1)} /\ dTempWeek = dCurrWeek
  /\ conf \in Confs /\ conf.schd # BadConf /\ conf.bats
  /\ sched = LoadSchd(conf.schd)
  /\ bats = LoadBats
  /\ cnt = 0
  /\ pending = {} /\ flags = {}
  /\ pc = "top"
  /\ child = [x \in Lines \cup Jobs |-> <<>>]
  /\ sent = 0

Over == pc \in {"ended", "gone"}

----------------------------------------------------------------------------

(* getWeekNo, then getDateTime_14: two readings of the clock.              *)
ReadWeek ==
  /\ pc = "top"
  /\ dTempWeek' = Weekday(now)
  /\ pc' = "signals"
  /\ UNCHANGED <<outside, this, seen, dCurrWeek, sched, bats, cnt, pending, flags, child>>

(* Mutant: a reload hides the signals that are pending with it.            *)
CheckSignalReloadOnly ==
  /\ pc = "signals"
  /\ this' = now
  /\ flags' = IF "USR1" \in pending THEN {"USR1"} ELSE pending
  /\ pending' = {}
  /\ pc' = IF "TERM" \in flags' THEN "term" ELSE "reload"
  /\ UNCHANGED <<outside, weeks, seen, sched, bats, cnt, child>>

CheckSignal ==
  /\ pc = "signals"
  /\ this' = now
  /\ flags' = pending
  /\ pending' = {}
  /\ pc' = IF "TERM" \in pending THEN "term" ELSE "reload"
  /\ UNCHANGED <<outside, weeks, seen, sched, bats, cnt, child>>

(* Mutant: the table is read as at the start, without the processes.       *)
reLoadForgets == IF conf.schd = BadConf THEN sched ELSE LoadSchd(conf.schd)

(* The pid that a program's entries carry over is that of the last of      *)
(* them, and the first line of the program gets it.                        *)
LinesOf(p) == {l \in DOMAIN sched : l[1] = p}

LastLine(p) == CHOOSE l \in LinesOf(p) : \A m \in LinesOf(p) : m[2] <= l[2]

Carried(p) == IF LinesOf(p) = {} THEN NoPid ELSE sched[LastLine(p)].pid

(* A program that is no longer listed stays in the table, in one entry     *)
(* with a window that never comes, if an entry has a process.              *)
LiveLines(p) == {l \in LinesOf(p) : sched[l].pid # NoPid}

Left(p) ==
  LET first == CHOOSE l \in LiveLines(p) : \A m \in LiveLines(p) : l[2] <= m[2]
  IN  [sched[first] EXCEPT !.win = Excluded, !.pid = Carried(p)]

reLoadSchdDaly ==
  IF conf.schd = BadConf THEN sched
  ELSE LET kept == {FirstLine(p) : p \in {q \in Progs : LiveLines(q) # {}}}
           gone == {l \in kept : l \notin DOMAIN conf.schd}
       IN  [l \in DOMAIN conf.schd \cup gone |->
              IF l \in gone THEN Left(l[1])
              ELSE [Listed(conf.schd[l]) EXCEPT !.pid = IF l = FirstLine(l[1]) THEN Carried(l[1])
                                                   ELSE NoPid]]

Reload ==
  /\ pc = "reload"
  /\ IF "USR1" \in flags
     THEN /\ sched' = reLoadSchdDaly
          /\ bats' = IF conf.bats THEN LoadBats ELSE <<>>
     ELSE UNCHANGED <<sched, bats>>
  /\ flags' = flags \ {"USR1"}
  /\ pc' = "reap"
  /\ UNCHANGED <<outside, this, seen, weeks, cnt, pending, child>>

(* waitpid, without waiting, for every process of the tables.              *)
Status(pid) == child[pid[1]][pid[2]]
Pids(table) == {table[x].pid : x \in DOMAIN table} \ {NoPid}
Ended(pid) == pid # NoPid /\ Status(pid) = "zombie"

(* Mutant: the pid of an ended process stays in the table.                 *)
ForgetNot(table) == table

Forget(table) ==
  [x \in DOMAIN table |->
     IF Ended(table[x].pid) THEN [table[x] EXCEPT !.pid = NoPid] ELSE table[x]]

Reaped(pids) ==
  [x \in DOMAIN child |-> [n \in DOMAIN child[x] |->
     IF <<x, n>> \in pids /\ Ended(<<x, n>>) THEN "reaped" ELSE child[x][n]]]

CheckRunProc ==
  /\ pc = "reap"
  /\ IF "CHLD" \in flags
     THEN /\ sched' = Forget(sched)
          /\ bats' = Forget(bats)
          /\ child' = Reaped(Pids(sched) \cup Pids(bats))
     ELSE UNCHANGED <<sched, bats, child>>
  /\ flags' = flags \ {"CHLD"}
  /\ pc' = "dates"
  /\ UNCHANGED <<outside, this, seen, weeks, cnt, pending>>

(* InitBatsYear, ...Mnth, ...Daly when the date changed that far; ...Week  *)
(* when a Saturday is followed by a Sunday.                                *)

(* Mutant: the days of the week are counted from 1.                        *)
NewPeriodFromOne(j) ==
  IF j \in Weekly THEN dCurrWeek = WeekLen /\ dTempWeek = 1
  ELSE seen \div Period[j] # this \div Period[j]

NewPeriod(j) ==
  IF j \in Weekly THEN dCurrWeek = WeekLen - 1 /\ dTempWeek = 0
  ELSE seen \div Period[j] # this \div Period[j]

InitBats ==
  /\ pc = "dates"
  /\ bats' = [j \in DOMAIN bats |-> IF NewPeriod(j) THEN FreshJob ELSE bats[j]]
  /\ pc' = "bats"
  /\ UNCHANGED <<outside, this, seen, weeks, sched, cnt, pending, flags, child>>

NewPid(x) == <<x, Len(child[x]) + 1>>

(* RunBatsDaly, ...Week, ...Mnth, ...Year: of a weekly job the weekday and *)
(* the minute of the day are compared.  A fork that fails ends jpcomd.     *)
Due(j, week, t) ==
  IF j \in Weekly
  THEN week = DueAt[j] \div DayLen /\ t % DayLen = DueAt[j] % DayLen
  ELSE t % Period[j] = DueAt[j]

ToRun == {j \in DOMAIN bats : this # seen /\ bats[j].run = 0 /\ Due(j, dTempWeek, this)}

Started(S) ==
  [x \in DOMAIN child |-> IF x \in S THEN Append(child[x], "running") ELSE child[x]]

RunBats ==
  /\ pc = "bats"
  /\ \E S \in SUBSET ToRun :
       /\ S = ToRun \/ ForkFails
       /\ bats' = [j \in DOMAIN bats |->
                     IF j \in S THEN [pid |-> NewPid(j), run |-> 1] ELSE bats[j]]
       /\ child' = Started(S)
       /\ pc' = IF S = ToRun THEN "schd" ELSE "gone"
  /\ UNCHANGED <<outside, this, seen, weeks, sched, cnt, pending, flags>>

(* Same start and end: always.  A start after the end: across midnight.    *)
InWindow(w, t) ==
  LET m == t % DayLen IN
  \/ w[1] = w[2]
  \/ w[1] < w[2] /\ w[1] <= m /\ m <= w[2]
  \/ w[1] > w[2] /\ (w[1] <= m \/ m <= w[2])

(* Mutant: the count of rounds starts again at 1.                          *)
NextCntFromOne == IF cnt + 1 >= RetryEvery THEN 1 ELSE cnt + 1

NextCnt == (cnt + 1) % RetryEvery

ToStart ==
  {l \in DOMAIN sched : /\ InWindow(sched[l].win, this)
                        /\ sched[l].pid = NoPid
                        /\ NextCnt = 0 \/ ~sched[l].ran}

ToStop == {l \in DOMAIN sched : ~InWindow(sched[l].win, this) /\ sched[l].pid # NoPid}

(* Mutant: SIGTERM where SIGKILL is due.                                   *)
SignalledPolitely(x, n, sig) ==
  IF child[x][n] = "running" /\ x[1] \notin Obstinate THEN "termed" ELSE child[x][n]

Signalled(x, n, sig) ==
  CASE sig = "KILL" /\ child[x][n] \in Live -> "killed"
    [] sig = "TERM" /\ child[x][n] = "running" /\ x[1] \notin Obstinate -> "termed"
    [] OTHER -> child[x][n]

SignalAll(pids, sig) ==
  [x \in DOMAIN child |-> [n \in DOMAIN child[x] |->
     IF <<x, n>> \in pids THEN Signalled(x, n, sig) ELSE child[x][n]]]

StopSignal(l) == IF sched[l].kil > KillAfter THEN "KILL" ELSE "TERM"

Told(T, sig) == {sched[l].pid : l \in {m \in T : StopSignal(m) = sig}}

Stopped(T) ==
  [x \in DOMAIN child |-> [n \in DOMAIN child[x] |->
     CASE <<x, n>> \in Told(T, "KILL") -> Signalled(x, n, "KILL")
       [] <<x, n>> \in Told(T, "TERM") -> Signalled(x, n, "TERM")
       [] OTHER -> child[x][n]]]

StopCounted(l) ==
  [sched[l] EXCEPT !.ran = FALSE, !.kil = IF StopSignal(l) = "TERM" THEN @ + 1 ELSE @]

CheckSchdDaly ==
  /\ pc = "schd"
  /\ cnt' = NextCnt
  /\ \E S \in SUBSET ToStart, T \in SUBSET ToStop :
       /\ (S = ToStart /\ T = ToStop) \/ (ForkFails /\ S # ToStart)
       /\ sched' = [l \in DOMAIN sched |->
            IF l \in S THEN [sched[l] EXCEPT !.pid = NewPid(l), !.kil = 0, !.ran = TRUE]
            ELSE IF l \in T THEN StopCounted(l) ELSE sched[l]]
       /\ child' = [x \in DOMAIN child |->
            IF x \in S THEN Append(Stopped(T)[x], "running") ELSE Stopped(T)[x]]
       /\ pc' = IF S = ToStart THEN "top" ELSE "gone"
  /\ seen' = this /\ dCurrWeek' = dTempWeek
  /\ UNCHANGED <<outside, this, dTempWeek, bats, pending, flags>>

(* TermProc: SIGTERM, a second, SIGKILL for those still there.             *)
TermProc ==
  /\ pc = "term"
  /\ child' = SignalAll(Pids(sched), "TERM")
  /\ pc' = "kill"
  /\ UNCHANGED <<outside, this, seen, weeks, sched, bats, cnt, pending, flags>>

KillProc ==
  /\ pc = "kill"
  /\ sched' = Forget(sched)
  /\ child' = [x \in DOMAIN child |-> [n \in DOMAIN child[x] |->
       IF <<x, n>> \notin Pids(sched) THEN child[x][n]
       ELSE IF Ended(<<x, n>>) THEN "reaped" ELSE Signalled(x, n, "KILL")]]
  /\ pc' = "ended"
  /\ UNCHANGED <<outside, this, seen, weeks, bats, cnt, pending, flags>>

Loop ==
  \/ ReadWeek \/ CheckSignal \/ Reload \/ CheckRunProc \/ InitBats \/ RunBats \/ CheckSchdDaly
  \/ TermProc \/ KillProc

----------------------------------------------------------------------------
inside == <<this, seen, weeks, sched, bats, cnt, flags, pc>>

(* A child ends, by itself or as it is told.                               *)
Exit(x, n) ==
  /\ child[x][n] \in Live
  /\ child[x][n] = "running" => <<x, n>> \in Ending
  /\ child' = [child EXCEPT ![x][n] = "zombie"]
  /\ pending' = pending \cup {"CHLD"}
  /\ UNCHANGED <<outside, inside>>

Tick ==
  /\ now < LastMinute
  /\ Pauses \/ this = now
  /\ now' = now + 1
  /\ UNCHANGED <<conf, sent, inside, pending, child>>

(* jpcomd reload and jpcomd stop.                                          *)
SendReload ==
  /\ sent < MaxSignals
  /\ conf' \in Confs
  /\ pending' = pending \cup {"USR1"}
  /\ sent' = sent + 1
  /\ UNCHANGED <<now, inside, child>>

SendStop ==
  /\ pending' = pending \cup {"TERM"}
  /\ UNCHANGED <<outside, inside, child>>

Outside ==
  /\ ~Over
  /\ \/ \E x \in DOMAIN child : \E n \in DOMAIN child[x] : Exit(x, n)
     \/ Tick \/ SendReload \/ SendStop

Next == Loop \/ Outside

Spec == Init /\ [][Next]_vars

(* The loop goes on, and a process that is told to end does.               *)
ToldToEnd(x) == \E n \in DOMAIN child[x] : child[x][n] \in {"termed", "killed"} /\ Exit(x, n)

Fairness ==
  /\ WF_vars(Loop)
  /\ \A l \in Lines : WF_vars(~Over /\ ToldToEnd(l))

FairSpec == Spec /\ Fairness

----------------------------------------------------------------------------
TypeOK ==
  /\ this \in 0 .. now /\ seen \in 0 .. this
  /\ DOMAIN sched \subseteq Lines
  /\ \A l \in DOMAIN sched : sched[l].kil \in 0 .. KillAfter + 1
  /\ \A t \in {sched, bats} : \A pid \in Pids(t) : pid[2] \in DOMAIN child[pid[1]]
  /\ pending \subseteq {"TERM", "CHLD", "USR1"} /\ flags \subseteq {"TERM", "CHLD", "USR1"}

(* Whatever is reloaded and whenever, jpcomd knows every process it has    *)
(* started for a program that no configuration names twice: the program    *)
(* never runs twice, and no process is left that nobody would stop         *)
(* (reLoadSchdDaly, CheckRunProc).  A program that a configuration names   *)
(* on two lines may lose a process in a reload: README, "Where code and    *)
(* comments part".                                                         *)
ProcessesKnown ==
  \A p \in Once : \A n \in DOMAIN child[FirstLine(p)] :
    child[FirstLine(p)][n] # "reaped" /\ ~Over
      => /\ FirstLine(p) \in DOMAIN sched
         /\ sched[FirstLine(p)].pid = <<FirstLine(p), n>>

(* A pid in a table is a child that was not waited for, so the pid cannot  *)
(* be somebody else's and kill and waitpid reach jpcomd's own child; and   *)
(* only one entry has it, also of a program on two lines.                  *)
PidsAreChildren ==
  /\ \A t \in {sched, bats} : \A pid \in Pids(t) : Status(pid) # "reaped"
  /\ \A l, m \in DOMAIN sched : sched[l].pid = sched[m].pid => l = m \/ sched[l].pid = NoPid

(* When jpcomd has ended by its termination procedure no scheduled program *)
(* goes on, of those that no configuration names twice.                    *)
ProgramsEndToo ==
  pc = "ended" => \A p \in Once : \A n \in DOMAIN child[FirstLine(p)] :
                    child[FirstLine(p)][n] \in {"killed", "zombie", "reaped"}

(* "Kills every process, as the daemon is about to end" (TermProc): of all *)
(* that it has started.                                                    *)
(* Does not hold: README, "Where code and comments part".                  *)
EverythingEndsToo ==
  pc = "ended" => \A x \in DOMAIN child : \A n \in DOMAIN child[x] :
                    child[x][n] \in {"killed", "zombie", "reaped"}

(* In the minute at which a job is due it is started, whenever it ran      *)
(* before: its state has been initialised since ("what is to be done when  *)
(* the week changes").  A weekly job due at midnight is missed if midnight *)
(* falls between the readings of the weekday and of the time: README,      *)
(* "Where code and comments part".                                         *)
Parted == dTempWeek # Weekday(this)

DueJobsRun ==
  [][\A j \in DOMAIN bats :
       RunBats /\ pc' = "schd" /\ this # seen /\ Due(j, Weekday(this), this)
         => Len(child'[j]) = Len(child[j]) + 1 \/ (j \in Weekly /\ Parted)]_vars

Running(x) == \E n \in DOMAIN child[x] : child[x][n] \in Live
Zombie(x) == \E n \in DOMAIN child[x] : child[x][n] = "zombie"

(* A program outside its window, or no longer listed, is stopped, even one *)
(* that ignores SIGTERM, if no configuration names it twice.               *)
Wanted(l) == l \in DOMAIN sched /\ InWindow(sched[l].win, this)
Stray(l) == l \in DOMAIN sched /\ ~Wanted(l) /\ Running(l)

StraysEnd == \A p \in Once : Stray(FirstLine(p)) ~> ~Stray(FirstLine(p)) \/ Over

(* A program in its window that does not run is started, however often it *)
(* ended before, if no configuration names it twice.                       *)
WantedRun == \A p \in Once : Wanted(FirstLine(p)) ~> Running(FirstLine(p))
                                                    \/ ~Wanted(FirstLine(p)) \/ Over

(* A SIGTERM ends the loop.                                                *)
StopIsHeeded == "TERM" \in pending ~> Over

(* The end of a process is noticed ("examine and handle ended processes"), *)
(* of a program that no configuration names twice.                         *)
ProgramsReaped ==
  \A p \in Once : Zombie(FirstLine(p)) ~> ~Zombie(FirstLine(p)) \/ Over

(* The same of the batch jobs.                                             *)
(* Does not hold: README, "Where code and comments part".                  *)
JobsReaped == \A j \in Jobs : Zombie(j) ~> ~Zombie(j) \/ Over
=============================================================================
