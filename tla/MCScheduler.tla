---------------------------- MODULE MCScheduler ----------------------------
(* Scheduler on a small instance: days of 2 minutes, weeks of 2 days.      *)
EXTENDS Scheduler, TLC

CONSTANTS p, q, daily, week

(* The files list p on one line and q on two, or nothing and no job that  *)
(* can be read, or cannot be read.                                         *)
Evening == <<1, 2>>
Always == <<0, 0>>
Tomorrow == <<2, 3>>   \* later than any minute of the day
Listing == (<<p, 1>> :> Evening) @@ (<<q, 1>> :> Always) @@ (<<q, 2>> :> Tomorrow)

LinesOfPQ == DOMAIN Listing
Files == {[schd |-> Listing, bats |-> TRUE], [schd |-> BadConf, bats |-> TRUE],
          [schd |-> [l \in {} |-> Always], bats |-> FALSE]}

(* The first process of p and the second of the daily job.                 *)
EndingRuns == {<<<<p, 1>>, 1>>, <<daily, 2>>}

(* The second minute of the day; the first minute of the second day of the *)
(* week.                                                                   *)
JobPeriod == [j \in Jobs |-> IF j \in Weekly THEN WeekLen * DayLen ELSE DayLen]
JobDue == [j \in Jobs |-> IF j \in Weekly THEN DayLen ELSE 1]
=============================================================================
