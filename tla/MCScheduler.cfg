SPECIFICATION FairSpec
CONSTANTS
  p = p
  q = q
  daily = daily
  week = week
  BadConf = BadConf
  Lines <- LinesOfPQ
  MAX_PROCSCHD_NUM = 2
  Obstinate = {p}
  Jobs = {daily, week}
  Weekly = {week}
  DayLen = 2
  WeekLen = 2
  KillAfter = 0
  RetryEvery = 2
  LastMinute = 6
  Ending <- EndingRuns
  StartMinutes = {1}
  MaxSignals = 1
  Pauses = FALSE
  ForkFails = TRUE
  Confs <- Files
  Period <- JobPeriod
  DueAt <- JobDue
INVARIANTS
  ProcessesKnown
  ProgramsEndToo
  PidsAreChildren
PROPERTIES
  StraysEnd
  WantedRun
  StopIsHeeded
  ProgramsReaped
  DueJobsRun
CHECK_DEADLOCK FALSE
