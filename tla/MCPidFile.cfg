SPECIFICATION Spec
CONSTANTS
  s1 = s1
  s2 = s2
  s3 = s3
  Stale = Stale
  None = None
  Starters = {s1, s2, s3}
  Killable = {s1, s2, s3}
  MaxFiles = 3
  MaxStops = 2
  DiskFull = TRUE
SYMMETRY Symmetric
INVARIANTS
  RunsOnce
  SomeoneRuns
CHECK_DEADLOCK FALSE
