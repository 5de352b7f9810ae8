SPECIFICATION Spec
CONSTANTS
  w1 = w1
  w2 = w2
  r1 = r1
  i1 = i1
  NoProc = NoProc
  Writers = {w1, w2}
  Readers = {r1}
  Initers = {i1}
  Data = {"a", "b"}
  Lens = {1, 2}
  MaxEntries = 3
  MaxDay = 1
  YearLen = 10
  Crashes = TRUE
  DiskFull = TRUE
  Interrupts = FALSE
INVARIANTS
  AckedAreStored
  RecordsContiguous
  RecordsDisjoint
PROPERTIES
  ReadsAreWhole
