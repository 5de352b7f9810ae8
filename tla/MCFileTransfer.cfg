SPECIFICATION FairSpec
CONSTANTS
  a = a
  b = b
  c = c
  d = d
  Queue <- Four
  Lengths <- LengthsOfFour
  MaxLen = 4
  PkSizes = {1, 2}
  HdLen = 2
  LenRange = 16
  Room = 3
  ByName = TRUE
  Old = {c}
  Changes = 1
  Faults = {"kill", "break", "disk"}
INVARIANTS
  FilesArriveWhole
  FramingKept
PROPERTIES
  TransferEnds
CHECK_DEADLOCK FALSE
