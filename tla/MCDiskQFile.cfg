SPECIFICATION SSpec
CONSTANTS
  Types = {1, 2}
  Sizes = {1, 2}
  QBytes = 3
  InitSlots = 2
  MaxCnt = 1
  Garbage = {0, 99}
INVARIANTS
  TypeOK
  SlotsConserved
  BytesAccounted
  ChosenIsUnlinkable
PROPERTIES
  ImplementsMsgQueue
  OldestAskedFor
  SelectionEnds
