SPECIFICATION CSpec
CONSTANTS
  Types = {1, 2}
  Sizes = {1, 2}
  QBytes = 3
  InitSlots = 2
  MaxCnt = 1
  Keys = {0}
  CrashAt = {"link"}
INVARIANTS
  HeaderCountsMessages
PROPERTIES
  KilledSendLeavesNoTrace
