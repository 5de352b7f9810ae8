SPECIFICATION Spec
CONSTANTS
  s1 = s1
  s2 = s2
  r1 = r1
  r2 = r2
  NoProc = NoProc
  Senders = {s1}
  Receivers = {r1, r2}
  Types = {1, 2}
  Sizes = {1, 2}
  QBytes = 2
  AsksFor <- OwnTypes
  SndFlags = {{}, {"NOWAIT"}}
  RcvFlags = {{}, {"NOWAIT"}}
  BufSizes = {1}
  MaxWait = 2
  Killable = {r1}
  Slow = TRUE
  Signals = TRUE
  Interrupts <- MostCalls
INVARIANTS
  NoStrandedReceiver
  EntriesNameWaiters
  SndWaitUnderFLOCK
CHECK_DEADLOCK FALSE
