SPECIFICATION FairSpec
CONSTANTS
  s1 = s1
  s2 = s2
  r1 = r1
  r2 = r2
  NoProc = NoProc
  Senders = {s1}
  Receivers = {r1, r2}
  Types = {1, 2}
  Sizes = {1, 2}
  QBytes = 2
  AsksFor <- OwnTypes
  SndFlags = {{"NOWAIT"}}
  RcvFlags = {{}}
  BufSizes = {1}
  MaxWait = 4
  Killable = {}
  Slow = FALSE
  Signals = FALSE
  Interrupts = {}
PROPERTIES
  NowaitSendReturns
CHECK_DEADLOCK FALSE
