SPECIFICATION FairSpec
CONSTANTS
  s1 = s1
  s2 = s2
  r1 = r1
  r2 = r2
  NoProc = NoProc
  Senders = {s1, s2}
  Receivers = {r1}
  Types = {1}
  Sizes = {1, 2}
  QBytes = 2
  AsksFor <- AnyType
  SndFlags = {{}}
  RcvFlags = {{}}
  BufSizes = {2}
  MaxWait = 4
  Killable = {}
  Slow = FALSE
  Signals = FALSE
  Interrupts = {}
INVARIANTS
  NoStrandedSender
PROPERTIES
  NewcomersQueue
  ReceiverServed
  SenderServed
