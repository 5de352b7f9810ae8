SPECIFICATION FairSpec
CONSTANTS
  p = p
  q = q
  Callers = {p, q}
  MaxCalls <- TwiceAndOnce
  Faults = {"dies", "exec", "fork", "split"}
INVARIANTS
  AnswerIsOwn
PROPERTIES
  CallReturns
CHECK_DEADLOCK FALSE
