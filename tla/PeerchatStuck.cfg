SPECIFICATION Spec
CONSTANTS
  c1 = c1
  c2 = c2
  c3 = c3
  Clients = {c1, c2, c3}
  Slow = {c1}
  Quiet = {}
  Pinger = pinger
  Fesl = fesl
  None = None
INVARIANTS
  LoopNotStoppedByItself
CHECK_DEADLOCK FALSE
