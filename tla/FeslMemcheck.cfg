SPECIFICATION FairServerSpec
CONSTANTS
  c1 = c1
  c2 = c2
  c3 = c3
  f1 = f1
  f2 = f2
  Clients = {c1, c2}
  Slow = {c1}
  Quiet = {c1}
  Pinger = pinger
  Fesl = fesl
  None = None
  Peers = {f1, f2}
INVARIANTS
  LoopState
PROPERTY
  LoopRunsAgain
CHECK_DEADLOCK FALSE
