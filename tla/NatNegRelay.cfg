SPECIFICATION NatNegFairSpec
CONSTANTS
  PortStart = 1024
  PortEnd = 1027
  c1 = c1
  c2 = c2
  c3 = c3
  p1 = p1
  p2 = p2
  Calls = {c1, c2}
  Pairs = {p1, p2}
  Natneg = natneg
  Releasers = {natneg}
  InitialAttempts = {0, 2}
  Endpoints <- ClientEndpoints
  Sweeper = sweeper
  None = None
INVARIANTS
  NatNegState
PROPERTIES
  PairKeepsPorts
  ReadySessionsConnect
  CallsReturn
  IdleRoutesGo
CHECK_DEADLOCK FALSE
