SPECIFICATION Spec
CONSTANTS
  PortStart = 1024
  PortEnd = 1028
  c1 = c1
  c2 = c2
  c3 = c3
  Calls = {c1, c2, c3}
  Releasers = {natneg}
  Endpoints = {e1, e2}
  Sweeper = sweeper
  None = None
SYMMETRY CallSymmetry
INVARIANTS
  RelayState
PROPERTIES
  LeasesSpec
