SPECIFICATION FairSpec
CONSTANTS
  k1 = k1
  k2 = k2
  o1 = o1
  o2 = o2
  o3 = o3
  Cookies = {k1, k2}
  Types = {1, 3}
  Objects = {o1, o2, o3}
  Ordered = {k2}
  Expiring = {k1}
  None = None
INVARIANTS
  SessionsState
  PeerIsGamePort
PROPERTIES
  ExpiredGo
  BothGetConnect
CHECK_DEADLOCK FALSE
