SPECIFICATION Spec
CONSTANTS
  c1 = c1
  c2 = c2
  c3 = c3
  n1 = n1
  n2 = n2
  n3 = n3
  Conns = {c1, c2, c3}
  Nicks = {n1, n2}
  Lobbies = {lobby}
  Rooms = {}
  Renaming = {c1, c2, c3}
  Anonymous = {c1, c2, c3}
  Silent = {c1, c2, c3}
  None = None
SYMMETRY Symmetry
INVARIANTS
  PeerchatState
  ChannelData
  OneOperator
  NickTable
CHECK_DEADLOCK FALSE
