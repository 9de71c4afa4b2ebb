SPECIFICATION Spec
CONSTANTS
  c1 = c1
  c2 = c2
  c3 = c3
  n1 = n1
  n2 = n2
  n3 = n3
  Conns = {c1, c2, c3}
  Nicks = {n1, n2, n3}
  Lobbies = {lobby}
  Rooms = {room}
  Renaming = {}
  Anonymous = {}
  Silent = {}
  None = None
SYMMETRY Symmetry
INVARIANTS
  ChannelViews
CHECK_DEADLOCK FALSE
