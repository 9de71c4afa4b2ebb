SPECIFICATION Spec
CONSTANTS
  near = near
  far = far
  Host = {near, far}
  Ordered = {near}
  NoAddress = {far}
  BlankPort = {far}
  Mode <- Modes
  Group <- Groups
  Game <- Games
  Filter <- Filters
  PacketLength = 3
  MaxNumber = 2
  MaxQueries = 2
  MaxRestarts = 1
INVARIANTS
  TablesAgree
  AnswersInOrder
PROPERTIES
  AnswersAreTrue
  LatestIsListed
CHECK_DEADLOCK FALSE
