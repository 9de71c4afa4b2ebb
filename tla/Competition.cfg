SPECIFICATION Spec
CONSTANTS
  p1 = p1
  p2 = p2
  p3 = p3
  p4 = p4
  Matches = {match}
  NoMatch = nomatch
  Players = {p1, p2}
  MaxReports = 3
  MaxLost = 1
  Points = 600
  Ratings = {100, 500}
  Earlier = 29
  Forms = {"named", "unnamed"}
  Cut = TRUE
  Idle = Idle
SYMMETRY Symmetry
INVARIANTS
  CompetitionTypeOK
  CountedOnce
  WinsAreTrue
  OpponentsAgree
  RatingsMirror
PROPERTY
  EveryoneIsCounted
CHECK_DEADLOCK FALSE
