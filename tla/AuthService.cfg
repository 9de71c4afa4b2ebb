SPECIFICATION AuthSpec
CONSTANTS
  c1 = c1
  c2 = c2
  u1 = u1
  u2 = u2
  p1 = p1
  p2 = p2
  g1 = g1
  g2 = g2
  s1 = s1
  Clients = {c1, c2}
  Users = {u1, u2}
  UserOf <- OwnAccounts
  Personas = {p1, p2}
  MaxLogins = 2
  MaxTickets = 2
  Conns = {g1, g2}
  StatsConns = {s1}
  None = None
SYMMETRY Symmetry
INVARIANTS
  GsTypeOK
  SessionOwnsPersona
  PresenceIsTrue
  TicketHasOneUse
  StatsFollowTickets
  CertificatesAreTrue
CHECK_DEADLOCK FALSE
