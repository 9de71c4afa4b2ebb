SPECIFICATION Spec
CONSTANTS
  Username = {anna, ben}
  PersonaName = {anna, ben, alt}
  MaxPersonas = 3
  MaxLogins = 2
  Nobody = Nobody
  Clan = {c1, c2}
  NoClan = NoClan
SYMMETRY Symmetry
INVARIANTS
  PortalTypeOK
  ClansAreLed
  OffersAreTaken
PROPERTIES
  OnlyOwnerOrLeader
CHECK_DEADLOCK FALSE
