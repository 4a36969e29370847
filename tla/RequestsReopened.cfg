SPECIFICATION Spec
CONSTANTS
  s1 = s1
  s2 = s2
  r1 = r1
  r2 = r2
  Screens = {s1, s2}
  Requests = {r1, r2}
  NoRequest = NoRequest
  SameFrameTaps = FALSE
  MaxPending = 3
SYMMETRY Interchangeable
INVARIANTS TypeOK ApprovalTakesOffer DecidersHaveAdoption RestingScreenIsCurrent
PROPERTIES DecisionsAreFinal ImplementsBoard
