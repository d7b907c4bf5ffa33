\* A client over three seconds, three requests at once.
SPECIFICATION Spec
CONSTANTS
  p1 = p1
  m1 = m1
  c1 = c1
  r1 = r1
  r2 = r2
  r3 = r3
  Clients = {c1}
  Partners = {}
  Invitees = {}
  Null = Null
  Reqs = {r1, r2, r3}
  MaxTime = 2
  MaxAccess = 2
  Faults = TRUE
SYMMETRY Symmetry
INVARIANTS TokensBounded
PROPERTIES SessionNeedsLogin RevokedForGood
CHECK_DEADLOCK FALSE
