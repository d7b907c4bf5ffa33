\* An owner and one user he may invite, two requests at once.
SPECIFICATION Spec
CONSTANTS
  p1 = p1
  m1 = m1
  c1 = c1
  r1 = r1
  r2 = r2
  r3 = r3
  Clients = {}
  Partners = {p1}
  Invitees = {m1}
  Null = Null
  Reqs = {r1, r2}
  MaxTime = 0
  MaxAccess = 1
  Faults = TRUE
SYMMETRY Symmetry
INVARIANTS TypeOK AgencyClaim VisibleWithinAgency
PROPERTIES DisabledStaysOut
CHECK_DEADLOCK FALSE
