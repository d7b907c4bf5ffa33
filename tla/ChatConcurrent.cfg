\* Two overlapping requests that write, with failing queries.
SPECIFICATION Spec
CONSTANTS
  u1 = u1
  p1 = p1
  a1 = a1
  a2 = a2
  r1 = r1
  r2 = r2
  r3 = r3
  Clients = {u1}
  Partners = {}
  Admins = {a1, a2}
  Apps = {}
  Null = Null
  MaxChats = 1
  MaxMsgs = 2
  PageSize = 1
  MessageStatuses <- Delivery
  Reqs = {r1, r2}
  Ops <- WriteOps
  Faults = TRUE
SYMMETRY Symmetry
VIEW TablesAndRequests
INVARIANTS TypeOK Integrity
PROPERTIES ClosedForGood OwnershipStable
CHECK_DEADLOCK FALSE
