\* One request at a time (docs/CHAT_UPDATES.md:19).
SPECIFICATION Spec
CONSTANTS
  u1 = u1
  p1 = p1
  a1 = a1
  a2 = a2
  r1 = r1
  r2 = r2
  r3 = r3
  Clients = {u1}
  Partners = {}
  Admins = {a1, a2}
  Apps = {}
  Null = Null
  MaxChats = 1
  MaxMsgs = 1
  PageSize = 1
  MessageStatuses <- Delivery
  Reqs = {r1}
  Ops <- LifecycleOps
  Faults = FALSE
SYMMETRY Symmetry
PROPERTIES NeverReopened
CHECK_DEADLOCK FALSE
