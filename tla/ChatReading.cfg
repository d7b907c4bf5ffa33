\* A client, a partner and an administrator read what others write and delete;
\* no query fails.
SPECIFICATION Spec
CONSTANTS
  u1 = u1
  p1 = p1
  a1 = a1
  a2 = a2
  r1 = r1
  r2 = r2
  r3 = r3
  Clients = {u1}
  Partners = {p1}
  Admins = {a1}
  Apps = {}
  Null = Null
  MaxChats = 1
  MaxMsgs = 2
  PageSize = 1
  MessageStatuses <- Delivery
  Reqs = {r1, r2}
  Ops <- ReadingOps
  Faults = FALSE
INVARIANTS ReadStatusPerSide
PROPERTIES AlertDelivered
CHECK_DEADLOCK FALSE
