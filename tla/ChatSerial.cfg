\* One request at a time: every write reaches the room, and the check of
\* assign holds because nothing comes between check and update.
SPECIFICATION Spec
CONSTANTS
  u1 = u1
  p1 = p1
  a1 = a1
  a2 = a2
  r1 = r1
  r2 = r2
  r3 = r3
  Clients = {u1}
  Partners = {}
  Admins = {a1, a2}
  Apps = {}
  Null = Null
  MaxChats = 1
  MaxMsgs = 2
  PageSize = 1
  MessageStatuses <- Delivery
  Reqs = {r1}
  Ops <- SerialOps
  Faults = FALSE
SYMMETRY Symmetry
INVARIANTS RoomMirrorsDb
PROPERTIES AssignedOnce
CHECK_DEADLOCK FALSE
