\* Replies across two chats while messages are edited, and messages and chats
\* deleted.
SPECIFICATION Spec
CONSTANTS
  u1 = u1
  p1 = p1
  a1 = a1
  a2 = a2
  r1 = r1
  r2 = r2
  r3 = r3
  Clients = {u1}
  Partners = {}
  Admins = {a1}
  Apps = {app1}
  Null = Null
  MaxChats = 2
  MaxMsgs = 2
  PageSize = 1
  MessageStatuses <- Delivery
  Reqs = {r1, r2}
  Ops <- ReplyOps
  Faults = FALSE
SYMMETRY Symmetry
VIEW TablesAndRequests
INVARIANTS RefIntegrity
PROPERTIES ContextKept DuplicatesNeedOverlap
CHECK_DEADLOCK FALSE
