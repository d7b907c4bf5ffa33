\* Two overlapping createChat calls (chat.service.ts:131).
SPECIFICATION Spec
CONSTANTS
  u1 = u1
  p1 = p1
  a1 = a1
  a2 = a2
  r1 = r1
  r2 = r2
  r3 = r3
  Clients = {u1}
  Partners = {}
  Admins = {a1, a2}
  Apps = {app1}
  Null = Null
  MaxChats = 2
  MaxMsgs = 0
  PageSize = 1
  MessageStatuses <- Delivery
  Reqs = {r1, r2}
  Ops <- CreationOps
  Faults = FALSE
SYMMETRY Symmetry
INVARIANTS OneChatPerApplication
CHECK_DEADLOCK FALSE
