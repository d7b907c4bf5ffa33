\* A client joins a chat of more than a page (chat.gateway.ts:225).
SPECIFICATION Spec
CONSTANTS
  u1 = u1
  u2 = u2
  a1 = a1
  s1 = s1
  s2 = s2
  s3 = s3
  c1 = c1
  t1 = t1
  t2 = t2
  Users = {u1, u2, a1}
  Admins = {a1}
  Sockets = {s1}
  Owner <- RecentOwner
  Chats = {c1}
  Client <- RecentClient
  Tasks = {t1}
  MaxMsgs = 2
  PageSize = 1
PROPERTIES JoinShowsRecent
CHECK_DEADLOCK FALSE
