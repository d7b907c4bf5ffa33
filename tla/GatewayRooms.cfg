\* An administrator with two sockets and an outsider with one, around another client's chat.
SPECIFICATION Spec
CONSTANTS
  u1 = u1
  u2 = u2
  a1 = a1
  s1 = s1
  s2 = s2
  s3 = s3
  c1 = c1
  t1 = t1
  t2 = t2
  Users = {u1, u2, a1}
  Admins = {a1}
  Sockets = {s1, s2, s3}
  Owner <- RoomsOwner
  Chats = {c1}
  Client <- RoomsClient
  Tasks = {t1, t2}
  MaxMsgs = 2
  PageSize = 1
SYMMETRY Symmetry
INVARIANTS TypeOK OnlyMembersHear ConnectionTables SoleSocketListed NoMessageMissed
CHECK_DEADLOCK FALSE
