--------------------------- MODULE MCChatService ---------------------------
(* Instances of ChatService for TLC. *)
EXTENDS ChatService, TLC

CONSTANTS u1, p1, a1, a2, r1, r2, r3

\* Administrators and request slots are interchangeable.
Symmetry == Permutations(Admins) \cup Permutations(Reqs)

Delivery == {"DELIVERED", "READ"}

\* What a member of a room has on screen influences nothing: where no property
\* is about it, states that differ only there are one state.
TablesAndRequests == <<db, req, readers>>
SerialOps == {"createChat", "greet", "send", "reply", "attach", "assign",
              "status", "messageStatus", "delete", "edit", "clear", "deleteChat"}
WriteOps == {"createChat", "send", "reply", "assign", "status", "delete",
             "deleteChat"}
ReplyOps == {"createChat", "send", "reply", "delete", "edit", "clear",
             "deleteChat"}
ReadingOps == {"createChat", "send", "assign", "fetch", "read", "deleteChat"}
CreationOps == {"createChat", "deleteChat"}
LifecycleOps == {"createChat", "send", "assign", "status", "deleteChat"}
=============================================================================
