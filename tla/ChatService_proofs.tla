------------------------ MODULE ChatService_proofs ------------------------
(***************************************************************************)
(* For any users, requests in flight, chats and messages: Integrity, with  *)
(* the types and references it contains, is an inductive invariant; closed *)
(* chats stay closed, owners keep their chats, duplicates need an overlap, *)
(* texts that were replied to are kept, and the flags of messages tell     *)
(* which side has read them; and what holds while requests do not overlap, *)
(* of one administrator and of the chat's room.                            *)
(***************************************************************************)
EXTENDS ChatService, TLAPS

\* Integrity holds of the empty tables.
LEMMA InitIntegrity == Init => Integrity
<1> SUFFICES ASSUME Init PROVE Integrity
  OBVIOUS
<1> USE ChatAssumption
<1>1. Idle \in Requests
  BY DEF Idle, Requests, Steps, NoRow
<1>2. TypeOK
  <2>1. DOMAIN chats = {} /\ DOMAIN msgs = {}
    BY DEF Init
  <2>2. chats \in [DOMAIN chats -> ChatRow] /\ msgs \in [DOMAIN msgs -> MsgRow]
    BY DEF Init
  <2>3. nextChat \in 1 .. MaxChats + 1 /\ nextMsg \in 1 .. MaxMsgs + 1
    BY DEF Init
  <2>4. req \in [Reqs -> Requests]
    BY <1>1 DEF Init
  <2>5. /\ roomStatus \in [ChatIds -> ChatStatuses]
        /\ roomView \in [ChatIds -> SUBSET MsgIds]
        /\ alerted \subseteq MsgIds
        /\ readers \in [MsgIds -> SUBSET Roles]
    BY DEF Init, ChatStatuses
  <2> QED
    BY <2>1, <2>2, <2>3, <2>4, <2>5 DEF TypeOK
<1>3. RefIntegrity /\ \A m \in DOMAIN msgs : m < nextMsg
  BY DEF Init, RefIntegrity
<1>4. \A r \in Reqs : Admitted(req[r]) /\ ReplyKnown(req[r])
  BY DEF Init, Idle, Admitted, ReplyKnown
<1> QED
  BY <1>2, <1>3, <1>4 DEF Integrity

-----------------------------------------------------------------------------
(* What a step must show, by the tables it writes *)

\* A request record that may be stored in a slot.
Sound(q) == q \in Requests /\ Admitted(q) /\ ReplyKnown(q)

DbTypes ==
    /\ DOMAIN chats \subseteq ChatIds /\ chats \in [DOMAIN chats -> ChatRow]
    /\ DOMAIN msgs \subseteq MsgIds /\ msgs \in [DOMAIN msgs -> MsgRow]
    /\ nextChat \in 1 .. MaxChats + 1 /\ nextMsg \in 1 .. MaxMsgs + 1
RoomTypes ==
    /\ roomStatus \in [ChatIds -> ChatStatuses]
    /\ roomView \in [ChatIds -> SUBSET MsgIds]
    /\ alerted \subseteq MsgIds
    /\ readers \in [MsgIds -> SUBSET Roles]
Tables ==
    /\ DbTypes
    /\ RefIntegrity
    /\ \A m \in DOMAIN msgs : m < nextMsg

\* Integrity is about the tables, the room, and each request by itself.
LEMMA IntegrityParts ==
    Integrity <=> /\ Tables /\ RoomTypes
                  /\ req \in [Reqs -> Requests]
                  /\ \A r \in Reqs : Sound(req[r])
BY DEF Integrity, TypeOK, Tables, DbTypes, RoomTypes, Sound

\* A step that leaves sound tables and a sound request, and does not make the
\* replies of other requests point into another chat, preserves Integrity.
LEMMA StepPreserves ==
    ASSUME Integrity, NEW r \in Reqs, NEW q \in Requests,
           Goto(r, q), Admitted(q), ReplyKnown(q)',
           Tables', RoomTypes',
           \A p \in Requests : ReplyKnown(p) => ReplyKnown(p)'
    PROVE  Integrity'
<1>1. req' \in [Reqs -> Requests]
  BY IntegrityParts DEF Goto
<1>2. ASSUME NEW s \in Reqs PROVE (Admitted(req[s]) /\ ReplyKnown(req[s]))'
  <2>1. CASE s = r
    <3>1. req'[s] = q
      BY <2>1 DEF Goto, Integrity, TypeOK
    <3> QED
      BY <3>1 DEF Admitted, ReplyKnown
  <2>2. CASE s # r
    <3>1. req'[s] = req[s] /\ req[s] \in Requests
      BY <2>2 DEF Goto, Integrity, TypeOK
    <3>2. Admitted(req[s]) /\ ReplyKnown(req[s])
      BY DEF Integrity
    <3> QED
      BY <3>1, <3>2 DEF Admitted, ReplyKnown
  <2> QED
    BY <2>1, <2>2
<1>3. TypeOK'
  BY <1>1 DEF TypeOK, Tables, DbTypes, RoomTypes
<1> QED
  BY <1>2, <1>3 DEF Integrity, Tables

\* A step that writes no table needs a sound request only.
LEMMA LocalStep ==
    ASSUME Integrity, NEW r \in Reqs, NEW q, Sound(q), Goto(r, q),
           UNCHANGED db, RoomTypes'
    PROVE  Integrity'
<1>1. Tables'
  BY DEF Integrity, TypeOK, Tables, DbTypes, RefIntegrity, db
<1>2. ReplyKnown(q)' /\ \A p \in Requests : ReplyKnown(p) => ReplyKnown(p)'
  BY DEF ReplyKnown, db, Sound
<1> QED
  BY <1>1, <1>2, StepPreserves DEF Sound

\* What clients see of a room is of its types while it is not changed.
LEMMA RoomUnchanged ==
    ASSUME Integrity, UNCHANGED <<room, readers>>
    PROVE  RoomTypes'
BY DEF Integrity, TypeOK, RoomTypes, room

\* A step that changes neither tables nor rooms needs only its own record.
LEMMA SilentStep ==
    ASSUME Integrity, NEW r \in Reqs, NEW q, Sound(q), Goto(r, q),
           UNCHANGED <<db, room, readers>>
    PROVE  Integrity'
BY LocalStep, RoomUnchanged

\* What the invariant says of the request that takes a step.
LEMMA Slot ==
    ASSUME Integrity, NEW r \in Reqs
    PROVE  req[r] \in Requests /\ Admitted(req[r]) /\ ReplyKnown(req[r])
BY DEF Integrity, TypeOK

-----------------------------------------------------------------------------
(* Requests built by the actions are sound *)

\* The records that requests begin, go on and end with are sound.
LEMMA IdleSound == Sound(Idle)
<1>1. Idle \in Requests
  BY DEF Idle, Requests, Steps, NoRow
<1> QED
  BY <1>1 DEF Sound, Admitted, ReplyKnown, Idle

LEMMA PrepareSound ==
    ASSUME NEW q \in Requests, q.user \in Users
    PROVE  Sound(PrepareMessage(q))
<1> DEFINE p(pc) == [q EXCEPT !.seen = NoRow, !.pc = pc]
<1>1. \A pc \in {"getFile", "checkReply", "insertMessage"} :
          p(pc) \in Requests /\ p(pc).pc = pc /\ p(pc).user = q.user
                             /\ p(pc).reply = q.reply
  BY ZenonT(40) DEF Requests, Steps, NoRow
<1>2. CASE PrepareMessage(q) = Idle
  BY <1>2, IdleSound
<1>3. CASE PrepareMessage(q) # Idle
  <2>1. PICK pc \in {"getFile", "checkReply", "insertMessage"} :
            /\ PrepareMessage(q) = p(pc)
            /\ pc = "insertMessage" => q.reply = 0
    BY <1>3 DEF PrepareMessage
  <2>2. Admitted(p(pc)) /\ ReplyKnown(p(pc))
    BY <1>1, <2>1 DEF Admitted, ReplyKnown
  <2> QED
    BY <1>1, <2>1, <2>2 DEF Sound
<1> QED
  BY <1>2, <1>3

LEMMA LoadSound ==
    ASSUME TypeOK, NEW q \in Requests, q.user \in Users
    PROVE  Sound(LoadChat(q))
<1>1. CASE LoadChat(q) = Idle
  BY <1>1, IdleSound
<1>2. CASE LoadChat(q) # Idle
  <2>1. chats[q.chat] \in ChatRow
    BY <1>2 DEF LoadChat, TypeOK
  <2>2. PICK p : p = [q EXCEPT !.seen = chats[q.chat]]
    OBVIOUS
  <2>a. p \in Requests /\ p.user = q.user
    BY <2>1, <2>2 DEF Requests, ChatRow, Users
  <2>3. CASE LoadChat(q) = PrepareMessage(p)
    BY <2>a, <2>3, PrepareSound
  <2>4. CASE LoadChat(q) = [p EXCEPT !.pc = "activate"]
    <3>1. PICK a : a = [p EXCEPT !.pc = "activate"]
      OBVIOUS
    <3>2. a \in Requests /\ a.pc = "activate" /\ a.user = q.user
      BY <2>a, <3>1 DEF Requests, Steps
    <3> QED
      BY <2>4, <3>1, <3>2 DEF Sound, Admitted, ReplyKnown
  <2>5. CASE Claims(p) /\ LoadChat(q) = [p EXCEPT !.pc = "autoAssign"]
    <3>1. PICK a : a = [p EXCEPT !.pc = "autoAssign"]
      OBVIOUS
    <3>2. a \in Requests /\ a.pc = "autoAssign" /\ a.user = q.user
      BY <2>a, <3>1 DEF Requests, Steps
    <3>3. q.user \in Admins
      BY <2>a, <2>5 DEF Claims
    <3> QED
      BY <2>5, <3>1, <3>2, <3>3 DEF Sound, Admitted, ReplyKnown
  <2> QED
    BY <1>2, <2>2, <2>3, <2>4, <2>5 DEF LoadChat
<1> QED
  BY <1>1, <1>2

-----------------------------------------------------------------------------
(* Actions that start a request *)

\* A call reads, and stores nothing yet.
LEMMA CallPreserves ==
    ASSUME Integrity, NEW r \in Reqs, NEW u \in Users,
           \/ \E a \in Apps \cup {Null}, greet \in BOOLEAN :
                u \in Clients \cup Partners /\ CreateChat(r, u, a, greet)
           \/ \E c \in ChatIds :
                \/ \E reply \in DOMAIN msgs \cup {0}, file \in BOOLEAN :
                     SendMessage(r, u, c, reply, file)
                \/ AssignSelf(r, u, c)
                \/ \E s \in ChatStatuses : UpdateStatus(r, u, c, s)
                \/ GetMessages(r, u, c)
                \/ ClearMessages(r, u, c)
                \/ DeleteChat(r, u, c)
           \/ \E m \in MsgIds :
                \/ \E s \in MessageStatuses : UpdateMessageStatus(r, u, m, s)
                \/ DeleteMessage(r, u, m)
                \/ EditMessage(r, u, m)
    PROVE  Integrity'
<1>0. Idle \in Requests
  BY IdleSound DEF Sound
<1>1. ASSUME NEW a \in Apps \cup {Null}, NEW greet \in BOOLEAN,
             u \in Clients \cup Partners, CreateChat(r, u, a, greet)
      PROVE  Integrity'
  <2>1. PICK q : q = [Idle EXCEPT !.pc = "insertChat", !.user = u, !.app = a,
                                  !.greet = greet]
    OBVIOUS
  <2>2. q \in Requests /\ q.pc = "insertChat" /\ q.user = u
    BY <1>0, <1>1, <2>1 DEF Requests, Steps
  <2>3. Sound(q)
    BY <1>1, <2>2 DEF Sound, Admitted, ReplyKnown
  <2> QED
    BY <1>1, <2>1, <2>3, SilentStep DEF CreateChat
<1>2. ASSUME NEW c \in ChatIds, NEW reply \in DOMAIN msgs \cup {0},
             NEW file \in BOOLEAN, SendMessage(r, u, c, reply, file)
      PROVE  Integrity'
  <2>1. PICK q : q = [Idle EXCEPT !.user = u, !.chat = c, !.reply = reply,
                                  !.file = file]
    OBVIOUS
  <2>2. q \in Requests /\ q.user = u
    BY <1>0, <2>1 DEF Requests, Steps, Integrity, TypeOK
  <2>3. Sound(LoadChat(q))
    BY <2>2, LoadSound DEF Integrity
  <2> QED
    BY <1>2, <2>1, <2>3, SilentStep DEF SendMessage
<1>3. ASSUME NEW c \in ChatIds, AssignSelf(r, u, c)
      PROVE  Integrity'
  <2>1. PICK q : q = [Idle EXCEPT !.pc = "applyAssign", !.user = u, !.chat = c]
    OBVIOUS
  <2>2. q \in Requests /\ q.pc = "applyAssign" /\ q.user = u
    BY <1>0, <2>1 DEF Requests, Steps
  <2>3. Sound(q)
    BY <1>3, <2>2 DEF Sound, Admitted, ReplyKnown, AssignSelf
  <2> QED
    BY <1>3, <2>1, <2>3, SilentStep DEF AssignSelf
<1>4. ASSUME NEW c \in ChatIds, NEW s \in ChatStatuses, UpdateStatus(r, u, c, s)
      PROVE  Integrity'
  <2>1. PICK q : q = [Idle EXCEPT !.pc = "applyStatus", !.user = u, !.chat = c,
                                  !.status = s]
    OBVIOUS
  <2>2. q \in Requests /\ q.pc = "applyStatus" /\ q.user = u /\ q.status = s
    BY <1>0, <2>1 DEF Requests, Steps
  <2>3. Sound(q)
    BY <2>2 DEF Sound, Admitted, ReplyKnown
  <2> QED
    BY <1>4, <2>1, <2>3, SilentStep DEF UpdateStatus
<1>5. ASSUME NEW m \in MsgIds, NEW s \in MessageStatuses,
             UpdateMessageStatus(r, u, m, s)
      PROVE  Integrity'
  <2>1. PICK q : q = [Idle EXCEPT !.pc = "applyMessageStatus", !.user = u,
                                  !.msg = m, !.status = s]
    OBVIOUS
  <2>2. q \in Requests /\ q.pc = "applyMessageStatus" /\ q.user = u /\ q.status = s
    BY <1>0, <2>1 DEF Requests, Steps
  <2>3. Sound(q)
    BY <2>2 DEF Sound, Admitted, ReplyKnown
  <2> QED
    BY <1>5, <2>1, <2>3, SilentStep DEF UpdateMessageStatus
<1>6. ASSUME NEW m \in MsgIds, NEW pc \in {"applyDelete", "applyEdit"},
             m \in DOMAIN msgs, Goto(r, OnMessage(u, m, pc)),
             UNCHANGED <<db, room, readers>>
      PROVE  Integrity'
  <2>1. PICK q : q = OnMessage(u, m, pc)
    OBVIOUS
  <2>2. msgs[m].chat \in ChatIds
    BY <1>6 DEF Integrity, TypeOK, MsgRow
  <2>3. q \in Requests /\ q.pc = pc /\ q.user = u
    BY <1>0, <2>1, <2>2 DEF OnMessage, Requests, Steps
  <2>4. Sound(q)
    BY <2>3 DEF Sound, Admitted, ReplyKnown
  <2> QED
    BY <1>6, <2>1, <2>4, SilentStep
<1>7. ASSUME NEW c \in ChatIds,
             NEW pc \in {"fetchPage", "countClear", "applyDeleteChat"},
             Goto(r, [Idle EXCEPT !.pc = pc, !.user = u, !.chat = c]),
             UNCHANGED <<db, room, readers>>
      PROVE  Integrity'
  <2>1. PICK q : q = [Idle EXCEPT !.pc = pc, !.user = u, !.chat = c]
    OBVIOUS
  <2>2. q \in Requests /\ q.pc = pc /\ q.user = u
    BY <1>0, <2>1 DEF Requests, Steps
  <2>3. Sound(q)
    BY <2>2 DEF Sound, Admitted, ReplyKnown
  <2> QED
    BY <1>7, <2>1, <2>3, SilentStep
<1> QED
  BY <1>1, <1>2, <1>3, <1>4, <1>5, <1>6, <1>7
     DEF GetMessages, DeleteMessage, EditMessage, ClearMessages, DeleteChat

-----------------------------------------------------------------------------
(* Steps that write no table *)

\* The steps that need nothing of a request but its user.
PlainSteps == Steps \ {"insertChat", "autoAssign", "applyAssign",
                       "applyStatus", "emitStatus", "applyMessageStatus",
                       "touchSend", "emitNew", "alertAdmins", "insertMessage"}

\* A request goes on to its next step with what it has.
LEMMA AwaitSound ==
    ASSUME Integrity, NEW r \in Reqs, req[r].pc # "idle", NEW pc \in PlainSteps
    PROVE  Sound([req[r] EXCEPT !.pc = pc])
<1>1. PICK p : p = req[r]
  OBVIOUS
<1>2. p \in Requests /\ p.user \in Users
  BY <1>1, Slot DEF Admitted
<1>3. PICK q : q = [p EXCEPT !.pc = pc]
  OBVIOUS
<1>4. q \in Requests /\ q.pc = pc /\ q.user \in Users
  BY <1>2, <1>3 DEF Requests, PlainSteps
<1>5. Admitted(q) /\ ReplyKnown(q)
  BY <1>4 DEF Admitted, ReplyKnown, PlainSteps
<1> QED
  BY <1>1, <1>3, <1>4, <1>5 DEF Sound

LEMMA FinishPreserves ==
    ASSUME Integrity, NEW r \in Reqs, Finish(r), UNCHANGED db, RoomTypes'
    PROVE  Integrity'
BY IdleSound, LocalStep DEF Finish

\* The steps that only read.
LEMMA SilentPreserves ==
    ASSUME Integrity, NEW r \in Reqs,
           \/ LoadGreeting(r) \/ ClaimFails(r) \/ CheckReply(r)
           \/ \E found \in BOOLEAN : GetFile(r, found)
           \/ TouchChat(r) \/ EmitEdited(r) \/ CountClear(r) \/ Abort(r)
           \/ \E p \in 1 .. MaxMsgs : FetchPage(r, p)
    PROVE  Integrity'
<1>1. PICK q0 : q0 = req[r]
  OBVIOUS
<1>2. q0 \in Requests /\ Admitted(q0) /\ ReplyKnown(q0)
  BY <1>1, Slot
<1>3. UNCHANGED <<db, room, readers>>
  BY DEF LoadGreeting, ClaimFails, CheckReply, GetFile, TouchChat, EmitEdited,
         CountClear, Abort, FetchPage
<1>4. CASE Finish(r)
  BY <1>3, <1>4, FinishPreserves, RoomUnchanged
<1>5. CASE LoadGreeting(r)
  <2>1. Sound(LoadChat(q0))
    BY <1>1, <1>2, <1>5, LoadSound DEF Admitted, LoadGreeting, At, Integrity
  <2> QED
    BY <1>1, <1>5, <2>1, SilentStep DEF LoadGreeting
<1>6. CASE ClaimFails(r)
  <2>1. Sound(PrepareMessage(q0))
    BY <1>1, <1>2, <1>6, PrepareSound DEF Admitted, ClaimFails, At
  <2> QED
    BY <1>1, <1>6, <2>1, SilentStep DEF ClaimFails
<1>7. CASE CheckReply(r) /\ ~Finish(r)
  <2>1. PICK q : q = [q0 EXCEPT !.pc = "insertMessage"]
    OBVIOUS
  <2>2. q \in Requests /\ q.pc = "insertMessage" /\ q.user = q0.user
          /\ q.chat = q0.chat /\ q.reply = q0.reply
    BY <1>2, <2>1 DEF Requests, Steps
  <2>3. q0.user \in Users
    BY <1>1, <1>2, <1>7 DEF CheckReply, At, Admitted
  <2>4. ReplyKnown(q)
    BY <1>1, <1>7, <2>2 DEF CheckReply, ReplyInChat, MsgsOf, ReplyKnown, Integrity
  <2>5. Sound(q)
    BY <2>2, <2>3, <2>4 DEF Sound, Admitted
  <2>6. Goto(r, q)
    BY <1>1, <1>7, <2>1 DEF CheckReply, Await
  <2> QED
    BY <1>3, <2>5, <2>6, SilentStep
<1>8. ASSUME NEW found \in BOOLEAN, GetFile(r, found), ~Finish(r)
      PROVE  Integrity'
  <2>1. PICK pc \in {"checkReply", "insertMessage"} :
            /\ Await(r, pc)
            /\ pc = "insertMessage" => q0.reply = 0
    BY <1>1, <1>8 DEF GetFile
  <2>2. PICK q : q = [q0 EXCEPT !.pc = pc]
    OBVIOUS
  <2>3. q \in Requests /\ q.pc = pc /\ q.user = q0.user /\ q.reply = q0.reply
    BY <1>2, <2>2 DEF Requests, Steps
  <2>4. q0.user \in Users
    BY <1>1, <1>2, <1>8 DEF GetFile, At, Admitted
  <2>5. Sound(q)
    BY <2>1, <2>3, <2>4 DEF Sound, Admitted, ReplyKnown
  <2>6. Goto(r, q)
    BY <1>1, <2>1, <2>2 DEF Await
  <2> QED
    BY <1>3, <2>5, <2>6, SilentStep
<1>9. CASE TouchChat(r) /\ ~Finish(r)
  <2>1. PICK pc : pc = AfterTouch(q0.pc)
    OBVIOUS
  <2>2. PICK q : q = [q0 EXCEPT !.pc = pc]
    OBVIOUS
  <2>3. /\ pc \in {"emitNew", "emitDeleted", "emitEdited", "emitCleared"}
        /\ pc = "emitNew" => q0.pc = "touchSend"
    BY <1>1, <1>9, <2>1 DEF TouchChat, AfterTouch
  <2>4. q \in Requests /\ q.pc = pc /\ q.user = q0.user /\ q.msg = q0.msg
    BY <1>2, <2>2, <2>3 DEF Requests, Steps
  <2>5. Sound(q)
    BY <1>1, <1>2, <1>9, <2>3, <2>4 DEF Sound, Admitted, ReplyKnown, TouchChat
  <2>6. Goto(r, q)
    BY <1>1, <1>9, <2>1, <2>2 DEF TouchChat, Await
  <2> QED
    BY <1>3, <2>5, <2>6, SilentStep
<1>10. CASE CountClear(r) /\ ~Finish(r)
  <2>1. "applyClear" \in PlainSteps /\ req[r].pc # "idle"
    BY <1>10 DEF CountClear, At, PlainSteps, Steps
  <2> QED
    BY <1>3, <1>10, <2>1, AwaitSound, SilentStep DEF CountClear, Await
<1>11. ASSUME NEW p \in 1 .. MaxMsgs, FetchPage(r, p), ~Finish(r)
       PROVE  Integrity'
  <2>1. PICK unread \in SUBSET MsgIds :
            Goto(r, [q0 EXCEPT !.pc = "markRead", !.ids = unread])
    BY <1>1, <1>11 DEF FetchPage, PageOf, MsgsOf, Integrity, TypeOK
  <2>2. PICK q : q = [q0 EXCEPT !.pc = "markRead", !.ids = unread]
    OBVIOUS
  <2>3. q \in Requests /\ q.pc = "markRead" /\ q.user = q0.user
    BY <1>2, <2>2 DEF Requests, Steps
  <2>4. Sound(q)
    BY <1>1, <1>2, <1>11, <2>3 DEF Sound, Admitted, ReplyKnown, FetchPage, At
  <2> QED
    BY <1>3, <2>1, <2>2, <2>4, SilentStep
<1> QED
  BY <1>4, <1>5, <1>6, <1>7, <1>8, <1>9, <1>10, <1>11 DEF EmitEdited, Abort

-----------------------------------------------------------------------------
(* Steps that broadcast *)

\* The broadcasts change rooms, not tables.
LEMMA EmitPreserves ==
    ASSUME Integrity, NEW r \in Reqs,
           \/ EmitClaimed(r) \/ EmitNew(r) \/ AlertAdmins(r) \/ EmitStatus(r)
           \/ EmitDeleted(r) \/ EmitCleared(r)
    PROVE  Integrity'
<1>1. PICK q0 : q0 = req[r]
  OBVIOUS
<1>2. q0 \in Requests /\ Admitted(q0) /\ ReplyKnown(q0)
  BY <1>1, Slot
<1>3. UNCHANGED db
  BY DEF EmitClaimed, EmitNew, AlertAdmins, EmitStatus, EmitDeleted, EmitCleared
<1>4. CASE EmitClaimed(r)
  <2>1. RoomTypes'
    BY <1>4 DEF EmitClaimed, RoomTypes, Integrity, TypeOK, ChatStatuses
  <2>2. PICK q : q = [q0 EXCEPT !.seen.status = "ACTIVE"]
    OBVIOUS
  <2>3. q \in Requests /\ q.user = q0.user
    BY <1>2, <2>2 DEF Requests, ChatStatuses
  <2>4. Sound(PrepareMessage(q))
    BY <1>1, <1>2, <1>4, <2>3, PrepareSound DEF Admitted, EmitClaimed
  <2> QED
    BY <1>1, <1>3, <1>4, <2>1, <2>2, <2>4, LocalStep DEF EmitClaimed
<1>5. CASE EmitNew(r)
  <2>1. RoomTypes'
    BY <1>1, <1>2, <1>5 DEF EmitNew, At, Admitted, RoomTypes, Integrity, TypeOK
  <2>2. PICK q : q = [q0 EXCEPT !.pc = "alertAdmins"]
    OBVIOUS
  <2>3. q \in Requests /\ q.pc = "alertAdmins" /\ q.user = q0.user /\ q.msg = q0.msg
    BY <1>2, <2>2 DEF Requests, Steps
  <2>4. Sound(q)
    BY <1>1, <1>2, <1>5, <2>3 DEF Sound, Admitted, ReplyKnown, EmitNew, At
  <2> QED
    BY <1>1, <1>3, <1>5, <2>1, <2>2, <2>4, LocalStep DEF EmitNew, Await
<1>6. CASE AlertAdmins(r)
  <2>1. RoomTypes'
    BY <1>1, <1>2, <1>6 DEF AlertAdmins, At, Admitted, RoomTypes, Integrity, TypeOK
  <2> QED
    BY <1>3, <1>6, <2>1, FinishPreserves DEF AlertAdmins
<1>7. CASE EmitStatus(r)
  <2>1. RoomTypes'
    BY <1>1, <1>2, <1>7 DEF EmitStatus, At, Admitted, RoomTypes, Integrity, TypeOK
  <2> QED
    BY <1>3, <1>7, <2>1, FinishPreserves DEF EmitStatus
<1>8. CASE EmitDeleted(r) \/ EmitCleared(r)
  <2>1. RoomTypes'
    BY <1>8 DEF EmitDeleted, EmitCleared, RoomTypes, Integrity, TypeOK
  <2> QED
    BY <1>3, <1>8, <2>1, FinishPreserves DEF EmitDeleted, EmitCleared
<1> QED
  BY <1>4, <1>5, <1>6, <1>7, <1>8

-----------------------------------------------------------------------------
(* Steps that write the Chat table *)

\* A write of chats that deletes none keeps what refers to them.
LEMMA ChatsStep ==
    ASSUME Integrity, NEW r \in Reqs, NEW q, Sound(q), Goto(r, q),
           DOMAIN chats \subseteq DOMAIN chats', DOMAIN chats' \subseteq ChatIds,
           chats' \in [DOMAIN chats' -> ChatRow],
           nextChat' \in 1 .. MaxChats + 1,
           UNCHANGED <<msgs, nextMsg, room, readers>>
    PROVE  Integrity'
<1>1. Tables'
  BY DEF Integrity, TypeOK, Tables, DbTypes, RefIntegrity
<1>2. ReplyKnown(q)' /\ \A p \in Requests : ReplyKnown(p) => ReplyKnown(p)'
  BY DEF ReplyKnown, Sound
<1>3. RoomTypes'
  BY RoomUnchanged
<1> QED
  BY <1>1, <1>2, <1>3, StepPreserves DEF Sound

LEMMA ChatsPreserve ==
    ASSUME Integrity, NEW r \in Reqs,
           \/ InsertChat(r) \/ Activate(r) \/ AutoAssign(r)
           \/ ApplyAssign(r) \/ ApplyStatus(r)
    PROVE  Integrity'
<1>1. PICK q0 : q0 = req[r]
  OBVIOUS
<1>2. q0 \in Requests /\ Admitted(q0) /\ ReplyKnown(q0)
  BY <1>1, Slot
<1>3. CASE Finish(r) /\ UNCHANGED <<chats, nextChat>>
  <2>1. UNCHANGED db /\ UNCHANGED <<room, readers>>
    BY <1>3 DEF db, InsertChat, Activate, AutoAssign, ApplyAssign, ApplyStatus
  <2> QED
    BY <1>3, <2>1, FinishPreserves, RoomUnchanged
<1>4. CASE InsertChat(r) /\ ~(Finish(r) /\ UNCHANGED <<chats, nextChat>>)
  <2>1. nextChat \in ChatIds /\ nextChat' \in 1 .. MaxChats + 1
    BY <1>4, ChatAssumption DEF InsertChat, Integrity, TypeOK, ChatIds
  <2>2. PICK row : row = [client |-> q0.user, admin |-> Null,
                          status |-> "PENDING", app |-> q0.app]
    OBVIOUS
  <2>3. row \in ChatRow
    <3>1. q0.user \in Clients \cup Partners /\ q0.app \in Apps \cup {Null}
      BY <1>1, <1>2, <1>4 DEF InsertChat, At, Admitted, Requests
    <3> QED
      BY <2>2, <3>1 DEF ChatRow, ChatStatuses
  <2>4. chats' = Put(chats, nextChat, row)
    BY <1>1, <1>4, <2>2 DEF InsertChat
  <2>5. /\ DOMAIN chats \subseteq DOMAIN chats' /\ DOMAIN chats' \subseteq ChatIds
        /\ chats' \in [DOMAIN chats' -> ChatRow]
    BY <2>1, <2>3, <2>4 DEF Put, Integrity, TypeOK
  <2>6. PICK q : /\ Goto(r, q)
                 /\ q = IF q0.greet
                        THEN [Idle EXCEPT !.pc = "loadChat", !.chat = nextChat,
                                          !.user = q0.user]
                        ELSE Idle
    BY <1>1, <1>4 DEF InsertChat
  <2>7. Sound(q)
    <3>1. CASE q = Idle
      BY <3>1, IdleSound
    <3>2. CASE q = [Idle EXCEPT !.pc = "loadChat", !.chat = nextChat,
                                !.user = q0.user]
      <4>1. q0.user \in Users /\ Idle \in Requests
        BY <1>1, <1>2, <1>4, IdleSound DEF InsertChat, At, Admitted, Sound
      <4>2. q \in Requests /\ q.pc = "loadChat" /\ q.user = q0.user
        BY <2>1, <3>2, <4>1 DEF Requests, Steps
      <4> QED
        BY <4>1, <4>2 DEF Sound, Admitted, ReplyKnown
    <3> QED
      BY <2>6, <3>1, <3>2
  <2> QED
    BY <1>4, <2>1, <2>5, <2>6, <2>7, ChatsStep DEF InsertChat
<1>5. CASE Activate(r)
  <2>1. PICK q : q = [q0 EXCEPT !.pc = "emitActivated", !.seen.status = "ACTIVE"]
    OBVIOUS
  <2>2. q \in Requests /\ q.pc = "emitActivated" /\ q.user = q0.user
    <3>1. PICK p : p = [q0 EXCEPT !.pc = "emitActivated"]
      OBVIOUS
    <3>2. p \in Requests /\ p.pc = "emitActivated" /\ p.user = q0.user
      BY <1>2, <3>1 DEF Requests, Steps
    <3>3. q = [p EXCEPT !.seen.status = "ACTIVE"]
      BY <1>2, <2>1, <3>1 DEF Requests
    <3> QED
      BY <3>2, <3>3 DEF Requests, ChatStatuses
  <2>3. Sound(q)
    BY <1>1, <1>2, <1>5, <2>2 DEF Sound, Admitted, ReplyKnown, Activate, At
  <2>4. DOMAIN chats' = DOMAIN chats /\ chats' \in [DOMAIN chats -> ChatRow]
    BY <1>5 DEF Activate, Integrity, TypeOK, ChatRow, ChatStatuses
  <2> QED
    BY <1>1, <1>5, <2>1, <2>3, <2>4, ChatsStep DEF Activate, Integrity, TypeOK
<1>6. CASE AutoAssign(r)
  <2>1. "emitAutoAssigned" \in PlainSteps /\ req[r].pc # "idle"
    BY <1>6 DEF AutoAssign, At, PlainSteps, Steps
  <2>2. q0.user \in Admins
    BY <1>1, <1>2, <1>6 DEF AutoAssign, At, Admitted
  <2>3. DOMAIN chats' = DOMAIN chats /\ chats' \in [DOMAIN chats -> ChatRow]
    BY <1>1, <1>6, <2>2, SMTT(20) DEF AutoAssign, Integrity, TypeOK, ChatRow, ChatStatuses
  <2>4. PICK q : q = [req[r] EXCEPT !.pc = "emitAutoAssigned"] /\ Sound(q)
    BY <2>1, AwaitSound
  <2> QED
    BY <1>6, <2>3, <2>4, ChatsStep DEF AutoAssign, Await, Integrity, TypeOK
<1>7. CASE ApplyAssign(r) /\ ~(Finish(r) /\ UNCHANGED <<chats, nextChat>>)
  <2>1. PICK q : q = [q0 EXCEPT !.pc = "emitStatus", !.status = "ACTIVE"]
    OBVIOUS
  <2>2. /\ q \in Requests /\ q.pc = "emitStatus" /\ q.user = q0.user
        /\ q.status = "ACTIVE"
    BY <1>2, <2>1 DEF Requests, Steps, ChatStatuses
  <2>3. q0.user \in Admins
    BY <1>1, <1>2, <1>7 DEF ApplyAssign, At, Admitted
  <2>4. Sound(q)
    BY <2>2, <2>3 DEF Sound, Admitted, ReplyKnown, ChatStatuses, Users
  <2>5. DOMAIN chats' = DOMAIN chats /\ chats' \in [DOMAIN chats -> ChatRow]
    BY <1>1, <1>7, <2>3 DEF ApplyAssign, Integrity, TypeOK, ChatRow, ChatStatuses
  <2> QED
    BY <1>1, <1>7, <2>1, <2>4, <2>5, ChatsStep DEF ApplyAssign, Integrity, TypeOK
<1>8. CASE ApplyStatus(r) /\ ~(Finish(r) /\ UNCHANGED <<chats, nextChat>>)
  <2>1. PICK q : q = [q0 EXCEPT !.pc = "emitStatus"]
    OBVIOUS
  <2>2. /\ q \in Requests /\ q.pc = "emitStatus" /\ q.user = q0.user
        /\ q.status = q0.status
    BY <1>2, <2>1 DEF Requests, Steps
  <2>3. q0.user \in Users /\ q0.status \in ChatStatuses
    BY <1>1, <1>2, <1>8 DEF ApplyStatus, At, Admitted
  <2>4. Sound(q)
    BY <2>2, <2>3 DEF Sound, Admitted, ReplyKnown
  <2>5. DOMAIN chats' = DOMAIN chats /\ chats' \in [DOMAIN chats -> ChatRow]
    BY <1>1, <1>8, <2>3, ZenonT(40) DEF ApplyStatus, Integrity, TypeOK, ChatRow
  <2> QED
    BY <1>1, <1>8, <2>1, <2>4, <2>5, ChatsStep
       DEF ApplyStatus, Await, Integrity, TypeOK
<1> QED
  BY <1>3, <1>4, <1>5, <1>6, <1>7, <1>8

-----------------------------------------------------------------------------
(* Steps that write the Message table *)

\* Rows change in place: neither the chat nor the reply of any message does.
LEMMA RowsStep ==
    ASSUME Integrity, NEW r \in Reqs, NEW q, Sound(q), Goto(r, q),
           DOMAIN msgs' = DOMAIN msgs, msgs' \in [DOMAIN msgs -> MsgRow],
           \A m \in DOMAIN msgs : /\ msgs'[m].chat = msgs[m].chat
                                  /\ msgs'[m].replyTo = msgs[m].replyTo,
           UNCHANGED <<chats, nextChat, nextMsg>>, RoomTypes'
    PROVE  Integrity'
<1>1. RefIntegrity'
  BY DEF Integrity, RefIntegrity
<1>2. Tables'
  BY <1>1 DEF Integrity, TypeOK, Tables, DbTypes
<1>3. ReplyKnown(q)' /\ \A p \in Requests : ReplyKnown(p) => ReplyKnown(p)'
  BY DEF ReplyKnown, Sound
<1> QED
  BY <1>2, <1>3, StepPreserves DEF Sound

\* Rows go, of messages or of a chat with all its messages.
LEMMA RemoveStep ==
    ASSUME Integrity, NEW r \in Reqs, NEW q, Sound(q), Goto(r, q), NEW D,
           msgs' = RemoveMsgs(D),
           DOMAIN chats' \subseteq DOMAIN chats,
           chats' \in [DOMAIN chats' -> ChatRow],
           \A m \in DOMAIN msgs \ D : msgs[m].chat \in DOMAIN chats',
           UNCHANGED <<nextChat, nextMsg, room, readers>>
    PROVE  Integrity'
<1>1. /\ DOMAIN msgs' = DOMAIN msgs \ D
      /\ \A m \in DOMAIN msgs' :
            /\ msgs'[m] \in MsgRow
            /\ msgs'[m].chat = msgs[m].chat
            /\ msgs'[m].replyTo = IF msgs[m].replyTo \in D THEN 0
                                  ELSE msgs[m].replyTo
  BY DEF RemoveMsgs, Integrity, TypeOK, MsgRow
<1>2. msgs' \in [DOMAIN msgs' -> MsgRow]
  BY <1>1 DEF RemoveMsgs
<1>3. RefIntegrity'
  <2> SUFFICES ASSUME NEW m \in DOMAIN msgs'
               PROVE  /\ msgs'[m].chat \in DOMAIN chats'
                      /\ msgs'[m].replyTo # 0 =>
                           /\ msgs'[m].replyTo \in DOMAIN msgs'
                           /\ msgs'[msgs'[m].replyTo].chat = msgs'[m].chat
                           /\ msgs'[m].replyTo < m
    BY DEF RefIntegrity
  <2>1. m \in DOMAIN msgs /\ m \notin D
    BY <1>1
  <2>2. msgs'[m].chat \in DOMAIN chats'
    BY <1>1, <2>1
  <2>3. ASSUME msgs'[m].replyTo # 0
        PROVE  /\ msgs'[m].replyTo \in DOMAIN msgs'
               /\ msgs'[msgs'[m].replyTo].chat = msgs'[m].chat
               /\ msgs'[m].replyTo < m
    <3>1. msgs'[m].replyTo = msgs[m].replyTo /\ msgs[m].replyTo \notin D
      BY <1>1, <2>3
    <3>2. /\ msgs[m].replyTo \in DOMAIN msgs
          /\ msgs[msgs[m].replyTo].chat = msgs[m].chat
          /\ msgs[m].replyTo < m
      BY <2>1, <2>3, <3>1 DEF Integrity, RefIntegrity
    <3> QED
      BY <1>1, <3>1, <3>2
  <2> QED
    BY <2>2, <2>3
<1>4. Tables'
  BY <1>1, <1>2, <1>3 DEF Integrity, TypeOK, Tables, DbTypes
<1>5. ReplyKnown(q)' /\ \A p \in Requests : ReplyKnown(p) => ReplyKnown(p)'
  BY <1>1 DEF ReplyKnown, Sound
<1>6. RoomTypes'
  BY RoomUnchanged
<1> QED
  BY <1>4, <1>5, <1>6, StepPreserves DEF Sound

\* Marking as read changes flags and no row's place.
LEMMA SetReadRows ==
    ASSUME Integrity, NEW c, NEW ids, NEW role \in Roles, SetRead(c, ids, role)
    PROVE  /\ DOMAIN msgs' = DOMAIN msgs /\ msgs' \in [DOMAIN msgs -> MsgRow]
           /\ \A m \in DOMAIN msgs : /\ msgs'[m].chat = msgs[m].chat
                                     /\ msgs'[m].replyTo = msgs[m].replyTo
           /\ readers' \in [MsgIds -> SUBSET Roles]
<1>1. \A m \in DOMAIN msgs :
          LET a == [msgs[m] EXCEPT !.readByClient = TRUE]
              b == [msgs[m] EXCEPT !.readByAdmin = TRUE]
          IN  /\ msgs[m] \in MsgRow /\ a \in MsgRow /\ b \in MsgRow
              /\ a.chat = msgs[m].chat /\ a.replyTo = msgs[m].replyTo
              /\ b.chat = msgs[m].chat /\ b.replyTo = msgs[m].replyTo
  BY DEF Integrity, TypeOK, MsgRow
<1>2. DOMAIN msgs' = DOMAIN msgs
  BY DEF SetRead
<1>3. \A m \in DOMAIN msgs : \/ msgs'[m] = msgs[m]
                             \/ msgs'[m] = [msgs[m] EXCEPT !.readByClient = TRUE]
                             \/ msgs'[m] = [msgs[m] EXCEPT !.readByAdmin = TRUE]
  BY DEF SetRead
<1>4. \A m \in DOMAIN msgs : msgs'[m] \in MsgRow
  BY <1>1, <1>3
<1>5. msgs' \in [DOMAIN msgs -> MsgRow]
  BY <1>4 DEF SetRead
<1>6. readers' \in [MsgIds -> SUBSET Roles]
  BY DEF SetRead, Integrity, TypeOK
<1> QED
  BY <1>1, <1>2, <1>3, <1>5, <1>6

\* The steps that mark messages, and those that rewrite one.
LEMMA ReadPreserves ==
    ASSUME Integrity, NEW r \in Reqs,
           \/ MarkRead(r)
           \/ \E u \in Users, c \in ChatIds, ids \in SUBSET DOMAIN msgs :
                ReadMessages(r, u, c, ids)
    PROVE  Integrity'
<1>1. \A u : RoleOf(u) \in Roles
  BY DEF RoleOf, Roles
<1>2. CASE MarkRead(r)
  <2>1. RoomTypes'
    BY <1>1, <1>2, SetReadRows DEF MarkRead, RoomTypes, room, Integrity, TypeOK
  <2> QED
    BY <1>1, <1>2, <2>1, SetReadRows, RowsStep, IdleSound DEF MarkRead, Finish
<1>3. ASSUME NEW u \in Users, NEW c \in ChatIds, NEW ids \in SUBSET DOMAIN msgs,
             ReadMessages(r, u, c, ids)
      PROVE  Integrity'
  <2>1. PICK q : q = req[r]
    OBVIOUS
  <2>2. Sound(q) /\ Goto(r, q)
    BY <1>3, <2>1, Slot DEF Sound, Goto, ReadMessages, Integrity, TypeOK
  <2>3. RoomTypes'
    BY <1>1, <1>3, SetReadRows DEF ReadMessages, RoomTypes, room, Integrity, TypeOK
  <2> QED
    BY <1>1, <1>3, <2>2, <2>3, SetReadRows, RowsStep DEF ReadMessages
<1> QED
  BY <1>2, <1>3

LEMMA RowsPreserve ==
    ASSUME Integrity, NEW r \in Reqs,
           ApplyMessageStatus(r) \/ ApplyEdit(r)
    PROVE  Integrity'
<1>1. PICK q0 : q0 = req[r]
  OBVIOUS
<1>2. q0 \in Requests /\ Admitted(q0) /\ ReplyKnown(q0)
  BY <1>1, Slot
<1>3. UNCHANGED <<chats, nextChat, nextMsg>> /\ RoomTypes'
  BY RoomUnchanged DEF ApplyMessageStatus, ApplyEdit
<1>4. CASE Finish(r) /\ UNCHANGED msgs
  BY <1>3, <1>4, FinishPreserves DEF db
<1>5. CASE ApplyMessageStatus(r) /\ q0.msg \in DOMAIN msgs
  <2>1. q0.status \in MessageStatuses
    BY <1>1, <1>2, <1>5 DEF ApplyMessageStatus, At, Admitted
  <2>2. msgs' = [msgs EXCEPT ![q0.msg].status = q0.status]
    BY <1>1, <1>5 DEF ApplyMessageStatus
  <2>3. /\ DOMAIN msgs' = DOMAIN msgs /\ msgs' \in [DOMAIN msgs -> MsgRow]
        /\ \A m \in DOMAIN msgs : /\ msgs'[m].chat = msgs[m].chat
                                  /\ msgs'[m].replyTo = msgs[m].replyTo
    BY <1>5, <2>1, <2>2 DEF Integrity, TypeOK, MsgRow
  <2> QED
    BY <1>3, <1>5, <2>3, IdleSound, RowsStep DEF ApplyMessageStatus, Finish
<1>6. CASE ApplyEdit(r) /\ q0.msg \in DOMAIN msgs
  <2>1. "touchEdit" \in PlainSteps /\ req[r].pc # "idle"
    BY <1>6 DEF ApplyEdit, At, PlainSteps, Steps
  <2>2. PICK q : q = [req[r] EXCEPT !.pc = "touchEdit"] /\ Sound(q)
    BY <2>1, AwaitSound
  <2>3. msgs' = [msgs EXCEPT ![q0.msg].text = ~@]
    BY <1>1, <1>6 DEF ApplyEdit
  <2>4. /\ DOMAIN msgs' = DOMAIN msgs /\ msgs' \in [DOMAIN msgs -> MsgRow]
        /\ \A m \in DOMAIN msgs : /\ msgs'[m].chat = msgs[m].chat
                                  /\ msgs'[m].replyTo = msgs[m].replyTo
    <3>1. PICK old \in MsgRow : old = msgs[q0.msg]
      BY <1>6 DEF Integrity, TypeOK
    <3>2. PICK row : row = [old EXCEPT !.text = ~@]
      OBVIOUS
    <3>3. row \in MsgRow /\ row.chat = old.chat /\ row.replyTo = old.replyTo
      BY <3>1, <3>2 DEF MsgRow
    <3>4. msgs' = [msgs EXCEPT ![q0.msg] = row]
      BY <2>3, <3>1, <3>2
    <3> QED
      BY <1>6, <3>1, <3>3, <3>4 DEF Integrity, TypeOK
  <2>5. Goto(r, q)
    BY <1>1, <1>6, <2>2 DEF ApplyEdit, Await
  <2> QED
    BY <1>3, <2>2, <2>4, <2>5, RowsStep
<1> QED
  BY <1>1, <1>4, <1>5, <1>6 DEF ApplyMessageStatus, ApplyEdit

\* A message is inserted with its chat and the message replied to, or not at
\* all.
LEMMA InsertMessagePreserves ==
    ASSUME Integrity, NEW r \in Reqs, InsertMessage(r)
    PROVE  Integrity'
<1>1. PICK q0 : q0 = req[r]
  OBVIOUS
<1>2. q0 \in Requests /\ Admitted(q0) /\ ReplyKnown(q0)
  BY <1>1, Slot
<1>3. CASE Finish(r) /\ UNCHANGED <<msgs, nextMsg>>
  BY <1>3, FinishPreserves, RoomUnchanged DEF db, InsertMessage
<1>4. CASE ~(Finish(r) /\ UNCHANGED <<msgs, nextMsg>>)
  <2>1. /\ nextMsg \in MsgIds /\ nextMsg' = nextMsg + 1
        /\ nextMsg' \in 1 .. MaxMsgs + 1
        /\ nextMsg \notin DOMAIN msgs
    BY <1>4, ChatAssumption DEF InsertMessage, Integrity, TypeOK, MsgIds
  <2>2. /\ q0.pc = "insertMessage" /\ q0.user \in Users
        /\ q0.chat \in DOMAIN chats
        /\ q0.reply # 0 => /\ q0.reply \in DOMAIN msgs
                           /\ msgs[q0.reply].chat = q0.chat
    BY <1>1, <1>2, <1>4
       DEF InsertMessage, At, CanConnect, Admitted, ReplyKnown
  <2>3. PICK row : row = [chat |-> q0.chat, sender |-> q0.user,
                          replyTo |-> q0.reply, file |-> q0.file,
                          readByClient |-> FALSE, readByAdmin |-> FALSE,
                          text |-> FALSE, status |-> "SENT"]
    OBVIOUS
  <2>4. /\ row \in MsgRow /\ row.chat = q0.chat /\ row.replyTo = q0.reply
    BY <1>2, <2>2, <2>3 DEF MsgRow, Requests, Integrity, TypeOK
  <2>5. msgs' = Put(msgs, nextMsg, row)
    BY <1>1, <1>4, <2>3 DEF InsertMessage
  <2>6. /\ DOMAIN msgs' = DOMAIN msgs \cup {nextMsg}
        /\ msgs'[nextMsg] = row
        /\ \A m \in DOMAIN msgs : msgs'[m] = msgs[m]
    BY <2>1, <2>5 DEF Put
  <2>7. DOMAIN msgs' \subseteq MsgIds /\ msgs' \in [DOMAIN msgs' -> MsgRow]
    BY <2>1, <2>4, <2>5 DEF Put, Integrity, TypeOK
  <2>8. UNCHANGED <<chats, nextChat, room, readers>>
    BY DEF InsertMessage
  <2>9. RefIntegrity'
    <3> SUFFICES ASSUME NEW m \in DOMAIN msgs'
                 PROVE  /\ msgs'[m].chat \in DOMAIN chats
                        /\ msgs'[m].replyTo # 0 =>
                             /\ msgs'[m].replyTo \in DOMAIN msgs'
                             /\ msgs'[msgs'[m].replyTo].chat = msgs'[m].chat
                             /\ msgs'[m].replyTo < m
      BY <2>8 DEF RefIntegrity
    <3>1. CASE m = nextMsg
      BY <2>2, <2>4, <2>6, <3>1 DEF Integrity
    <3>2. CASE m \in DOMAIN msgs
      BY <2>6, <3>2 DEF Integrity, RefIntegrity
    <3> QED
      BY <2>6, <3>1, <3>2
  <2>10. \A m \in DOMAIN msgs' : m < nextMsg'
    BY <2>1, <2>6 DEF Integrity, TypeOK, MsgIds
  <2>11. Tables'
    BY <2>1, <2>7, <2>8, <2>9, <2>10 DEF Tables, DbTypes, Integrity, TypeOK
  <2>12. PICK q : q = [Idle EXCEPT !.pc = "touchSend", !.user = q0.user,
                                   !.chat = q0.chat, !.msg = nextMsg]
    OBVIOUS
  <2>13. /\ q \in Requests /\ q.pc = "touchSend" /\ q.user = q0.user
         /\ q.msg = nextMsg
    BY <1>2, <2>1, <2>12, IdleSound DEF Sound, Requests, Steps
  <2>14. Admitted(q) /\ ReplyKnown(q)'
    BY <2>1, <2>2, <2>13 DEF Admitted, ReplyKnown
  <2>15. ASSUME NEW p \in Requests, ReplyKnown(p) PROVE ReplyKnown(p)'
    <3>1. p.reply \in Int /\ nextMsg \in Int
      BY <2>1 DEF Requests, MsgIds
    <3> QED
      BY <2>1, <2>6, <2>15, <3>1 DEF ReplyKnown
  <2>16. Goto(r, q)
    BY <1>1, <1>4, <2>12 DEF InsertMessage
  <2> QED
    BY <2>8, <2>11, <2>13, <2>14, <2>15, <2>16, RoomUnchanged, StepPreserves
<1> QED
  BY <1>3, <1>4

\* Deletions leave no reply to what is deleted, by SET NULL.
LEMMA RemovePreserves ==
    ASSUME Integrity, NEW r \in Reqs,
           ApplyDelete(r) \/ ApplyClear(r) \/ ApplyDeleteChat(r)
    PROVE  Integrity'
<1>1. UNCHANGED <<nextChat, nextMsg, room, readers>>
  BY DEF ApplyDelete, ApplyClear, ApplyDeleteChat
<1>2. CASE Finish(r) /\ UNCHANGED <<chats, msgs>>
  BY <1>1, <1>2, FinishPreserves, RoomUnchanged DEF db
<1>3. \A pc \in {"touchDelete", "touchClear", "emitCleared"} : pc \in PlainSteps
  BY DEF PlainSteps, Steps
<1>4. CASE ApplyDelete(r) /\ ~(Finish(r) /\ UNCHANGED <<chats, msgs>>)
  <2>1. /\ UNCHANGED chats /\ req[r].pc # "idle"
        /\ msgs' = RemoveMsgs({req[r].msg}) /\ Await(r, "touchDelete")
    BY <1>4 DEF ApplyDelete, At
  <2>2. PICK q : q = [req[r] EXCEPT !.pc = "touchDelete"] /\ Sound(q)
    BY <1>3, <2>1, AwaitSound
  <2>3. \A m \in DOMAIN msgs \ {req[r].msg} : msgs[m].chat \in DOMAIN chats'
    BY <2>1 DEF Integrity, RefIntegrity
  <2> QED
    BY <1>1, <2>1, <2>2, <2>3, RemoveStep DEF Await, Integrity, TypeOK
<1>5. CASE ApplyClear(r)
  <2>1. /\ UNCHANGED chats /\ req[r].pc # "idle"
        /\ msgs' = RemoveMsgs(MsgsOf(req[r].chat)) /\ Await(r, "touchClear")
    BY <1>5 DEF ApplyClear, At
  <2>2. PICK q : q = [req[r] EXCEPT !.pc = "touchClear"] /\ Sound(q)
    BY <1>3, <2>1, AwaitSound
  <2>3. \A m \in DOMAIN msgs \ MsgsOf(req[r].chat) : msgs[m].chat \in DOMAIN chats'
    BY <2>1 DEF Integrity, RefIntegrity
  <2> QED
    BY <1>1, <2>1, <2>2, <2>3, RemoveStep DEF Await, Integrity, TypeOK
<1>6. CASE ApplyDeleteChat(r) /\ ~(Finish(r) /\ UNCHANGED <<chats, msgs>>)
  <2>1. /\ chats' = Restrict(chats, DOMAIN chats \ {req[r].chat})
        /\ msgs' = RemoveMsgs(MsgsOf(req[r].chat))
        /\ Await(r, "emitCleared") /\ req[r].pc # "idle"
    BY <1>6 DEF ApplyDeleteChat, At
  <2>2. PICK q : q = [req[r] EXCEPT !.pc = "emitCleared"] /\ Sound(q)
    BY <1>3, <2>1, AwaitSound
  <2>3. /\ DOMAIN chats' = DOMAIN chats \ {req[r].chat}
        /\ chats' \in [DOMAIN chats' -> ChatRow]
    BY <2>1 DEF Restrict, Integrity, TypeOK
  <2>4. \A m \in DOMAIN msgs \ MsgsOf(req[r].chat) : msgs[m].chat \in DOMAIN chats'
    BY <2>3 DEF Integrity, RefIntegrity, MsgsOf
  <2> QED
    BY <1>1, <2>1, <2>2, <2>3, <2>4, RemoveStep DEF Await
<1> QED
  BY <1>2, <1>4, <1>5, <1>6

-----------------------------------------------------------------------------

\* So every step keeps the invariant.
LEMMA NextPreserves == Integrity /\ [Next]_vars => Integrity'
<1> SUFFICES ASSUME Integrity, [Next]_vars PROVE Integrity'
  OBVIOUS
<1>1. CASE UNCHANGED vars
  BY <1>1 DEF vars, Integrity, TypeOK, RefIntegrity, Admitted, ReplyKnown, room
<1>2. ASSUME NEW r \in Reqs, Call(r) PROVE Integrity'
  BY <1>2, CallPreserves, ReadPreserves DEF Call
<1>3. ASSUME NEW r \in Reqs, Proceed(r) PROVE Integrity'
  BY <1>3, SilentPreserves, EmitPreserves, ChatsPreserve, ReadPreserves,
     RowsPreserve, InsertMessagePreserves, RemovePreserves DEF Proceed
<1>4. ASSUME NEW r \in Reqs, Abort(r) PROVE Integrity'
  BY <1>4, SilentPreserves
<1> QED
  BY <1>1, <1>2, <1>3, <1>4 DEF Next

\* Every reachable state has the inductive invariant.
THEOREM IntegrityHolds == Spec => []Integrity
<1>1. Spec => Init /\ [][Next]_vars
  BY DEF Spec
<1> QED
  BY <1>1, InitIntegrity, NextPreserves, PTL

\* The variables keep their types, whatever requests overlap.
THEOREM TypeCorrect == Spec => []TypeOK
<1>1. Integrity => TypeOK
  BY DEF Integrity
<1> QED
  BY <1>1, IntegrityHolds, PTL

\* No message is ever left without its chat, or replying to a message that is
\* gone or of another chat, although createMessage checks and inserts in
\* separate queries while other requests delete.
THEOREM ReferencesHold == Spec => []RefIntegrity
<1>1. Integrity => RefIntegrity
  BY DEF Integrity
<1> QED
  BY <1>1, IntegrityHolds, PTL

-----------------------------------------------------------------------------
(* What one step of a request does to one chat, and to its own record       *)

Step(r) == Call(r) \/ Proceed(r) \/ Abort(r)

\* The steps of createMessage after its read of the chat, and the update of
\* assignAdminToChat.
Writing == {"activate", "emitActivated", "autoAssign", "emitAutoAssigned",
            "getFile", "checkReply", "insertMessage", "applyAssign"}
Claiming == {"applyAssign", "autoAssign"}

\* The steps after a write whose broadcast is still to come, and the steps
\* such a request comes from.
Owing == {"emitActivated", "emitAutoAssigned", "emitStatus", "touchSend",
          "emitNew", "touchDelete", "emitDeleted", "touchClear", "emitCleared"}
Storing == {"activate", "autoAssign", "insertMessage", "applyAssign",
            "applyStatus", "applyDelete", "applyClear", "applyDeleteChat"}

\* A request comes to write to a chat only through a check of the chat as it
\* is then, or by going on with what it was doing.
Entry(q0, q) ==
    /\ q.pc \in Writing =>
          \/ /\ q.chat \in DOMAIN chats
             /\ chats[q.chat].status # "CLOSED" \/ chats[q.chat].admin = Null
          \/ /\ q0.chat = q.chat
             /\ q0.pc \in Writing
    /\ q.pc \in Claiming =>
          /\ q.chat \in DOMAIN chats
          /\ chats[q.chat].admin = Null
    /\ q.pc = "applyStatus" =>
          /\ q.chat \in DOMAIN chats
          /\ (chats[q.chat].status = "CLOSED") => (q.status = "CLOSED")
    /\ q.pc = "insertChat" =>
          (q.app # Null => ChatsFor(q.user, q.app) = {})
    /\ q.pc = "applyEdit" => q.msg \in DOMAIN msgs /\ RepliesTo(q.msg) = {}
    /\ q.pc = "applyDelete" => q.chat = msgs[q.msg].chat
    /\ q.pc = "applyClear" => MsgsOf(q.chat) # {}
    /\ q.pc \in Owing => q0.pc \in Storing \cup Owing

\* The steps of which Entry says anything.
Checked == Writing \cup Owing
             \cup {"applyStatus", "insertChat", "applyEdit", "applyDelete",
                     "applyClear"}

\* Steps outside createMessage, createChat, assignAdminToChat,
\* updateChatStatus and editMessage are nobody's entry.
LEMMA OtherEntry ==
    ASSUME NEW q0, NEW q, q.pc \notin Checked
    PROVE  Entry(q0, q)
BY DEF Entry, Checked, Writing, Claiming

\* A request that ends writes nothing more.
LEMMA IdleEntry == ASSUME NEW q0 PROVE Entry(q0, Idle)
BY OtherEntry DEF Idle, Checked, Writing, Owing

\* A message is on its way only if the chat, as it was found, takes it.
LEMMA PrepareEntry ==
    ASSUME NEW q0, NEW q \in Requests,
           \/ /\ q.chat \in DOMAIN chats
              /\ chats[q.chat].status # "CLOSED" \/ chats[q.chat].admin = Null
           \/ q0.chat = q.chat /\ q0.pc \in Writing
    PROVE  Entry(q0, PrepareMessage(q))
<1>1. CASE PrepareMessage(q) = Idle
  BY <1>1, IdleEntry
<1>2. CASE PrepareMessage(q) # Idle
  <2>1. PICK pc \in {"getFile", "checkReply", "insertMessage"} :
            PrepareMessage(q) = [q EXCEPT !.seen = NoRow, !.pc = pc]
    BY <1>2 DEF PrepareMessage
  <2>2. PICK p : p = [q EXCEPT !.seen = NoRow, !.pc = pc]
    OBVIOUS
  <2>3. p.pc = pc /\ p.chat = q.chat
    BY <2>2 DEF Requests
  <2>4. pc \in Writing /\ pc \notin Claiming /\ pc # "applyStatus"
        /\ pc # "insertChat" /\ pc # "applyEdit"
        /\ pc # "applyDelete" /\ pc # "applyClear" /\ pc \notin Owing
    BY DEF Writing, Claiming, Owing
  <2> QED
    BY <2>1, <2>2, <2>3, <2>4 DEF Entry
<1> QED
  BY <1>1, <1>2

\* createMessage's read lets nobody write to a closed chat that has an
\* administrator, and lets nobody claim a chat that has one.
LEMMA LoadEntry ==
    ASSUME TypeOK, NEW q0, NEW q \in Requests
    PROVE  Entry(q0, LoadChat(q))
<1>1. CASE LoadChat(q) = Idle
  BY <1>1, IdleEntry
<1>2. CASE LoadChat(q) # Idle
  <2>1. q.chat \in DOMAIN chats /\ chats[q.chat] \in ChatRow
    BY <1>2 DEF LoadChat, TypeOK
  <2>2. PICK p : p = [q EXCEPT !.seen = chats[q.chat]]
    OBVIOUS
  <2>3. p \in Requests /\ p.chat = q.chat /\ p.seen = chats[q.chat]
    BY <2>1, <2>2 DEF Requests, ChatRow, Users
  <2>4. CASE OwnPending(p) /\ LoadChat(q) = [p EXCEPT !.pc = "activate"]
    <3>1. PICK a : a = [p EXCEPT !.pc = "activate"]
      OBVIOUS
    <3>2. a.pc = "activate" /\ a.chat = q.chat
      BY <2>3, <3>1 DEF Requests
    <3>3. chats[q.chat].status # "CLOSED"
      BY <2>3, <2>4 DEF OwnPending
    <3> QED
      BY <2>1, <2>4, <3>1, <3>2, <3>3 DEF Entry, Claiming, Owing
  <2>5. CASE Claims(p) /\ LoadChat(q) = [p EXCEPT !.pc = "autoAssign"]
    <3>1. PICK a : a = [p EXCEPT !.pc = "autoAssign"]
      OBVIOUS
    <3>2. a.pc = "autoAssign" /\ a.chat = q.chat
      BY <2>3, <3>1 DEF Requests
    <3>3. chats[q.chat].admin = Null
      BY <2>3, <2>5 DEF Claims
    <3> QED
      BY <2>1, <2>5, <3>1, <3>2, <3>3 DEF Entry, Claiming, Owing
  <2>6. CASE LoadChat(q) = PrepareMessage(p)
    <3>1. CASE PrepareMessage(p) = Idle
      BY <1>2, <2>6, <3>1
    <3>2. CASE PrepareMessage(p) # Idle
      <4>1. chats[q.chat].status # "CLOSED"
        BY <2>3, <3>2 DEF PrepareMessage, StatusAllows, OwnPending
      <4> QED
        BY <2>1, <2>3, <2>6, <4>1, PrepareEntry
    <3> QED
      BY <3>1, <3>2
  <2> QED
    BY <1>2, <2>2, <2>4, <2>5, <2>6 DEF LoadChat
<1> QED
  BY <1>1, <1>2

\* The actions that start a request: only AssignSelf and UpdateStatus, after
\* their checks, and LoadChat lead to a write of the chat.
LEMMA CallEntry ==
    ASSUME Integrity, NEW r \in Reqs, Call(r)
    PROVE  \E q \in Requests : Goto(r, q) /\ Entry(req[r], q)
<1>0. Idle \in Requests
  BY IdleSound DEF Sound
<1>1. ASSUME NEW u \in Users, NEW a \in Apps \cup {Null}, NEW greet \in BOOLEAN,
             CreateChat(r, u, a, greet)
      PROVE  \E q \in Requests : Goto(r, q) /\ Entry(req[r], q)
  <2>1. PICK q : q = [Idle EXCEPT !.pc = "insertChat", !.user = u, !.app = a,
                                  !.greet = greet]
    OBVIOUS
  <2>2. q \in Requests /\ q.pc = "insertChat" /\ q.user = u /\ q.app = a
    BY <1>0, <2>1 DEF Requests, Steps
  <2>3. Entry(req[r], q)
    BY <1>1, <2>2 DEF Entry, Writing, Claiming, Owing, CreateChat
  <2>4. Goto(r, q)
    BY <1>1, <2>1 DEF CreateChat
  <2> QED
    BY <2>2, <2>3, <2>4
<1>2. ASSUME NEW u \in Users, NEW c \in ChatIds, NEW reply \in DOMAIN msgs \cup {0},
             NEW file \in BOOLEAN, SendMessage(r, u, c, reply, file)
      PROVE  \E q \in Requests : Goto(r, q) /\ Entry(req[r], q)
  <2>1. PICK q : q = [Idle EXCEPT !.user = u, !.chat = c, !.reply = reply,
                                  !.file = file]
    OBVIOUS
  <2>2. q \in Requests /\ q.user \in Users
    BY <1>0, <2>1 DEF Requests, Steps, Integrity, TypeOK
  <2>3. Sound(LoadChat(q)) /\ Entry(req[r], LoadChat(q))
    BY <2>2, LoadSound, LoadEntry DEF Integrity
  <2>4. Goto(r, LoadChat(q))
    BY <1>2, <2>1 DEF SendMessage
  <2> QED
    BY <2>3, <2>4 DEF Sound
<1>3. ASSUME NEW u \in Users, NEW c \in ChatIds, AssignSelf(r, u, c)
      PROVE  \E q \in Requests : Goto(r, q) /\ Entry(req[r], q)
  <2>1. PICK q : q = [Idle EXCEPT !.pc = "applyAssign", !.user = u, !.chat = c]
    OBVIOUS
  <2>2. q \in Requests /\ q.pc = "applyAssign" /\ q.chat = c
    BY <1>0, <2>1 DEF Requests, Steps
  <2>3. Entry(req[r], q)
    BY <1>3, <2>2 DEF Entry, Writing, Claiming, Owing, AssignSelf, MayAssign
  <2>4. Goto(r, q)
    BY <1>3, <2>1 DEF AssignSelf
  <2> QED
    BY <2>2, <2>3, <2>4
<1>4. ASSUME NEW u \in Users, NEW c \in ChatIds, NEW s \in ChatStatuses,
             UpdateStatus(r, u, c, s)
      PROVE  \E q \in Requests : Goto(r, q) /\ Entry(req[r], q)
  <2>1. PICK q : q = [Idle EXCEPT !.pc = "applyStatus", !.user = u, !.chat = c,
                                  !.status = s]
    OBVIOUS
  <2>2. q \in Requests /\ q.pc = "applyStatus" /\ q.chat = c /\ q.status = s
    BY <1>0, <2>1 DEF Requests, Steps
  <2>3. Entry(req[r], q)
    BY <1>4, <2>2 DEF Entry, Writing, Claiming, Owing, UpdateStatus, MaySetStatus
  <2>4. Goto(r, q)
    BY <1>4, <2>1 DEF UpdateStatus
  <2> QED
    BY <2>2, <2>3, <2>4
<1>5. ASSUME NEW u \in Users, NEW m \in MsgIds, NEW s \in MessageStatuses,
             UpdateMessageStatus(r, u, m, s)
      PROVE  \E q \in Requests : Goto(r, q) /\ Entry(req[r], q)
  <2>1. PICK q : q = [Idle EXCEPT !.pc = "applyMessageStatus", !.user = u,
                                  !.msg = m, !.status = s]
    OBVIOUS
  <2>2. q \in Requests /\ q.pc = "applyMessageStatus"
    BY <1>0, <2>1 DEF Requests, Steps
  <2>3. Entry(req[r], q)
    BY <2>2, OtherEntry DEF Checked, Writing, Owing
  <2>4. Goto(r, q)
    BY <1>5, <2>1 DEF UpdateMessageStatus
  <2> QED
    BY <2>2, <2>3, <2>4
<1>6. ASSUME NEW u \in Users, NEW m \in MsgIds, NEW pc \in {"applyDelete", "applyEdit"},
             m \in DOMAIN msgs, Goto(r, OnMessage(u, m, pc)),
             pc = "applyEdit" => RepliesTo(m) = {}
      PROVE  \E q \in Requests : Goto(r, q) /\ Entry(req[r], q)
  <2>1. PICK q : q = OnMessage(u, m, pc)
    OBVIOUS
  <2>2. msgs[m].chat \in ChatIds
    BY <1>6 DEF Integrity, TypeOK, MsgRow
  <2>3. q \in Requests /\ q.pc = pc /\ q.msg = m /\ q.chat = msgs[m].chat
    BY <1>0, <2>1, <2>2 DEF OnMessage, Requests, Steps
  <2>4. Entry(req[r], q)
    BY <1>6, <2>3 DEF Entry, Writing, Claiming, Owing
  <2> QED
    BY <1>6, <2>1, <2>3, <2>4
<1>7. ASSUME NEW u \in Users, NEW c \in ChatIds,
             NEW pc \in {"fetchPage", "countClear", "applyDeleteChat"},
             Goto(r, [Idle EXCEPT !.pc = pc, !.user = u, !.chat = c])
      PROVE  \E q \in Requests : Goto(r, q) /\ Entry(req[r], q)
  <2>1. PICK q : q = [Idle EXCEPT !.pc = pc, !.user = u, !.chat = c]
    OBVIOUS
  <2>2. q \in Requests /\ q.pc = pc
    BY <1>0, <2>1 DEF Requests, Steps
  <2>3. Entry(req[r], q)
    BY <2>2, OtherEntry DEF Checked, Writing, Owing
  <2> QED
    BY <1>7, <2>1, <2>2, <2>3
<1>8. ASSUME NEW u \in Users, NEW c \in ChatIds, NEW ids \in SUBSET DOMAIN msgs,
             ReadMessages(r, u, c, ids)
      PROVE  \E q \in Requests : Goto(r, q) /\ Entry(req[r], q)
  <2>1. PICK q : q = req[r]
    OBVIOUS
  <2>2. q \in Requests /\ q.pc = "idle" /\ Goto(r, q)
    BY <1>8, <2>1, Slot DEF Goto, Free, ReadMessages, Integrity, TypeOK
  <2>3. Entry(req[r], q)
    BY <2>2, OtherEntry DEF Checked, Writing, Owing
  <2> QED
    BY <2>2, <2>3
<1> QED
  BY <1>1, <1>2, <1>3, <1>4, <1>5, <1>6, <1>7, <1>8
     DEF Call, GetMessages, DeleteMessage, EditMessage, MayEdit, ClearMessages,
         DeleteChat

\* A request that only moves on, to a step that is no write or from one write
\* to the next.
LEMMA AwaitEntry ==
    ASSUME Integrity, NEW r \in Reqs, NEW pc \in Steps, Await(r, pc),
           pc \notin Claiming \cup {"applyStatus", "insertChat", "applyEdit",
                                "applyDelete", "applyClear"},
           pc \in Owing => req[r].pc \in Storing \cup Owing,
           pc \in Writing => req[r].pc \in Writing
    PROVE  \E q \in Requests : Goto(r, q) /\ Entry(req[r], q)
<1>1. PICK q0 \in Requests : q0 = req[r]
  BY Slot
<1>2. PICK q : q = [q0 EXCEPT !.pc = pc]
  OBVIOUS
<1>3. q \in Requests /\ q.pc = pc /\ q.chat = q0.chat
  BY <1>1, <1>2 DEF Requests
<1>4. Entry(q0, q)
  BY <1>1, <1>3 DEF Entry
<1>5. Goto(r, q)
  BY <1>1, <1>2 DEF Await
<1> QED
  BY <1>1, <1>3, <1>4, <1>5

\* A request under way comes to a write by a check, or goes on with one it had
\* made.
LEMMA ProceedEntry ==
    ASSUME Integrity, NEW r \in Reqs, Proceed(r) \/ Abort(r)
    PROVE  \E q \in Requests : Goto(r, q) /\ Entry(req[r], q)
<1> DEFINE Enters == \E q \in Requests : Goto(r, q) /\ Entry(req[r], q)
<1>0. PICK q0 \in Requests : q0 = req[r]
  BY Slot
<1>1. ASSUME NEW q \in Requests, Goto(r, q),
             q.pc \notin Checked
      PROVE  Enters
  BY <1>1, OtherEntry
<1>2. CASE Finish(r)
  <2>1. Idle \in Requests /\ Idle.pc = "idle"
    BY IdleSound DEF Sound, Idle
  <2> QED
    BY <1>1, <1>2, <2>1 DEF Finish, Checked, Writing, Owing
<1>3. CASE InsertChat(r) /\ ~Finish(r)
  <2>1. PICK q : q = [Idle EXCEPT !.pc = "loadChat", !.chat = nextChat, !.user = q0.user]
    OBVIOUS
  <2>2. Goto(r, q) \/ Finish(r)
    BY <1>0, <1>3, <2>1 DEF InsertChat, Finish
  <2>3. nextChat \in ChatIds
    BY <1>3, ChatAssumption DEF InsertChat, Integrity, TypeOK, ChatIds
  <2>4. q0.user \in Users \cup {Null} /\ Idle \in Requests
    BY IdleSound DEF Requests, Sound
  <2>5. q \in Requests /\ q.pc = "loadChat"
    BY <2>1, <2>3, <2>4 DEF Requests, Steps
  <2> QED
    BY <1>1, <1>3, <2>2, <2>5 DEF Checked, Writing, Owing
<1>4. CASE LoadGreeting(r)
  <2>1. Sound(LoadChat(q0)) /\ Entry(q0, LoadChat(q0))
    BY <1>0, <1>4, Slot, LoadSound, LoadEntry DEF Admitted, LoadGreeting, At, Integrity
  <2> QED
    BY <1>0, <1>4, <2>1 DEF LoadGreeting, Sound
<1>5. CASE Activate(r)
  <2>1. PICK p : p = [q0 EXCEPT !.pc = "emitActivated"]
    OBVIOUS
  <2>2. p \in Requests /\ p.pc = "emitActivated" /\ p.chat = q0.chat
    BY <2>1 DEF Requests, Steps
  <2>3. PICK q : q = [p EXCEPT !.seen.status = "ACTIVE"]
    OBVIOUS
  <2>4. q \in Requests /\ q.pc = "emitActivated" /\ q.chat = q0.chat
    BY <2>2, <2>3 DEF Requests, ChatStatuses
  <2>5. Goto(r, q)
    BY <1>0, <1>5, <2>1, <2>3 DEF Activate, Requests
  <2>6. Entry(q0, q)
    BY <1>0, <1>5, <2>4 DEF Entry, Writing, Claiming, Storing, Activate, At
  <2> QED
    BY <1>0, <2>4, <2>5, <2>6
<1>6. CASE AutoAssign(r)
  BY <1>6, AwaitEntry DEF AutoAssign, At, Writing, Claiming, Owing, Storing, Steps
<1>7. CASE ClaimFails(r)
  <2>1. q0.pc \in Writing /\ q0.user \in Users
    BY <1>0, <1>7, Slot DEF ClaimFails, At, Writing, Admitted
  <2>2. Sound(PrepareMessage(q0)) /\ Entry(q0, PrepareMessage(q0))
    BY <2>1, PrepareSound, PrepareEntry
  <2> QED
    BY <1>0, <1>7, <2>2 DEF ClaimFails, Sound
<1>8. CASE EmitClaimed(r)
  <2>1. q0.pc \in Writing /\ q0.user \in Users
    BY <1>0, <1>8, Slot DEF EmitClaimed, Writing, Admitted
  <2>2. PICK p : p = [q0 EXCEPT !.seen.status = "ACTIVE"]
    OBVIOUS
  <2>3. p \in Requests /\ p.chat = q0.chat /\ p.user = q0.user
    BY <2>2 DEF Requests, ChatStatuses
  <2>4. Sound(PrepareMessage(p)) /\ Entry(q0, PrepareMessage(p))
    BY <2>1, <2>3, PrepareSound, PrepareEntry
  <2> QED
    BY <1>0, <1>8, <2>2, <2>4 DEF EmitClaimed, Sound
<1>9. ASSUME NEW found \in BOOLEAN, GetFile(r, found) PROVE Enters
  <2>1. Await(r, "checkReply") => Enters
    BY <1>9, AwaitEntry DEF GetFile, At, Writing, Claiming, Owing, Storing, Steps
  <2>2. Await(r, "insertMessage") => Enters
    BY <1>9, AwaitEntry DEF GetFile, At, Writing, Claiming, Owing, Storing, Steps
  <2> QED
    BY <1>2, <1>9, <2>1, <2>2 DEF GetFile
<1>10. CASE CheckReply(r)
  <2>1. Await(r, "insertMessage") => Enters
    BY <1>10, AwaitEntry DEF CheckReply, At, Writing, Claiming, Owing, Storing, Steps
  <2> QED
    BY <1>2, <1>10, <2>1 DEF CheckReply
<1>11. CASE InsertMessage(r) /\ ~Finish(r)
  <2>1. PICK q : q = [Idle EXCEPT !.pc = "touchSend", !.user = q0.user,
                                  !.chat = q0.chat, !.msg = nextMsg]
    OBVIOUS
  <2>2. Goto(r, q) /\ nextMsg \in MsgIds
    BY <1>0, <1>11, <2>1, ChatAssumption
       DEF InsertMessage, Finish, Integrity, TypeOK, MsgIds
  <2>3. q0.user \in Users \cup {Null} /\ q0.chat \in ChatIds \cup {0} /\ Idle \in Requests
    BY IdleSound DEF Requests, Sound
  <2>4. q \in Requests /\ q.pc = "touchSend"
    BY <2>1, <2>2, <2>3 DEF Requests, Steps
  <2>5. Entry(q0, q)
    BY <1>0, <1>11, <2>4 DEF Entry, InsertMessage, At, Storing, Writing, Claiming
  <2> QED
    BY <1>0, <2>2, <2>4, <2>5
<1>12. ASSUME NEW pc \in {"emitNew", "emitDeleted", "emitEdited", "emitCleared",
                          "alertAdmins", "touchDelete", "touchEdit", "emitStatus",
                          "touchClear"},
              Await(r, pc),
              pc \in Owing => req[r].pc \in Storing \cup Owing
       PROVE  Enters
  BY <1>12, AwaitEntry DEF Writing, Claiming, Steps
<1>13. CASE ApplyAssign(r) /\ ~Finish(r)
  <2>1. PICK q : q = [q0 EXCEPT !.pc = "emitStatus", !.status = "ACTIVE"]
    OBVIOUS
  <2>2. q \in Requests /\ q.pc = "emitStatus"
    BY <2>1 DEF Requests, Steps, ChatStatuses
  <2>3. Goto(r, q)
    BY <1>0, <1>13, <2>1 DEF ApplyAssign
  <2>4. Entry(q0, q)
    BY <1>0, <1>13, <2>2 DEF Entry, ApplyAssign, At, Storing, Writing, Claiming
  <2> QED
    BY <1>0, <2>2, <2>3, <2>4
<1>14. ASSUME NEW p \in 1 .. MaxMsgs, FetchPage(r, p), ~Finish(r)
       PROVE  Enters
  <2>1. PICK unread \in SUBSET MsgIds :
            Goto(r, [q0 EXCEPT !.pc = "markRead", !.ids = unread])
    BY <1>0, <1>14 DEF FetchPage, PageOf, MsgsOf, Integrity, TypeOK
  <2>2. PICK q : q = [q0 EXCEPT !.pc = "markRead", !.ids = unread]
    OBVIOUS
  <2>3. q \in Requests /\ q.pc = "markRead"
    BY <2>2 DEF Requests, Steps
  <2> QED
    BY <1>1, <2>1, <2>2, <2>3 DEF Checked, Writing, Owing
<1>15. CASE TouchChat(r)
  BY <1>2, <1>12, <1>15 DEF TouchChat, AfterTouch, Owing
<1>16. CASE \/ EmitNew(r) \/ ApplyStatus(r) \/ ApplyDelete(r) \/ ApplyEdit(r)
            \/ ApplyClear(r) \/ ApplyDeleteChat(r)
  BY <1>2, <1>12, <1>16
     DEF EmitNew, ApplyStatus, ApplyDelete, ApplyEdit, ApplyClear,
         ApplyDeleteChat, At, Owing, Storing
<1>17. CASE CountClear(r) /\ ~Finish(r)
  <2>1. PICK q : q = [q0 EXCEPT !.pc = "applyClear"]
    OBVIOUS
  <2>2. q \in Requests /\ q.pc = "applyClear" /\ q.chat = q0.chat
    BY <2>1 DEF Requests, Steps
  <2>3. Goto(r, q) /\ MsgsOf(q.chat) # {}
    BY <1>0, <1>17, <2>1, <2>2 DEF CountClear, Await
  <2>4. Entry(q0, q)
    BY <2>2, <2>3 DEF Entry, Writing, Claiming, Owing
  <2> QED
    BY <1>0, <2>2, <2>3, <2>4
<1> QED
  BY <1>2, <1>3, <1>4, <1>5, <1>6, <1>7, <1>8, <1>9, <1>10, <1>11, <1>12, <1>13,
     <1>14, <1>15, <1>16, <1>17
     DEF Proceed, Abort, AlertAdmins, EmitStatus, MarkRead, ApplyMessageStatus,
         EmitDeleted, EmitEdited, EmitCleared

\* The same of every step of a request, its first included.
LEMMA StepEntry ==
    ASSUME Integrity, NEW r \in Reqs, Step(r)
    PROVE  \E q \in Requests : Goto(r, q) /\ Entry(req[r], q)
BY CallEntry, ProceedEntry DEF Step

\* Every step but a stutter is one request's.
LEMMA NextSteps ==
    ASSUME [Next]_vars
    PROVE  UNCHANGED vars \/ \E r \in Reqs : Step(r)
BY DEF Next, Step

-----------------------------------------------------------------------------
(* Who writes the rows of the two tables *)

\* Which steps write to the table of chats, and what.
LEMMA ChatWriters ==
    ASSUME NEW r \in Reqs, Step(r)
    PROVE  \/ UNCHANGED <<chats, nextChat>>
           \/ InsertChat(r) \/ Activate(r) \/ AutoAssign(r)
           \/ ApplyAssign(r) \/ ApplyStatus(r) \/ ApplyDeleteChat(r)
<1>1. Call(r) => UNCHANGED <<chats, nextChat>>
  BY ZenonT(40) DEF Call, CreateChat, SendMessage, AssignSelf, UpdateStatus, GetMessages,
         ReadMessages, ClearMessages, DeleteChat, UpdateMessageStatus,
         DeleteMessage, EditMessage, db
<1>2. Proceed(r) => \/ UNCHANGED <<chats, nextChat>>
                    \/ InsertChat(r) \/ Activate(r) \/ AutoAssign(r)
                    \/ ApplyAssign(r) \/ ApplyStatus(r) \/ ApplyDeleteChat(r)
  BY DEF Proceed, LoadGreeting, ClaimFails, EmitClaimed, GetFile, CheckReply,
         InsertMessage, TouchChat, EmitNew, AlertAdmins, EmitStatus, FetchPage,
         MarkRead, ApplyMessageStatus, ApplyDelete, EmitDeleted, ApplyEdit,
         EmitEdited, CountClear, ApplyClear, EmitCleared, db
<1> QED
  BY <1>1, <1>2 DEF Step, Abort, db

\* The ids of chats are fresh: no insert overwrites a row.
FreshChats == \A c \in DOMAIN chats : c < nextChat

\* What requests hold of chats is of chats that were created.
LEMMA FreshChatsStep ==
    ASSUME Integrity, FreshChats, NEW r \in Reqs, Step(r)
    PROVE  FreshChats'
<1>1. DOMAIN chats \subseteq Nat /\ nextChat \in Nat
  BY DEF Integrity, TypeOK, ChatIds
<1>2. CASE InsertChat(r)
  <2>1. CASE UNCHANGED <<chats, nextChat>>
    BY <2>1 DEF FreshChats
  <2>2. CASE ~ UNCHANGED <<chats, nextChat>>
    <3>1. nextChat' = nextChat + 1 /\ DOMAIN chats' = DOMAIN chats \cup {nextChat}
      BY <1>2, <2>2 DEF InsertChat, Put
    <3> QED
      BY <1>1, <3>1 DEF FreshChats
  <2> QED
    BY <2>1, <2>2
<1>3. ASSUME UNCHANGED nextChat, DOMAIN chats' \subseteq DOMAIN chats
      PROVE  FreshChats'
  BY <1>3 DEF FreshChats
<1>4. ASSUME ~InsertChat(r)
      PROVE  UNCHANGED nextChat /\ DOMAIN chats' \subseteq DOMAIN chats
  BY <1>4, ChatWriters
     DEF Activate, AutoAssign, ApplyAssign, ApplyStatus, ApplyDeleteChat, Restrict
<1> QED
  BY <1>2, <1>3, <1>4

\* A row keeps its creator and application, and is written only by a request
\* that holds the chat, at one of four steps.
LEMMA ChatRows ==
    ASSUME Integrity, FreshChats, NEW r \in Reqs, Step(r),
           NEW c \in DOMAIN chats, c \in DOMAIN chats'
    PROVE  /\ chats'[c].client = chats[c].client /\ chats'[c].app = chats[c].app
           /\ \/ chats'[c] = chats[c]
              \/ req[r].chat = c /\ req[r].pc \in Claiming
              \/ /\ req[r].chat = c /\ req[r].pc \in {"activate", "applyStatus"}
                 /\ chats'[c].admin = chats[c].admin
                 /\ At(r, "applyStatus") => chats'[c].status = req[r].status
<1>0. PICK old \in ChatRow : chats[c] = old
  BY DEF Integrity, TypeOK
<1>1. CASE UNCHANGED chats
  BY <1>1
<1>2. CASE InsertChat(r)
  <2>1. c # nextChat
    BY DEF FreshChats, Integrity, TypeOK, ChatIds
  <2>2. chats'[c] = chats[c]
    BY <1>2, <2>1 DEF InsertChat, Put
  <2> QED
    BY <2>2
<1>3. CASE Activate(r) /\ c = req[r].chat
  <2>1. chats'[c] = [old EXCEPT !.status = "ACTIVE"]
    BY <1>0, <1>3 DEF Activate, Integrity, TypeOK
  <2> QED
    BY <1>0, <1>3, <2>1 DEF Activate, At, ChatRow
<1>4. CASE (AutoAssign(r) \/ ApplyAssign(r)) /\ c = req[r].chat
  <2>1. chats'[c] = [old EXCEPT !.admin = req[r].user, !.status = "ACTIVE"]
    BY <1>0, <1>4 DEF AutoAssign, ApplyAssign, Integrity, TypeOK
  <2> QED
    BY <1>0, <1>4, <2>1 DEF AutoAssign, ApplyAssign, At, Claiming, ChatRow
<1>5. CASE ApplyStatus(r) /\ c = req[r].chat
  <2>1. chats'[c] = [old EXCEPT !.status = req[r].status]
    BY <1>0, <1>5 DEF ApplyStatus, Integrity, TypeOK
  <2> QED
    BY <1>0, <1>5, <2>1 DEF ApplyStatus, At, ChatRow
<1>6. CASE /\ Activate(r) \/ AutoAssign(r) \/ ApplyAssign(r) \/ ApplyStatus(r)
           /\ c # req[r].chat
  <2>1. chats'[c] = chats[c]
    BY <1>6 DEF Activate, AutoAssign, ApplyAssign, ApplyStatus, Integrity, TypeOK
  <2> QED
    BY <2>1
<1>7. CASE ApplyDeleteChat(r)
  <2>1. chats'[c] = chats[c]
    BY <1>7 DEF ApplyDeleteChat, Restrict
  <2> QED
    BY <2>1
<1> QED
  BY <1>1, <1>2, <1>3, <1>4, <1>5, <1>6, <1>7, ChatWriters

\* A chat appears only where createChat inserts it, with its own creator.
LEMMA NewChats ==
    ASSUME Integrity, NEW r \in Reqs, Step(r),
           NEW c \in DOMAIN chats', c \notin DOMAIN chats
    PROVE  /\ At(r, "insertChat")
           /\ chats'[c].client = req[r].user /\ chats'[c].app = req[r].app
<1>1. InsertChat(r)
  BY ChatWriters
     DEF Activate, AutoAssign, ApplyAssign, ApplyStatus, ApplyDeleteChat, Restrict
<1>2. PICK row : /\ row.client = req[r].user /\ row.app = req[r].app
                 /\ chats' = Put(chats, nextChat, row)
  BY <1>1 DEF InsertChat
<1>3. c = nextChat /\ chats'[c] = row
  BY <1>2 DEF Put
<1> QED
  BY <1>1, <1>2, <1>3 DEF InsertChat

\* The Message table is written by the insert, by the two updates of a row,
\* by deletions, and by marking messages as read.
LEMMA MsgWriters ==
    ASSUME NEW r \in Reqs, Step(r)
    PROVE  \/ UNCHANGED <<msgs, nextMsg, readers>>
           \/ InsertMessage(r) \/ ApplyMessageStatus(r) \/ ApplyEdit(r)
           \/ /\ (\E D : msgs' = RemoveMsgs(D)) /\ UNCHANGED <<nextMsg, readers>>
              /\ req[r].pc \in {"applyDelete", "applyClear", "applyDeleteChat"}
           \/ (\E c, ids, u : SetRead(c, ids, RoleOf(u))) /\ UNCHANGED nextMsg
<1>0. Call(r) => \/ UNCHANGED <<msgs, nextMsg, readers>>
                 \/ \E u \in Users, c \in ChatIds, ids \in SUBSET DOMAIN msgs :
                      ReadMessages(r, u, c, ids)
  BY ZenonT(40) DEF Call, CreateChat, SendMessage, AssignSelf, UpdateStatus, GetMessages,
         ClearMessages, DeleteChat, UpdateMessageStatus, DeleteMessage,
         EditMessage, db
<1>1. Call(r) => \/ UNCHANGED <<msgs, nextMsg, readers>>
                 \/ /\ \E c, ids, u : SetRead(c, ids, RoleOf(u))
                    /\ UNCHANGED nextMsg
  BY <1>0 DEF ReadMessages
<1>2. Proceed(r) =>
          \/ UNCHANGED <<msgs, nextMsg, readers>>
          \/ InsertMessage(r) \/ ApplyMessageStatus(r) \/ ApplyEdit(r)
          \/ ApplyDelete(r) \/ ApplyClear(r) \/ ApplyDeleteChat(r) \/ MarkRead(r)
  BY DEF Proceed, InsertChat, LoadGreeting, Activate, AutoAssign, ClaimFails,
         EmitClaimed, GetFile, CheckReply, TouchChat, EmitNew, AlertAdmins,
         ApplyAssign, ApplyStatus, EmitStatus, FetchPage, EmitDeleted,
         EmitEdited, CountClear, EmitCleared, db
<1>3. ApplyDelete(r) \/ ApplyClear(r) \/ ApplyDeleteChat(r) =>
          \/ UNCHANGED <<msgs, nextMsg, readers>>
          \/ /\ (\E D : msgs' = RemoveMsgs(D)) /\ UNCHANGED <<nextMsg, readers>>
             /\ req[r].pc \in {"applyDelete", "applyClear", "applyDeleteChat"}
  BY DEF ApplyDelete, ApplyClear, ApplyDeleteChat, At
<1>4. MarkRead(r) =>
          (\E c, ids, u : SetRead(c, ids, RoleOf(u))) /\ UNCHANGED nextMsg
  BY DEF MarkRead
<1>5. Abort(r) => UNCHANGED <<msgs, nextMsg, readers>>
  BY DEF Abort, db
<1> QED
  BY <1>1, <1>2, <1>3, <1>4, <1>5 DEF Step

\* A row keeps its chat; its reply only goes, and its text is changed only by
\* editMessage's update.
LEMMA MessageRows ==
    ASSUME Integrity, NEW r \in Reqs, Step(r),
           NEW m \in DOMAIN msgs, m \in DOMAIN msgs'
    PROVE  /\ msgs'[m].chat = msgs[m].chat
           /\ msgs'[m].replyTo \in {msgs[m].replyTo, 0}
           /\ \/ msgs'[m].text = msgs[m].text
              \/ At(r, "applyEdit") /\ m = req[r].msg
<1>0. PICK old \in MsgRow : msgs[m] = old
  BY DEF Integrity, TypeOK
<1>1. CASE msgs'[m] = msgs[m]
  BY <1>1
<1>2. ASSUME InsertMessage(r) PROVE msgs'[m] = msgs[m]
  <2>1. m # nextMsg
    BY DEF Integrity, TypeOK
  <2> QED
    BY <1>2, <2>1 DEF InsertMessage, Put
<1>3. ASSUME NEW D, msgs' = RemoveMsgs(D), msgs'[m] # msgs[m]
      PROVE  msgs'[m] = [old EXCEPT !.replyTo = 0]
  BY <1>0, <1>3 DEF RemoveMsgs
<1>4. ASSUME NEW c, NEW ids, NEW u, SetRead(c, ids, RoleOf(u)), msgs'[m] # msgs[m]
      PROVE  \/ msgs'[m] = [old EXCEPT !.readByClient = TRUE]
             \/ msgs'[m] = [old EXCEPT !.readByAdmin = TRUE]
  BY <1>0, <1>4 DEF SetRead
<1>5. ASSUME ApplyMessageStatus(r), msgs'[m] # msgs[m]
      PROVE  msgs'[m] = [old EXCEPT !.status = req[r].status]
  BY <1>0, <1>5 DEF ApplyMessageStatus, Integrity, TypeOK
<1>6. ASSUME ApplyEdit(r), msgs'[m] # msgs[m]
      PROVE  /\ msgs'[m] = [old EXCEPT !.text = ~@]
             /\ At(r, "applyEdit") /\ m = req[r].msg
  BY <1>0, <1>6 DEF ApplyEdit, Integrity, TypeOK
<1>7. \/ msgs'[m] = [old EXCEPT !.replyTo = 0]
      \/ msgs'[m] = [old EXCEPT !.readByClient = TRUE]
      \/ msgs'[m] = [old EXCEPT !.readByAdmin = TRUE]
      \/ msgs'[m] = [old EXCEPT !.status = req[r].status]
      \/ /\ msgs'[m] = [old EXCEPT !.text = ~@]
         /\ At(r, "applyEdit") /\ m = req[r].msg
      \/ msgs'[m] = msgs[m]
  BY <1>2, <1>3, <1>4, <1>5, <1>6, MsgWriters
<1> QED
  BY <1>0, <1>1, <1>7 DEF MsgRow

\* A row appears only where createMessage inserts it.
LEMMA MessageNew ==
    ASSUME NEW r \in Reqs, Step(r), NEW m \in DOMAIN msgs', m \notin DOMAIN msgs
    PROVE  /\ At(r, "insertMessage")
           /\ msgs'[m].chat = req[r].chat
<1>1. InsertMessage(r)
  BY MsgWriters DEF ApplyMessageStatus, ApplyEdit, RemoveMsgs, SetRead
<1>2. PICK row : row = [chat |-> req[r].chat, sender |-> req[r].user,
                        replyTo |-> req[r].reply, file |-> req[r].file,
                        readByClient |-> FALSE, readByAdmin |-> FALSE,
                        text |-> FALSE, status |-> "SENT"]
  OBVIOUS
<1>3. msgs' = Put(msgs, nextMsg, row) /\ row.chat = req[r].chat
  BY <1>1, <1>2 DEF InsertMessage
<1> QED
  BY <1>1, <1>3 DEF Put, InsertMessage

\* A chat gains a message, and a message a reply, only by an insert.
LEMMA NewMessages ==
    ASSUME Integrity, NEW r \in Reqs, Step(r), NEW c
    PROVE  \/ MsgsOf(c)' \subseteq MsgsOf(c)
           \/ At(r, "insertMessage") /\ req[r].chat = c
BY MessageRows, MessageNew DEF MsgsOf

\* Only an insert gives a message a reply.
LEMMA NewReplies ==
    ASSUME Integrity, NEW r \in Reqs, Step(r), NEW m, m # 0
    PROVE  RepliesTo(m)' \subseteq RepliesTo(m) \/ At(r, "insertMessage")
BY MessageRows, MessageNew DEF RepliesTo

-----------------------------------------------------------------------------
(* The action properties *)

\* What a step does to the slots: one changes, in a known way.
LEMMA SlotStep ==
    ASSUME Integrity, NEW r \in Reqs, NEW q, Goto(r, q), NEW s \in Reqs
    PROVE  req'[s] = IF s = r THEN q ELSE req[s]
BY DEF Goto, Integrity, TypeOK

\* A chat that is closed and quiet stays closed.
LEMMA ClosedStep ==
    ASSUME Integrity, FreshChats, NEW r \in Reqs, Step(r),
           NEW c \in ChatIds, Quiet(c), c \in DOMAIN chats'
    PROVE  Quiet(c)' /\ MsgsOf(c)' \subseteq MsgsOf(c)
<1>1. PICK q \in Requests : Goto(r, q) /\ Entry(req[r], q)
  BY StepEntry
<1>2. /\ c \in DOMAIN chats /\ chats[c].status = "CLOSED" /\ chats[c].admin # Null
      /\ \A s \in Reqs : /\ req[s].chat = c => req[s].pc \notin Writing
                         /\ At(s, "applyStatus") /\ req[s].chat = c
                              => req[s].status = "CLOSED"
  BY DEF Quiet, InFlight, Writing
<1>3. chats'[c].status = "CLOSED" /\ chats'[c].admin # Null
  BY <1>2, ChatRows DEF Writing, Claiming, At
<1>4. /\ q.chat = c => q.pc \notin Writing
      /\ q.pc = "applyStatus" /\ q.chat = c => q.status = "CLOSED"
  BY <1>1, <1>2 DEF Entry
<1>5. \A s \in Reqs : /\ req'[s].chat = c => req'[s].pc \notin Writing
                      /\ req'[s].pc = "applyStatus" /\ req'[s].chat = c
                           => req'[s].status = "CLOSED"
  BY <1>1, <1>2, <1>4, SlotStep DEF At
<1>6. Quiet(c)'
  BY <1>3, <1>5 DEF Quiet, InFlight, Writing, At
<1>7. MsgsOf(c)' \subseteq MsgsOf(c)
  BY <1>2, NewMessages DEF Writing, At
<1> QED
  BY <1>6, <1>7

\* A chat that is owned and quiet keeps its owner.
LEMMA OwnedStep ==
    ASSUME Integrity, FreshChats, NEW r \in Reqs, Step(r),
           NEW c \in ChatIds, Owned(c), c \in DOMAIN chats'
    PROVE  Owned(c)' /\ chats'[c].admin = chats[c].admin
<1>1. PICK q \in Requests : Goto(r, q) /\ Entry(req[r], q)
  BY StepEntry
<1>2. /\ c \in DOMAIN chats /\ chats[c].admin # Null
      /\ \A s \in Reqs : req[s].chat = c => req[s].pc \notin Claiming
  BY DEF Owned, InFlight, Claiming
<1>3. chats'[c].admin = chats[c].admin
  BY <1>2, ChatRows
<1>4. q.chat = c => q.pc \notin Claiming
  BY <1>1, <1>2 DEF Entry
<1>5. \A s \in Reqs : req'[s].chat = c => req'[s].pc \notin Claiming
  BY <1>1, <1>2, <1>4, SlotStep
<1> QED
  BY <1>2, <1>3, <1>5 DEF Owned, InFlight, Claiming

\* With a chat there and no creation under way, none comes to be.
LEMMA CreationStep ==
    ASSUME Integrity, FreshChats, NEW r \in Reqs, Step(r),
           NEW u \in Users, NEW a \in Apps, Pair(u, a) # {}, ~Creating(u, a)
    PROVE  Pair(u, a)' \subseteq Pair(u, a) /\ ~Creating(u, a)'
<1>1. PICK q \in Requests : Goto(r, q) /\ Entry(req[r], q)
  BY StepEntry
<1>2. \A s \in Reqs : ~(req[s].pc = "insertChat" /\ req[s].user = u /\ req[s].app = a)
  BY DEF Creating, At
<1>3. ASSUME NEW c \in Pair(u, a)' PROVE c \in Pair(u, a)
  <2>1. c \in DOMAIN chats' /\ chats'[c].client = u /\ chats'[c].app = a
    BY <1>3 DEF Pair
  <2>2. c \in DOMAIN chats
    BY <1>2, <2>1, NewChats DEF At
  <2> QED
    BY <2>1, <2>2, ChatRows DEF Pair
<1>4. ~(q.pc = "insertChat" /\ q.user = u /\ q.app = a)
  BY <1>1, ChatAssumption DEF Entry, ChatsFor, Pair
<1>5. \A s \in Reqs :
          ~(req'[s].pc = "insertChat" /\ req'[s].user = u /\ req'[s].app = a)
  BY <1>1, <1>2, <1>4, SlotStep
<1> QED
  BY <1>3, <1>5 DEF Creating, At

\* What is settled stays so: no edit comes past its check while a reply is
\* there, and only an edit past its check changes a text.
LEMMA SettledStep ==
    ASSUME Integrity, NEW r \in Reqs, Step(r),
           NEW m \in MsgIds, Settled(m), m \in DOMAIN msgs', RepliesTo(m)' # {}
    PROVE  Settled(m)' /\ msgs'[m].text = msgs[m].text
<1>1. PICK q \in Requests : Goto(r, q) /\ Entry(req[r], q)
  BY StepEntry
<1>2. /\ m \in DOMAIN msgs /\ RepliesTo(m) # {}
      /\ \A s \in Reqs : req[s].pc = "applyEdit" => req[s].msg # m
  BY DEF Settled, At
<1>3. q.pc = "applyEdit" => q.msg # m
  BY <1>1, <1>2 DEF Entry
<1>4. \A s \in Reqs : req'[s].pc = "applyEdit" => req'[s].msg # m
  BY <1>1, <1>2, <1>3, SlotStep
<1>5. Settled(m)'
  BY <1>4 DEF Settled, At
<1>6. msgs'[m].text = msgs[m].text
  BY <1>2, MessageRows DEF At
<1> QED
  BY <1>5, <1>6

LEMMA FreshChatsNext == Integrity /\ FreshChats /\ [Next]_vars => FreshChats'
<1> SUFFICES ASSUME Integrity, FreshChats, [Next]_vars PROVE FreshChats'
  OBVIOUS
<1>1. CASE UNCHANGED vars
  BY <1>1 DEF vars, FreshChats
<1> QED
  BY <1>1, NextSteps, FreshChatsStep

\* Every reachable state has the inductive invariant, with fresh chat ids.
LEMMA FreshHolds == Spec => [](Integrity /\ FreshChats)
<1>1. Spec => Init /\ [][Next]_vars
  BY DEF Spec
<1>2. Init => FreshChats
  BY DEF Init, FreshChats
<1> QED
  BY <1>1, <1>2, InitIntegrity, NextPreserves, FreshChatsNext, PTL

\* A closed chat that nobody was writing to when it was closed stays closed
\* and gains no message: each later call is refused by its own check.
THEOREM ClosedStaysClosed == Spec => ClosedForGood
<1> DEFINE Good == \A c \in ChatIds : Quiet(c) =>
                      \/ c \notin DOMAIN chats'
                      \/ Quiet(c)' /\ MsgsOf(c)' \subseteq MsgsOf(c)
<1>1. ASSUME Integrity, FreshChats, [Next]_vars PROVE [Good]_vars
  BY <1>1, NextSteps, ClosedStep
<1>2. Spec => [][Next]_vars
  BY DEF Spec
<1>3. Spec => [][Good]_vars
  BY <1>1, <1>2, FreshHolds, PTL
<1> QED
  BY <1>3 DEF ClosedForGood

\* An administrator loses a chat only to an assignment that was admitted
\* while the chat was still free.
THEOREM OwnershipKept == Spec => OwnershipStable
<1> DEFINE Good == \A c \in ChatIds : Owned(c) =>
                      \/ c \notin DOMAIN chats'
                      \/ Owned(c)' /\ chats'[c].admin = chats[c].admin
<1>1. ASSUME Integrity, FreshChats, [Next]_vars PROVE [Good]_vars
  BY <1>1, NextSteps, OwnedStep
<1>2. Spec => [][Next]_vars
  BY DEF Spec
<1>3. Spec => [][Good]_vars
  BY <1>1, <1>2, FreshHolds, PTL
<1> QED
  BY <1>3 DEF OwnershipStable

\* Two chats of one creator about one application come only from calls of
\* createChat that overlapped.
THEOREM DuplicatesOnlyByOverlap == Spec => DuplicatesNeedOverlap
<1> DEFINE Good == \A u \in Users, a \in Apps :
                      Pair(u, a) # {} /\ ~Creating(u, a) =>
                          /\ Pair(u, a)' \subseteq Pair(u, a)
                          /\ Pair(u, a)' = {} \/ ~Creating(u, a)'
<1>1. ASSUME Integrity, FreshChats, [Next]_vars PROVE [Good]_vars
  BY <1>1, NextSteps, CreationStep
<1>2. Spec => [][Next]_vars
  BY DEF Spec
<1>3. Spec => [][Good]_vars
  BY <1>1, <1>2, FreshHolds, PTL
<1> QED
  BY <1>3 DEF DuplicatesNeedOverlap

\* The text of a message with replies changes only by an edit that looked for
\* replies before there was one.
THEOREM RepliedToKept == Spec => ContextKept
<1> DEFINE Good == \A m \in MsgIds : Settled(m) =>
                      \/ m \notin DOMAIN msgs'
                      \/ RepliesTo(m)' = {}
                      \/ Settled(m)' /\ msgs'[m].text = msgs[m].text
<1>1. ASSUME Integrity, [Next]_vars PROVE [Good]_vars
  BY <1>1, NextSteps, SettledStep
<1>2. Spec => [][Next]_vars
  BY DEF Spec
<1>3. Spec => [][Good]_vars
  BY <1>1, <1>2, IntegrityHolds, PTL
<1> QED
  BY <1>3 DEF ContextKept

-----------------------------------------------------------------------------
(* Read marks *)

\* The two flags of a message tell who has read it, but one flag stands for
\* partners and administrators together; ids not given out carry no reader.
FlagsTell ==
    /\ \A m \in DOMAIN msgs :
          /\ msgs[m].readByClient <=> "CLIENT" \in readers[m]
          /\ msgs[m].readByAdmin <=> readers[m] \cap {"PARTNER", "ADMIN"} # {}
    /\ \A m \in MsgIds : m >= nextMsg => readers[m] = {}

\* Rows that keep their flags, or go.
LEMMA FlagsKept ==
    ASSUME FlagsTell, UNCHANGED <<nextMsg, readers>>,
           DOMAIN msgs' \subseteq DOMAIN msgs,
           \A m \in DOMAIN msgs' : /\ msgs'[m].readByClient = msgs[m].readByClient
                                   /\ msgs'[m].readByAdmin = msgs[m].readByAdmin
    PROVE  FlagsTell'
BY DEF FlagsTell

\* Who reads sets the flag of his role, and is recorded.
LEMMA FlagsRead ==
    ASSUME Integrity, FlagsTell, UNCHANGED nextMsg,
           NEW c, NEW ids, NEW u, SetRead(c, ids, RoleOf(u))
    PROVE  FlagsTell'
<1>0. PICK role \in Roles : SetRead(c, ids, role)
  BY DEF RoleOf, Roles
<1>1. \A m \in DOMAIN msgs : m \in MsgIds /\ m < nextMsg
  BY DEF Integrity, TypeOK
<1>2. \A m \in MsgIds : m >= nextMsg => readers'[m] = {}
  <2>1. \A m \in MsgIds : m >= nextMsg => m \notin MsgsOf(c)
    BY <1>1 DEF MsgsOf, MsgIds, Integrity, TypeOK
  <2> QED
    BY <1>0, <2>1 DEF FlagsTell, SetRead
<1>3. ASSUME NEW m \in DOMAIN msgs
      PROVE  /\ msgs'[m].readByClient <=> "CLIENT" \in readers'[m]
             /\ msgs'[m].readByAdmin <=> readers'[m] \cap {"PARTNER", "ADMIN"} # {}
  <2>0. PICK old \in MsgRow : msgs[m] = old
    BY DEF Integrity, TypeOK
  <2>1. PICK a : a = [old EXCEPT !.readByClient = TRUE]
    OBVIOUS
  <2>2. PICK b : b = [old EXCEPT !.readByAdmin = TRUE]
    OBVIOUS
  <2>3. /\ a.readByClient /\ a.readByAdmin = old.readByAdmin
        /\ b.readByAdmin /\ b.readByClient = old.readByClient
    BY <2>0, <2>1, <2>2 DEF MsgRow
  <2>4. /\ old.readByClient <=> "CLIENT" \in readers[m]
        /\ old.readByAdmin <=> readers[m] \cap {"PARTNER", "ADMIN"} # {}
    BY <2>0 DEF FlagsTell
  <2>5. CASE m \notin MsgsOf(c) \cap ids
    <3>1. msgs'[m] = old /\ readers'[m] = readers[m]
      BY <1>0, <1>1, <2>0, <2>5 DEF SetRead
    <3> QED
      BY <2>4, <3>1
  <2>6. CASE m \in MsgsOf(c) \cap ids /\ role = "CLIENT"
    <3>1. readers'[m] = readers[m] \cup {"CLIENT"}
      BY <1>0, <1>1, <2>6 DEF SetRead
    <3>2. msgs'[m] = IF old.readByClient THEN old ELSE a
      BY <1>0, <2>0, <2>1, <2>6 DEF SetRead, ReadBy
    <3> QED
      BY <2>3, <2>4, <3>1, <3>2
  <2>7. CASE m \in MsgsOf(c) \cap ids /\ role # "CLIENT"
    <3>1. readers'[m] = readers[m] \cup {role} /\ role \in {"PARTNER", "ADMIN"}
      BY <1>0, <1>1, <2>7 DEF SetRead, Roles
    <3>2. msgs'[m] = IF old.readByAdmin THEN old ELSE b
      BY <1>0, <2>0, <2>2, <2>7 DEF SetRead, ReadBy
    <3> QED
      BY <2>3, <2>4, <3>1, <3>2
  <2> QED
    BY <2>5, <2>6, <2>7
<1>4. DOMAIN msgs' = DOMAIN msgs
  BY <1>0 DEF SetRead
<1> QED
  BY <1>2, <1>3, <1>4 DEF FlagsTell

\* So flags tell which roles have read, after every step.
LEMMA FlagsStep ==
    ASSUME Integrity, FlagsTell, NEW r \in Reqs, Step(r)
    PROVE  FlagsTell'
<1>1. CASE UNCHANGED <<msgs, nextMsg, readers>>
  BY <1>1 DEF FlagsTell
<1>2. ASSUME NEW D, msgs' = RemoveMsgs(D), UNCHANGED <<nextMsg, readers>>
      PROVE  FlagsTell'
  <2>1. ASSUME NEW m \in DOMAIN msgs'
        PROVE  /\ msgs'[m].readByClient = msgs[m].readByClient
               /\ msgs'[m].readByAdmin = msgs[m].readByAdmin
    <3>1. PICK old \in MsgRow : msgs[m] = old
      BY <1>2 DEF RemoveMsgs, Integrity, TypeOK
    <3>2. msgs'[m] = old \/ msgs'[m] = [old EXCEPT !.replyTo = 0]
      BY <1>2, <3>1 DEF RemoveMsgs
    <3> QED
      BY <3>1, <3>2 DEF MsgRow
  <2>2. DOMAIN msgs' \subseteq DOMAIN msgs
    BY <1>2 DEF RemoveMsgs
  <2> QED
    BY <1>2, <2>1, <2>2, FlagsKept
<1>3. ASSUME NEW c, NEW ids, NEW u, SetRead(c, ids, RoleOf(u)), UNCHANGED nextMsg
      PROVE  FlagsTell'
  BY <1>3, FlagsRead
<1>4. CASE ApplyMessageStatus(r) \/ ApplyEdit(r)
  <2>1. ASSUME NEW m \in DOMAIN msgs'
        PROVE  /\ msgs'[m].readByClient = msgs[m].readByClient
               /\ msgs'[m].readByAdmin = msgs[m].readByAdmin
    <3>1. PICK old \in MsgRow : msgs[m] = old
      BY <1>4 DEF ApplyMessageStatus, ApplyEdit, Integrity, TypeOK
    <3>2. \/ msgs'[m] = old \/ msgs'[m] = [old EXCEPT !.text = ~@]
          \/ msgs'[m] = [old EXCEPT !.status = req[r].status]
      BY <1>4, <3>1 DEF ApplyMessageStatus, ApplyEdit, Integrity, TypeOK
    <3> QED
      BY <3>1, <3>2 DEF MsgRow
  <2>2. DOMAIN msgs' \subseteq DOMAIN msgs /\ UNCHANGED <<nextMsg, readers>>
    BY <1>4 DEF ApplyMessageStatus, ApplyEdit
  <2> QED
    BY <2>1, <2>2, FlagsKept
<1>5. CASE InsertMessage(r) /\ ~ UNCHANGED <<msgs, nextMsg, readers>>
  <2>1. PICK row : row = [chat |-> req[r].chat, sender |-> req[r].user,
                          replyTo |-> req[r].reply, file |-> req[r].file,
                          readByClient |-> FALSE, readByAdmin |-> FALSE,
                          text |-> FALSE, status |-> "SENT"]
    OBVIOUS
  <2>2. /\ msgs' = Put(msgs, nextMsg, row) /\ nextMsg' = nextMsg + 1
        /\ UNCHANGED readers /\ nextMsg <= MaxMsgs /\ nextMsg \in Nat \ {0}
    BY <1>5, <2>1, ChatAssumption DEF InsertMessage, Integrity, TypeOK
  <2>3. nextMsg \in MsgIds /\ readers[nextMsg] = {}
    BY <2>2, ChatAssumption DEF FlagsTell, MsgIds
  <2>4. \A m \in DOMAIN msgs' : \/ m = nextMsg /\ msgs'[m] = row
                                \/ m \in DOMAIN msgs /\ msgs'[m] = msgs[m]
    BY <2>2 DEF Put
  <2>5. ~row.readByClient /\ ~row.readByAdmin
    BY <2>1
  <2>6. \A m \in MsgIds : m >= nextMsg' => m >= nextMsg
    BY <2>2 DEF MsgIds
  <2> QED
    BY <2>2, <2>3, <2>4, <2>5, <2>6 DEF FlagsTell
<1> QED
  BY <1>1, <1>2, <1>3, <1>4, <1>5, MsgWriters

\* The flags of a message always tell, together, which roles have read it.
LEMMA FlagsHold == Spec => []FlagsTell
<1>1. Spec => Init /\ [][Next]_vars
  BY DEF Spec
<1>2. Init => FlagsTell
  BY DEF Init, FlagsTell
<1>3. Integrity /\ FlagsTell /\ [Next]_vars => FlagsTell'
  <2> SUFFICES ASSUME Integrity, FlagsTell, [Next]_vars PROVE FlagsTell'
    OBVIOUS
  <2>1. CASE UNCHANGED vars
    BY <2>1 DEF vars, FlagsTell
  <2> QED
    BY <2>1, NextSteps, FlagsStep
<1> QED
  BY <1>1, <1>2, <1>3, IntegrityHolds, PTL

\* A message is unread for a user exactly as long as nobody of his side has
\* read it: no other client, or no partner and no administrator.
THEOREM UnreadBySide == Spec => []ReadStatusPerSide
<1>1. ASSUME Integrity, FlagsTell PROVE ReadStatusPerSide
  <2> SUFFICES ASSUME NEW m \in DOMAIN msgs, NEW u \in Users, msgs[m].sender # u
               PROVE  ~ReadBy(RoleOf(u), m)
                        <=> readers[m] \cap Side(RoleOf(u)) = {}
    BY DEF ReadStatusPerSide, UnreadOf, MsgsOf
  <2>1. CASE RoleOf(u) = "CLIENT"
    BY <1>1, <2>1 DEF FlagsTell, ReadBy, Side
  <2>2. CASE RoleOf(u) # "CLIENT"
    <3>1. Side(RoleOf(u)) = {"PARTNER", "ADMIN"}
      BY <2>2 DEF Side, Roles
    <3> QED
      BY <1>1, <2>2, <3>1 DEF FlagsTell, ReadBy
  <2> QED
    BY <2>1, <2>2
<1> QED
  BY <1>1, IntegrityHolds, FlagsHold, PTL

-----------------------------------------------------------------------------
(* One request at a time: what was checked still holds at the update *)

\* A step that checks whether a chat is free writes no chat.
LEMMA CheckingStep ==
    ASSUME Integrity, NEW r \in Reqs, Step(r),
           req'[r].pc \in Claiming
    PROVE  UNCHANGED chats
<1>1. \A q : Goto(r, q) => req'[r] = q
  BY SlotStep
<1>2. ASSUME NEW q, Goto(r, q), q.pc \notin Claiming
      PROVE  FALSE
  BY <1>1, <1>2
<1>3. PICK q0 \in Requests : q0 = req[r]
  BY Slot
<1>4. ~Finish(r)
  BY <1>2 DEF Finish, Idle, Claiming
<1>5. ASSUME NEW pc, Await(r, pc) PROVE pc \in Claiming
  <2>1. PICK q : q = [q0 EXCEPT !.pc = pc]
    OBVIOUS
  <2>2. q.pc = pc /\ Goto(r, q)
    BY <1>3, <1>5, <2>1 DEF Await, Requests
  <2> QED
    BY <1>2, <2>2
<1>6. ~AutoAssign(r) /\ ~ApplyStatus(r) /\ ~ApplyDeleteChat(r)
  BY <1>4, <1>5 DEF AutoAssign, ApplyStatus, ApplyDeleteChat, Claiming
<1>7. ~InsertChat(r)
  <2>1. PICK q : q = [Idle EXCEPT !.pc = "loadChat", !.chat = nextChat, !.user = req[r].user]
    OBVIOUS
  <2>2. q.pc = "loadChat"
    BY <2>1 DEF Idle
  <2>3. InsertChat(r) => Finish(r) \/ Goto(r, q)
    BY <2>1 DEF InsertChat, Finish
  <2> QED
    BY <1>2, <1>4, <2>2, <2>3 DEF Claiming
<1>8. ~ApplyAssign(r)
  <2>1. PICK q : q = [q0 EXCEPT !.pc = "emitStatus", !.status = "ACTIVE"]
    OBVIOUS
  <2>2. q.pc = "emitStatus"
    BY <2>1 DEF Requests
  <2>3. ApplyAssign(r) => Finish(r) \/ Goto(r, q)
    BY <1>3, <2>1 DEF ApplyAssign
  <2> QED
    BY <1>2, <1>4, <2>2, <2>3 DEF Claiming
<1>9. ~Activate(r)
  <2>1. PICK p : p = [q0 EXCEPT !.pc = "emitActivated"]
    OBVIOUS
  <2>2. PICK q : q = [p EXCEPT !.seen.status = "ACTIVE"]
    OBVIOUS
  <2>3. q.pc = "emitActivated"
    BY <2>1, <2>2 DEF Requests
  <2>4. Activate(r) => Goto(r, q)
    BY <1>3, <2>1, <2>2 DEF Activate, Requests
  <2> QED
    BY <1>2, <2>3, <2>4 DEF Claiming
<1> QED
  BY <1>6, <1>7, <1>8, <1>9, ChatWriters

\* What the only request in flight has checked: the chat it is about to claim
\* is free.
ChecksHold ==
    \A r \in Reqs :
        /\ req[r].pc \in Claiming => /\ req[r].chat \in DOMAIN chats
                                     /\ chats[req[r].chat].admin = Null

\* Alone, a request writes to what it checked.
LEMMA ChecksStep ==
    ASSUME Integrity, NEW r \in Reqs, Reqs = {r}, Step(r)
    PROVE  ChecksHold'
<1>1. PICK q \in Requests : Goto(r, q) /\ Entry(req[r], q)
  BY StepEntry
<1>2. req'[r] = q
  BY <1>1, SlotStep
<1>3. ASSUME q.pc \in Claiming
      PROVE  q.chat \in DOMAIN chats' /\ chats'[q.chat].admin = Null
  BY <1>1, <1>2, <1>3, CheckingStep DEF Entry
<1> QED
  BY <1>2, <1>3 DEF ChecksHold

\* Nobody changes what the only request has checked.
LEMMA ChecksInduct ==
    ASSUME NEW r, Reqs = {r}
    PROVE  Spec => [](Integrity /\ FreshChats /\ ChecksHold)
<1>1. Spec => Init /\ [][Next]_vars
  BY DEF Spec
<1>2. Init => ChecksHold
  BY DEF Init, ChecksHold, Idle, Claiming
<1>3. Integrity /\ ChecksHold /\ [Next]_vars => ChecksHold'
  <2> SUFFICES ASSUME Integrity, ChecksHold, [Next]_vars PROVE ChecksHold'
    OBVIOUS
  <2>1. CASE UNCHANGED vars
    BY <2>1 DEF vars, ChecksHold
  <2>2. r \in Reqs
    OBVIOUS
  <2>3. CASE Step(r)
    BY <2>2, <2>3, ChecksStep
  <2> QED
    BY <2>1, <2>3, NextSteps
<1> QED
  BY <1>1, <1>2, <1>3, FreshHolds, PTL

\* While requests do not overlap, a chat keeps the administrator it has:
\* assignAdminToChat and createMessage claim only what they found free.
THEOREM SerialOwnership ==
    ASSUME NEW r, Reqs = {r}
    PROVE  Spec => AssignedOnce
<1> DEFINE Good == \A c \in DOMAIN chats \cap DOMAIN chats' :
                      chats[c].admin # Null => chats'[c].admin = chats[c].admin
<1>1. ASSUME Integrity, FreshChats, ChecksHold, [Next]_vars PROVE [Good]_vars
  <2>1. r \in Reqs
    OBVIOUS
  <2>2. CASE Step(r)
    <3> SUFFICES ASSUME NEW c \in DOMAIN chats \cap DOMAIN chats',
                        chats[c].admin # Null
                 PROVE  chats'[c].admin = chats[c].admin
      OBVIOUS
    <3>1. ~(req[r].chat = c /\ req[r].pc \in Claiming)
      BY <1>1, <2>1 DEF ChecksHold
    <3> QED
      BY <1>1, <2>1, <2>2, <3>1, ChatRows
  <2> QED
    BY <1>1, <2>2, NextSteps
<1>2. Spec => [][Next]_vars
  BY DEF Spec
<1>3. Spec => [][Good]_vars
  BY <1>1, <1>2, ChecksInduct, PTL
<1> QED
  BY <1>3 DEF AssignedOnce

-----------------------------------------------------------------------------
(* One request at a time and no failure: every write reaches the room       *)

\* What a member of the room shows once the request has broadcast what it
\* still owes.
Shown(q, c) ==
    IF q.chat # c THEN roomView[c]
    ELSE CASE q.pc \in {"touchSend", "emitNew"}       -> roomView[c] \cup {q.msg}
           [] q.pc \in {"touchDelete", "emitDeleted"} -> roomView[c] \ {q.msg}
           [] q.pc \in {"touchClear", "emitCleared"}  -> {}
           [] OTHER                                   -> roomView[c]
Told(q, c) ==
    IF q.chat # c THEN roomStatus[c]
    ELSE CASE q.pc \in {"emitActivated", "emitAutoAssigned"} -> "ACTIVE"
           [] q.pc = "emitStatus"                            -> q.status
           [] OTHER                                          -> roomStatus[c]

\* Steps whose chat nobody can have deleted.
Present == {"emitActivated", "emitAutoAssigned", "emitStatus", "touchSend",
            "touchDelete", "touchClear", "applyClear"}

Mirrors(q) ==
    /\ \A c \in ChatIds : Shown(q, c) = MsgsOf(c)
    /\ \A c \in DOMAIN chats : Told(q, c) = chats[c].status
    /\ \A c \in ChatIds : c >= nextChat => roomStatus[c] = "PENDING"
    /\ q.pc \in Present => q.chat \in DOMAIN chats
    /\ q.pc = "applyDelete" /\ q.msg \in DOMAIN msgs => q.chat = msgs[q.msg].chat

\* Which steps broadcast to a room.
LEMMA RoomWriters ==
    ASSUME NEW r \in Reqs, Step(r)
    PROVE  \/ UNCHANGED <<roomStatus, roomView>>
           \/ EmitClaimed(r) \/ EmitNew(r) \/ EmitStatus(r)
           \/ EmitDeleted(r) \/ EmitCleared(r)
<1>1. Call(r) => UNCHANGED <<roomStatus, roomView>>
  BY ZenonT(40) DEF Call, CreateChat, SendMessage, AssignSelf, UpdateStatus, GetMessages,
         ReadMessages, ClearMessages, DeleteChat, UpdateMessageStatus,
         DeleteMessage, EditMessage, room
<1>2. Proceed(r) => \/ UNCHANGED <<roomStatus, roomView>>
                    \/ EmitClaimed(r) \/ EmitNew(r) \/ EmitStatus(r)
                    \/ EmitDeleted(r) \/ EmitCleared(r)
  BY DEF Proceed, InsertChat, LoadGreeting, Activate, AutoAssign, ClaimFails,
         GetFile, CheckReply, InsertMessage, TouchChat, AlertAdmins,
         ApplyAssign, ApplyStatus, FetchPage, MarkRead, ApplyMessageStatus,
         ApplyDelete, ApplyEdit, EmitEdited, CountClear, ApplyClear,
         ApplyDeleteChat, room
<1> QED
  BY <1>1, <1>2 DEF Step, Abort, room

\* Requests that owe nothing show the room as it is.
LEMMA NothingOwed ==
    ASSUME NEW q, q.pc \notin Owing
    PROVE  \A c : Shown(q, c) = roomView[c] /\ Told(q, c) = roomStatus[c]
BY DEF Shown, Told, Owing

\* A step that neither writes nor broadcasts leaves the room as it was to the
\* tables.
LEMMA MirrorKept ==
    ASSUME NEW q0, NEW q, Mirrors(q0), q0.pc \notin Owing, q.pc \notin Owing,
           UNCHANGED <<chats, nextChat, roomStatus, roomView>>,
           \A c : MsgsOf(c)' = MsgsOf(c),
           q.pc = "applyClear" => q.chat \in DOMAIN chats,
           q.pc = "applyDelete" /\ q.msg \in DOMAIN msgs' => q.chat = msgs'[q.msg].chat
    PROVE  Mirrors(q)'
<1>1. \A c : /\ Shown(q0, c) = roomView[c] /\ Told(q0, c) = roomStatus[c]
             /\ Shown(q, c)' = roomView'[c] /\ Told(q, c)' = roomStatus'[c]
  BY NothingOwed DEF Shown, Told, Owing
<1>2. q.pc \in Present => q.chat \in DOMAIN chats
  BY DEF Owing, Present
<1> QED
  BY <1>1, <1>2 DEF Mirrors

\* Outside the steps that store, every chat keeps the set of its messages.
LEMMA SameMessages ==
    ASSUME Integrity, NEW r \in Reqs, Step(r), req[r].pc \notin Storing
    PROVE  DOMAIN msgs' = DOMAIN msgs /\ \A c : MsgsOf(c)' = MsgsOf(c)
<1>1. DOMAIN msgs' = DOMAIN msgs
  BY MsgWriters
     DEF InsertMessage, ApplyMessageStatus, ApplyEdit, SetRead, At, Storing
<1> QED
  BY <1>1, MessageRows DEF MsgsOf

\* Where a message goes on after its chat has been found.
LEMMA PreparePc ==
    ASSUME NEW q \in Requests
    PROVE  PrepareMessage(q).pc \in {"idle", "getFile", "checkReply", "insertMessage"}
BY DEF PrepareMessage, Idle, Requests

\* Steps that neither store nor broadcast.
LEMMA MirrorSilent ==
    ASSUME Integrity, FreshChats, NEW r \in Reqs, Step(r), Mirrors(req[r]),
           req[r].pc \notin Storing \cup Owing
    PROVE  Mirrors(req[r])'
<1>1. PICK q \in Requests : Goto(r, q) /\ Entry(req[r], q)
  BY StepEntry
<1>2. q.pc \notin Owing /\ req'[r] = q
  BY <1>1, SlotStep DEF Entry
<1>3. UNCHANGED <<roomStatus, roomView>>
  BY RoomWriters
     DEF EmitClaimed, EmitNew, EmitStatus, EmitDeleted, EmitCleared, At, Owing
<1>4. DOMAIN msgs' = DOMAIN msgs /\ \A c : MsgsOf(c)' = MsgsOf(c)
  BY SameMessages
<1>5. q.pc = "applyDelete" /\ q.msg \in DOMAIN msgs' => q.chat = msgs'[q.msg].chat
  BY <1>1, <1>4, MessageRows DEF Entry
<1>a. q.pc = "applyClear" => q.chat \in DOMAIN chats
  BY <1>1 DEF Entry, MsgsOf, Integrity, RefIntegrity
<1>6. CASE UNCHANGED <<chats, nextChat>>
  BY <1>2, <1>3, <1>4, <1>5, <1>a, <1>6, MirrorKept
<1>7. CASE InsertChat(r) /\ ~ UNCHANGED <<chats, nextChat>>
  <2>1. PICK row : row = [client |-> req[r].user, admin |-> Null,
                          status |-> "PENDING", app |-> req[r].app]
    OBVIOUS
  <2>2. /\ chats' = Put(chats, nextChat, row) /\ nextChat' = nextChat + 1
        /\ nextChat <= MaxChats /\ nextChat \in Nat \ {0}
    BY <1>7, <2>1, ChatAssumption DEF InsertChat, Integrity, TypeOK
  <2>3. nextChat \in ChatIds
    BY <2>2, ChatAssumption DEF ChatIds
  <2>4. row.status = "PENDING"
    BY <2>1
  <2>5. \A c \in DOMAIN chats' : \/ c = nextChat /\ chats'[c] = row
                                 \/ c \in DOMAIN chats /\ chats'[c] = chats[c]
    BY <2>2 DEF Put
  <2>6. \A c : /\ Shown(req[r], c) = roomView[c] /\ Told(req[r], c) = roomStatus[c]
               /\ Shown(q, c)' = roomView'[c] /\ Told(q, c)' = roomStatus'[c]
    BY <1>2, NothingOwed DEF Shown, Told, Owing
  <2>7. \A c \in ChatIds : c >= nextChat' => c >= nextChat
    BY <2>2 DEF ChatIds
  <2>8. nextChat >= nextChat
    BY <2>2
  <2>9. \A c \in DOMAIN chats' : roomStatus'[c] = chats'[c].status
    BY <1>3, <2>3, <2>4, <2>5, <2>6, <2>8 DEF Mirrors
  <2>10. \A c \in ChatIds : roomView'[c] = MsgsOf(c)'
    BY <1>3, <1>4, <2>6 DEF Mirrors
  <2>11. q.pc \in Present => q.chat \in DOMAIN chats'
    BY <1>2, <1>a, <2>2 DEF Owing, Present, Put
  <2>12. Mirrors(q)'
    BY <1>3, <1>5, <2>6, <2>7, <2>9, <2>10, <2>11 DEF Mirrors
  <2> QED
    BY <1>2, <2>12 DEF Mirrors, Shown, Told
<1> QED
  BY <1>6, <1>7, ChatWriters
     DEF Activate, AutoAssign, ApplyAssign, ApplyStatus, ApplyDeleteChat, At, Storing

\* The updates of a chat's status, each followed by its event.
LEMMA MirrorStatus ==
    ASSUME TypeOK, NEW q0, NEW q, Mirrors(q0), q0.pc \notin Owing,
           q.pc \in {"emitActivated", "emitAutoAssigned", "emitStatus"},
           q.chat = q0.chat, q.chat \in DOMAIN chats, DOMAIN chats' = DOMAIN chats,
           \A c \in DOMAIN chats \ {q.chat} : chats'[c] = chats[c],
           chats'[q.chat].status = IF q.pc = "emitStatus" THEN q.status ELSE "ACTIVE",
           UNCHANGED <<nextChat, msgs, roomStatus, roomView>>
    PROVE  Mirrors(q)'
<1>1. \A c : Shown(q0, c) = roomView[c] /\ Told(q0, c) = roomStatus[c]
  BY NothingOwed
<1>2. \A c : Shown(q, c)' = roomView[c]
  BY DEF Shown
<1>3. \A c : Told(q, c)' = IF c # q.chat THEN roomStatus[c]
                           ELSE IF q.pc = "emitStatus" THEN q.status ELSE "ACTIVE"
  BY DEF Told
<1>4. \A c : MsgsOf(c)' = MsgsOf(c)
  BY DEF MsgsOf
<1>5. q.pc # "applyDelete"
  OBVIOUS
<1> QED
  BY <1>1, <1>2, <1>3, <1>4, <1>5 DEF Mirrors

\* What is left of a chat's messages after a deletion.
LEMMA Removed ==
    ASSUME Integrity, NEW D, msgs' = RemoveMsgs(D)
    PROVE  DOMAIN msgs' = DOMAIN msgs \ D /\ \A c : MsgsOf(c)' = MsgsOf(c) \ D
<1>1. DOMAIN msgs' = DOMAIN msgs \ D
  BY DEF RemoveMsgs
<1>2. \A m \in DOMAIN msgs' : msgs'[m].chat = msgs[m].chat
  BY DEF RemoveMsgs, Integrity, TypeOK, MsgRow
<1> QED
  BY <1>1, <1>2 DEF MsgsOf

\* Writes to the messages of one chat: the event still owed makes up for them.
LEMMA MirrorMessages ==
    ASSUME TypeOK, NEW q0, NEW q, Mirrors(q0), q0.pc \notin Owing,
           q.pc \in {"touchSend", "touchDelete", "touchClear", "emitCleared"},
           q.chat = q0.chat,
           q.pc # "emitCleared" => q.chat \in DOMAIN chats',
           DOMAIN chats' \subseteq DOMAIN chats,
           \A c \in DOMAIN chats' : chats'[c] = chats[c],
           \A c \in ChatIds \ {q.chat} : MsgsOf(c)' = MsgsOf(c),
           q.pc = "touchSend" => MsgsOf(q.chat)' = MsgsOf(q.chat) \cup {q.msg},
           q.pc = "touchDelete" => MsgsOf(q.chat)' = MsgsOf(q.chat) \ {q.msg},
           q.pc \in {"touchClear", "emitCleared"} => MsgsOf(q.chat)' = {},
           UNCHANGED <<nextChat, roomStatus, roomView>>
    PROVE  Mirrors(q)'
<1>1. \A c : Shown(q0, c) = roomView[c] /\ Told(q0, c) = roomStatus[c]
  BY NothingOwed
<1>2. \A c : Told(q, c)' = roomStatus[c]
  BY DEF Told
<1>3. \A c : /\ c # q.chat => Shown(q, c)' = roomView[c]
             /\ c = q.chat =>
                  /\ q.pc = "touchSend" => Shown(q, c)' = roomView[c] \cup {q.msg}
                  /\ q.pc = "touchDelete" => Shown(q, c)' = roomView[c] \ {q.msg}
                  /\ q.pc \in {"touchClear", "emitCleared"} => Shown(q, c)' = {}
  BY DEF Shown
<1>4. ASSUME NEW c \in ChatIds PROVE Shown(q, c)' = MsgsOf(c)'
  <2>1. roomView[c] = MsgsOf(c)
    BY <1>1 DEF Mirrors
  <2>2. CASE c # q.chat
    BY <1>3, <2>1, <2>2
  <2>3. CASE c = q.chat
    BY <1>3, <2>1, <2>3
  <2> QED
    BY <2>2, <2>3
<1>5. \A c \in DOMAIN chats' : Told(q, c)' = chats'[c].status
  BY <1>1, <1>2 DEF Mirrors
<1>6. /\ \A c \in ChatIds : c >= nextChat' => roomStatus'[c] = "PENDING"
      /\ q.pc \in Present => q.chat \in DOMAIN chats'
      /\ q.pc # "applyDelete"
  BY DEF Mirrors, Present
<1> QED
  BY <1>4, <1>5, <1>6 DEF Mirrors

\* The steps that store; without failures the claims cannot be skipped.
LEMMA MirrorStored ==
    ASSUME Integrity, ~Faults, NEW r \in Reqs, Proceed(r), Mirrors(req[r]),
           req[r].pc \in Storing
    PROVE  \E q : Goto(r, q) /\ Mirrors(q)'
<1> DEFINE Good == \E q : Goto(r, q) /\ Mirrors(q)'
<1>0. PICK q0 \in Requests : q0 = req[r]
  BY Slot
<1>1. q0.pc \notin Owing /\ Mirrors(q0)
  BY <1>0 DEF Storing, Owing
<1>2. UNCHANGED <<roomStatus, roomView>>
  BY <1>0, RoomWriters
     DEF Step, EmitClaimed, EmitNew, EmitStatus, EmitDeleted, EmitCleared, At, Storing
<1>3. CASE Finish(r) /\ UNCHANGED <<chats, nextChat, msgs>>
  <2>1. Idle.pc = "idle" /\ Idle.pc \notin Owing
    BY DEF Idle, Owing
  <2>2. \A c : MsgsOf(c)' = MsgsOf(c)
    BY <1>3 DEF MsgsOf
  <2>3. Mirrors(Idle)'
    BY <1>1, <1>2, <1>3, <2>1, <2>2, MirrorKept
  <2> QED
    BY <1>3, <2>3 DEF Finish
<1>4. CASE ClaimFails(r)
  <2>1. PICK q : q = PrepareMessage(q0)
    OBVIOUS
  <2>2. q.pc \notin Owing /\ q.pc # "applyDelete" /\ q.pc # "applyClear"
    BY <2>1, PreparePc DEF Owing
  <2>3. UNCHANGED <<chats, nextChat, msgs>> /\ Goto(r, q)
    BY <1>0, <1>4, <2>1 DEF ClaimFails, db
  <2>4. \A c : MsgsOf(c)' = MsgsOf(c)
    BY <2>3 DEF MsgsOf
  <2>5. Mirrors(q)'
    BY <1>1, <1>2, <2>2, <2>3, <2>4, MirrorKept
  <2> QED
    BY <2>3, <2>5
<1>5. CASE Activate(r)
  <2>1. PICK p : p = [q0 EXCEPT !.pc = "emitActivated"]
    OBVIOUS
  <2>2. PICK q : q = [p EXCEPT !.seen.status = "ACTIVE"]
    OBVIOUS
  <2>3. q.pc = "emitActivated" /\ q.chat = q0.chat
    BY <2>1, <2>2 DEF Requests
  <2>4. Goto(r, q)
    BY <1>0, <1>5, <2>1, <2>2 DEF Activate, Requests
  <2>5. /\ q.chat \in DOMAIN chats /\ DOMAIN chats' = DOMAIN chats
        /\ chats'[q.chat].status = "ACTIVE"
        /\ \A c \in DOMAIN chats \ {q.chat} : chats'[c] = chats[c]
        /\ UNCHANGED <<nextChat, msgs>>
    BY <1>0, <1>5, <2>3 DEF Activate, Integrity, TypeOK, ChatRow
  <2>6. Mirrors(q)'
    BY <1>1, <1>2, <2>3, <2>5, MirrorStatus DEF Integrity
  <2> QED
    BY <2>4, <2>6
<1>6. CASE AutoAssign(r)
  <2>1. PICK q : q = [q0 EXCEPT !.pc = "emitAutoAssigned"]
    OBVIOUS
  <2>2. q.pc = "emitAutoAssigned" /\ q.chat = q0.chat /\ Goto(r, q)
    BY <1>0, <1>6, <2>1 DEF Requests, AutoAssign, Await
  <2>3. /\ q.chat \in DOMAIN chats /\ DOMAIN chats' = DOMAIN chats
        /\ chats'[q.chat].status = "ACTIVE"
        /\ \A c \in DOMAIN chats \ {q.chat} : chats'[c] = chats[c]
        /\ UNCHANGED <<nextChat, msgs>>
    BY <1>0, <1>6, <2>2 DEF AutoAssign, Integrity, TypeOK, ChatRow
  <2>4. Mirrors(q)'
    BY <1>1, <1>2, <2>2, <2>3, MirrorStatus DEF Integrity
  <2> QED
    BY <2>2, <2>4
<1>7. CASE ApplyAssign(r) /\ q0.chat \in DOMAIN chats
  <2>1. PICK q : q = [q0 EXCEPT !.pc = "emitStatus", !.status = "ACTIVE"]
    OBVIOUS
  <2>2. /\ q.pc = "emitStatus" /\ q.status = "ACTIVE" /\ q.chat = q0.chat
        /\ Goto(r, q)
    BY <1>0, <1>7, <2>1 DEF Requests, ApplyAssign
  <2>3. /\ q.chat \in DOMAIN chats /\ DOMAIN chats' = DOMAIN chats
        /\ chats'[q.chat].status = "ACTIVE"
        /\ \A c \in DOMAIN chats \ {q.chat} : chats'[c] = chats[c]
        /\ UNCHANGED <<nextChat, msgs>>
    <3>1. PICK old \in ChatRow : old = chats[q0.chat]
      BY <1>7 DEF Integrity, TypeOK
    <3>2. PICK row : row = [old EXCEPT !.admin = q0.user, !.status = "ACTIVE"]
      OBVIOUS
    <3>3. row.status = "ACTIVE"
      BY <3>1, <3>2 DEF ChatRow
    <3>4. chats' = [chats EXCEPT ![q0.chat] = row]
      BY <1>0, <1>7, <3>1, <3>2 DEF ApplyAssign, Integrity, TypeOK
    <3>5. UNCHANGED <<nextChat, msgs>>
      BY <1>7 DEF ApplyAssign
    <3> QED
      BY <1>7, <2>2, <3>3, <3>4, <3>5
  <2>4. Mirrors(q)'
    BY <1>1, <1>2, <2>2, <2>3, MirrorStatus DEF Integrity
  <2> QED
    BY <2>2, <2>4
<1>8. CASE ApplyStatus(r) /\ q0.chat \in DOMAIN chats
  <2>1. PICK q : q = [q0 EXCEPT !.pc = "emitStatus"]
    OBVIOUS
  <2>2. /\ q.pc = "emitStatus" /\ q.status = q0.status /\ q.chat = q0.chat
        /\ Goto(r, q)
    BY <1>0, <1>8, <2>1 DEF Requests, ApplyStatus, Await
  <2>3. /\ q.chat \in DOMAIN chats /\ DOMAIN chats' = DOMAIN chats
        /\ chats'[q.chat].status = q.status
        /\ \A c \in DOMAIN chats \ {q.chat} : chats'[c] = chats[c]
        /\ UNCHANGED <<nextChat, msgs>>
    BY <1>0, <1>8, <2>2 DEF ApplyStatus, Integrity, TypeOK, ChatRow
  <2>4. Mirrors(q)'
    BY <1>1, <1>2, <2>2, <2>3, MirrorStatus DEF Integrity
  <2> QED
    BY <2>2, <2>4
<1>9. CASE InsertMessage(r) /\ ~(nextMsg > MaxMsgs \/ ~CanConnect(q0))
  <2>1. PICK q : q = [Idle EXCEPT !.pc = "touchSend", !.user = q0.user,
                                  !.chat = q0.chat, !.msg = nextMsg]
    OBVIOUS
  <2>2. q.pc = "touchSend" /\ q.chat = q0.chat /\ q.msg = nextMsg
    BY <2>1 DEF Idle
  <2>3. PICK row : row = [chat |-> q0.chat, sender |-> q0.user,
                          replyTo |-> q0.reply, file |-> q0.file,
                          readByClient |-> FALSE, readByAdmin |-> FALSE,
                          text |-> FALSE, status |-> "SENT"]
    OBVIOUS
  <2>4. /\ Goto(r, q) /\ msgs' = Put(msgs, nextMsg, row) /\ row.chat = q0.chat
        /\ q0.chat \in DOMAIN chats /\ UNCHANGED <<chats, nextChat>>
    BY <1>0, <1>9, <2>1, <2>3 DEF InsertMessage, CanConnect
  <2>5. nextMsg \notin DOMAIN msgs
    BY DEF Integrity, TypeOK
  <2>6. \A c : MsgsOf(c)' = IF c = q.chat THEN MsgsOf(c) \cup {nextMsg} ELSE MsgsOf(c)
    BY <2>2, <2>4, <2>5 DEF MsgsOf, Put
  <2>7. Mirrors(q)'
    BY <1>1, <1>2, <2>2, <2>4, <2>6, MirrorMessages DEF Integrity
  <2> QED
    BY <2>4, <2>7
<1>10. CASE ApplyDelete(r) /\ q0.msg \in DOMAIN msgs
  <2>1. PICK q : q = [q0 EXCEPT !.pc = "touchDelete"]
    OBVIOUS
  <2>2. q.pc = "touchDelete" /\ q.chat = q0.chat /\ q.msg = q0.msg
    BY <2>1 DEF Requests
  <2>3. /\ Goto(r, q) /\ q.msg \in DOMAIN msgs /\ msgs' = RemoveMsgs({q.msg})
        /\ UNCHANGED <<chats, nextChat>> /\ q0.pc = "applyDelete"
    BY <1>0, <1>10, <2>1, <2>2 DEF ApplyDelete, Await, At
  <2>4. msgs[q.msg].chat = q.chat
    BY <1>1, <2>2, <2>3 DEF Mirrors
  <2>5. \A c : MsgsOf(c)' = IF c = q.chat THEN MsgsOf(c) \ {q.msg} ELSE MsgsOf(c)
    <3>1. \A c : MsgsOf(c)' = MsgsOf(c) \ {q.msg}
      BY <2>3, Removed
    <3>2. \A c : c # q.chat => q.msg \notin MsgsOf(c)
      BY <2>4 DEF MsgsOf
    <3> QED
      BY <3>1, <3>2
  <2>6. q.chat \in DOMAIN chats
    BY <2>3, <2>4 DEF Integrity, RefIntegrity
  <2>7. Mirrors(q)'
    BY <1>1, <1>2, <2>2, <2>3, <2>5, <2>6, MirrorMessages DEF Integrity
  <2> QED
    BY <2>3, <2>7
<1>11. CASE ApplyClear(r)
  <2>1. PICK q : q = [q0 EXCEPT !.pc = "touchClear"]
    OBVIOUS
  <2>2. q.pc = "touchClear" /\ q.chat = q0.chat
    BY <2>1 DEF Requests
  <2>3. /\ Goto(r, q) /\ msgs' = RemoveMsgs(MsgsOf(q.chat))
        /\ UNCHANGED <<chats, nextChat>> /\ q0.pc = "applyClear"
    BY <1>0, <1>11, <2>1, <2>2 DEF ApplyClear, Await, At
  <2>4. q.chat \in DOMAIN chats
    BY <1>1, <2>2, <2>3 DEF Mirrors, Present
  <2>5. \A c : MsgsOf(c)' = IF c = q.chat THEN {} ELSE MsgsOf(c)
    <3>1. \A c : MsgsOf(c)' = MsgsOf(c) \ MsgsOf(q.chat)
      BY <2>3, Removed
    <3>2. \A c : c # q.chat => MsgsOf(c) \cap MsgsOf(q.chat) = {}
      BY DEF MsgsOf
    <3> QED
      BY <3>1, <3>2
  <2>6. Mirrors(q)'
    BY <1>1, <1>2, <2>2, <2>3, <2>4, <2>5, MirrorMessages DEF Integrity
  <2> QED
    BY <2>3, <2>6
<1>12. CASE ApplyDeleteChat(r) /\ q0.chat \in DOMAIN chats
  <2>1. PICK q : q = [q0 EXCEPT !.pc = "emitCleared"]
    OBVIOUS
  <2>2. q.pc = "emitCleared" /\ q.chat = q0.chat
    BY <2>1 DEF Requests
  <2>3. /\ Goto(r, q) /\ msgs' = RemoveMsgs(MsgsOf(q.chat)) /\ UNCHANGED nextChat
        /\ chats' = Restrict(chats, DOMAIN chats \ {q.chat})
    BY <1>0, <1>12, <2>1, <2>2 DEF ApplyDeleteChat, Await
  <2>4. /\ DOMAIN chats' \subseteq DOMAIN chats
        /\ \A c \in DOMAIN chats' : chats'[c] = chats[c]
    BY <2>3 DEF Restrict
  <2>5. \A c : MsgsOf(c)' = IF c = q.chat THEN {} ELSE MsgsOf(c)
    <3>1. \A c : MsgsOf(c)' = MsgsOf(c) \ MsgsOf(q.chat)
      BY <2>3, Removed
    <3>2. \A c : c # q.chat => MsgsOf(c) \cap MsgsOf(q.chat) = {}
      BY DEF MsgsOf
    <3> QED
      BY <3>1, <3>2
  <2>6. Mirrors(q)'
    BY <1>1, <1>2, <2>2, <2>3, <2>4, <2>5, MirrorMessages DEF Integrity
  <2> QED
    BY <2>3, <2>6
<1>13. \/ ClaimFails(r) \/ Activate(r) \/ AutoAssign(r) \/ ApplyAssign(r)
       \/ ApplyStatus(r) \/ InsertMessage(r) \/ ApplyDelete(r) \/ ApplyClear(r)
       \/ ApplyDeleteChat(r)
  BY <1>0 DEF Proceed, Storing, InsertChat, LoadGreeting, EmitClaimed, GetFile,
       CheckReply, TouchChat, EmitNew, AlertAdmins, EmitStatus, FetchPage,
       MarkRead, ApplyMessageStatus, EmitDeleted, ApplyEdit, EmitEdited,
       CountClear, EmitCleared, At
<1>14. CASE \/ (ApplyAssign(r) \/ ApplyStatus(r) \/ ApplyDeleteChat(r))
                  /\ q0.chat \notin DOMAIN chats
            \/ InsertMessage(r) /\ (nextMsg > MaxMsgs \/ ~CanConnect(q0))
            \/ ApplyDelete(r) /\ q0.msg \notin DOMAIN msgs
  <2>1. Finish(r) /\ UNCHANGED <<chats, nextChat, msgs>>
    BY <1>0, <1>14
       DEF ApplyAssign, ApplyStatus, InsertMessage, ApplyDelete, ApplyDeleteChat
  <2> QED
    BY <1>3, <2>1
<1> QED
  BY <1>4, <1>5, <1>6, <1>7, <1>8, <1>9, <1>10, <1>11, <1>12, <1>13, <1>14

\* The steps that broadcast, or touch the chat before they do.
LEMMA MirrorOwed ==
    ASSUME Integrity, FreshChats, ~Faults, NEW r \in Reqs, Proceed(r), Mirrors(req[r]),
           req[r].pc \in Owing
    PROVE  \E q : Goto(r, q) /\ Mirrors(q)'
<1>0. PICK q0 \in Requests : q0 = req[r]
  BY Slot
<1>1. Mirrors(q0) /\ DOMAIN chats \subseteq ChatIds
      /\ DOMAIN roomStatus = ChatIds /\ DOMAIN roomView = ChatIds
  BY <1>0 DEF Integrity, TypeOK
<1>2. UNCHANGED <<chats, nextChat, msgs>>
  BY <1>0, ChatWriters, MsgWriters
     DEF Proceed, Step, InsertChat, LoadGreeting, Activate, AutoAssign,
         ClaimFails, EmitClaimed, GetFile, CheckReply, InsertMessage, TouchChat,
         EmitNew, AlertAdmins, ApplyAssign, ApplyStatus, EmitStatus, FetchPage,
         MarkRead, ApplyMessageStatus, ApplyDelete, EmitDeleted, ApplyEdit,
         EmitEdited, CountClear, ApplyClear, ApplyDeleteChat, EmitCleared, At,
         Owing, db
<1>3. \A c : MsgsOf(c)' = MsgsOf(c)
  BY <1>2 DEF MsgsOf
\* A request that owes nothing afterwards has shown and told what it owed.
<1>4. ASSUME NEW q, q.pc \notin Owing \cup {"applyDelete", "applyClear"},
             \A c \in ChatIds : roomView'[c] = Shown(q0, c),
             \A c \in ChatIds : roomStatus'[c] = Told(q0, c),
             \A c \in ChatIds : c >= nextChat => roomStatus'[c] = roomStatus[c]
      PROVE  Mirrors(q)'
  <2>1. \A c : Shown(q, c)' = roomView'[c] /\ Told(q, c)' = roomStatus'[c]
    BY <1>4 DEF Shown, Told, Owing
  <2>2. q.pc \notin Present /\ q.pc # "applyDelete"
    BY <1>4 DEF Present, Owing
  <2> QED
    BY <1>1, <1>2, <1>3, <1>4, <2>1, <2>2 DEF Mirrors
<1>5. Idle.pc \notin Owing \cup {"applyDelete", "applyClear"}
  BY DEF Idle, Owing
<1>6. \A c \in DOMAIN chats : ~(c >= nextChat)
  BY DEF FreshChats, Integrity, TypeOK, ChatIds
<1>7. CASE EmitClaimed(r)
  <2>1. PICK p : p = [q0 EXCEPT !.seen.status = "ACTIVE"]
    OBVIOUS
  <2>2. p \in Requests
    BY <2>1 DEF Requests, ChatStatuses
  <2>3. PICK q : q = PrepareMessage(p)
    OBVIOUS
  <2>4. q.pc \notin Owing \cup {"applyDelete", "applyClear"}
    BY <2>2, <2>3, PreparePc DEF Owing
  <2>5. q0.pc \in {"emitActivated", "emitAutoAssigned"} /\ q0.chat \in DOMAIN chats
    BY <1>0, <1>1, <1>7 DEF EmitClaimed, Mirrors, Present
  <2>6. /\ Goto(r, q) /\ UNCHANGED roomView
        /\ roomStatus' = [roomStatus EXCEPT ![q0.chat] = "ACTIVE"]
    BY <1>0, <1>7, <2>1, <2>3 DEF EmitClaimed
  <2>7. \A c : Shown(q0, c) = roomView[c]
    BY <2>5 DEF Shown
  <2>8. \A c \in ChatIds : roomStatus'[c] = Told(q0, c)
    BY <1>1, <2>5, <2>6 DEF Told
  <2>9. \A c \in ChatIds : c >= nextChat => roomStatus'[c] = roomStatus[c]
    BY <1>1, <1>6, <2>5, <2>6
  <2>10. Mirrors(q)'
    BY <1>4, <2>4, <2>6, <2>7, <2>8, <2>9
  <2> QED
    BY <2>6, <2>10
<1>8. CASE EmitStatus(r)
  <2>1. q0.pc = "emitStatus" /\ q0.chat \in DOMAIN chats
    BY <1>0, <1>1, <1>8 DEF EmitStatus, At, Mirrors, Present
  <2>2. /\ Goto(r, Idle) /\ UNCHANGED roomView
        /\ roomStatus' = [roomStatus EXCEPT ![q0.chat] = q0.status]
    BY <1>0, <1>8 DEF EmitStatus, Finish
  <2>3. \A c : Shown(q0, c) = roomView[c]
    BY <2>1 DEF Shown
  <2>4. \A c \in ChatIds : roomStatus'[c] = Told(q0, c)
    BY <1>1, <2>1, <2>2 DEF Told
  <2>5. \A c \in ChatIds : c >= nextChat => roomStatus'[c] = roomStatus[c]
    BY <1>1, <1>6, <2>1, <2>2
  <2>6. Mirrors(Idle)'
    BY <1>4, <1>5, <2>2, <2>3, <2>4, <2>5
  <2> QED
    BY <2>2, <2>6
<1>9. CASE EmitNew(r)
  <2>1. PICK q : q = [q0 EXCEPT !.pc = "alertAdmins"]
    OBVIOUS
  <2>2. q.pc = "alertAdmins" /\ q0.pc = "emitNew"
    BY <1>0, <1>9, <2>1 DEF Requests, EmitNew, At
  <2>3. /\ Goto(r, q) /\ UNCHANGED roomStatus
        /\ roomView' = [roomView EXCEPT ![q0.chat] = @ \cup {q0.msg}]
    BY <1>0, <1>9, <2>1 DEF EmitNew, Await
  <2>4. \A c \in ChatIds : roomView'[c] = Shown(q0, c)
    BY <1>1, <2>2, <2>3 DEF Shown
  <2>5. \A c : Told(q0, c) = roomStatus[c]
    BY <2>2 DEF Told
  <2>6. q.pc \notin Owing \cup {"applyDelete", "applyClear"}
    BY <2>2 DEF Owing
  <2>7. Mirrors(q)'
    BY <1>4, <2>3, <2>4, <2>5, <2>6
  <2> QED
    BY <2>3, <2>7
<1>10. CASE EmitDeleted(r) \/ EmitCleared(r)
  <2>1. \/ /\ q0.pc = "emitDeleted"
           /\ roomView' = [roomView EXCEPT ![q0.chat] = @ \ {q0.msg}]
        \/ /\ q0.pc = "emitCleared"
           /\ roomView' = [roomView EXCEPT ![q0.chat] = {}]
    BY <1>0, <1>10 DEF EmitDeleted, EmitCleared, At
  <2>2. Goto(r, Idle) /\ UNCHANGED roomStatus
    BY <1>10 DEF EmitDeleted, EmitCleared, Finish
  <2>3. \A c \in ChatIds : roomView'[c] = Shown(q0, c)
    BY <1>1, <2>1 DEF Shown
  <2>4. \A c : Told(q0, c) = roomStatus[c]
    BY <2>1 DEF Told
  <2>5. Mirrors(Idle)'
    BY <1>4, <1>5, <2>2, <2>3, <2>4
  <2> QED
    BY <2>2, <2>5
<1>11. CASE TouchChat(r)
  <2>1. PICK q : q = [q0 EXCEPT !.pc = AfterTouch(q0.pc)]
    OBVIOUS
  <2>2. \/ q0.pc = "touchSend" /\ q.pc = "emitNew"
        \/ q0.pc = "touchDelete" /\ q.pc = "emitDeleted"
        \/ q0.pc = "touchClear" /\ q.pc = "emitCleared"
    BY <1>0, <1>11, <2>1 DEF TouchChat, AfterTouch, Owing, Requests
  <2>3. q.chat = q0.chat /\ q.msg = q0.msg
    BY <2>1 DEF Requests
  <2>4. q0.chat \in DOMAIN chats
    BY <1>1, <2>2 DEF Mirrors, Present
  <2>5. Goto(r, q) /\ UNCHANGED <<roomStatus, roomView>>
    BY <1>0, <1>11, <2>1, <2>4 DEF TouchChat, Await, room
  <2>6. \A c : Shown(q, c)' = Shown(q0, c)
    BY <2>2, <2>3, <2>5 DEF Shown
  <2>7. \A c : Told(q, c)' = Told(q0, c)
    BY <2>2, <2>3, <2>5 DEF Told
  <2>8. q.pc \notin Present /\ q.pc # "applyDelete"
    BY <2>2 DEF Present
  <2>9. Mirrors(q)'
    BY <1>1, <1>2, <1>3, <2>5, <2>6, <2>7, <2>8 DEF Mirrors
  <2> QED
    BY <2>5, <2>9
<1>12. \/ EmitClaimed(r) \/ EmitStatus(r) \/ EmitNew(r) \/ EmitDeleted(r)
       \/ EmitCleared(r) \/ TouchChat(r)
  BY <1>0
     DEF Proceed, InsertChat, LoadGreeting, Activate, AutoAssign, ClaimFails,
         GetFile, CheckReply, InsertMessage, AlertAdmins, ApplyAssign,
         ApplyStatus, FetchPage, MarkRead, ApplyMessageStatus, ApplyDelete,
         ApplyEdit, EmitEdited, CountClear, ApplyClear, ApplyDeleteChat, At, Owing
<1> QED
  BY <1>7, <1>8, <1>9, <1>10, <1>11, <1>12

\* Alone, and with no query failing, a request broadcasts what it wrote.
LEMMA MirrorStep ==
    ASSUME Integrity, FreshChats, ~Faults, NEW r \in Reqs, Step(r), Mirrors(req[r])
    PROVE  Mirrors(req[r])'
<1>1. CASE req[r].pc \notin Storing \cup Owing
  BY <1>1, MirrorSilent
<1>2. CASE req[r].pc \in Storing \cup Owing
  <2>1. ~Call(r)
    BY <1>2, ZenonT(40)
       DEF Call, CreateChat, SendMessage, AssignSelf, UpdateStatus, GetMessages,
           ReadMessages, ClearMessages, DeleteChat, UpdateMessageStatus,
           DeleteMessage, EditMessage, Free, Storing, Owing
  <2>2. Proceed(r)
    BY <2>1 DEF Step, Abort
  <2>3. PICK q : Goto(r, q) /\ Mirrors(q)'
    BY <1>2, <2>2, MirrorStored, MirrorOwed
  <2>4. req'[r] = q
    BY <2>3, SlotStep
  <2> QED
    BY <2>3, <2>4 DEF Mirrors, Shown, Told
<1> QED
  BY <1>1, <1>2

\* While requests do not overlap and none fails, a member of a chat's room
\* who is up to date with the broadcasts shows the chat as it is stored.
THEOREM SerialRoom ==
    ASSUME NEW r, Reqs = {r}, ~Faults
    PROVE  Spec => []RoomMirrorsDb
<1>1. Spec => Init /\ [][Next]_vars
  BY DEF Spec
<1>2. Init => Mirrors(req[r])
  <2> SUFFICES ASSUME Init PROVE Mirrors(req[r])
    OBVIOUS
  <2>1. req[r] = Idle /\ Idle.pc = "idle"
    BY DEF Init, Idle
  <2>2. \A c : Shown(Idle, c) = roomView[c] /\ Told(Idle, c) = roomStatus[c]
    BY <2>1 DEF Shown, Told
  <2>3. \A c : MsgsOf(c) = {}
    BY DEF Init, MsgsOf
  <2> QED
    BY <2>1, <2>2, <2>3 DEF Init, Mirrors, Present
<1>3. Integrity /\ FreshChats /\ Mirrors(req[r]) /\ [Next]_vars => Mirrors(req[r])'
  <2> SUFFICES ASSUME Integrity, FreshChats, Mirrors(req[r]), [Next]_vars
               PROVE  Mirrors(req[r])'
    OBVIOUS
  <2>1. CASE UNCHANGED vars
    BY <2>1 DEF vars, room, Mirrors, Shown, Told, MsgsOf
  <2>2. r \in Reqs
    OBVIOUS
  <2>3. CASE Step(r)
    BY <2>2, <2>3, MirrorStep
  <2> QED
    BY <2>1, <2>3, NextSteps
<1>4. ASSUME Integrity, Mirrors(req[r]) PROVE RoomMirrorsDb
  <2> SUFFICES ASSUME At(r, "idle")
               PROVE  \A c \in ChatIds :
                         /\ roomView[c] = MsgsOf(c)
                         /\ c \in DOMAIN chats => roomStatus[c] = chats[c].status
    BY DEF RoomMirrorsDb
  <2>1. \A c : Shown(req[r], c) = roomView[c] /\ Told(req[r], c) = roomStatus[c]
    BY NothingOwed DEF At, Owing
  <2> QED
    BY <1>4, <2>1 DEF Mirrors
<1> QED
  BY <1>1, <1>2, <1>3, <1>4, FreshHolds, PTL
=============================================================================
