---------------------------- MODULE ChatService ----------------------------
(***************************************************************************)
(* src/chat/chat.service.ts: chats between a client (or a partner) and the *)
(* administrators, kept in two Postgres tables behind Prisma.              *)
(*                                                                         *)
(* The service is one Node process.  A request is a chain of awaited       *)
(* Prisma calls; each call is one atomic database operation, and requests  *)
(* interleave between calls.  A request is therefore a record with a       *)
(* program counter: the action named in its pc is the next database call,  *)
(* or the synchronous continuation ("emit...") that runs when a call has   *)
(* returned and that broadcasts to the chat's socket.io room.              *)
(*                                                                         *)
(* The action that starts a request also performs its first read, because  *)
(* nothing is shared before it.  A request refused by that read (404, 403) *)
(* changes nothing and is no step.                                         *)
(*                                                                         *)
(* An operator with an underscore in its name is a mutant: a plausible     *)
(* mistake in the definition it is named after, used to see that a         *)
(* property can fail.  The specification uses none of them.                *)
(***************************************************************************)
EXTENDS Integers, FiniteSets, Functions

CONSTANTS
    Clients, Partners, Admins,  \* the users, by role
    Apps,                       \* applications a chat may be scoped to
    Null,                       \* an absent user or application
    MaxChats, MaxMsgs,          \* bounds: rows ever created in each table
    PageSize,                   \* the `limit` of getChatMessages
    MessageStatuses,            \* values of the MessageStatus enum
    Reqs,                       \* requests that may be in flight together
    Ops,                        \* endpoints (and options) an instance calls
    Faults                      \* may a query fail, or the process die?

Users == Clients \cup Partners \cup Admins
ChatStatuses == {"PENDING", "ACTIVE", "CLOSED"}
ChatIds == 1 .. MaxChats
MsgIds == 1 .. MaxMsgs
Roles == {"CLIENT", "PARTNER", "ADMIN"}
RoleOf(u) == IF u \in Admins THEN "ADMIN"
             ELSE IF u \in Partners THEN "PARTNER" ELSE "CLIENT"

ASSUME ChatAssumption ==
    /\ Clients \cap Partners = {}
    /\ Clients \cap Admins = {}
    /\ Partners \cap Admins = {}
    /\ Null \notin Users \cup Apps
    /\ MaxChats \in Nat /\ MaxMsgs \in Nat /\ PageSize \in Nat \ {0}
    /\ Faults \in BOOLEAN

VARIABLES
    chats,       \* the Chat table: a function from the ids of its rows
    nextChat,    \* the next fresh id (a uuid in the code)
    msgs,        \* the Message table; ids follow createdAt
    nextMsg,
    req,         \* the requests in flight
    roomStatus,  \* the status a member of each chat's room was last told
    roomView,    \* the messages such a member has on screen
    alerted,     \* messages announced to all administrators
    readers      \* the roles that have marked each message as read

db == <<chats, nextChat, msgs, nextMsg>>
room == <<roomStatus, roomView, alerted>>
vars == <<chats, nextChat, msgs, nextMsg, req, room, readers>>

ChatRow == [client : Clients \cup Partners, admin : Admins \cup {Null},
            status : ChatStatuses, app : Apps \cup {Null}]
\* Of a text only whether it is replaced matters: `text` turns with each edit.
MsgRow == [chat : ChatIds, sender : Users, replyTo : MsgIds \cup {0},
           file : BOOLEAN, readByClient : BOOLEAN, readByAdmin : BOOLEAN,
           text : BOOLEAN, status : MessageStatuses \cup {"SENT"}]

NoRow == [client |-> Null, admin |-> Null, status |-> "none", app |-> Null]

\* The local variables of a request.  `seen` is the chat object as read,
\* which createMessage also updates locally.
Idle == [pc |-> "idle", user |-> Null, chat |-> 0, msg |-> 0, reply |-> 0,
         ids |-> {}, status |-> "none", app |-> Null, file |-> FALSE,
         greet |-> FALSE, seen |-> NoRow]

Put(table, id, row) ==
    [x \in DOMAIN table \cup {id} |-> IF x = id THEN row ELSE table[x]]

Init ==
    /\ chats = [c \in {} |-> NoRow] /\ nextChat = 1
    /\ msgs = [m \in {} |-> NoRow] /\ nextMsg = 1
    /\ req = [r \in Reqs |-> Idle]
    /\ roomStatus = [c \in ChatIds |-> "PENDING"]
    /\ roomView = [c \in ChatIds |-> {}]
    /\ alerted = {}
    /\ readers = [m \in MsgIds |-> {}]

MsgsOf(c) == {m \in DOMAIN msgs : msgs[m].chat = c}
RepliesTo(m) == {x \in DOMAIN msgs : msgs[x].replyTo = m}

\* The check every operation on a chat repeats.
HasAccess(u, row) == row.client = u \/ row.admin = u \/ u \in Admins

ReadBy_Either(role, m) == msgs[m].readByClient \/ msgs[m].readByAdmin
ReadBy(role, m) == IF role = "CLIENT" THEN msgs[m].readByClient
                                      ELSE msgs[m].readByAdmin

\* What calculateUnreadCount and the list views count.
UnreadOf(c, u) == {m \in MsgsOf(c) : msgs[m].sender # u /\ ~ReadBy(RoleOf(u), m)}

Free(r, op) == op \in Ops /\ req[r].pc = "idle"
At(r, pc) == req[r].pc = pc
Goto(r, q) == req' = [req EXCEPT ![r] = q]
Await(r, pc) == Goto(r, [req[r] EXCEPT !.pc = pc])
Finish(r) == Goto(r, Idle)

-----------------------------------------------------------------------------
(* createChat: find, then create; then createMessage for the greeting *)

ChatsFor_Active(u, a) == {c \in DOMAIN chats : /\ chats[c].client = u
                                             /\ chats[c].app = a
                                             /\ chats[c].status = "ACTIVE"}
ChatsFor(u, a) == {c \in DOMAIN chats : chats[c].client = u /\ chats[c].app = a}

\* An existing chat of this application and creator is returned as it is
\* (and the initial message with it is dropped).
CreateChat(r, u, a, greet) ==
    /\ Free(r, "createChat")
    /\ a # Null => ChatsFor(u, a) = {}
    /\ Goto(r, [Idle EXCEPT !.pc = "insertChat", !.user = u, !.app = a,
                            !.greet = greet])
    /\ UNCHANGED <<db, room, readers>>

\* Past MaxChats the insert fails, as any query may.
InsertChat(r) ==
    /\ At(r, "insertChat")
    /\ IF nextChat > MaxChats
       THEN Finish(r) /\ UNCHANGED <<chats, nextChat>>
       ELSE /\ chats' = Put(chats, nextChat,
                    [client |-> req[r].user, admin |-> Null,
                     status |-> "PENDING", app |-> req[r].app])
            /\ nextChat' = nextChat + 1
            /\ Goto(r, IF req[r].greet
                       THEN [Idle EXCEPT !.pc = "loadChat", !.chat = nextChat,
                                         !.user = req[r].user]
                       ELSE Idle)
    /\ UNCHANGED <<msgs, nextMsg, room, readers>>

-----------------------------------------------------------------------------
(* createMessage *)

OwnPending(q) == /\ q.seen.status = "PENDING"
                 /\ q.seen.client = q.user
                 /\ q.user \notin Admins

\* The status re-check, made on the local chat object, and what is awaited
\* next; a request that fails it ends.
StatusAllows(q) == q.seen.status = "ACTIVE" \/ OwnPending(q)
PrepareMessage(q) ==
    IF ~StatusAllows(q) THEN Idle
    ELSE [q EXCEPT !.seen = NoRow,
                   !.pc = IF q.file THEN "getFile"
                          ELSE IF q.reply # 0 THEN "checkReply"
                          ELSE "insertMessage"]

Claims_AnyRole(q) == q.seen.admin = Null
Claims_Takeover(q) == q.seen.admin # q.user /\ q.user \in Admins
\* An administrator writing in an unassigned chat takes it.
Claims(q) == q.seen.admin = Null /\ q.user \in Admins

\* The answer of findUnique: refuse, activate, claim the chat, or go on.
LoadChat(q) ==
    IF q.chat \notin DOMAIN chats THEN Idle
    ELSE IF ~HasAccess(q.user, chats[q.chat]) THEN Idle
    ELSE LET p == [q EXCEPT !.seen = chats[q.chat]]
         IN  IF OwnPending(p) THEN [p EXCEPT !.pc = "activate"]
             ELSE IF Claims(p) THEN [p EXCEPT !.pc = "autoAssign"]
             ELSE PrepareMessage(p)

SendMessage(r, u, c, reply, file) ==
    LET q == LoadChat([Idle EXCEPT !.user = u, !.chat = c, !.reply = reply,
                                   !.file = file])
    IN  /\ Free(r, "send")
        /\ reply # 0 => "reply" \in Ops
        /\ file => "attach" \in Ops
        /\ q # Idle
        /\ Goto(r, q)
        /\ UNCHANGED <<db, room, readers>>

\* createChat's greeting enters createMessage with the role CLIENT, for a
\* partner too; createMessage treats the two roles alike.
LoadGreeting(r) ==
    /\ At(r, "loadChat")
    /\ Goto(r, LoadChat(req[r]))
    /\ UNCHANGED <<db, room, readers>>

Activate(r) ==
    /\ At(r, "activate")
    /\ req[r].chat \in DOMAIN chats
    /\ chats' = [chats EXCEPT ![req[r].chat].status = "ACTIVE"]
    /\ Goto(r, [req[r] EXCEPT !.pc = "emitActivated", !.seen.status = "ACTIVE"])
    /\ UNCHANGED <<nextChat, msgs, nextMsg, room, readers>>

AutoAssign(r) ==
    /\ At(r, "autoAssign")
    /\ req[r].chat \in DOMAIN chats
    /\ chats' = [chats EXCEPT ![req[r].chat].admin = req[r].user,
                              ![req[r].chat].status = "ACTIVE"]
    /\ Await(r, "emitAutoAssigned")
    /\ UNCHANGED <<nextChat, msgs, nextMsg, room, readers>>

\* The two updates sit in try blocks that only log: createMessage continues
\* with the chat object as it was read.  The second block also covers the
\* query for the administrator's profile, after the row has been claimed.
ClaimFails(r) ==
    /\ \/ /\ req[r].pc \in {"activate", "autoAssign"}
          /\ req[r].chat \notin DOMAIN chats \/ Faults
       \/ At(r, "emitAutoAssigned") /\ Faults
    /\ Goto(r, PrepareMessage(req[r]))
    /\ UNCHANGED <<db, room, readers>>

EmitClaimed(r) ==
    /\ req[r].pc \in {"emitActivated", "emitAutoAssigned"}
    /\ roomStatus' = [roomStatus EXCEPT ![req[r].chat] = "ACTIVE"]
    /\ Goto(r, PrepareMessage([req[r] EXCEPT !.seen.status = "ACTIVE"]))
    /\ UNCHANGED <<db, roomView, alerted, readers>>

\* filesService.getFile: the attachment's row is there, or the request ends.
GetFile(r, found) ==
    /\ At(r, "getFile")
    /\ IF ~found THEN Finish(r)
       ELSE Await(r, IF req[r].reply # 0 THEN "checkReply" ELSE "insertMessage")
    /\ UNCHANGED <<db, room, readers>>

ReplyInChat_Anywhere(q) == q.reply \in DOMAIN msgs
ReplyInChat(q) == q.reply \in MsgsOf(q.chat)
CheckReply(r) ==
    /\ At(r, "checkReply")
    /\ IF ReplyInChat(req[r]) THEN Await(r, "insertMessage") ELSE Finish(r)
    /\ UNCHANGED <<db, room, readers>>

CanConnect_ReplyUnchecked(q) == q.chat \in DOMAIN chats
\* message.create connects chat and replyTo, and fails when either is gone.
CanConnect(q) == /\ q.chat \in DOMAIN chats
                 /\ q.reply = 0 \/ q.reply \in DOMAIN msgs
InsertMessage(r) ==
    /\ At(r, "insertMessage")
    /\ IF nextMsg > MaxMsgs \/ ~CanConnect(req[r])
       THEN Finish(r) /\ UNCHANGED <<msgs, nextMsg>>
       ELSE /\ msgs' = Put(msgs, nextMsg,
                    [chat |-> req[r].chat, sender |-> req[r].user,
                     replyTo |-> req[r].reply, file |-> req[r].file,
                     readByClient |-> FALSE, readByAdmin |-> FALSE,
                     text |-> FALSE, status |-> "SENT"])
            /\ nextMsg' = nextMsg + 1
            /\ Goto(r, [Idle EXCEPT !.pc = "touchSend", !.user = req[r].user,
                                    !.chat = req[r].chat, !.msg = nextMsg])
    /\ UNCHANGED <<chats, nextChat, room, readers>>

AfterTouch_WrongEvent(pc) == CASE pc = "touchSend" -> "emitNew"
                               [] pc = "touchClear" -> "emitCleared"
                               [] OTHER -> "emitEdited"
\* Every write to messages is followed by an update of the chat's updatedAt
\* (the time itself is not modelled), which throws when the chat is gone:
\* the event is then never broadcast.
AfterTouch(pc) == CASE pc = "touchSend" -> "emitNew"
                    [] pc = "touchDelete" -> "emitDeleted"
                    [] pc = "touchClear" -> "emitCleared"
                    [] OTHER -> "emitEdited"
TouchChat(r) ==
    /\ req[r].pc \in {"touchSend", "touchDelete", "touchEdit", "touchClear"}
    /\ IF req[r].chat \in DOMAIN chats
       THEN Await(r, AfterTouch(req[r].pc)) ELSE Finish(r)
    /\ UNCHANGED <<db, room, readers>>

\* notifyNewMessage: tell the room; then, in a call nobody awaits, look at
\* the chat again to decide whether all administrators are told.
EmitNew(r) ==
    /\ At(r, "emitNew")
    /\ roomView' = [roomView EXCEPT ![req[r].chat] = @ \cup {req[r].msg}]
    /\ Await(r, "alertAdmins")
    /\ UNCHANGED <<db, roomStatus, alerted, readers>>

NeedsAlert_Pending(q) == /\ q.chat \in DOMAIN chats
                         /\ chats[q.chat].status = "PENDING"
                         /\ RoleOf(q.user) = "CLIENT"
NeedsAlert(q) == /\ q.chat \in DOMAIN chats
                 /\ chats[q.chat].admin = Null
                 /\ RoleOf(q.user) = "CLIENT"
AlertAdmins(r) ==
    /\ At(r, "alertAdmins")
    /\ alerted' = IF NeedsAlert(req[r]) THEN alerted \cup {req[r].msg} ELSE alerted
    /\ Finish(r)
    /\ UNCHANGED <<db, roomStatus, roomView, readers>>

-----------------------------------------------------------------------------
(* assignAdminToChat and updateChatStatus: a check, then an update that     *)
(* does not repeat it                                                       *)

MayAssign_Taken(c) == chats[c].status # "CLOSED"
MayAssign(c) == chats[c].admin = Null /\ chats[c].status # "CLOSED"
AssignSelf(r, u, c) ==
    /\ Free(r, "assign")
    /\ c \in DOMAIN chats /\ MayAssign(c)
    /\ u \in Admins
    /\ Goto(r, [Idle EXCEPT !.pc = "applyAssign", !.user = u, !.chat = c])
    /\ UNCHANGED <<db, room, readers>>

ApplyAssign(r) ==
    /\ At(r, "applyAssign")
    /\ IF req[r].chat \in DOMAIN chats
       THEN /\ chats' = [chats EXCEPT ![req[r].chat].admin = req[r].user,
                                      ![req[r].chat].status = "ACTIVE"]
            /\ Goto(r, [req[r] EXCEPT !.pc = "emitStatus", !.status = "ACTIVE"])
       ELSE Finish(r) /\ UNCHANGED chats
    /\ UNCHANGED <<nextChat, msgs, nextMsg, room, readers>>

MaySetStatus_Reopen(u, c, s) == u \in Admins \/ chats[c].admin = u
MaySetStatus(u, c, s) == /\ u \in Admins \/ chats[c].admin = u
                         /\ chats[c].status = "CLOSED" => s = "CLOSED"
UpdateStatus(r, u, c, s) ==
    /\ Free(r, "status")
    /\ c \in DOMAIN chats /\ MaySetStatus(u, c, s)
    /\ Goto(r, [Idle EXCEPT !.pc = "applyStatus", !.user = u, !.chat = c,
                            !.status = s])
    /\ UNCHANGED <<db, room, readers>>

ApplyStatus(r) ==
    /\ At(r, "applyStatus")
    /\ IF req[r].chat \in DOMAIN chats
       THEN /\ chats' = [chats EXCEPT ![req[r].chat].status = req[r].status]
            /\ Await(r, "emitStatus")
       ELSE Finish(r) /\ UNCHANGED chats
    /\ UNCHANGED <<nextChat, msgs, nextMsg, room, readers>>

EmitStatus(r) ==
    /\ At(r, "emitStatus")
    /\ roomStatus' = [roomStatus EXCEPT ![req[r].chat] = req[r].status]
    /\ Finish(r)
    /\ UNCHANGED <<db, roomView, alerted, readers>>

-----------------------------------------------------------------------------
(* getChatMessages, markMessagesAsRead, updateMessageStatus *)

GetMessages(r, u, c) ==
    /\ Free(r, "fetch")
    /\ c \in DOMAIN chats /\ HasAccess(u, chats[c])
    /\ Goto(r, [Idle EXCEPT !.pc = "fetchPage", !.user = u, !.chat = c])
    /\ UNCHANGED <<db, room, readers>>

\* Oldest first: page p holds the messages of ranks (p-1)*PageSize+1 and on.
Rank(m) == Cardinality({x \in MsgsOf(msgs[m].chat) : x <= m})
PageOf(c, p) == {m \in MsgsOf(c) : /\ Rank(m) > (p - 1) * PageSize
                                   /\ Rank(m) <= p * PageSize}
FetchPage(r, p) ==
    /\ At(r, "fetchPage")
    /\ LET unread == PageOf(req[r].chat, p) \cap UnreadOf(req[r].chat, req[r].user)
       IN  IF unread = {} THEN Finish(r)
           ELSE Goto(r, [req[r] EXCEPT !.pc = "markRead", !.ids = unread])
    /\ UNCHANGED <<db, room, readers>>

\* One updateMany over the ids of the chat still unread for the role.
SetRead(c, ids, role) ==
    LET hit == {m \in MsgsOf(c) \cap ids : ~ReadBy(role, m)}
    IN  /\ msgs' = [m \in DOMAIN msgs |->
                     IF m \notin hit THEN msgs[m]
                     ELSE IF role = "CLIENT"
                          THEN [msgs[m] EXCEPT !.readByClient = TRUE]
                          ELSE [msgs[m] EXCEPT !.readByAdmin = TRUE]]
        /\ readers' = [m \in MsgIds |-> IF m \in MsgsOf(c) \cap ids
                                        THEN readers[m] \cup {role} ELSE readers[m]]

MarkRead(r) ==
    /\ At(r, "markRead")
    /\ SetRead(req[r].chat, req[r].ids, RoleOf(req[r].user))
    /\ Finish(r)
    /\ UNCHANGED <<chats, nextChat, nextMsg, room>>

\* The socket handler `readMessages` reaches markMessagesAsRead directly,
\* with whatever ids the client sends and no check of the chat.
ReadMessages(r, u, c, ids) ==
    /\ Free(r, "read")
    /\ ids # {}
    /\ SetRead(c, ids, RoleOf(u))
    /\ UNCHANGED <<chats, nextChat, nextMsg, req, room>>

UpdateMessageStatus(r, u, m, s) ==
    /\ Free(r, "messageStatus")
    /\ m \in DOMAIN msgs /\ HasAccess(u, chats[msgs[m].chat])
    /\ Goto(r, [Idle EXCEPT !.pc = "applyMessageStatus", !.user = u, !.msg = m,
                            !.status = s])
    /\ UNCHANGED <<db, room, readers>>

ApplyMessageStatus(r) ==
    /\ At(r, "applyMessageStatus")
    /\ msgs' = IF req[r].msg \in DOMAIN msgs
               THEN [msgs EXCEPT ![req[r].msg].status = req[r].status] ELSE msgs
    /\ Finish(r)
    /\ UNCHANGED <<chats, nextChat, nextMsg, room, readers>>

-----------------------------------------------------------------------------
(* deleteMessage, editMessage, clearChatMessages, deleteChat *)

\* Deleting rows sets replyTo to NULL in the replies (ON DELETE SET NULL).
RemoveMsgs(D) ==
    [m \in DOMAIN msgs \ D |->
        IF msgs[m].replyTo \in D THEN [msgs[m] EXCEPT !.replyTo = 0] ELSE msgs[m]]

OnMessage(u, m, pc) == [Idle EXCEPT !.pc = pc, !.user = u, !.msg = m,
                                    !.chat = msgs[m].chat]

DeleteMessage(r, u, m) ==
    /\ Free(r, "delete")
    /\ m \in DOMAIN msgs
    /\ msgs[m].sender = u \/ u \in Admins
    /\ HasAccess(u, chats[msgs[m].chat])
    /\ Goto(r, OnMessage(u, m, "applyDelete"))
    /\ UNCHANGED <<db, room, readers>>

ApplyDelete(r) ==
    /\ At(r, "applyDelete")
    /\ IF req[r].msg \in DOMAIN msgs
       THEN msgs' = RemoveMsgs({req[r].msg}) /\ Await(r, "touchDelete")
       ELSE Finish(r) /\ UNCHANGED msgs
    /\ UNCHANGED <<chats, nextChat, nextMsg, room, readers>>

EmitDeleted(r) ==
    /\ At(r, "emitDeleted")
    /\ roomView' = [roomView EXCEPT ![req[r].chat] = @ \ {req[r].msg}]
    /\ Finish(r)
    /\ UNCHANGED <<db, roomStatus, alerted, readers>>

MayEdit_RepliedTo(u, m) ==
    /\ msgs[m].sender = u \/ (u \in Admins /\ chats[msgs[m].chat].admin = u)
    /\ HasAccess(u, chats[msgs[m].chat])
    /\ ~msgs[m].file
\* The 15-minute limit and the checks of the new text only refuse.
MayEdit(u, m) ==
    /\ msgs[m].sender = u \/ (u \in Admins /\ chats[msgs[m].chat].admin = u)
    /\ HasAccess(u, chats[msgs[m].chat])
    /\ RepliesTo(m) = {}
    /\ ~msgs[m].file
EditMessage(r, u, m) ==
    /\ Free(r, "edit")
    /\ m \in DOMAIN msgs /\ MayEdit(u, m)
    /\ Goto(r, OnMessage(u, m, "applyEdit"))
    /\ UNCHANGED <<db, room, readers>>

ApplyEdit(r) ==
    /\ At(r, "applyEdit")
    /\ IF req[r].msg \in DOMAIN msgs
       THEN /\ msgs' = [msgs EXCEPT ![req[r].msg].text = ~@]
            /\ Await(r, "touchEdit")
       ELSE Finish(r) /\ UNCHANGED msgs
    /\ UNCHANGED <<chats, nextChat, nextMsg, room, readers>>

\* messageEdited replaces the text on screen, which is not modelled.
EmitEdited(r) ==
    /\ At(r, "emitEdited")
    /\ Finish(r)
    /\ UNCHANGED <<db, room, readers>>

ClearMessages(r, u, c) ==
    /\ Free(r, "clear")
    /\ c \in DOMAIN chats
    /\ u \in Admins
    /\ Goto(r, [Idle EXCEPT !.pc = "countClear", !.user = u, !.chat = c])
    /\ UNCHANGED <<db, room, readers>>

CountClear(r) ==
    /\ At(r, "countClear")
    /\ IF MsgsOf(req[r].chat) = {} THEN Finish(r) ELSE Await(r, "applyClear")
    /\ UNCHANGED <<db, room, readers>>

ApplyClear(r) ==
    /\ At(r, "applyClear")
    /\ msgs' = RemoveMsgs(MsgsOf(req[r].chat))
    /\ Await(r, "touchClear")
    /\ UNCHANGED <<chats, nextChat, nextMsg, room, readers>>

DeleteChat(r, u, c) ==
    /\ Free(r, "deleteChat")
    /\ c \in DOMAIN chats
    /\ chats[c].client = u \/ u \in Admins
    /\ Goto(r, [Idle EXCEPT !.pc = "applyDeleteChat", !.user = u, !.chat = c])
    /\ UNCHANGED <<db, room, readers>>

\* Deleting the chat's row deletes its messages (ON DELETE CASCADE).
ApplyDeleteChat(r) ==
    /\ At(r, "applyDeleteChat")
    /\ IF req[r].chat \in DOMAIN chats
       THEN /\ chats' = Restrict(chats, DOMAIN chats \ {req[r].chat})
            /\ msgs' = RemoveMsgs(MsgsOf(req[r].chat))
            /\ Await(r, "emitCleared")
       ELSE Finish(r) /\ UNCHANGED <<chats, msgs>>
    /\ UNCHANGED <<nextChat, nextMsg, room, readers>>

\* chatCleared and chatDeleted both leave the room with an empty screen.
EmitCleared(r) ==
    /\ At(r, "emitCleared")
    /\ roomView' = [roomView EXCEPT ![req[r].chat] = {}]
    /\ Finish(r)
    /\ UNCHANGED <<db, roomStatus, alerted, readers>>

-----------------------------------------------------------------------------
\* A query fails or the process dies: the request is never resumed.
Abort(r) ==
    /\ Faults
    /\ req[r].pc # "idle"
    /\ Finish(r)
    /\ UNCHANGED <<db, room, readers>>

Call(r) ==
    \E u \in Users :
        \/ \E a \in Apps \cup {Null}, greet \in BOOLEAN :
              /\ u \in Clients \cup Partners
              /\ greet => "greet" \in Ops
              /\ CreateChat(r, u, a, greet)
        \/ \E c \in ChatIds :
              \/ \E reply \in DOMAIN msgs \cup {0}, file \in BOOLEAN :
                    SendMessage(r, u, c, reply, file)
              \/ AssignSelf(r, u, c)
              \/ \E s \in ChatStatuses : UpdateStatus(r, u, c, s)
              \/ GetMessages(r, u, c)
              \/ \E ids \in SUBSET DOMAIN msgs : ReadMessages(r, u, c, ids)
              \/ ClearMessages(r, u, c)
              \/ DeleteChat(r, u, c)
        \/ \E m \in MsgIds :
              \/ \E s \in MessageStatuses : UpdateMessageStatus(r, u, m, s)
              \/ DeleteMessage(r, u, m)
              \/ EditMessage(r, u, m)

Proceed(r) ==
    \/ InsertChat(r) \/ LoadGreeting(r)
    \/ Activate(r) \/ AutoAssign(r) \/ ClaimFails(r) \/ EmitClaimed(r)
    \/ \E found \in BOOLEAN : GetFile(r, found)
    \/ CheckReply(r) \/ InsertMessage(r) \/ TouchChat(r)
    \/ EmitNew(r) \/ AlertAdmins(r)
    \/ ApplyAssign(r) \/ ApplyStatus(r) \/ EmitStatus(r)
    \/ \E p \in 1 .. MaxMsgs : FetchPage(r, p)
    \/ MarkRead(r) \/ ApplyMessageStatus(r)
    \/ ApplyDelete(r) \/ EmitDeleted(r)
    \/ ApplyEdit(r) \/ EmitEdited(r)
    \/ CountClear(r) \/ ApplyClear(r)
    \/ ApplyDeleteChat(r) \/ EmitCleared(r)

Next == \E r \in Reqs : Call(r) \/ Proceed(r) \/ Abort(r)

\* Callers need not call; a promise that is pending is resolved in the end.
Fairness == \A r \in Reqs : WF_vars(Proceed(r))
Spec == Init /\ [][Next]_vars /\ Fairness

-----------------------------------------------------------------------------
(* Properties *)

Steps ==
    {"idle", "insertChat", "loadChat", "activate", "emitActivated",
     "autoAssign", "emitAutoAssigned", "getFile", "checkReply",
     "insertMessage", "touchSend", "emitNew", "alertAdmins", "applyAssign",
     "applyStatus", "emitStatus", "fetchPage", "markRead",
     "applyMessageStatus", "applyDelete", "touchDelete", "emitDeleted",
     "applyEdit", "touchEdit", "emitEdited", "countClear", "applyClear",
     "touchClear", "applyDeleteChat", "emitCleared"}
Requests ==
    [pc : Steps,
     user : Users \cup {Null}, chat : ChatIds \cup {0}, msg : MsgIds \cup {0},
     reply : MsgIds \cup {0}, ids : SUBSET MsgIds,
     status : ChatStatuses \cup MessageStatuses \cup {"none"},
     app : Apps \cup {Null}, file : BOOLEAN, greet : BOOLEAN,
     seen : [client : Users \cup {Null}, admin : Admins \cup {Null},
             status : ChatStatuses \cup {"none"}, app : Apps \cup {Null}]]

\* Every variable has its type: in particular only administrators are ever
\* assigned, and only clients and partners own chats.
TypeOK ==
    /\ DOMAIN chats \subseteq ChatIds /\ chats \in [DOMAIN chats -> ChatRow]
    /\ DOMAIN msgs \subseteq MsgIds /\ msgs \in [DOMAIN msgs -> MsgRow]
    /\ nextChat \in 1 .. MaxChats + 1 /\ nextMsg \in 1 .. MaxMsgs + 1
    /\ req \in [Reqs -> Requests]
    /\ roomStatus \in [ChatIds -> ChatStatuses]
    /\ roomView \in [ChatIds -> SUBSET MsgIds]
    /\ alerted \subseteq MsgIds
    /\ readers \in [MsgIds -> SUBSET Roles]

\* A message lies in an existing chat, and what it replies to is an earlier
\* message of the same chat, whatever is deleted between createMessage's
\* checks and its insert (docs/CHAT_UPDATES.md:29).
RefIntegrity ==
    \A m \in DOMAIN msgs :
        /\ msgs[m].chat \in DOMAIN chats
        /\ msgs[m].replyTo # 0 =>
             /\ msgs[m].replyTo \in DOMAIN msgs
             /\ msgs[msgs[m].replyTo].chat = msgs[m].chat
             /\ msgs[m].replyTo < m

\* What a request has established when it reaches a step ...
Admitted(q) ==
    /\ q.pc # "idle" => q.user \in Users
    /\ q.pc = "insertChat" => q.user \in Clients \cup Partners
    /\ q.pc \in {"autoAssign", "applyAssign"} => q.user \in Admins
    /\ q.pc \in {"applyStatus", "emitStatus"} => q.status \in ChatStatuses
    /\ q.pc = "applyMessageStatus" => q.status \in MessageStatuses
    /\ q.pc \in {"touchSend", "emitNew", "alertAdmins"} => q.msg \in MsgIds

\* ... of which the answer of checkReply may grow stale in one way only: the
\* message replied to is gone.  It is never one of another chat.
ReplyKnown(q) ==
    q.pc = "insertMessage" /\ q.reply # 0 =>
        /\ q.reply < nextMsg
        /\ q.reply \in DOMAIN msgs => msgs[q.reply].chat = q.chat

\* The inductive invariant that RefIntegrity needs: what admitted requests
\* still know, and that ids are fresh.
Integrity ==
    /\ TypeOK
    /\ RefIntegrity
    /\ \A m \in DOMAIN msgs : m < nextMsg
    /\ \A r \in Reqs : Admitted(req[r]) /\ ReplyKnown(req[r])

InFlight(c, pcs) == \E r \in Reqs : req[r].chat = c /\ req[r].pc \in pcs

\* A closed chat with an administrator, which no request admitted earlier can
\* still write to.
Quiet(c) ==
    /\ c \in DOMAIN chats
    /\ chats[c].status = "CLOSED" /\ chats[c].admin # Null
    /\ ~InFlight(c, {"activate", "emitActivated", "autoAssign",
                     "emitAutoAssigned", "getFile", "checkReply",
                     "insertMessage", "applyAssign"})
    /\ \A r \in Reqs : At(r, "applyStatus") /\ req[r].chat = c
                          => req[r].status = "CLOSED"

\* Once quiet, a closed chat stays closed and gains no message: no check of
\* createMessage, assignAdminToChat or updateChatStatus lets a later request
\* through.  What reopens a chat was admitted before it was closed.
ClosedForGood ==
    [][\A c \in ChatIds : Quiet(c) =>
          \/ c \notin DOMAIN chats'
          \/ Quiet(c)' /\ MsgsOf(c)' \subseteq MsgsOf(c)]_vars

\* An assigned chat that no admitted request is about to claim.
Owned(c) == /\ c \in DOMAIN chats
            /\ chats[c].admin # Null
            /\ ~InFlight(c, {"applyAssign", "autoAssign"})

\* Such a chat keeps its administrator until it is deleted: an assignment can
\* be lost only to one that was admitted while the chat was still free.
OwnershipStable ==
    [][\A c \in ChatIds : Owned(c) =>
          \/ c \notin DOMAIN chats'
          \/ Owned(c)' /\ chats'[c].admin = chats[c].admin]_vars

\* The chats of one creator about one application, once no createChat for
\* them is under way, never become more: a duplicate needs two overlapping
\* calls of createChat.
Pair(u, a) == {c \in DOMAIN chats : chats[c].client = u /\ chats[c].app = a}
Creating(u, a) == \E r \in Reqs : /\ At(r, "insertChat")
                                  /\ req[r].user = u /\ req[r].app = a
DuplicatesNeedOverlap ==
    [][\A u \in Users, a \in Apps :
          Pair(u, a) # {} /\ ~Creating(u, a) =>
              /\ Pair(u, a)' \subseteq Pair(u, a)
              /\ Pair(u, a)' = {} \/ ~Creating(u, a)']_vars

\* At most one chat per (application, creator): the comment at
\* chat.service.ts:131.
OneChatPerApplication ==
    \A c, d \in DOMAIN chats :
        chats[c].app # Null /\ chats[c].app = chats[d].app
          /\ chats[c].client = chats[d].client => c = d

\* A chat that has an administrator keeps him: assignAdminToChat's
\* "Chat already assigned" (chat.service.ts:654).
AssignedOnce ==
    [][\A c \in DOMAIN chats \cap DOMAIN chats' :
          chats[c].admin # Null => chats'[c].admin = chats[c].admin]_vars

\* Closed chats cannot be reopened: docs/CHAT_UPDATES.md:19 and
\* updateChatStatus's "Cannot reopen a closed chat".
NeverReopened ==
    [][\A c \in DOMAIN chats \cap DOMAIN chats' :
          chats[c].status = "CLOSED" => chats'[c].status = "CLOSED"]_vars

\* A message that has a reply, and that no editMessage admitted earlier is
\* still about to change.
Settled(m) == /\ m \in DOMAIN msgs
              /\ RepliesTo(m) # {}
              /\ \A r \in Reqs : At(r, "applyEdit") => req[r].msg # m

\* The text somebody replied to is kept as long as a reply to it is there, "to
\* maintain context" (chat.service.ts:1228): it is lost only to an edit that
\* looked for replies before the reply was inserted.
ContextKept ==
    [][\A m \in MsgIds : Settled(m) =>
          \/ m \notin DOMAIN msgs'
          \/ RepliesTo(m)' = {}
          \/ Settled(m)' /\ msgs'[m].text = msgs[m].text]_vars

\* Those whose reading counts for each other: a message has one flag for
\* clients and one that partners and administrators share.
Side(role) == IF role = "CLIENT" THEN {"CLIENT"} ELSE Roles \ {"CLIENT"}

\* A message another user wrote counts as unread for a user exactly as long
\* as nobody of the user's side has read it (chat.service.ts:120), through
\* whatever calls, of whichever role.
ReadStatusPerSide ==
    \A m \in DOMAIN msgs, u \in Users :
        msgs[m].sender # u =>
          (m \in UnreadOf(msgs[m].chat, u)
             <=> readers[m] \cap Side(RoleOf(u)) = {})

\* When no request is in flight, a member of a chat's room shows the chat's
\* messages and status: every write is followed by its broadcast.
RoomMirrorsDb ==
    (\A r \in Reqs : At(r, "idle")) =>
        \A c \in ChatIds :
            /\ roomView[c] = MsgsOf(c)
            /\ c \in DOMAIN chats => roomStatus[c] = chats[c].status

\* A client's message in a chat nobody has taken is announced to all
\* administrators, unless somebody takes the chat or the message goes first:
\* notifyNewMessage's second look at the chat.
Waiting(m) == /\ m \in DOMAIN msgs
              /\ RoleOf(msgs[m].sender) = "CLIENT"
              /\ chats[msgs[m].chat].admin = Null
AlertDelivered == \A m \in MsgIds : Waiting(m) ~> (m \in alerted \/ ~Waiting(m))
=============================================================================
