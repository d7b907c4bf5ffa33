---------------------------- MODULE ChatGateway ----------------------------
(***************************************************************************)
(* src/chat/chat.gateway.ts: the socket.io side of the chat.               *)
(*                                                                         *)
(* The gateway keeps two tables of its own (userSockets, chatRooms) beside *)
(* socket.io's rooms.  handleConnection and every message handler await    *)
(* the database before they touch a table - a handler already in its guard *)
(* WsJwtGuard - so a socket may close, or its other messages overtake,     *)
(* while one of its handlers waits.                                        *)
(*                                                                         *)
(* Messages reach the room in the two steps of ChatService: the insert and *)
(* the broadcast.  An operator with an underscore is a mutant (see         *)
(* ChatService).                                                           *)
(***************************************************************************)
EXTENDS Integers, Sequences, FiniteSets

CONSTANTS
    Users, Admins,   \* Admins \subseteq Users
    Sockets, Owner,  \* connections ever made, and whose token each carries
    Chats, Client,   \* chats, and the client of each
    Tasks,           \* bound: messages of the sockets to the gateway
    MaxMsgs,         \* bound: messages ever stored
    PageSize         \* the 20 messages joinChat asks for

ASSUME GatewayAssumption ==
    /\ Admins \subseteq Users
    /\ Owner \in [Sockets -> Users]
    /\ Client \in [Chats -> Users \ Admins]
    /\ MaxMsgs \in Nat /\ PageSize \in Nat \ {0}

VARIABLES
    link,         \* the transport of each socket: "none", "up", "down"
    greeting,     \* handleConnection: "none", "verifying", "done", "refused"
    known,        \* the sockets with client.user set
    userSockets,  \* Map<userId, Set<socketId>>
    adminRoom,    \* sockets in the room 'admins'
    joined,       \* pairs <<socket, chat>>: sockets in the room chat:<id>
    chatRooms,    \* Map<chatId, Set<userId>>
    task,         \* the message handlers: how far each has come
    live,         \* the chats that exist
    log,          \* the chat of each stored message, in order
    unsent,       \* messages stored and not yet broadcast
    screen        \* the messages each open socket has received

tables == <<userSockets, adminRoom, joined, chatRooms>>
store == <<live, log, unsent>>
vars == <<link, greeting, known, tables, task, store, screen>>

MsgIds == 1 .. MaxMsgs
NotSent == [pc |-> "notSent"]
TaskRecords ==
    {NotSent}
      \cup [pc : {"guard", "failed", "done"}, op : {"join", "leave"},
            sock : Sockets, chat : Chats, page : {{}}]
      \cup [pc : {"loadChat", "fetchPage"}, op : {"join"},
            sock : Sockets, chat : Chats, page : {{}}]
      \cup [pc : {"ack"}, op : {"join"},
            sock : Sockets, chat : Chats, page : SUBSET MsgIds]
At(t, label) == task[t].pc = label
Step(t, label) == [task EXCEPT ![t].pc = label, ![t].page = {}]

Init ==
    /\ link = [s \in Sockets |-> "none"]
    /\ greeting = [s \in Sockets |-> "none"]
    /\ known = {}
    /\ userSockets = [u \in Users |-> {}]
    /\ adminRoom = {} /\ joined = {}
    /\ chatRooms = [c \in Chats |-> {}]
    /\ task = [t \in Tasks |-> NotSent]
    /\ live = Chats /\ log = << >> /\ unsent = {}
    /\ screen = [s \in Sockets |-> {}]

-----------------------------------------------------------------------------
(* Connections *)

\* A token is found and verified; the user's row is awaited.
Connect(s) ==
    /\ link[s] = "none"
    /\ link' = [link EXCEPT ![s] = "up"]
    /\ greeting' = [greeting EXCEPT ![s] = "verifying"]
    /\ UNCHANGED <<known, tables, task, store, screen>>

Register_Overwrite(u, s) == [userSockets EXCEPT ![u] = {s}]
Register(u, s) == [userSockets EXCEPT ![u] = @ \cup {s}]

\* The rest of handleConnection runs even if the socket has closed since.
\* (socket.io keeps a room entry of a closed socket, which reaches nobody.)
Greet(s) ==
    /\ greeting[s] = "verifying"
    /\ greeting' = [greeting EXCEPT ![s] = "done"]
    /\ known' = known \cup {s}
    /\ userSockets' = Register(Owner[s], s)
    /\ adminRoom' = IF Owner[s] \in Admins /\ link[s] = "up"
                    THEN adminRoom \cup {s} ELSE adminRoom
    /\ UNCHANGED <<link, joined, chatRooms, task, store, screen>>

\* socket.io empties the socket's rooms; handleDisconnect, if client.user is
\* set, removes the socket from its user and the user from every chat.
Close(s) ==
    /\ link' = [link EXCEPT ![s] = "down"]
    /\ adminRoom' = adminRoom \ {s}
    /\ joined' = {j \in joined : j[1] # s}
    /\ screen' = [screen EXCEPT ![s] = {}]
    /\ IF s \in known
       THEN /\ userSockets' = [userSockets EXCEPT ![Owner[s]] = @ \ {s}]
            /\ chatRooms' = [c \in Chats |-> chatRooms[c] \ {Owner[s]}]
       ELSE UNCHANGED <<userSockets, chatRooms>>

\* No such user, or the query failed: client.disconnect().
Refuse(s) ==
    /\ greeting[s] = "verifying"
    /\ greeting' = [greeting EXCEPT ![s] = "refused"]
    /\ IF link[s] = "up" THEN Close(s) ELSE UNCHANGED <<link, tables, screen>>
    /\ UNCHANGED <<known, task, store>>

Disconnect(s) ==
    /\ link[s] = "up"
    /\ Close(s)
    /\ UNCHANGED <<greeting, known, task, store>>

-----------------------------------------------------------------------------
(* joinChat and leaveChat *)

Emit(t, s, op, c) ==
    /\ link[s] = "up"
    /\ task[t] = NotSent
    /\ task' = [task EXCEPT ![t] =
          [pc |-> "guard", op |-> op, sock |-> s, chat |-> c, page |-> {}]]
    /\ UNCHANGED <<link, greeting, known, tables, store, screen>>

Unlist_NotTracked(u, c) == chatRooms
Unlist(u, c) == [chatRooms EXCEPT ![c] = @ \ {u}]

\* The guard's query returns: it sets client.user, and the handler starts.
\* leaveChat is synchronous; joinChat awaits the chat.
GuardPasses(t) ==
    LET s == task[t].sock  c == task[t].chat IN
    /\ At(t, "guard")
    /\ known' = known \cup {s}
    /\ IF task[t].op = "join"
       THEN task' = Step(t, "loadChat") /\ UNCHANGED <<joined, chatRooms>>
       ELSE /\ joined' = joined \ {<<s, c>>}
            /\ chatRooms' = Unlist(Owner[s], c)
            /\ task' = Step(t, "done")
    /\ UNCHANGED <<link, greeting, userSockets, adminRoom, store, screen>>

\* The guard refuses, or a query of the handler fails.
Fails(t) ==
    /\ task[t].pc \in {"guard", "loadChat", "fetchPage"}
    /\ task' = Step(t, "failed")
    /\ UNCHANGED <<link, greeting, known, tables, store, screen>>

HasAccess_Anyone(u, c) == TRUE
HasAccess(u, c) == Client[c] = u \/ u \in Admins

List_Socket(s, c) == [chatRooms EXCEPT ![c] = @ \cup {s}]
List(s, c) == [chatRooms EXCEPT ![c] = @ \cup {Owner[s]}]

\* The chat is there and the user may see it: enter the room, then ask
\* getChatMessages for page 1.
JoinRoom(t) ==
    LET s == task[t].sock  c == task[t].chat IN
    /\ At(t, "loadChat")
    /\ IF c \in live /\ HasAccess(Owner[s], c)
       THEN /\ joined' = IF link[s] = "up" THEN joined \cup {<<s, c>>} ELSE joined
            /\ chatRooms' = List(s, c)
            /\ task' = Step(t, "fetchPage")
       ELSE task' = Step(t, "failed") /\ UNCHANGED <<joined, chatRooms>>
    /\ UNCHANGED <<link, greeting, known, userSockets, adminRoom, store, screen>>

Stored(c) == IF c \in live THEN {m \in DOMAIN log : log[m] = c} ELSE {}

\* getChatMessages(chatId, user, role, 1, 20): the oldest messages.
FirstPage_SkipOne(c) == {m \in Stored(c) :
    LET rank == Cardinality({x \in Stored(c) : x <= m})
    IN  rank > PageSize /\ rank <= 2 * PageSize}
FirstPage(c) ==
    {m \in Stored(c) : Cardinality({x \in Stored(c) : x <= m}) <= PageSize}
FetchPage(t) ==
    /\ At(t, "fetchPage")
    /\ task' = IF task[t].chat \in live
               THEN [task EXCEPT ![t].pc = "ack",
                                 ![t].page = FirstPage(task[t].chat)]
               ELSE Step(t, "failed")
    /\ UNCHANGED <<link, greeting, known, tables, store, screen>>

Acknowledge(t) ==
    /\ At(t, "ack")
    /\ screen' = IF link[task[t].sock] = "up"
                 THEN [screen EXCEPT ![task[t].sock] = @ \cup task[t].page]
                 ELSE screen
    /\ task' = Step(t, "done")
    /\ UNCHANGED <<link, greeting, known, tables, store>>

-----------------------------------------------------------------------------
(* What ChatService does to the store and asks of the gateway *)

InsertMessage(c) ==
    /\ c \in live
    /\ Len(log) < MaxMsgs
    /\ log' = Append(log, c)
    /\ unsent' = unsent \cup {Len(log) + 1}
    /\ UNCHANGED <<link, greeting, known, tables, task, live, screen>>

\* notifyNewMessage: to every socket in the room at this moment.
NotifyNewMessage(m) ==
    /\ m \in unsent
    /\ unsent' = unsent \ {m}
    /\ screen' = [s \in Sockets |-> IF <<s, log[m]>> \in joined
                                    THEN screen[s] \cup {m} ELSE screen[s]]
    /\ UNCHANGED <<link, greeting, known, tables, task, live, log>>

\* deleteChat tells the room; neither the room nor chatRooms is emptied.
DeleteChat(c) ==
    /\ c \in live
    /\ live' = live \ {c}
    /\ UNCHANGED <<link, greeting, known, tables, task, log, unsent, screen>>

Next ==
    \/ \E s \in Sockets : Connect(s) \/ Greet(s) \/ Refuse(s) \/ Disconnect(s)
    \/ \E t \in Tasks :
          \/ \E s \in Sockets, op \in {"join", "leave"}, c \in Chats :
                Emit(t, s, op, c)
          \/ GuardPasses(t) \/ Fails(t)
          \/ JoinRoom(t) \/ FetchPage(t) \/ Acknowledge(t)
    \/ \E c \in Chats : InsertMessage(c) \/ DeleteChat(c)
    \/ \E m \in MsgIds : NotifyNewMessage(m)

Spec == Init /\ [][Next]_vars

-----------------------------------------------------------------------------
(* Properties *)

\* The tables hold users and sockets where they should.
TypeOK ==
    /\ link \in [Sockets -> {"none", "up", "down"}]
    /\ greeting \in [Sockets -> {"none", "verifying", "done", "refused"}]
    /\ known \subseteq Sockets
    /\ userSockets \in [Users -> SUBSET Sockets]
    /\ adminRoom \subseteq Sockets
    /\ joined \subseteq Sockets \X Chats
    /\ chatRooms \in [Chats -> SUBSET Users]
    /\ task \in [Tasks -> TaskRecords]
    /\ live \subseteq Chats
    /\ log \in Seq(Chats) /\ Len(log) <= MaxMsgs
    /\ unsent \subseteq DOMAIN log
    /\ screen \in [Sockets -> SUBSET MsgIds]

\* Whatever is awaited and overtaken, a socket hears and is shown the messages
\* only of chats its user has access to (handleJoinChat, notifyNewMessage).
Member(u, c) == Client[c] = u \/ u \in Admins
OnlyMembersHear ==
    /\ \A j \in joined : Member(Owner[j[1]], j[2])
    /\ \A s \in Sockets : \A m \in screen[s] : Member(Owner[s], log[m])

\* handleConnection's tables while a socket is up: it is registered under its
\* user; the room of the administrators holds exactly their greeted sockets.
ConnectionTables ==
    /\ \A s \in Sockets : link[s] = "up" /\ greeting[s] = "done"
                             => s \in userSockets[Owner[s]]
    /\ adminRoom = {s \in Sockets : /\ Owner[s] \in Admins
                                    /\ link[s] = "up" /\ greeting[s] = "done"}

\* The only socket its user has made so far.
Sole(s) == \A x \in Sockets \ {s} : Owner[x] = Owner[s] => link[x] = "none"

\* What getActiveUsers answers is right of a user with one socket: listed in a
\* chat exactly when that socket is in its room.  (A second socket breaks it:
\* chatRooms records users, not sockets.)
SoleSocketListed ==
    \A s \in Sockets, c \in Chats :
        link[s] = "up" /\ Sole(s) =>
            (Owner[s] \in chatRooms[c] <=> <<s, c>> \in joined)

\* The only message its socket has sent about its chat.
Alone(t) == \A x \in Tasks \ {t} : At(x, "notSent")
               \/ <<task[x].sock, task[x].chat>> # <<task[t].sock, task[t].chat>>

\* No message falls between the page joinChat answers with and the broadcasts
\* the room hears, because the room is entered before the page is read: a
\* socket whose join was answered, and which is in the room, has been shown
\* every message of the chat, or it is still to be broadcast - as long as the
\* chat fits into one page.
NoMessageMissed ==
    \A t \in Tasks :
        /\ At(t, "done") /\ task[t].op = "join" /\ Alone(t)
        /\ <<task[t].sock, task[t].chat>> \in joined
        /\ Cardinality(Stored(task[t].chat)) <= PageSize
        => Stored(task[t].chat) \subseteq screen[task[t].sock] \cup unsent

\* The answer to joinChat holds the latest message there is when it is read:
\* "Get recent messages" (chat.gateway.ts:225).
Latest(c) == {m \in Stored(c) : \A x \in Stored(c) : x <= m}
JoinShowsRecent ==
    [][\A t \in Tasks : At(t, "fetchPage") /\ (At(t, "ack"))'
          => Latest(task[t].chat) \subseteq task'[t].page]_vars
=============================================================================
