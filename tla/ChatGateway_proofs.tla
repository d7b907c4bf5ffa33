------------------------ MODULE ChatGateway_proofs ------------------------
(***************************************************************************)
(* For any users, sockets, chats, message handlers and bounds: only        *)
(* members of a chat hear it, the gateway's tables agree with the sockets  *)
(* that are up, and a socket that joins a chat misses no message of it.    *)
(***************************************************************************)
EXTENDS ChatGateway, FiniteSetTheorems, TLAPS

\* What a handler of joinChat has established once it is past its check: its
\* user is a member, and the page it will answer with is of its chat.
Cleared(t) ==
    /\ task[t].pc \in {"fetchPage", "ack"} => Member(Owner[task[t].sock], task[t].chat)
    /\ At(t, "ack") => \A m \in task[t].page : m \in DOMAIN log /\ log[m] = task[t].chat

\* The inductive invariant.
Confined ==
    /\ TypeOK
    /\ OnlyMembersHear
    /\ \A s \in Sockets : screen[s] \subseteq DOMAIN log
    /\ \A t \in Tasks : Cleared(t)

\* The messages in the log are numbered within the bound.
LEMMA LogRange == ASSUME TypeOK PROVE DOMAIN log \subseteq MsgIds
  BY GatewayAssumption DEF TypeOK, MsgIds

\* The parts a handler changes of a request record.
LEMMA StepType ==
  ASSUME TypeOK, NEW t \in Tasks,
         task[t].pc \in {"guard", "loadChat", "fetchPage", "ack"},
         NEW label \in {"loadChat", "fetchPage", "failed", "done"},
         label \in {"loadChat", "fetchPage"} => task[t].op = "join"
  PROVE  /\ Step(t, label) \in [Tasks -> TaskRecords]
         /\ Step(t, label)[t].pc = label
         /\ Step(t, label)[t].op = task[t].op
         /\ Step(t, label)[t].sock = task[t].sock
         /\ Step(t, label)[t].chat = task[t].chat
         /\ task[t].sock \in Sockets /\ task[t].chat \in Chats
         /\ \A x \in Tasks \ {t} : Step(t, label)[x] = task[x]
<1>1. PICK q : q = task[t]
  OBVIOUS
<1>2. q \in TaskRecords /\ q # NotSent
  BY <1>1 DEF TypeOK, NotSent
<1>3. /\ q.op \in {"join", "leave"} /\ q.sock \in Sockets /\ q.chat \in Chats
      /\ DOMAIN q = {"pc", "op", "sock", "chat", "page"}
  BY <1>2 DEF TaskRecords
<1>4. PICK n : n = [[q EXCEPT !.pc = label] EXCEPT !.page = {}]
  OBVIOUS
<1>5. n = [pc |-> label, op |-> q.op, sock |-> q.sock, chat |-> q.chat, page |-> {}]
  BY <1>2, <1>4 DEF TaskRecords
<1>6. n \in TaskRecords
  BY <1>1, <1>3, <1>5 DEF TaskRecords
<1>7. Step(t, label) = [task EXCEPT ![t] = n]
  BY <1>1, <1>4 DEF Step, TypeOK
<1> QED
  BY <1>1, <1>3, <1>5, <1>6, <1>7 DEF TypeOK

-----------------------------------------------------------------------------
\* Nobody is connected and nothing is stored.
LEMMA InitConfined == Init => Confined
<1> SUFFICES ASSUME Init PROVE Confined
  OBVIOUS
<1>1. TypeOK
  BY GatewayAssumption DEF Init, TypeOK, TaskRecords, NotSent, MsgIds
<1>2. OnlyMembersHear /\ \A s \in Sockets : screen[s] \subseteq DOMAIN log
  BY DEF Init, OnlyMembersHear
<1>3. \A t \in Tasks : Cleared(t)
  BY DEF Init, Cleared, At, NotSent
<1> QED
  BY <1>1, <1>2, <1>3 DEF Confined

\* Connections: rooms and screens only shrink, handlers are not touched.
LEMMA ConnectionSteps ==
  ASSUME Confined, NEW s \in Sockets,
         Connect(s) \/ Greet(s) \/ Refuse(s) \/ Disconnect(s)
  PROVE  Confined'
<1> USE DEF Confined
<1>1. /\ joined' \subseteq joined
      /\ log' = log /\ task' = task /\ live' = live /\ unsent' = unsent
      /\ screen' \in [Sockets -> SUBSET MsgIds]
      /\ \A x \in Sockets : screen'[x] \subseteq screen[x]
  BY DEF Connect, Greet, Refuse, Disconnect, Close, tables, store, TypeOK
<1>2. TypeOK'
  <2>1. /\ link' \in [Sockets -> {"none", "up", "down"}]
        /\ greeting' \in [Sockets -> {"none", "verifying", "done", "refused"}]
        /\ known' \subseteq Sockets
        /\ adminRoom' \subseteq Sockets
    BY DEF Connect, Greet, Refuse, Disconnect, Close, tables, store, TypeOK
  <2>2. userSockets' \in [Users -> SUBSET Sockets]
    BY GatewayAssumption, SMTT(20)
    DEF Connect, Greet, Refuse, Disconnect, Close, Register, tables, TypeOK
  <2>3. chatRooms' \in [Chats -> SUBSET Users]
    BY DEF Connect, Greet, Refuse, Disconnect, Close, tables, TypeOK
  <2> QED
    BY <1>1, <2>1, <2>2, <2>3 DEF TypeOK
<1>3. OnlyMembersHear' /\ \A x \in Sockets : (screen[x] \subseteq DOMAIN log)'
  BY <1>1 DEF OnlyMembersHear, Member
<1>4. \A t \in Tasks : Cleared(t)'
  BY <1>1 DEF Cleared, At, Member
<1> QED
  BY <1>2, <1>3, <1>4

\* A handler that has been sent, before or in its guard, claims nothing.
LEMMA EmitStep ==
  ASSUME Confined, NEW t \in Tasks, NEW s \in Sockets,
         NEW op \in {"join", "leave"}, NEW c \in Chats, Emit(t, s, op, c)
  PROVE  Confined'
<1> USE DEF Confined
<1> DEFINE n == [pc |-> "guard", op |-> op, sock |-> s, chat |-> c, page |-> {}]
<1>1. n \in TaskRecords
  BY DEF TaskRecords
<1>2. task' = [task EXCEPT ![t] = n]
  BY DEF Emit
<1> HIDE DEF n
<1>3. task' \in [Tasks -> TaskRecords] /\ task'[t] = n
      /\ \A x \in Tasks \ {t} : task'[x] = task[x]
  BY <1>1, <1>2 DEF TypeOK
<1>4. TypeOK' /\ OnlyMembersHear' /\ \A x \in Sockets : (screen[x] \subseteq DOMAIN log)'
  BY <1>3 DEF Emit, tables, store, TypeOK, OnlyMembersHear, Member
<1>5. \A x \in Tasks : Cleared(x)'
  <2> TAKE x \in Tasks
  <2>1. CASE x = t
    BY <1>3, <2>1 DEF n, Cleared, At
  <2>2. CASE x # t
    BY <1>3, <2>2 DEF Cleared, At, Emit, store, Member
  <2> QED
    BY <2>1, <2>2
<1> QED
  BY <1>4, <1>5

\* The guard lets joinChat start, or runs leaveChat.
LEMMA GuardStep ==
  ASSUME Confined, NEW t \in Tasks, GuardPasses(t)
  PROVE  Confined'
<1> USE DEF Confined
<1> DEFINE label == IF task[t].op = "join" THEN "loadChat" ELSE "done"
<1>1. task' = Step(t, label) /\ label \in {"loadChat", "done"}
      /\ (label = "loadChat" => task[t].op = "join") /\ task[t].pc = "guard"
  BY DEF GuardPasses, At
<1> HIDE DEF label
<1>2. /\ task' \in [Tasks -> TaskRecords] /\ task'[t].pc = label
      /\ task[t].sock \in Sockets /\ task[t].chat \in Chats
      /\ \A x \in Tasks \ {t} : task'[x] = task[x]
  BY <1>1, StepType
<1>3. /\ joined' \subseteq joined /\ known' \subseteq Sockets
      /\ chatRooms' \in [Chats -> SUBSET Users]
      /\ UNCHANGED <<link, greeting, userSockets, adminRoom, live, log, unsent, screen>>
  BY <1>2 DEF GuardPasses, Unlist, store, TypeOK
<1>4. TypeOK' /\ OnlyMembersHear' /\ \A x \in Sockets : (screen[x] \subseteq DOMAIN log)'
  BY <1>2, <1>3 DEF TypeOK, OnlyMembersHear, Member
<1>5. \A x \in Tasks : Cleared(x)'
  BY <1>1, <1>2, <1>3 DEF Cleared, At, Member
<1> QED
  BY <1>4, <1>5

\* Only the check of handleJoinChat lets a socket into a room.
LEMMA JoinSteps ==
  ASSUME Confined, NEW t \in Tasks, Fails(t) \/ JoinRoom(t)
  PROVE  Confined'
<1> USE DEF Confined
<1>1. PICK label \in {"failed", "fetchPage"} :
        /\ task' = Step(t, label)
        /\ label = "fetchPage" => /\ At(t, "loadChat")
                                  /\ HasAccess(Owner[task[t].sock], task[t].chat)
  BY DEF Fails, JoinRoom
<1>2. task[t].pc \in {"guard", "loadChat", "fetchPage"}
  BY DEF Fails, JoinRoom, At
<1>3. At(t, "loadChat") => task[t].op = "join"
  BY DEF TypeOK, TaskRecords, NotSent, At
<1>4. /\ task' \in [Tasks -> TaskRecords] /\ task'[t].pc = label
      /\ task'[t].sock = task[t].sock /\ task'[t].chat = task[t].chat
      /\ task[t].sock \in Sockets /\ task[t].chat \in Chats
      /\ \A x \in Tasks \ {t} : task'[x] = task[x]
  BY <1>1, <1>2, <1>3, StepType
<1>5. /\ joined' \subseteq joined \cup {<<task[t].sock, task[t].chat>>}
      /\ joined' # joined => HasAccess(Owner[task[t].sock], task[t].chat)
      /\ chatRooms' \in [Chats -> SUBSET Users]
      /\ UNCHANGED <<link, greeting, known, userSockets, adminRoom, live, log, unsent, screen>>
  BY <1>4, GatewayAssumption DEF Fails, JoinRoom, List, tables, store, TypeOK
<1>6. TypeOK'
  BY <1>4, <1>5 DEF TypeOK
<1>7. OnlyMembersHear' /\ \A x \in Sockets : (screen[x] \subseteq DOMAIN log)'
  BY <1>4, <1>5 DEF OnlyMembersHear, Member, HasAccess
<1>8. \A x \in Tasks : Cleared(x)'
  BY <1>1, <1>4, <1>5 DEF Cleared, At, Member, HasAccess
<1> QED
  BY <1>6, <1>7, <1>8

\* The page is read for the chat the check was made for.
LEMMA FetchStep ==
  ASSUME Confined, NEW t \in Tasks, FetchPage(t)
  PROVE  Confined'
<1> USE DEF Confined
<1>1. At(t, "fetchPage") /\ task[t].op = "join"
  BY DEF FetchPage, At, TypeOK, TaskRecords, NotSent
<1>2. UNCHANGED <<link, greeting, known, userSockets, adminRoom, joined, chatRooms,
                  live, log, unsent, screen>>
  BY DEF FetchPage, tables, store
<1>3. OnlyMembersHear' /\ \A x \in Sockets : (screen[x] \subseteq DOMAIN log)'
  BY <1>2 DEF OnlyMembersHear, Member
<1>4. CASE task' = Step(t, "failed")
  <2>1. /\ task' \in [Tasks -> TaskRecords] /\ task'[t].pc = "failed"
        /\ \A x \in Tasks \ {t} : task'[x] = task[x]
    BY <1>1, <1>4, StepType DEF At
  <2>2. TypeOK'
    BY <1>2, <2>1 DEF TypeOK
  <2>3. \A x \in Tasks : Cleared(x)'
    BY <1>2, <2>1 DEF Cleared, At, Member
  <2> QED
    BY <1>3, <2>2, <2>3
<1>5. CASE task' = [task EXCEPT ![t].pc = "ack", ![t].page = FirstPage(task[t].chat)]
  <2>1. PICK q : q = task[t]
    OBVIOUS
  <2>2. q = [pc |-> "fetchPage", op |-> "join", sock |-> q.sock, chat |-> q.chat,
             page |-> {}] /\ q.sock \in Sockets /\ q.chat \in Chats
    BY <1>1, <2>1 DEF At, TypeOK, TaskRecords, NotSent
  <2>3. PICK page : page = FirstPage(q.chat)
    OBVIOUS
  <2>4. page \subseteq DOMAIN log /\ \A m \in page : log[m] = q.chat
    BY <2>3 DEF FirstPage, Stored
  <2>5. page \in SUBSET MsgIds
    BY <2>4, LogRange
  <2>6. PICK n : n = [pc |-> "ack", op |-> "join", sock |-> q.sock, chat |-> q.chat,
                      page |-> page]
    OBVIOUS
  <2>7. n \in TaskRecords
    BY <2>2, <2>5, <2>6 DEF TaskRecords
  <2>8. n = [[q EXCEPT !.pc = "ack"] EXCEPT !.page = page]
    <3>1. PICK z : z = [q EXCEPT !.pc = "ack"]
      OBVIOUS
    <3>2. z = [pc |-> "ack", op |-> "join", sock |-> q.sock, chat |-> q.chat,
               page |-> {}]
      BY <2>2, <3>1
    <3>3. n = [z EXCEPT !.page = page]
      BY <2>6, <3>2
    <3> QED
      BY <3>1, <3>3
  <2>9. task' = [task EXCEPT ![t] = n]
    BY <1>5, <2>1, <2>3, <2>8 DEF TypeOK
  <2>10. /\ task' \in [Tasks -> TaskRecords] /\ task'[t] = n
         /\ \A x \in Tasks \ {t} : task'[x] = task[x]
    BY <2>7, <2>9 DEF TypeOK
  <2>11. TypeOK'
    BY <1>2, <2>10 DEF TypeOK
  <2>12. Member(Owner[q.sock], q.chat)
    BY <1>1, <2>1 DEF Cleared, At
  <2>13. Cleared(t)'
    BY <1>2, <2>4, <2>6, <2>10, <2>12 DEF Cleared, At, Member
  <2>14. \A x \in Tasks \ {t} : Cleared(x)'
    BY <1>2, <2>10 DEF Cleared, At, Member
  <2> QED
    BY <1>3, <2>11, <2>13, <2>14
<1> QED
  BY <1>4, <1>5 DEF FetchPage

\* The page is shown to the socket that asked.
LEMMA AcknowledgeStep ==
  ASSUME Confined, NEW t \in Tasks, Acknowledge(t)
  PROVE  Confined'
<1> USE DEF Confined
<1>1. task[t].pc = "ack" /\ task' = Step(t, "done")
  BY DEF Acknowledge, At
<1>2. /\ task' \in [Tasks -> TaskRecords] /\ task'[t].pc = "done"
      /\ task[t].sock \in Sockets /\ task[t].chat \in Chats
      /\ \A x \in Tasks \ {t} : task'[x] = task[x]
  BY <1>1, StepType
<1>3. UNCHANGED <<link, greeting, known, userSockets, adminRoom, joined, chatRooms,
                  live, log, unsent>>
  BY DEF Acknowledge, tables, store
<1>4. /\ task[t].page \subseteq DOMAIN log
      /\ \A m \in task[t].page : Member(Owner[task[t].sock], log[m])
  BY <1>1 DEF Cleared, At
<1>5. /\ screen' \in [Sockets -> SUBSET MsgIds]
      /\ \A x \in Sockets : \A m \in screen'[x] :
            m \in screen[x] \/ (x = task[t].sock /\ m \in task[t].page)
  BY <1>2, <1>4, LogRange DEF Acknowledge, TypeOK
<1>6. TypeOK'
  BY <1>2, <1>3, <1>5 DEF TypeOK
<1>7. OnlyMembersHear'
  BY <1>3, <1>4, <1>5 DEF OnlyMembersHear, Member
<1>8. \A x \in Sockets : (screen[x] \subseteq DOMAIN log)'
  BY <1>3, <1>4, <1>5
<1>9. \A x \in Tasks : Cleared(x)'
  BY <1>2, <1>3 DEF Cleared, At, Member
<1> QED
  BY <1>6, <1>7, <1>8, <1>9

\* The store grows, the room hears one message, a chat goes.
LEMMA StoreSteps ==
  ASSUME Confined,
         \/ \E c \in Chats : InsertMessage(c) \/ DeleteChat(c)
         \/ \E m \in MsgIds : NotifyNewMessage(m)
  PROVE  Confined'
<1> USE DEF Confined
<1>1. CASE \E c \in Chats : InsertMessage(c)
  <2>1. PICK c \in Chats : InsertMessage(c)
    BY <1>1
  <2>2. /\ log \in Seq(Chats) /\ Len(log) \in Nat /\ Len(log) < MaxMsgs
        /\ log' = Append(log, c) /\ unsent' = unsent \cup {Len(log) + 1}
        /\ UNCHANGED <<link, greeting, known, userSockets, adminRoom, joined,
                       chatRooms, task, live, screen>>
    BY <2>1, GatewayAssumption DEF InsertMessage, tables, TypeOK
  <2>3. /\ log' \in Seq(Chats) /\ Len(log') = Len(log) + 1
        /\ DOMAIN log \subseteq DOMAIN log' /\ Len(log) + 1 \in DOMAIN log'
        /\ \A m \in DOMAIN log : log'[m] = log[m]
    BY <2>2
  <2>4. TypeOK'
    BY <2>2, <2>3, GatewayAssumption DEF TypeOK
  <2>5. OnlyMembersHear' /\ \A x \in Sockets : (screen[x] \subseteq DOMAIN log)'
    BY <2>2, <2>3 DEF OnlyMembersHear, Member
  <2>6. \A x \in Tasks : Cleared(x)'
    BY <2>2, <2>3 DEF Cleared, At, Member
  <2> QED
    BY <2>4, <2>5, <2>6
<1>2. CASE \E c \in Chats : DeleteChat(c)
  BY <1>2 DEF DeleteChat, tables, TypeOK, OnlyMembersHear, Cleared, At, Member
<1>3. CASE \E m \in MsgIds : NotifyNewMessage(m)
  <2>1. PICK m \in MsgIds : NotifyNewMessage(m)
    BY <1>3
  <2>2. /\ m \in DOMAIN log
        /\ screen' = [s \in Sockets |-> IF <<s, log[m]>> \in joined
                                        THEN screen[s] \cup {m} ELSE screen[s]]
        /\ unsent' \subseteq unsent
        /\ UNCHANGED <<link, greeting, known, userSockets, adminRoom, joined,
                       chatRooms, task, live, log>>
    BY <2>1 DEF NotifyNewMessage, tables, TypeOK
  <2>3. TypeOK'
    BY <2>2 DEF TypeOK
  <2>4. OnlyMembersHear'
    BY <2>2 DEF OnlyMembersHear, Member, TypeOK
  <2>5. \A x \in Sockets : (screen[x] \subseteq DOMAIN log)'
    BY <2>2 DEF TypeOK
  <2>6. \A x \in Tasks : Cleared(x)'
    BY <2>2 DEF Cleared, At, Member
  <2> QED
    BY <2>3, <2>4, <2>5, <2>6
<1> QED
  BY <1>1, <1>2, <1>3

-----------------------------------------------------------------------------
\* Confined is an invariant: nothing that is awaited or overtaken lets a
\* message reach a socket whose user may not see the chat.
THEOREM ConfinedHolds == Spec => []Confined
<1>1. Init => Confined
  BY InitConfined
<1>2. Confined /\ [Next]_vars => Confined'
  <2> SUFFICES ASSUME Confined, [Next]_vars PROVE Confined'
    OBVIOUS
  <2>1. CASE Next
    BY <2>1, ConnectionSteps, EmitStep, GuardStep, JoinSteps, FetchStep,
       AcknowledgeStep, StoreSteps DEF Next
  <2>2. CASE UNCHANGED vars
    BY <2>2 DEF Confined, TypeOK, OnlyMembersHear, Cleared, At, Member, vars,
                tables, store
  <2> QED
    BY <2>1, <2>2
<1> QED
  BY <1>1, <1>2, PTL DEF Spec

\* A socket hears and is shown only messages of chats its user belongs to.
THEOREM OnlyMembersHearHolds == Spec => []OnlyMembersHear
<1>1. Confined => OnlyMembersHear
  BY DEF Confined
<1> QED
  BY <1>1, ConfinedHolds, PTL

\* The gateway's tables keep their types.
THEOREM GatewayTypes == Spec => []TypeOK
<1>1. Confined => TypeOK
  BY DEF Confined
<1> QED
  BY <1>1, ConfinedHolds, PTL

-----------------------------------------------------------------------------
(* The tables and the room, beside what is awaited.  TypeOK is known of both  *)
(* states of a step from here on.                                            *)

\* What holds the tables together: a user listed in a chat has made a socket, a
\* socket in a room is up, a message was sent by a socket that has been up.
Wired ==
    /\ \A c \in Chats : \A u \in chatRooms[c] :
          \E x \in Sockets : Owner[x] = u /\ link[x] # "none"
    /\ \A j \in joined : link[j[1]] = "up"
    /\ \A t \in Tasks : ~At(t, "notSent") => link[task[t].sock] # "none"

\* NoMessageMissed from the moment the page is read: what the socket has not
\* been shown is still to be broadcast, or on the page it will be shown.
InformedOf(t) ==
    /\ task[t].pc \in {"ack", "done"} /\ task[t].op = "join" /\ Alone(t)
    /\ <<task[t].sock, task[t].chat>> \in joined
    /\ Cardinality(Stored(task[t].chat)) <= PageSize
    => Stored(task[t].chat) \subseteq screen[task[t].sock] \cup unsent \cup task[t].page
Informed == \A t \in Tasks : InformedOf(t)

\* A handler of a message the gateway has been sent.
Handler(t) == GuardPasses(t) \/ Fails(t) \/ JoinRoom(t) \/ FetchPage(t) \/ Acknowledge(t)
Connection(s) == Connect(s) \/ Greet(s) \/ Refuse(s) \/ Disconnect(s)
Storing == \/ \E c \in Chats : InsertMessage(c) \/ DeleteChat(c)
           \/ \E m \in MsgIds : NotifyNewMessage(m)

\* A step is of one of these kinds.
LEMMA NextCases ==
  ASSUME [Next]_vars
  PROVE  \/ \E s \in Sockets : Connection(s)
         \/ \E t \in Tasks, s \in Sockets, op \in {"join", "leave"}, c \in Chats :
               Emit(t, s, op, c)
         \/ \E t \in Tasks : Handler(t)
         \/ Storing
         \/ UNCHANGED vars
  BY DEF Next, Handler, Connection, Storing

\* A message that has been sent names its socket and its chat.
LEMMA SentType ==
  ASSUME TypeOK, NEW t \in Tasks, ~At(t, "notSent")
  PROVE  /\ task[t].sock \in Sockets /\ task[t].chat \in Chats
         /\ task[t].op \in {"join", "leave"}
         /\ At(t, "done") => task[t].page = {}
  BY DEF TypeOK, TaskRecords, NotSent, At

\* A handler touches its own task only, and neither its socket nor its chat.
LEMMA HandlerKeeps ==
  ASSUME TypeOK, NEW t \in Tasks, Handler(t)
  PROVE  /\ \A x \in Tasks \ {t} : task'[x] = task[x]
         /\ task'[t].sock = task[t].sock /\ task'[t].chat = task[t].chat
         /\ task'[t].op = task[t].op
         /\ task[t].sock \in Sockets /\ task[t].chat \in Chats
         /\ ~At(t, "notSent") /\ ~(At(t, "notSent"))'
         /\ UNCHANGED <<link, greeting, userSockets, adminRoom, live, log, unsent>>
<1>1. UNCHANGED <<link, greeting, userSockets, adminRoom, live, log, unsent>>
  BY DEF Handler, GuardPasses, Fails, JoinRoom, FetchPage, Acknowledge, tables, store
<1>2. task[t].pc \in {"guard", "loadChat", "fetchPage", "ack"}
  BY DEF Handler, GuardPasses, Fails, JoinRoom, FetchPage, Acknowledge, At
<1>3. task[t].pc \in {"loadChat", "fetchPage", "ack"} => task[t].op = "join"
  BY DEF TypeOK, TaskRecords, NotSent
<1>4. CASE \E label \in {"loadChat", "fetchPage", "failed", "done"} :
              /\ task' = Step(t, label)
              /\ label \in {"loadChat", "fetchPage"} => task[t].op = "join"
  BY <1>1, <1>2, <1>4, StepType DEF At
<1>5. CASE FetchPage(t) /\ task' = [task EXCEPT ![t].pc = "ack",
                                       ![t].page = FirstPage(task[t].chat)]
  <2>1. PICK q : q = task[t]
    OBVIOUS
  <2>2. q = [pc |-> "fetchPage", op |-> "join", sock |-> q.sock, chat |-> q.chat,
             page |-> {}] /\ q.sock \in Sockets /\ q.chat \in Chats
    BY <1>5, <2>1 DEF FetchPage, At, TypeOK, TaskRecords, NotSent
  <2>3. PICK page : page = FirstPage(q.chat)
    OBVIOUS
  <2>4. PICK z : z = [q EXCEPT !.pc = "ack"]
    OBVIOUS
  <2>5. z = [pc |-> "ack", op |-> "join", sock |-> q.sock, chat |-> q.chat, page |-> {}]
    BY <2>2, <2>4
  <2>6. PICK n : n = [z EXCEPT !.page = page]
    OBVIOUS
  <2>7. n.pc = "ack" /\ n.sock = q.sock /\ n.chat = q.chat /\ n.op = q.op
    BY <2>2, <2>5, <2>6
  <2>8. task' = [task EXCEPT ![t] = n]
    BY <1>5, <2>1, <2>3, <2>4, <2>6 DEF TypeOK
  <2>9. task'[t] = n /\ \A x \in Tasks \ {t} : task'[x] = task[x]
    BY <2>8 DEF TypeOK
  <2> QED
    BY <1>1, <2>1, <2>2, <2>7, <2>9 DEF At
<1>6. GuardPasses(t) => \E label \in {"loadChat", "done"} :
              /\ task' = Step(t, label)
              /\ label = "loadChat" => task[t].op = "join"
  BY DEF GuardPasses
<1>7. Fails(t) => task' = Step(t, "failed")
  BY DEF Fails
<1>8. JoinRoom(t) => /\ task' = Step(t, "fetchPage") \/ task' = Step(t, "failed")
                     /\ task[t].op = "join"
  BY <1>3 DEF JoinRoom, At
<1>9. FetchPage(t) => (FetchPage(t) /\ task' = [task EXCEPT ![t].pc = "ack",
                                       ![t].page = FirstPage(task[t].chat)])
                      \/ task' = Step(t, "failed")
  BY DEF FetchPage
<1>10. Acknowledge(t) => task' = Step(t, "done")
  BY DEF Acknowledge
<1> QED
  BY <1>4, <1>5, <1>6, <1>7, <1>8, <1>9, <1>10 DEF Handler

\* A socket that has been made stays made.
LEMMA LinkGrows ==
  ASSUME TypeOK, [Next]_vars
  PROVE  \A s \in Sockets : link[s] # "none" => link'[s] # "none"
<1>1. ASSUME NEW s \in Sockets, Connection(s)
      PROVE  \A x \in Sockets : link[x] # "none" => link'[x] # "none"
  BY <1>1 DEF Connection, Connect, Greet, Refuse, Disconnect, Close, TypeOK
<1>2. ASSUME NEW t \in Tasks, NEW s \in Sockets, NEW op \in {"join", "leave"},
             NEW c \in Chats, Emit(t, s, op, c)
      PROVE  link' = link
  BY <1>2 DEF Emit
<1>3. ASSUME NEW t \in Tasks, Handler(t) PROVE link' = link
  BY <1>3, HandlerKeeps
<1>4. Storing => link' = link
  BY DEF Storing, InsertMessage, DeleteChat, NotifyNewMessage
<1>5. UNCHANGED vars => link' = link
  BY DEF vars
<1> QED
  BY <1>1, <1>2, <1>3, <1>4, <1>5, NextCases

\* Sent messages: once sent, always sent, by the same socket about the same chat.
LEMMA SentStays ==
  ASSUME TypeOK, [Next]_vars, NEW t \in Tasks, ~At(t, "notSent")
  PROVE  /\ ~(At(t, "notSent"))'
         /\ task'[t].sock = task[t].sock /\ task'[t].chat = task[t].chat
<1>1. ASSUME NEW s \in Sockets, Connection(s) PROVE task' = task
  BY <1>1 DEF Connection, Connect, Greet, Refuse, Disconnect
<1>2. ASSUME NEW x \in Tasks, NEW s \in Sockets, NEW op \in {"join", "leave"},
             NEW c \in Chats, Emit(x, s, op, c)
      PROVE  task'[t] = task[t]
  BY <1>2 DEF Emit, At, NotSent, TypeOK
<1>3. ASSUME NEW x \in Tasks, Handler(x) PROVE /\ ~(At(t, "notSent"))'
            /\ task'[t].sock = task[t].sock /\ task'[t].chat = task[t].chat
  BY <1>3, HandlerKeeps DEF At
<1>4. Storing => task' = task
  BY DEF Storing, InsertMessage, DeleteChat, NotifyNewMessage
<1>5. UNCHANGED vars => task' = task
  BY DEF vars
<1> QED
  BY <1>1, <1>2, <1>3, <1>4, <1>5, NextCases DEF At

\* What a connection's step does to the rooms: nothing, or it closes s.
LEMMA ConnectionKeeps ==
  ASSUME TypeOK, NEW s \in Sockets, Connection(s)
  PROVE  /\ \A x \in Sockets \ {s} : link'[x] = link[x] /\ screen'[x] = screen[x]
         /\ UNCHANGED <<task, live, log, unsent>>
         /\ \/ UNCHANGED <<joined, chatRooms, screen>> /\ Connect(s)
            \/ UNCHANGED <<joined, chatRooms, screen, link>>
            \/ /\ joined' = {j \in joined : j[1] # s}
               /\ link[s] = "up" /\ link'[s] = "down"
               /\ \/ chatRooms' = chatRooms
                  \/ chatRooms' = [c \in Chats |-> chatRooms[c] \ {Owner[s]}]
<1>1. UNCHANGED <<task, live, log, unsent>>
  BY DEF Connection, Connect, Greet, Refuse, Disconnect, store
<1>2. CASE Connect(s)
  BY <1>1, <1>2 DEF Connect, TypeOK, tables
<1>3. CASE Greet(s)
  BY <1>1, <1>3 DEF Greet, tables
<1>4. CASE Refuse(s)
  BY <1>1, <1>4 DEF Refuse, Close, TypeOK, tables
<1>5. CASE Disconnect(s)
  BY <1>1, <1>5 DEF Disconnect, Close, TypeOK
<1> QED
  BY <1>2, <1>3, <1>4, <1>5 DEF Connection

\* A socket that closes leaves both tables.
LEMMA ClosedTables ==
  ASSUME TypeOK, ConnectionTables, NEW s \in Sockets, Close(s),
         \A x \in Sockets \ {s} : greeting'[x] = greeting[x]
  PROVE  ConnectionTables'
<1>1. link'[s] = "down" /\ \A x \in Sockets \ {s} : link'[x] = link[x]
  BY DEF Close, TypeOK
<1>2. \A u \in Users : userSockets[u] \ {s} \subseteq userSockets'[u]
  BY DEF Close, TypeOK
<1>3. \A x \in Sockets : Owner[x] \in Users
  BY GatewayAssumption
<1>4. \A x \in Sockets : link'[x] = "up" /\ greeting'[x] = "done"
                             => x \in userSockets'[Owner[x]]
  BY <1>1, <1>2, <1>3 DEF ConnectionTables
<1>5. adminRoom' = adminRoom \ {s}
  BY DEF Close
<1>6. adminRoom' = {x \in Sockets : /\ Owner[x] \in Admins
                                   /\ link'[x] = "up" /\ greeting'[x] = "done"}
  BY <1>1, <1>5 DEF ConnectionTables
<1> QED
  BY <1>4, <1>6 DEF ConnectionTables

\* handleConnection and handleDisconnect keep their tables: every path through
\* them enters and removes the socket in all of them.
LEMMA TablesStep ==
  ASSUME TypeOK, ConnectionTables, [Next]_vars
  PROVE  ConnectionTables'
<1>1. ASSUME NEW s \in Sockets, Connect(s) PROVE ConnectionTables'
  BY <1>1 DEF Connect, tables, TypeOK, ConnectionTables
<1>2. ASSUME NEW s \in Sockets, Greet(s) PROVE ConnectionTables'
  BY <1>2, GatewayAssumption DEF Greet, Register, TypeOK, ConnectionTables
<1>3. ASSUME NEW s \in Sockets, Refuse(s) PROVE ConnectionTables'
  <2>1. CASE link[s] = "up"
    BY <1>3, <2>1, ClosedTables DEF Refuse, TypeOK
  <2>2. CASE link[s] # "up"
    BY <1>3, <2>2 DEF Refuse, tables, TypeOK, ConnectionTables
  <2> QED
    BY <2>1, <2>2
<1>4. ASSUME NEW s \in Sockets, Disconnect(s) PROVE ConnectionTables'
  BY <1>4, ClosedTables DEF Disconnect
<1>5. CASE UNCHANGED <<link, greeting, userSockets, adminRoom>>
  BY <1>5 DEF ConnectionTables
<1>6. ASSUME NEW t \in Tasks, NEW s \in Sockets, NEW op \in {"join", "leave"},
             NEW c \in Chats, Emit(t, s, op, c)
      PROVE  UNCHANGED <<link, greeting, userSockets, adminRoom>>
  BY <1>6 DEF Emit, tables
<1>7. Storing => UNCHANGED <<link, greeting, userSockets, adminRoom>>
  BY DEF Storing, InsertMessage, DeleteChat, NotifyNewMessage, tables
<1>8. UNCHANGED vars => UNCHANGED <<link, greeting, userSockets, adminRoom>>
  BY DEF vars, tables
<1> QED
  BY <1>1, <1>2, <1>3, <1>4, <1>5, <1>6, <1>7, <1>8, HandlerKeeps, NextCases
     DEF Connection

\* Rooms and lists grow by JoinRoom only, by the pair it was asked for.
LEMMA RoomGrows ==
  ASSUME TypeOK, NEW t \in Tasks, Handler(t)
  PROVE  LET s == task[t].sock  d == task[t].chat IN
         \/ UNCHANGED <<joined, chatRooms>>
         \/ /\ joined' = joined \ {<<s, d>>}
            /\ chatRooms' = [chatRooms EXCEPT ![d] = @ \ {Owner[s]}]
         \/ /\ joined' = IF link[s] = "up" THEN joined \cup {<<s, d>>} ELSE joined
            /\ chatRooms' = [chatRooms EXCEPT ![d] = @ \cup {Owner[s]}]
  BY DEF Handler, GuardPasses, Fails, JoinRoom, FetchPage, Acknowledge, Unlist, List, tables

\* Who is in the maps and rooms may be there, after every step.
LEMMA WiredStep ==
  ASSUME TypeOK, TypeOK', Wired, [Next]_vars
  PROVE  Wired'
<1>1. \A s \in Sockets : link[s] # "none" => link'[s] # "none"
  BY LinkGrows
<1>2. \A t \in Tasks : (~At(t, "notSent"))' => link'[task'[t].sock] # "none"
  <2>1. ASSUME NEW t \in Tasks, (~At(t, "notSent"))', ~At(t, "notSent")
        PROVE  link'[task'[t].sock] # "none"
    BY <1>1, <2>1, SentStays, SentType DEF Wired
  <2>2. ASSUME NEW t \in Tasks, (~At(t, "notSent"))', At(t, "notSent")
        PROVE  link'[task'[t].sock] # "none"
    <3>1. PICK x \in Tasks, s \in Sockets, op \in {"join", "leave"}, c \in Chats :
             Emit(x, s, op, c)
      <4>1. ASSUME NEW s \in Sockets, Connection(s) PROVE FALSE
        BY <2>2, <4>1, ConnectionKeeps DEF At
      <4>2. ASSUME NEW x \in Tasks, Handler(x) PROVE FALSE
        BY <2>2, <4>2, HandlerKeeps DEF At
      <4>3. ~Storing
        BY <2>2 DEF Storing, InsertMessage, DeleteChat, NotifyNewMessage, At
      <4>4. ~UNCHANGED vars
        BY <2>2 DEF vars, At
      <4> QED
        BY <4>1, <4>2, <4>3, <4>4, NextCases
    <3>2. PICK n : n = [pc |-> "guard", op |-> op, sock |-> s, chat |-> c, page |-> {}]
      OBVIOUS
    <3>3. task' = [task EXCEPT ![x] = n] /\ link[s] = "up" /\ link' = link
      BY <3>1, <3>2 DEF Emit
    <3>4. x = t
      BY <2>2, <3>3 DEF At, TypeOK
    <3>5. task'[t] = n /\ n.sock = s
      BY <3>2, <3>3, <3>4 DEF TypeOK
    <3> QED
      BY <3>3, <3>5
  <2> QED
    BY <2>1, <2>2
<1>3. CASE UNCHANGED <<joined, chatRooms, link>>
  BY <1>2, <1>3 DEF Wired
<1>4. ASSUME NEW s \in Sockets, Connection(s) PROVE Wired'
  <2>1. \A j \in joined' : link'[j[1]] = "up"
    BY <1>4, ConnectionKeeps DEF Wired, Connect, TypeOK
  <2>2. \A c \in Chats : chatRooms'[c] \subseteq chatRooms[c]
    BY <1>4, ConnectionKeeps DEF TypeOK
  <2> QED
    BY <1>1, <1>2, <2>1, <2>2 DEF Wired
<1>5. ASSUME NEW t \in Tasks, Handler(t) PROVE Wired'
  <2>1. PICK s \in Sockets, d \in Chats : s = task[t].sock /\ d = task[t].chat
    BY <1>5, HandlerKeeps
  <2>2. link[s] # "none" /\ link' = link
    BY <1>5, <2>1, HandlerKeeps DEF Wired
  <2>3. \A j \in joined' : link'[j[1]] = "up"
    BY <1>5, <2>1, <2>2, RoomGrows DEF Wired
  <2>4. \A c \in Chats : \A u \in chatRooms'[c] : u \in chatRooms[c] \/ u = Owner[s]
    <3>1. chatRooms \in [Chats -> SUBSET Users]
      BY DEF TypeOK
    <3>2. \/ chatRooms' = chatRooms
          \/ chatRooms' = [chatRooms EXCEPT ![d] = @ \ {Owner[s]}]
          \/ chatRooms' = [chatRooms EXCEPT ![d] = @ \cup {Owner[s]}]
      BY <1>5, <2>1, RoomGrows
    <3> QED
      BY <3>1, <3>2
  <2> QED
    BY <1>2, <2>1, <2>2, <2>3, <2>4 DEF Wired
<1>6. ASSUME NEW t \in Tasks, NEW s \in Sockets, NEW op \in {"join", "leave"},
             NEW c \in Chats, Emit(t, s, op, c)
      PROVE  UNCHANGED <<joined, chatRooms, link>>
  BY <1>6 DEF Emit, tables
<1>7. Storing => UNCHANGED <<joined, chatRooms, link>>
  BY DEF Storing, InsertMessage, DeleteChat, NotifyNewMessage, tables
<1>8. UNCHANGED vars => UNCHANGED <<joined, chatRooms, link>>
  BY DEF vars, tables
<1> QED
  BY <1>3, <1>4, <1>5, <1>6, <1>7, <1>8, NextCases

\* A user with one socket: no other socket of theirs lists or unlists them.
LEMMA ListedStep ==
  ASSUME TypeOK, TypeOK', Wired, SoleSocketListed, [Next]_vars
  PROVE  SoleSocketListed'
<1> SUFFICES ASSUME NEW s \in Sockets, NEW c \in Chats, link'[s] = "up", Sole(s)'
             PROVE  Owner[s] \in chatRooms'[c] <=> <<s, c>> \in joined'
  BY DEF SoleSocketListed
<1>1. Sole(s)
  BY LinkGrows DEF Sole
<1>2. link[s] = "up" => (Owner[s] \in chatRooms[c] <=> <<s, c>> \in joined)
  BY <1>1 DEF SoleSocketListed
<1>3. CASE UNCHANGED <<joined, chatRooms, link>>
  BY <1>2, <1>3
<1>4. ASSUME NEW x \in Sockets, Connection(x)
      PROVE  Owner[s] \in chatRooms'[c] <=> <<s, c>> \in joined'
  <2>1. CASE Connect(x) /\ UNCHANGED <<joined, chatRooms>>
    <3>1. CASE x = s
      <4>1. link[s] = "none"
        BY <2>1, <3>1 DEF Connect
      <4>2. Owner[s] \notin chatRooms[c]
        BY <1>1, <4>1 DEF Sole, Wired
      <4>3. <<s, c>> \notin joined
        BY <4>1 DEF Wired
      <4> QED
        BY <2>1, <4>2, <4>3
    <3>2. CASE x # s
      BY <1>2, <1>4, <2>1, <3>2, ConnectionKeeps
    <3> QED
      BY <3>1, <3>2
  <2>2. CASE /\ joined' = {j \in joined : j[1] # x}
             /\ link[x] = "up" /\ link'[x] = "down"
             /\ \/ chatRooms' = chatRooms
                \/ chatRooms' = [d \in Chats |-> chatRooms[d] \ {Owner[x]}]
    <3>1. x # s
      BY <2>2
    <3>2. Owner[x] # Owner[s] /\ link[s] = "up"
      BY <1>4, <2>2, <3>1, ConnectionKeeps DEF Sole
    <3> QED
      BY <1>2, <2>2, <3>1, <3>2
  <2> QED
    BY <1>3, <1>4, <2>1, <2>2, ConnectionKeeps
<1>5. ASSUME NEW t \in Tasks, Handler(t)
      PROVE  Owner[s] \in chatRooms'[c] <=> <<s, c>> \in joined'
  <2>1. PICK x \in Sockets, d \in Chats : x = task[t].sock /\ d = task[t].chat
    BY <1>5, HandlerKeeps
  <2>2. link[x] # "none" /\ link' = link
    BY <1>5, <2>1, HandlerKeeps DEF Wired
  <2>3. x # s => Owner[x] # Owner[s]
    BY <1>1, <2>2 DEF Sole
  <2>4. chatRooms \in [Chats -> SUBSET Users]
    BY DEF TypeOK
  <2>5. CASE UNCHANGED <<joined, chatRooms>>
    BY <1>2, <2>2, <2>5
  <2>6. CASE /\ joined' = joined \ {<<x, d>>}
             /\ chatRooms' = [chatRooms EXCEPT ![d] = @ \ {Owner[x]}]
    BY <1>2, <2>2, <2>3, <2>4, <2>6
  <2>7. CASE /\ joined' = IF link[x] = "up" THEN joined \cup {<<x, d>>} ELSE joined
             /\ chatRooms' = [chatRooms EXCEPT ![d] = @ \cup {Owner[x]}]
    BY <1>2, <2>2, <2>3, <2>4, <2>7
  <2> QED
    BY <1>5, <2>1, <2>5, <2>6, <2>7, RoomGrows
<1>6. ASSUME NEW t \in Tasks, NEW x \in Sockets, NEW op \in {"join", "leave"},
             NEW d \in Chats, Emit(t, x, op, d)
      PROVE  UNCHANGED <<joined, chatRooms, link>>
  BY <1>6 DEF Emit, tables
<1>7. Storing => UNCHANGED <<joined, chatRooms, link>>
  BY DEF Storing, InsertMessage, DeleteChat, NotifyNewMessage, tables
<1>8. UNCHANGED vars => UNCHANGED <<joined, chatRooms, link>>
  BY DEF vars, tables
<1> QED
  BY <1>3, <1>4, <1>5, <1>6, <1>7, <1>8, NextCases

\* A message of the log is older than the one inserted next.
LEMMA StoredFinite ==
  ASSUME TypeOK, NEW c \in Chats
  PROVE  IsFiniteSet(Stored(c)) /\ Cardinality(Stored(c)) \in Nat
<1>1. DOMAIN log = 1 .. Len(log) /\ Len(log) \in Nat
  BY DEF TypeOK
<1>2. IsFiniteSet(DOMAIN log)
  BY <1>1, FS_Interval
<1>3. Stored(c) \subseteq DOMAIN log
  BY DEF Stored
<1> QED
  BY <1>2, <1>3, FS_Subset, FS_CardinalityType

\* A chat that fits into one page is on that page.
LEMMA WholePage ==
  ASSUME TypeOK, NEW c \in Chats, Cardinality(Stored(c)) <= PageSize
  PROVE  FirstPage(c) = Stored(c)
<1>1. ASSUME NEW m \in Stored(c)
      PROVE  Cardinality({x \in Stored(c) : x <= m}) <= PageSize
  <2>1. PICK older : older = {x \in Stored(c) : x <= m}
    OBVIOUS
  <2>2. older \subseteq Stored(c)
    BY <2>1
  <2>3. Cardinality(older) \in Nat /\ Cardinality(older) <= Cardinality(Stored(c))
    BY <2>2, StoredFinite, FS_Subset, FS_CardinalityType
  <2>4. PageSize \in Nat /\ Cardinality(Stored(c)) \in Nat
    BY StoredFinite, GatewayAssumption
  <2>5. Cardinality(older) <= PageSize
    BY <2>3, <2>4
  <2> QED
    BY <2>1, <2>5
<1> QED
  BY <1>1 DEF FirstPage

\* Nobody else has sent a message about the pair before, if nobody has after.
LEMMA AloneBefore ==
  ASSUME TypeOK, [Next]_vars, NEW t \in Tasks, ~At(t, "notSent"), Alone(t)'
  PROVE  Alone(t)
<1>1. \A x \in Tasks : ~At(x, "notSent") =>
         /\ ~(At(x, "notSent"))'
         /\ task'[x].sock = task[x].sock /\ task'[x].chat = task[x].chat
  BY SentStays
<1>2. \A x \in Tasks \ {t} : (At(x, "notSent"))'
         \/ <<task'[x].sock, task'[x].chat>> # <<task'[t].sock, task'[t].chat>>
  BY DEF Alone
<1> QED
  BY <1>1, <1>2 DEF Alone

\* Only joinChat waits past its guard.
LEMMA OnlyJoins ==
  ASSUME TypeOK, NEW t \in Tasks, task[t].pc \in {"loadChat", "fetchPage", "ack"}
  PROVE  task[t].op = "join"
  BY DEF TypeOK, TaskRecords, NotSent

\* Connections: a socket that closes leaves the room with its screen.
LEMMA InformedConnection ==
  ASSUME TypeOK, TypeOK', Wired, Informed, [Next]_vars, NEW s \in Sockets, Connection(s)
  PROVE  Informed'
<1> SUFFICES ASSUME NEW t \in Tasks PROVE InformedOf(t)'
  BY DEF Informed
<1>1. UNCHANGED <<task, live, log, unsent>>
  BY ConnectionKeeps
<1>2. Alone(t)' => Alone(t)
  BY <1>1 DEF Alone, At
<1>3. \A c \in Chats : Stored(c)' = Stored(c)
  BY <1>1 DEF Stored
<1>4. joined' \subseteq joined /\ \A j \in joined' : screen'[j[1]] = screen[j[1]]
  BY ConnectionKeeps DEF TypeOK
<1>5. ~At(t, "notSent") => task[t].sock \in Sockets /\ task[t].chat \in Chats
  BY SentType
<1>6. CASE At(t, "notSent")
  BY <1>1, <1>6 DEF InformedOf, At
<1>7. CASE ~At(t, "notSent")
  <2>1. PICK x \in Sockets, c \in Chats : x = task[t].sock /\ c = task[t].chat
    BY <1>5, <1>7
  <2>2. <<x, c>> \in joined' => <<x, c>> \in joined /\ screen'[x] = screen[x]
    BY <1>4
  <2>3. Stored(c)' = Stored(c)
    BY <1>3
  <2>4. InformedOf(t)
    BY DEF Informed
  <2> QED
    BY <1>1, <1>2, <2>1, <2>2, <2>3, <2>4 DEF InformedOf
<1> QED
  BY <1>6, <1>7

\* A step that leaves t where it was, in the same room, with the same chat.
LEMMA InformedKept ==
  ASSUME TypeOK, Informed, NEW t \in Tasks,
         task'[t] = task[t], Alone(t)' => Alone(t),
         NEW x \in Sockets, NEW c \in Chats, x = task[t].sock, c = task[t].chat,
         Alone(t)' /\ <<x, c>> \in joined' => <<x, c>> \in joined,
         Stored(c)' = Stored(c), unsent' = unsent, screen[x] \subseteq screen'[x]
  PROVE  InformedOf(t)'
  BY DEF Informed, InformedOf

\* The handlers.  The room is entered before the page is read, and a room that
\* is entered for another message is another room or another socket's.
LEMMA InformedHandler ==
  ASSUME TypeOK, TypeOK', Wired, Informed, [Next]_vars, NEW h \in Tasks, Handler(h)
  PROVE  Informed'
<1> SUFFICES ASSUME NEW t \in Tasks PROVE InformedOf(t)'
  BY DEF Informed
<1>1. /\ UNCHANGED <<link, live, log, unsent>>
      /\ \A x \in Tasks \ {h} : task'[x] = task[x]
      /\ task'[h].sock = task[h].sock /\ task'[h].chat = task[h].chat
      /\ task'[h].op = task[h].op /\ ~At(h, "notSent")
  BY HandlerKeeps
<1>2. \A c \in Chats : Stored(c)' = Stored(c)
  BY <1>1 DEF Stored
<1>3. \A x \in Sockets : screen[x] \subseteq screen'[x]
  <2>1. CASE Acknowledge(h)
    BY <2>1 DEF Acknowledge, TypeOK
  <2>2. CASE screen' = screen
    BY <2>2
  <2> QED
    BY <2>1, <2>2 DEF Handler, GuardPasses, Fails, JoinRoom, FetchPage
<1>4. CASE At(t, "notSent") /\ t # h
  BY <1>1, <1>4 DEF InformedOf, At
<1>5. CASE ~At(t, "notSent")
  <2>1. PICK x \in Sockets, c \in Chats : x = task[t].sock /\ c = task[t].chat
    BY <1>5, SentType
  <2>2. Alone(t)' => Alone(t)
    BY <1>5, AloneBefore
  <2>3. Stored(c)' = Stored(c)
    BY <1>2
  <2>4. CASE t # h
    <3>1. Alone(t) => <<task[h].sock, task[h].chat>> # <<x, c>>
      BY <1>1, <2>1, <2>4 DEF Alone
    <3>2. Alone(t)' /\ <<x, c>> \in joined' => <<x, c>> \in joined
      BY <2>2, <3>1, RoomGrows
    <3> QED
      BY <1>1, <1>3, <2>1, <2>2, <2>3, <2>4, <3>2, InformedKept
  <2>5. CASE t = h
    <3>1. task'[t].sock = x /\ task'[t].chat = c /\ task'[t].op = task[t].op
      BY <1>1, <2>1, <2>5
    <3>2. CASE GuardPasses(h) \/ Fails(h) \/ JoinRoom(h)
      <4>1. task[t].pc \in {"guard", "loadChat", "fetchPage", "ack"}
        BY <2>5, <3>2 DEF GuardPasses, Fails, JoinRoom, At
      <4>2. \/ task' = Step(t, "done") /\ task[t].op # "join"
            \/ task' = Step(t, "failed")
            \/ task' = Step(t, "fetchPage") /\ At(t, "loadChat")
            \/ task' = Step(t, "loadChat") /\ task[t].op = "join"
        BY <2>5, <3>2 DEF GuardPasses, Fails, JoinRoom
      <4>3. At(t, "loadChat") => task[t].op = "join"
        BY OnlyJoins DEF At
      <4>4. task'[t].pc \in {"failed", "fetchPage", "loadChat"} \/ task[t].op # "join"
        BY <4>1, <4>2, <4>3, StepType
      <4> QED
        BY <3>1, <4>4 DEF InformedOf
    <3>3. CASE FetchPage(h)
      <4>1. CASE task' = Step(t, "failed")
        <5>1. task'[t].pc = "failed"
          BY <2>5, <3>3, <4>1, StepType, ZenonT(40) DEF FetchPage, At
        <5> QED
          BY <5>1 DEF InformedOf
      <4>2. CASE task' = [task EXCEPT ![t].pc = "ack", ![t].page = FirstPage(c)]
        <5>1. PICK q \in TaskRecords : q = task[t]
          BY DEF TypeOK
        <5>2. q.pc = "fetchPage"
          BY <2>5, <3>3, <5>1 DEF FetchPage, At
        <5>3. DOMAIN q = {"pc", "op", "sock", "chat", "page"}
          BY <5>2 DEF TaskRecords, NotSent
        <5>4. PICK page : page = FirstPage(c)
          OBVIOUS
        <5>5. PICK n : n = [[q EXCEPT !.pc = "ack"] EXCEPT !.page = page]
          OBVIOUS
        <5>6. task'[t] = n
          BY <4>2, <5>1, <5>4, <5>5 DEF TypeOK
        <5>7. n.page = page
          <6>1. PICK z : z = [q EXCEPT !.pc = "ack"]
            OBVIOUS
          <6>2. "page" \in DOMAIN z
            BY <5>3, <6>1
          <6>3. n = [z EXCEPT !.page = page]
            BY <5>5, <6>1
          <6> QED
            BY <6>2, <6>3
        <5>8. Cardinality(Stored(c)) <= PageSize => task'[t].page = Stored(c)
          BY <5>4, <5>6, <5>7, WholePage
        <5> QED
          BY <2>3, <3>1, <5>8 DEF InformedOf
      <4> QED
        BY <2>1, <2>5, <3>3, <4>1, <4>2 DEF FetchPage
    <3>4. CASE Acknowledge(h)
      <4>1. /\ task' = Step(t, "done") /\ At(t, "ack") /\ joined' = joined
            /\ screen' = IF link[x] = "up"
                         THEN [screen EXCEPT ![x] = @ \cup task[t].page] ELSE screen
        BY <2>1, <2>5, <3>4 DEF Acknowledge, tables
      <4>2. <<x, c>> \in joined => screen'[x] = screen[x] \cup task[t].page
        BY <4>1 DEF Wired, TypeOK
      <4>3. InformedOf(t)
        BY DEF Informed
      <4> QED
        BY <1>1, <2>1, <2>2, <2>3, <3>1, <4>1, <4>2, <4>3 DEF InformedOf, At
    <3> QED
      BY <2>5, <3>2, <3>3, <3>4 DEF Handler
  <2> QED
    BY <2>4, <2>5
<1> QED
  BY <1>1, <1>4, <1>5

\* The store: what is inserted is still to be broadcast, and what is broadcast
\* reaches every socket in the room.
LEMMA InformedStore ==
  ASSUME TypeOK, TypeOK', Informed, Storing
  PROVE  Informed'
<1>1. ASSUME NEW t \in Tasks, At(t, "notSent"), task' = task PROVE InformedOf(t)'
  BY <1>1 DEF InformedOf, At
<1>2. ASSUME task' = task, joined' = joined, NEW t \in Tasks, ~At(t, "notSent"),
             NEW x \in Sockets, NEW c \in Chats, x = task[t].sock, c = task[t].chat,
             Cardinality(Stored(c)') <= PageSize => Cardinality(Stored(c)) <= PageSize,
             \A m \in Stored(c)' :
                \/ m \in unsent'
                \/ /\ m \in Stored(c)
                   /\ m \in unsent \cup screen[x] /\ <<x, c>> \in joined
                         => m \in unsent' \cup screen'[x]
      PROVE  InformedOf(t)'
  <2>1. InformedOf(t)
    BY DEF Informed
  <2>2. Alone(t)' <=> Alone(t)
    BY <1>2 DEF Alone, At
  <2> SUFFICES ASSUME /\ task[t].pc \in {"ack", "done"} /\ task[t].op = "join"
                      /\ Alone(t) /\ <<x, c>> \in joined
                      /\ Cardinality(Stored(c)') <= PageSize,
                      NEW m \in Stored(c)'
               PROVE  m \in screen'[x] \cup unsent' \cup task[t].page
    BY <1>2, <2>2 DEF InformedOf
  <2>3. \A y \in Stored(c) : y \in screen[x] \cup unsent \cup task[t].page
    BY <1>2, <2>1 DEF InformedOf
  <2> QED
    BY <1>2, <2>3
<1>3. CASE \E c \in Chats : InsertMessage(c)
  <2>1. PICK d \in Chats : InsertMessage(d)
    BY <1>3
  <2>2. /\ log' = Append(log, d) /\ log \in Seq(Chats) /\ Len(log) \in Nat
        /\ unsent' = unsent \cup {Len(log) + 1} /\ live' = live /\ screen' = screen
        /\ task' = task /\ joined' = joined
    BY <2>1 DEF InsertMessage, tables, TypeOK
  <2>3. /\ DOMAIN log' = DOMAIN log \cup {Len(log) + 1}
        /\ \A m \in DOMAIN log : log'[m] = log[m]
    BY <2>2
  <2>4. ASSUME NEW c \in Chats
        PROVE  /\ Stored(c) \subseteq Stored(c)'
               /\ Stored(c)' \subseteq Stored(c) \cup {Len(log) + 1}
    BY <2>2, <2>3 DEF Stored
  <2>5. ASSUME NEW c \in Chats, Cardinality(Stored(c)') <= PageSize
        PROVE  Cardinality(Stored(c)) <= PageSize
    <3>1. IsFiniteSet(Stored(c)') /\ Cardinality(Stored(c)') \in Nat
      <4>1. DOMAIN log' = 1 .. Len(log') /\ Len(log') \in Nat
        BY DEF TypeOK
      <4>2. Stored(c)' \subseteq DOMAIN log'
        BY DEF Stored
      <4>3. IsFiniteSet(DOMAIN log')
        BY <4>1, FS_Interval
      <4> QED
        BY <4>2, <4>3, FS_Subset, FS_CardinalityType
    <3>2. Cardinality(Stored(c)) <= Cardinality(Stored(c)')
      BY <2>4, <3>1, FS_Subset
    <3> QED
      BY <2>5, <3>1, <3>2, StoredFinite, GatewayAssumption
  <2>6. ASSUME NEW t \in Tasks PROVE InformedOf(t)'
    <3>1. CASE At(t, "notSent")
      BY <1>1, <2>2, <3>1
    <3>2. CASE ~At(t, "notSent")
      <4>1. PICK x \in Sockets, c \in Chats : x = task[t].sock /\ c = task[t].chat
        BY <3>2, SentType
      <4> QED
        BY <1>2, <2>2, <2>4, <2>5, <3>2, <4>1
    <3> QED
      BY <3>1, <3>2
  <2> QED
    BY <2>6 DEF Informed
<1>4. CASE \E c \in Chats : DeleteChat(c)
  <2>1. PICK d \in Chats : DeleteChat(d)
    BY <1>4
  <2>2. live' = live \ {d} /\ UNCHANGED <<task, joined, log, unsent, screen>>
    BY <2>1 DEF DeleteChat, tables
  <2>3. ASSUME NEW t \in Tasks PROVE InformedOf(t)'
    <3>1. CASE At(t, "notSent")
      BY <1>1, <2>2, <3>1
    <3>2. CASE ~At(t, "notSent")
      <4>1. PICK x \in Sockets, c \in Chats : x = task[t].sock /\ c = task[t].chat
        BY <3>2, SentType
      <4>2. Stored(c)' = {} \/ Stored(c)' = Stored(c)
        BY <2>2 DEF Stored
      <4>3. CASE Stored(c)' = {}
        BY <2>2, <4>1, <4>3 DEF InformedOf
      <4>4. CASE Stored(c)' = Stored(c)
        BY <1>2, <2>2, <3>2, <4>1, <4>4
      <4> QED
        BY <4>2, <4>3, <4>4
    <3> QED
      BY <3>1, <3>2
  <2> QED
    BY <2>3 DEF Informed
<1>5. CASE \E m \in MsgIds : NotifyNewMessage(m)
  <2>1. PICK m \in MsgIds : NotifyNewMessage(m)
    BY <1>5
  <2>2. /\ unsent' = unsent \ {m} /\ UNCHANGED <<task, joined, log, live>>
        /\ screen' = [s \in Sockets |-> IF <<s, log[m]>> \in joined
                                        THEN screen[s] \cup {m} ELSE screen[s]]
    BY <2>1 DEF NotifyNewMessage, tables
  <2>3. ASSUME NEW t \in Tasks PROVE InformedOf(t)'
    <3>1. CASE At(t, "notSent")
      BY <1>1, <2>2, <3>1
    <3>2. CASE ~At(t, "notSent")
      <4>1. PICK x \in Sockets, c \in Chats : x = task[t].sock /\ c = task[t].chat
        BY <3>2, SentType
      <4>2. Stored(c)' = Stored(c) /\ \A y \in Stored(c) : log[y] = c
        BY <2>2 DEF Stored
      <4>3. ASSUME NEW y \in Stored(c), y \in unsent \cup screen[x], <<x, c>> \in joined
            PROVE  y \in unsent' \cup screen'[x]
        BY <2>2, <4>2, <4>3
      <4> QED
        BY <1>2, <2>2, <3>2, <4>1, <4>2, <4>3
    <3> QED
      BY <3>1, <3>2
  <2> QED
    BY <2>3 DEF Informed
<1> QED
  BY <1>3, <1>4, <1>5 DEF Storing

\* No step loses a message for a socket that has the page and is joining.
LEMMA InformedStep ==
  ASSUME TypeOK, TypeOK', Wired, Informed, [Next]_vars
  PROVE  Informed'
<1>1. ASSUME NEW h \in Tasks, NEW s \in Sockets, NEW op \in {"join", "leave"},
             NEW d \in Chats, Emit(h, s, op, d)
      PROVE  Informed'
  <2> SUFFICES ASSUME NEW t \in Tasks PROVE InformedOf(t)'
    BY DEF Informed
  <2>1. /\ UNCHANGED <<joined, live, log, unsent, screen>> /\ task[h] = NotSent
        /\ \A x \in Tasks \ {h} : task'[x] = task[x]
    BY <1>1 DEF Emit, tables, store, TypeOK
  <2>2. task'[h].pc = "guard"
    <3>1. PICK n : n = [pc |-> "guard", op |-> op, sock |-> s, chat |-> d, page |-> {}]
      OBVIOUS
    <3>2. task' = [task EXCEPT ![h] = n] /\ n.pc = "guard"
      BY <1>1, <3>1 DEF Emit
    <3> QED
      BY <3>2 DEF TypeOK
  <2>3. CASE t = h
    BY <2>2, <2>3 DEF InformedOf
  <2>4. CASE t # h /\ At(t, "notSent")
    BY <2>1, <2>4 DEF InformedOf, At
  <2>5. CASE t # h /\ ~At(t, "notSent")
    <3>1. PICK x \in Sockets, c \in Chats : x = task[t].sock /\ c = task[t].chat
      BY <2>5, SentType
    <3>2. Stored(c)' = Stored(c)
      BY <2>1 DEF Stored
    <3>3. Alone(t)' => Alone(t)
      BY <2>5, AloneBefore
    <3> QED
      BY <2>1, <2>5, <3>1, <3>2, <3>3, InformedKept
  <2> QED
    BY <2>3, <2>4, <2>5
<1>2. CASE UNCHANGED vars
  BY <1>2 DEF vars, tables, store, Informed, InformedOf, Alone, At, Stored
<1> QED
  BY <1>1, <1>2, InformedConnection, InformedHandler, InformedStore, NextCases

-----------------------------------------------------------------------------
\* Whatever is awaited and overtaken, handleConnection and handleDisconnect keep
\* their tables: every socket that is up and greeted is registered under its
\* user, and the administrators' room holds exactly their greeted sockets.
THEOREM TablesHold == Spec => []ConnectionTables
<1>1. Init => ConnectionTables
  BY DEF Init, ConnectionTables
<1>2. TypeOK /\ ConnectionTables /\ [Next]_vars => ConnectionTables'
  BY TablesStep
<1> QED
  BY <1>1, <1>2, GatewayTypes, PTL DEF Spec

\* Wired is an invariant.
LEMMA WiredHolds == Spec => []Wired
<1>1. Init => Wired
  BY DEF Init, Wired, At, NotSent
<1>2. TypeOK /\ TypeOK' /\ Wired /\ [Next]_vars => Wired'
  BY WiredStep
<1> QED
  BY <1>1, <1>2, GatewayTypes, PTL DEF Spec

\* getActiveUsers is right of a user who has made one socket only: they are
\* listed in a chat exactly when that socket is in its room.
THEOREM ListedHolds == Spec => []SoleSocketListed
<1>1. Init => SoleSocketListed
  BY DEF Init, SoleSocketListed
<1>2. TypeOK /\ TypeOK' /\ Wired /\ SoleSocketListed /\ [Next]_vars => SoleSocketListed'
  BY ListedStep
<1> QED
  BY <1>1, <1>2, GatewayTypes, WiredHolds, PTL DEF Spec

\* No message falls between the page joinChat answers with and the broadcasts of
\* the room, for any number of messages up to a page, any interleaving of other
\* sockets' messages with the inserts and broadcasts, and any page size.
THEOREM NothingMissed == Spec => []NoMessageMissed
<1>1. Init => Informed
  BY DEF Init, Informed, InformedOf, NotSent
<1>2. TypeOK /\ TypeOK' /\ Wired /\ Informed /\ [Next]_vars => Informed'
  BY InformedStep
<1>3. TypeOK /\ Informed => NoMessageMissed
  <2> SUFFICES ASSUME TypeOK, Informed, NEW t \in Tasks, At(t, "done")
               PROVE  /\ task[t].op = "join" /\ Alone(t)
                      /\ <<task[t].sock, task[t].chat>> \in joined
                      /\ Cardinality(Stored(task[t].chat)) <= PageSize
                      => Stored(task[t].chat) \subseteq screen[task[t].sock] \cup unsent
    BY DEF NoMessageMissed
  <2>1. task[t].page = {}
    BY SentType DEF At
  <2>2. InformedOf(t)
    BY DEF Informed
  <2> QED
    BY <2>1, <2>2 DEF InformedOf, At
<1> QED
  BY <1>1, <1>2, <1>3, GatewayTypes, WiredHolds, PTL DEF Spec
=============================================================================
