------------------------------ MODULE Accounts ------------------------------
(***************************************************************************)
(* src/users and src/profiles: accounts and the profiles that go with      *)
(* them.  A user and his profile are inserted by queries of their own; the *)
(* users of a batch all at once, and then their profiles one by one.  When *)
(* the connection breaks, a batch is begun again from its first query.     *)
(*                                                                         *)
(* Passwords, and what a profile says, are left out.                       *)
(***************************************************************************)
EXTENDS Backend

CONSTANTS
    UserIds,     \* the uuids of users
    Emails,
    MaxRetries   \* attempts at a batch, the first included: 3

ASSUME AccountsAssumption == MaxRetries \in Nat \ {0}

VARIABLES
    users,      \* User
    profiles,   \* Profile: whose there are
    userReq,
    usersGone,  \* ids of deleted users
    bare        \* users with a reason to have no profile
acTables == <<users, profiles, usersGone>>
acVars == <<acTables, userReq, bare>>

\* CLIENT stands for every role but ADMIN.
Roles == {"ADMIN", "CLIENT"}
User == [email : Emails, role : Roles]
CreateUserDto == [role : Roles, profile : BOOLEAN]
UpdateUserDto == [email : Emails \cup {Null}, role : Roles \cup {Null},
                  profile : BOOLEAN]

\* `dtos` are to be inserted, by email, by an administrator or not, in one
\* insert or in a batch; `todo` are the users, or the one to update, that are
\* to have their profile; `attempt` counts the attempts at a batch.
UserIdle == [pc |-> "idle", dtos |-> NoRows, asAdmin |-> FALSE, batch |-> FALSE,
             attempt |-> 1, todo |-> {}, dto |-> Null]
UserAt(r, pc) == userReq[r].pc = pc
UserGoto(r, q) == userReq' = Step(userReq, r, q)
UserStart(r, q) ==
    /\ userReq[r] = UserIdle
    /\ UserGoto(r, q)
    /\ UNCHANGED <<acTables, bare>>

UsersWith(emails) == {u \in DOMAIN users : users[u].email \in emails}

ACInit ==
    /\ users = NoRows /\ profiles = {} /\ usersGone = {} /\ bare = {}
    /\ userReq = [r \in Reqs |-> UserIdle]

-----------------------------------------------------------------------------
(* create, createAsAdmin, createMany, createManyAsAdmin *)

StartCreation(r, dtos, asAdmin, batch) ==
    UserStart(r, [UserIdle EXCEPT !.pc = "find", !.dtos = dtos,
                    !.asAdmin = asAdmin, !.batch = batch])
CreateUser(r, e, dto) == StartCreation(r, [x \in {e} |-> dto], FALSE, FALSE)
CreateAsAdmin(r, e, dto) == StartCreation(r, [x \in {e} |-> dto], TRUE, FALSE)
CreateMany(r, dtos) == StartCreation(r, dtos, FALSE, TRUE)
CreateManyAsAdmin(r, dtos) == StartCreation(r, dtos, TRUE, TRUE)

\* None of the emails may be in use.
FindExisting(r) ==
    LET q == userReq[r] IN
    /\ UserAt(r, "find")
    /\ UserGoto(r, IF UsersWith(DOMAIN q.dtos) = {} THEN [q EXCEPT !.pc = "insert"] ELSE UserIdle)
    /\ UNCHANGED <<acTables, bare>>

\* One is made up where none is given, but not for an administrator, nor by one.
ProfileDue_GivenOnly(asAdmin, dto) == dto.profile
ProfileDue(asAdmin, dto) == dto.profile \/ (~asAdmin /\ dto.role # "ADMIN")
MayBeBare(asAdmin, dto) == ~dto.profile /\ (asAdmin \/ dto.role = "ADMIN")

\* How r goes on after a query failed: of a batch the server lost the
\* connection of, with another attempt.
Abandon(r) ==
    LET q == userReq[r] IN
    \/ UserGoto(r, UserIdle)
    \/ /\ q.batch /\ ~q.asAdmin /\ q.attempt < MaxRetries
       /\ UserGoto(r, [q EXCEPT !.pc = "find", !.attempt = @ + 1, !.todo = {}])

\* The insert, of all rows or none.  Its answer may be lost.
InsertUsers(r) ==
    LET q == userReq[r] IN
    /\ UserAt(r, "insert")
    /\ \E ids \in Injection(DOMAIN q.dtos, UserIds \ (DOMAIN users \cup usersGone)) :
         LET new == [u \in Range(ids) |-> CHOOSE e \in DOMAIN ids : ids[e] = u]
             due == {u \in Range(ids) : ProfileDue(q.asAdmin, q.dtos[new[u]])}
             excused == {u \in Range(ids) : MayBeBare(q.asAdmin, q.dtos[new[u]])} IN
         IF UsersWith(DOMAIN q.dtos) # {}
         THEN UserGoto(r, UserIdle) /\ UNCHANGED <<users, bare>>
         ELSE /\ users' = [u \in DOMAIN users \cup DOMAIN new |->
                             IF u \in DOMAIN users THEN users[u]
                             ELSE [email |-> new[u], role |-> q.dtos[new[u]].role]]
              /\ \/ UserGoto(r, [q EXCEPT !.pc = IF q.batch THEN "readBack" ELSE "profiles",
                                          !.todo = due])
                      /\ bare' = bare \cup excused
                 \/ Faults /\ Abandon(r) /\ bare' = bare \cup DOMAIN new
    /\ UNCHANGED <<profiles, usersGone>>

\* The users of a batch are whoever has their emails now.
ReadBack(r) ==
    LET q == userReq[r]
        due == {u \in UsersWith(DOMAIN q.dtos) : ProfileDue(q.asAdmin, q.dtos[users[u].email])} IN
    /\ UserAt(r, "readBack")
    /\ UserGoto(r, [q EXCEPT !.pc = "profiles", !.todo = due])
    /\ bare' = bare \cup (q.todo \ due)
    /\ UNCHANGED acTables

\* ProfilesService.create: a user that is gone, or has a profile, rejects it.
InsertProfile(r) ==
    LET q == userReq[r] IN
    /\ UserAt(r, "profiles")
    /\ \E u \in q.todo :
         IF u \in DOMAIN users \ profiles
         THEN /\ profiles' = profiles \cup {u} /\ bare' = bare \ {u}
              /\ UserGoto(r, [q EXCEPT !.todo = @ \ {u}])
         ELSE /\ UserGoto(r, UserIdle)
              /\ bare' = bare \cup (q.todo \ profiles) /\ UNCHANGED profiles
    /\ UNCHANGED <<users, usersGone>>

UserAnswer(r) ==
    /\ UserAt(r, "profiles") /\ userReq[r].todo = {}
    /\ UserGoto(r, UserIdle)
    /\ UNCHANGED <<acTables, bare>>

-----------------------------------------------------------------------------
(* update, remove; the profile a user makes himself, and its removal *)

UpdateUser(r, u, dto) ==
    /\ u \in DOMAIN users
    /\ UserStart(r, [UserIdle EXCEPT !.pc = "update", !.todo = {u}, !.dto = dto])

\* A row that is gone, or an email that another one has, rejects it.
WriteUser(r) ==
    LET q == userReq[r] IN
    /\ UserAt(r, "update")
    /\ \E u \in q.todo :
         LET row == [email |-> IF q.dto.email = Null THEN users[u].email ELSE q.dto.email,
                     role |-> IF q.dto.role = Null THEN users[u].role ELSE q.dto.role]
         IN  IF u \in DOMAIN users /\ UsersWith({q.dto.email}) \subseteq {u}
             THEN /\ users' = With(users, u, row)
                  /\ UserGoto(r, IF q.dto.profile THEN [q EXCEPT !.pc = "findProfile"]
                                 ELSE UserIdle)
             ELSE UserGoto(r, UserIdle) /\ UNCHANGED users
    /\ UNCHANGED <<profiles, usersGone, bare>>

\* If there is a profile it is updated, in a transaction.
FindProfile(r) ==
    LET q == userReq[r] IN
    /\ UserAt(r, "findProfile")
    /\ UserGoto(r, IF q.todo \subseteq profiles THEN UserIdle
                   ELSE [q EXCEPT !.pc = "profiles"])
    /\ UNCHANGED <<acTables, bare>>

\* The profile goes with the user.
RemoveUser(u) ==
    /\ u \in DOMAIN users
    /\ users' = Without(users, {u}) /\ profiles' = profiles \ {u}
    /\ usersGone' = usersGone \cup {u} /\ bare' = bare \ {u}
    /\ UNCHANGED userReq

CreateProfile(u) ==
    /\ u \in DOMAIN users \ profiles
    /\ profiles' = profiles \cup {u} /\ bare' = bare \ {u}
    /\ UNCHANGED <<users, usersGone, userReq>>

RemoveProfile(u) ==
    /\ u \in profiles
    /\ profiles' = profiles \ {u} /\ bare' = bare \cup {u}
    /\ UNCHANGED <<users, usersGone, userReq>>

UserReject(r) ==
    LET q == userReq[r] IN
    /\ Faults /\ q # UserIdle
    /\ Abandon(r)
    /\ bare' = bare \cup (q.todo \ profiles)
    /\ UNCHANGED acTables

\* What the routes start.
UsersController(r) ==
    \/ \E e \in Emails, dto \in CreateUserDto :
         CreateUser(r, e, dto) \/ CreateAsAdmin(r, e, dto)
    \/ \E es \in SUBSET Emails : \E dtos \in [es -> CreateUserDto] :
         CreateMany(r, dtos) \/ CreateManyAsAdmin(r, dtos)
    \/ \E u \in UserIds, dto \in UpdateUserDto : UpdateUser(r, u, dto)
ProfilesController(u) == CreateProfile(u) \/ RemoveProfile(u)

ACNext ==
    \/ \E r \in Reqs :
         \/ UsersController(r)
         \/ FindExisting(r) \/ InsertUsers(r) \/ ReadBack(r)
         \/ InsertProfile(r) \/ UserAnswer(r)
         \/ WriteUser(r) \/ FindProfile(r) \/ UserReject(r)
    \/ \E u \in UserIds : RemoveUser(u) \/ ProfilesController(u)

ACSpec == ACInit /\ [][ACNext]_acVars

-----------------------------------------------------------------------------

\* Types; an email is one user's, a profile is a user's.
ACTypeOK ==
    /\ users \in Table(UserIds \ usersGone, User)
    /\ \A u, v \in DOMAIN users : users[u].email = users[v].email => u = v
    /\ profiles \subseteq DOMAIN users /\ usersGone \subseteq UserIds
    /\ bare \subseteq UserIds
    /\ \A r \in Reqs :
         /\ userReq[r].pc \in {"idle", "find", "insert", "readBack", "profiles",
                               "update", "findProfile"}
         /\ userReq[r].todo \subseteq UserIds /\ userReq[r].attempt \in 1..MaxRetries

Due(u) == \E r \in Reqs : userReq[r].pc \in {"readBack", "profiles"} /\ u \in userReq[r].todo

\* A user has his profile when the request that makes him is through with him,
\* however creations, batches and their repetitions, updates and deletions
\* overlap: but for administrators and users made by one, for whom none was
\* given, those whose profile was deleted since, and those whom a request that
\* failed, or found the user of a batch under another email, has left without.
ProfilesFollow == \A u \in DOMAIN users \ (profiles \cup bare) : Due(u)
=============================================================================
