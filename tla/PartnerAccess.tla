--------------------------- MODULE PartnerAccess ---------------------------
(***************************************************************************)
(* Who is logged on, and for which partner organization:                   *)
(* src/auth/auth.service.ts, src/partner-organizations and                 *)
(* src/partner-members over the tables User, RefreshToken,                 *)
(* PartnerOrganization and PartnerMember.                                  *)
(*                                                                         *)
(* As in ChatService a request is a record whose pc names the next awaited *)
(* query, and the action that starts a request does its first read.  An    *)
(* operator with an underscore is a mutant.                                *)
(*                                                                         *)
(* An organization is named by its owner (ownerId is unique, is never      *)
(* changed, and organizations are never deleted).  A refresh token is its  *)
(* user and the second it was signed in: these two determine the string.   *)
(* Lifetimes (15 minutes, 7 days) are far longer than a request; that one  *)
(* has passed is an action of its own.                                     *)
(***************************************************************************)
EXTENDS Integers, FiniteSets, Functions

CONSTANTS
    Clients,     \* accounts of role CLIENT (or ADMIN)
    Partners,    \* accounts of role PARTNER that exist from the start
    Invitees,    \* ids for the partner accounts that invitations create
    Null,
    Reqs,        \* requests that may be in flight together
    MaxTime,     \* bound: seconds that pass
    MaxAccess,   \* bound: access tokens held at a time
    Faults       \* may a query fail?

Users == Clients \cup Partners \cup Invitees

ASSUME AccessAssumption ==
    /\ Clients \cap (Partners \cup Invitees) = {}
    /\ Partners \cap Invitees = {}
    /\ Null \notin Users
    /\ MaxTime \in Nat /\ MaxAccess \in Nat /\ Faults \in BOOLEAN
    /\ IsFiniteSet(Reqs)

VARIABLES
    users,    \* the ids in the User table
    deleted,  \* ids that were there; ids are not reused
    orgs,     \* PartnerOrganization: isActive, by owner
    members,  \* PartnerMember with its permissions, by user
    tokens,   \* RefreshToken
    now,      \* the clock, in seconds
    req,      \* the requests in flight
    issued,   \* the refresh tokens clients were given
    access    \* the access tokens clients hold: the claims they carry

tables == <<users, deleted, orgs, members>>
vars == <<tables, tokens, now, req, issued, access>>

Tokens == [user : Users, iat : 0 .. MaxTime]
NoToken == [user |-> Null, iat |-> 0]
MemberRoles == {"MANAGER", "MEMBER"}
PartnerRoles == MemberRoles \cup {"OWNER"}
MemberRow == [org : Users, role : MemberRoles, view : BOOLEAN]
Claims == [user : Users, org : Users \cup {Null},
           role : PartnerRoles \cup {"none"}, view : BOOLEAN]

\* A request: `old` is the token presented to refresh, `fresh` the one signed;
\* org, role and view are the claims to sign, or the membership to write;
\* `checked` is the organization whose isActive is read.
Idle == [pc |-> "idle", user |-> Null, old |-> NoToken, fresh |-> NoToken,
         org |-> Null, role |-> "none", view |-> FALSE, checked |-> Null]
At(r, pc) == req[r].pc = pc
Goto(r, q) == req' = [req EXCEPT ![r] = q]
Await(r, pc) == req' = [req EXCEPT ![r].pc = pc]
Finish(r) == Goto(r, Idle)

\* Steps of login and refresh, after the user or the token has been found.
Resolving == {"findMember", "findOrg", "createOrg", "checkOwned",
              "checkMember", "checkActive"}
Admitted == {"cleanup", "sign", "store"}
Authenticating == Resolving \cup Admitted
Managing == {"inviteUser", "inviteMember", "deleteUser", "setRole", "setView"}

TokensOf(u) == {t \in tokens : t.user = u}

Init ==
    /\ users = Clients \cup Partners /\ deleted = {}
    /\ orgs = [u \in {} |-> TRUE] /\ members = [u \in {} |-> Null]
    /\ tokens = {} /\ now = 0
    /\ req = [r \in Reqs |-> Idle]
    /\ issued = {} /\ access = {}

-----------------------------------------------------------------------------
(* login and refreshAccessToken *)

\* What both do with a user they have recognised.
Recognise(u, t) ==
    [Idle EXCEPT !.user = u, !.old = t,
                 !.pc = IF u \in Clients THEN "cleanup" ELSE "findMember"]

\* An exception: login passes it on; refresh deletes the token presented.
Fail(r) ==
    Goto(r, IF req[r].old = NoToken THEN Idle
            ELSE [Idle EXCEPT !.pc = "discard", !.user = req[r].user,
                              !.old = req[r].old])

Login(r, u) ==
    /\ req[r] = Idle
    /\ u \in users
    /\ Goto(r, Recognise(u, NoToken))
    /\ UNCHANGED <<tables, tokens, now, issued, access>>

HasRow_SignatureOnly(t) == TRUE
\* refreshToken.findFirst: the token has not been revoked.
HasRow(t) == t \in tokens

Refresh(r, t) ==
    /\ req[r] = Idle
    /\ t \in issued
    /\ \/ HasRow(t) /\ Goto(r, Recognise(t.user, t))
       \/ /\ ~HasRow(t) \/ now > t.iat    \* revoked, or expired
          /\ Goto(r, [Idle EXCEPT !.pc = "discard", !.user = t.user, !.old = t])
    /\ UNCHANGED <<tables, tokens, now, issued, access>>

\* findByMemberUserId: a membership is where the claims come from.
FindMember(r) ==
    LET u == req[r].user IN
    /\ At(r, "findMember")
    /\ IF u \in DOMAIN members
       THEN Goto(r, [req[r] EXCEPT !.pc = "checkOwned", !.org = members[u].org,
                                   !.role = members[u].role,
                                   !.view = members[u].view])
       ELSE Await(r, "findOrg")
    /\ UNCHANGED <<tables, tokens, now, issued, access>>

\* getOrCreateForOwner
AsOwner(q) == [q EXCEPT !.pc = "checkOwned", !.org = q.user, !.role = "OWNER"]
FindOrg(r) ==
    /\ At(r, "findOrg")
    /\ IF req[r].user \in DOMAIN orgs THEN Goto(r, AsOwner(req[r]))
       ELSE Await(r, "createOrg")
    /\ UNCHANGED <<tables, tokens, now, issued, access>>

\* ownerId is unique and references a user.
CreateOrg(r) ==
    LET u == req[r].user IN
    /\ At(r, "createOrg")
    /\ IF u \in users \ DOMAIN orgs
       THEN /\ orgs' = [o \in DOMAIN orgs \cup {u} |->
                            IF o = u THEN TRUE ELSE orgs[o]]
            /\ Goto(r, AsOwner(req[r]))
       ELSE Fail(r) /\ UNCHANGED orgs
    /\ UNCHANGED <<users, deleted, members, tokens, now, issued, access>>

\* isUserOrgActive: findOrgIdForUser looks for an organization the user owns,
\* then for one he is a member of; then isActive is read.
CheckOwned(r) ==
    /\ At(r, "checkOwned")
    /\ IF req[r].user \in DOMAIN orgs
       THEN Goto(r, [req[r] EXCEPT !.pc = "checkActive",
                                   !.checked = req[r].user])
       ELSE Await(r, "checkMember")
    /\ UNCHANGED <<tables, tokens, now, issued, access>>

CheckMember(r) ==
    LET u == req[r].user IN
    /\ At(r, "checkMember")
    /\ IF u \in DOMAIN members
       THEN Goto(r, [req[r] EXCEPT !.pc = "checkActive",
                                   !.checked = members[u].org])
       ELSE Await(r, "cleanup")
    /\ UNCHANGED <<tables, tokens, now, issued, access>>

MayEnter_LoginOnly(q) == q.old # NoToken \/ orgs[q.checked]
MayEnter(q) == orgs[q.checked]
CheckActive(r) ==
    /\ At(r, "checkActive")
    /\ IF MayEnter(req[r]) THEN Await(r, "cleanup") ELSE Fail(r)
    /\ UNCHANGED <<tables, tokens, now, issued, access>>

\* generateRefreshToken: delete the user's tokens, sign, insert.
Spent_Presented(q) == {q.old}
Spent(q) == TokensOf(q.user)
Cleanup(r) ==
    /\ At(r, "cleanup")
    /\ tokens' = tokens \ Spent(req[r])
    /\ Await(r, "sign")
    /\ UNCHANGED <<tables, now, issued, access>>

Signed_KeepIat(q) == IF q.old = NoToken THEN [user |-> q.user, iat |-> now]
                     ELSE q.old
Signed(q) == [user |-> q.user, iat |-> now]
Sign(r) ==
    /\ At(r, "sign")
    /\ Goto(r, [req[r] EXCEPT !.pc = "store", !.fresh = Signed(req[r])])
    /\ UNCHANGED <<tables, tokens, now, issued, access>>

\* The token's string is unique, and its user must exist.  The request then
\* answers with both tokens.
ClaimsOf_NoOrgOnRefresh(q) ==
    [user |-> q.user, org |-> IF q.old = NoToken THEN q.org ELSE Null,
     role |-> q.role, view |-> q.view]
ClaimsOf(q) == [user |-> q.user, org |-> q.org, role |-> q.role,
                view |-> q.view]
Store(r) ==
    LET q == req[r] IN
    /\ At(r, "store")
    /\ Cardinality(access) < MaxAccess
    /\ IF q.fresh \notin tokens /\ q.user \in users
       THEN /\ tokens' = tokens \cup {q.fresh}
            /\ issued' = issued \cup {q.fresh}
            /\ access' = access \cup {ClaimsOf(q)}
            /\ Finish(r)
       ELSE Fail(r) /\ UNCHANGED <<tokens, issued, access>>
    /\ UNCHANGED <<tables, now>>

\* The catch block of refreshAccessToken.
Discard(r) ==
    /\ At(r, "discard")
    /\ tokens' = tokens \ {req[r].old}
    /\ Finish(r)
    /\ UNCHANGED <<tables, now, issued, access>>

\* revokeRefreshToken
Logout(t) ==
    /\ t \in issued
    /\ tokens' = tokens \ {t}
    /\ UNCHANGED <<tables, now, req, issued, access>>

-----------------------------------------------------------------------------
(* Members and organizations.  Partners act for the organization named in  *)
(* their access token, administrators for any.                             *)

\* The email is not in use.
Invite(r, o, u, role) ==
    /\ req[r] = Idle
    /\ \E a \in access : a.org = o
    /\ u \in Invitees \ (users \cup deleted)
    /\ Goto(r, [Idle EXCEPT !.pc = "inviteUser", !.user = u, !.org = o,
                            !.role = role])
    /\ UNCHANGED <<tables, tokens, now, issued, access>>

\* Two inserts: from the first on the invited user can log in.
InviteUser(r) ==
    LET u == req[r].user IN
    /\ At(r, "inviteUser")
    /\ IF u \notin users \cup deleted
       THEN users' = users \cup {u} /\ Await(r, "inviteMember")
       ELSE Finish(r) /\ UNCHANGED users
    /\ UNCHANGED <<deleted, orgs, members, tokens, now, issued, access>>

Joining(q) == [org |-> q.org, role |-> q.role, view |-> q.view]
InviteMember(r) ==
    LET u == req[r].user IN
    /\ At(r, "inviteMember")
    /\ members' = IF u \in users \ DOMAIN members
                  THEN [m \in DOMAIN members \cup {u} |->
                            IF m = u THEN Joining(req[r]) ELSE members[m]]
                  ELSE members
    /\ Finish(r)
    /\ UNCHANGED <<users, deleted, orgs, tokens, now, issued, access>>

\* An organization removes a member, or an administrator any user: either way
\* the User row is deleted.
Remove(r, u) ==
    /\ req[r] = Idle
    /\ u \in users
    /\ Goto(r, [Idle EXCEPT !.pc = "deleteUser", !.user = u])
    /\ UNCHANGED <<tables, tokens, now, issued, access>>

Cascade_TokensStay(u) == tokens
\* RefreshToken.user and PartnerMember.user: ON DELETE CASCADE.
Cascade(u) == tokens \ TokensOf(u)

\* PartnerOrganization.owner restricts the deletion.
DeleteUser(r) ==
    LET u == req[r].user IN
    /\ At(r, "deleteUser")
    /\ IF u \in users \ DOMAIN orgs
       THEN /\ users' = users \ {u} /\ deleted' = deleted \cup {u}
            /\ members' = [m \in DOMAIN members \ {u} |-> members[m]]
            /\ tokens' = Cascade(u)
       ELSE UNCHANGED <<users, deleted, members, tokens>>
    /\ Finish(r)
    /\ UNCHANGED <<orgs, now, issued, access>>

\* setMemberPermissions and setPermissions: VIEW_STUDENTS.
SetPermissions(r, u, b) ==
    /\ req[r] = Idle
    /\ u \in DOMAIN members
    /\ members[u].role = "MEMBER"
    /\ Goto(r, [Idle EXCEPT !.pc = "setView", !.user = u, !.view = b])
    /\ UNCHANGED <<tables, tokens, now, issued, access>>

UpdateMemberRole(r, u, role) ==
    /\ req[r] = Idle
    /\ u \in DOMAIN members
    /\ Goto(r, [Idle EXCEPT !.pc = "setRole", !.user = u, !.role = role])
    /\ UNCHANGED <<tables, tokens, now, issued, access>>

\* The write fails when the member is gone.
ApplyChange(r) ==
    LET q == req[r] IN
    /\ q.pc \in {"setView", "setRole"}
    /\ members' = IF q.user \notin DOMAIN members THEN members
                  ELSE IF q.pc = "setView"
                       THEN [members EXCEPT ![q.user].view = q.view]
                       ELSE [members EXCEPT ![q.user].role = q.role]
    /\ Finish(r)
    /\ UNCHANGED <<users, deleted, orgs, tokens, now, issued, access>>

\* The row that is looked for first cannot vanish before the update.
SetActive(o, b) ==
    /\ o \in DOMAIN orgs
    /\ orgs' = [orgs EXCEPT ![o] = b]
    /\ UNCHANGED <<users, deleted, members, tokens, now, req, issued, access>>

-----------------------------------------------------------------------------
(* What a partner sees: the users whose students he is shown *)

\* findOrgIdForUser
OrgOf(u) == IF u \in DOMAIN orgs THEN u
            ELSE IF u \in DOMAIN members THEN members[u].org ELSE Null
\* getOrgUserIds
OrgUsers(o) == {o} \cup {m \in DOMAIN members : members[m].org = o}

SeesAll_NeedsRow(u) ==
    u \in DOMAIN members /\ (members[u].role # "MEMBER" \/ members[u].view)
SeesAll(u) == u \in DOMAIN members /\ members[u].role = "MEMBER"
                  => members[u].view
\* resolveVisiblePartnerIds
Visible(u) == IF OrgOf(u) # Null /\ SeesAll(u) THEN OrgUsers(OrgOf(u)) ELSE {u}

-----------------------------------------------------------------------------
(* Time, failures, the specification *)

Tick ==
    /\ now < MaxTime
    /\ now' = now + 1
    /\ UNCHANGED <<tables, tokens, req, issued, access>>

ExpireAccess(a) ==
    /\ a \in access
    /\ access' = access \ {a}
    /\ UNCHANGED <<tables, tokens, now, req, issued>>

\* A query fails (signing is not one).
Reject(r) ==
    /\ Faults
    /\ req[r].pc \notin {"idle", "sign"}
    /\ IF req[r].pc \in Authenticating THEN Fail(r) ELSE Finish(r)
    /\ UNCHANGED <<tables, tokens, now, issued, access>>

Call(r) ==
    \/ \E t \in issued : Refresh(r, t)
    \/ \E u \in Users :
          \/ Login(r, u)
          \/ Remove(r, u)
          \/ \E role \in MemberRoles : UpdateMemberRole(r, u, role)
          \/ \E b \in BOOLEAN : SetPermissions(r, u, b)
          \/ \E o \in Users, role \in MemberRoles : Invite(r, o, u, role)

Proceed(r) ==
    \/ FindMember(r) \/ FindOrg(r) \/ CreateOrg(r)
    \/ CheckOwned(r) \/ CheckMember(r) \/ CheckActive(r)
    \/ Cleanup(r) \/ Sign(r) \/ Store(r) \/ Discard(r)
    \/ InviteUser(r) \/ InviteMember(r) \/ DeleteUser(r) \/ ApplyChange(r)

Next ==
    \/ \E r \in Reqs : Call(r) \/ Proceed(r) \/ Reject(r)
    \/ \E t \in issued : Logout(t)
    \/ \E o \in Users, b \in BOOLEAN : SetActive(o, b)
    \/ \E a \in access : ExpireAccess(a)
    \/ Tick

Spec == Init /\ [][Next]_vars

-----------------------------------------------------------------------------
(* Properties *)

Requests ==
    [pc : {"idle", "discard"} \cup Authenticating \cup Managing,
     user : Users \cup {Null}, old : Tokens \cup {NoToken},
     fresh : Tokens \cup {NoToken}, org : Users \cup {Null},
     role : PartnerRoles \cup {"none"}, view : BOOLEAN,
     checked : Users \cup {Null}]

\* Types and foreign keys: rows refer to rows that exist, members are invited
\* users, a deleted user keeps no token.
TypeOK ==
    /\ users \subseteq Users /\ deleted \subseteq Users
    /\ DOMAIN orgs \subseteq users \ Clients /\ orgs \in [DOMAIN orgs -> BOOLEAN]
    /\ DOMAIN members \subseteq users \cap Invitees
    /\ members \in [DOMAIN members -> MemberRow]
    /\ \A m \in DOMAIN members : members[m].org \in DOMAIN orgs
    /\ tokens \subseteq Tokens /\ \A t \in tokens : t.user \in users
    /\ issued \subseteq Tokens
    /\ access \subseteq Claims
    /\ now \in 0 .. MaxTime
    /\ req \in [Reqs -> Requests]

\* In two organizations at once: an invited user who logged in between the
\* two inserts of his invitation got an organization of his own.
Dual(u) == u \in DOMAIN orgs /\ u \in DOMAIN members

\* The organization in an access token is the one the tables give its user,
\* although roles and permissions in it may be stale: login resolves it in
\* several queries (auth.service.ts:42-56).
AgencyClaim ==
    \A a \in access : a.user \in users /\ ~Dual(a.user) => a.org = OrgOf(a.user)

\* generateRefreshToken cleans up before it inserts (auth.service.ts:136): a
\* user's refresh tokens, with those about to be inserted, are at most as many
\* as the requests that overlap.  With one request at a time there is one.
Inserting(u) == {r \in Reqs : req[r].user = u /\ req[r].pc \in {"sign", "store"}}
TokensBounded ==
    \A u \in Users : Cardinality(TokensOf(u)) + Cardinality(Inserting(u))
                         <= Cardinality(Reqs)

\* Nobody sees students of another organization, and the owner of one sees
\* what any of its members sees (resolveVisiblePartnerIds).
VisibleWithinAgency ==
    \A u \in users :
        /\ \A v \in Visible(u) \ {u} : Dual(v) \/ OrgOf(v) = OrgOf(u)
        /\ OrgOf(u) # Null /\ ~Dual(OrgOf(u)) => Visible(u) \subseteq Visible(OrgOf(u))

\* A user without a refresh token, and without a request that found one.
LoggedOut(u) ==
    /\ TokensOf(u) = {}
    /\ \A r \in Reqs : req[r].user = u => req[r].pc \notin Authenticating

\* Once logged out - by logout, rotation or a failed refresh - a user has no
\* session until he logs in: refresh alone does not bring one back.
SessionNeedsLogin ==
    [][\A u \in Users :
         LoggedOut(u) /\ ~LoggedOut(u)'
             => \E r \in Reqs : req[r] = Idle /\ req'[r] = Recognise(u, NoToken)]_vars

\* A refresh token that has been deleted is never valid again, except that one
\* signed in the second of its own iat is the same string.
Dead(t) ==
    /\ t \notin tokens
    /\ now > t.iat
    /\ \A r \in Reqs : req[r].fresh # t
RevokedForGood == [][\A t \in Tokens : Dead(t) => Dead(t)']_vars

\* A user whose organization is disabled, and none of whose requests is past,
\* or can still evade, the test of isActive.
ShutOut(u) ==
    /\ u \in users /\ OrgOf(u) # Null
    /\ ~orgs[OrgOf(u)]
    /\ \A r \in Reqs : req[r].user = u =>
         /\ req[r].pc \notin Admitted
         /\ req[r].pc = "checkActive" => req[r].checked = OrgOf(u)
         /\ req[r].pc \in {"findOrg", "createOrg"} => u \in DOMAIN orgs
         /\ req[r].pc = "checkMember" => u \notin DOMAIN orgs

\* Such a user is admitted by neither login nor refresh until the organization
\* is enabled again (auth.service.ts:59).
DisabledStaysOut ==
    [][\A u \in Users :
         ShutOut(u) => ShutOut(u)' \/ orgs'[OrgOf(u)] \/ u \notin users']_vars
=============================================================================
