----------------------- MODULE PartnerAccess_proofs -----------------------
(***************************************************************************)
(* For any accounts and requests: types, foreign keys, the organization    *)
(* named in an access token, what a partner sees, how sessions begin and   *)
(* end, how many tokens a user has, and that the users of a disabled       *)
(* organization stay out.                                                  *)
(***************************************************************************)
EXTENDS PartnerAccess, FiniteSetTheorems, TLAPS

\* The organization o is the one to claim for the user u: it exists, or is none
\* if u is a client, and it is where u is, unless u is in two or has been deleted.
Claimable(u, o) ==
    /\ u \in users \cup deleted
    /\ IF u \in Clients THEN o = Null ELSE o \in DOMAIN orgs
    /\ u \in users /\ ~Dual(u) => o = OrgOf(u)

\* What a request has established at each step.
Claiming == {"checkOwned", "checkMember", "checkActive"} \cup Admitted
Established(q) ==
    /\ q.pc \in Authenticating => q.user \in users \cup deleted
    /\ q.pc \in Resolving => q.user \notin Clients
    /\ q.pc \in Claiming => Claimable(q.user, q.org)
    /\ q.pc = "checkActive" => q.checked \in DOMAIN orgs
    /\ q.pc = "store" => q.fresh \in Tokens /\ q.fresh.user = q.user
    /\ q.pc \in {"inviteUser", "inviteMember"} =>
         q.user \in Invitees /\ q.org \in DOMAIN orgs /\ q.role \in MemberRoles
    /\ q.pc = "deleteUser" => q.user \in Users
    /\ q.pc = "setRole" => q.role \in MemberRoles

\* The inductive invariant.
Inv ==
    /\ TypeOK
    /\ \A a \in access : Claimable(a.user, a.org)
    /\ \A t \in issued : t.user \in users \cup deleted
    /\ \A r \in Reqs : Established(req[r])

\* A change of the tables that disturbs no claim and no request: rows of users
\* and organizations are only added (a deleted user is remembered).
Grows ==
    /\ users \cup deleted \subseteq (users \cup deleted)'
    /\ DOMAIN orgs \subseteq DOMAIN orgs'
    /\ \A u \in Users, o \in Users \cup {Null} : Claimable(u, o) => Claimable(u, o)'

\* What a request has found out stays so while the tables grow.
LEMMA EstablishedStable ==
  ASSUME TypeOK, Grows, NEW q \in Requests, Established(q)
  PROVE  Established(q)'
<1>1. q.pc \in Claiming => Claimable(q.user, q.org)'
  BY DEF Grows, Established, Requests, Claimable, TypeOK
<1> QED
  BY <1>1 DEF Grows, Established

\* No change of the tables.
LEMMA Unchanged == ASSUME UNCHANGED tables PROVE Grows
  BY DEF Grows, tables, Claimable, Dual, OrgOf

\* A step of one request: it is enough to look at its own record.
LEMMA OneRequest ==
  ASSUME Inv, Grows, TypeOK', NEW r \in Reqs, NEW q \in Requests,
         req' = [req EXCEPT ![r] = q], Established(q)',
         \A a \in access' \ access : Claimable(a.user, a.org)',
         \A t \in issued' \ issued : t.user \in (users \cup deleted)'
  PROVE  Inv'
<1>1. \A x \in Reqs : Established(req[x])'
  <2> SUFFICES ASSUME NEW x \in Reqs PROVE Established(req[x])'
    BY DEF Inv, TypeOK
  <2>1. CASE x = r
    <3>1. req'[x] = q
      BY <2>1 DEF Inv, TypeOK
    <3> QED
      BY <3>1 DEF Established, Claimable
  <2>2. CASE x # r
    <3>1. req'[x] = req[x] /\ req[x] \in Requests /\ Established(req[x])
      BY <2>2 DEF Inv, TypeOK
    <3>2. PICK p \in Requests : p = req[x]
      BY <3>1
    <3>3. Established(p)'
      BY <3>1, <3>2, EstablishedStable DEF Inv
    <3> QED
      BY <3>1, <3>2, <3>3 DEF Established, Claimable
  <2> QED
    BY <2>1, <2>2
<1>2. \A a \in access' : Claimable(a.user, a.org)'
  <2> SUFFICES ASSUME NEW a \in access' PROVE Claimable(a.user, a.org)'
    OBVIOUS
  <2>1. CASE a \in access
    BY <2>1 DEF Inv, Grows, TypeOK, Claims
  <2> QED
    BY <2>1
<1>3. \A t \in issued' : t.user \in (users \cup deleted)'
  BY DEF Inv, Grows
<1> QED
  BY <1>1, <1>2, <1>3 DEF Inv

\* A step of one request that writes no table, but may delete tokens.
LEMMA LocalStep ==
  ASSUME Inv, UNCHANGED <<tables, now, issued, access>>, tokens' \subseteq tokens,
         NEW r \in Reqs, NEW q \in Requests,
         req' = [req EXCEPT ![r] = q], Established(q)
  PROVE  Inv'
<1>1. Grows
  BY Unchanged
<1>2. TypeOK'
  BY DEF Inv, TypeOK, tables
<1>3. Established(q)'
  BY <1>1, EstablishedStable DEF Inv
<1> QED
  BY <1>1, <1>2, <1>3, OneRequest

\* The records that establish nothing.
LEMMA IdleRecord == Idle \in Requests /\ Established(Idle)
  BY AccessAssumption DEF Idle, Requests, NoToken, Established, Authenticating,
     Resolving, Admitted, Claiming, Managing

\* A failed request discards its token or ends, with nothing to claim.
LEMMA FailRecord ==
  ASSUME Inv, NEW r \in Reqs, Fail(r)
  PROVE  \E q \in Requests : req' = [req EXCEPT ![r] = q] /\ Established(q)
<1>1. PICK p \in Requests : p = req[r]
  BY DEF Inv, TypeOK
<1>2. CASE p.old = NoToken
  BY <1>1, <1>2, IdleRecord DEF Fail, Goto
<1>3. CASE p.old # NoToken
  <2> DEFINE q == [Idle EXCEPT !.pc = "discard", !.user = p.user, !.old = p.old]
  <2>0. p.user \in Users \cup {Null} /\ p.old \in Tokens \cup {NoToken}
    BY DEF Requests
  <2>1. q \in Requests
    BY <2>0, IdleRecord DEF Requests, Idle
  <2>2. q.pc = "discard"
    BY DEF Idle
  <2>3. Established(q)
    BY <2>2 DEF Established, Authenticating, Resolving, Admitted, Claiming
  <2> QED
    BY <1>1, <1>3, <2>1, <2>3 DEF Fail, Goto
<1> QED
  BY <1>2, <1>3

\* A request that only moves on to another step.
LEMMA AwaitRecord ==
  ASSUME NEW q \in Requests, NEW pc \in Authenticating
  PROVE  /\ [q EXCEPT !.pc = pc] \in Requests
         /\ [q EXCEPT !.pc = pc].pc = pc
         /\ [q EXCEPT !.pc = pc].user = q.user
         /\ [q EXCEPT !.pc = pc].org = q.org
         /\ [q EXCEPT !.pc = pc].fresh = q.fresh
         /\ [q EXCEPT !.pc = pc].checked = q.checked
  BY DEF Requests

-----------------------------------------------------------------------------
\* Login and refresh up to the test of isActive.
LEMMA RecogniseRecord ==
  ASSUME Inv, NEW u \in users, NEW t \in Tokens \cup {NoToken}
  PROVE  Recognise(u, t) \in Requests /\ Established(Recognise(u, t))
<1> DEFINE q == Recognise(u, t)
<1>1. /\ q \in Requests /\ q.user = u /\ q.org = Null
      /\ q.pc = IF u \in Clients THEN "cleanup" ELSE "findMember"
  BY IdleRecord, ZenonT(40) DEF Recognise, Idle, Requests, Inv, TypeOK, Authenticating,
     Resolving, Admitted
<1>2. CASE u \in Clients
  <2>1. Claimable(u, Null)
    BY <1>2, AccessAssumption DEF Claimable, Inv, TypeOK, OrgOf
  <2> QED
    BY <1>1, <1>2, <2>1 DEF Established, Authenticating, Resolving, Admitted,
       Claiming
<1>3. CASE u \notin Clients
  BY <1>1, <1>3 DEF Established, Authenticating, Resolving, Admitted, Claiming
<1> QED
  BY <1>1, <1>2, <1>3

\* The steps of login, up to what it reads in each.
LEMMA LoginSteps ==
  ASSUME Inv, NEW r \in Reqs,
         \/ \E u \in Users : Login(r, u)
         \/ \E t \in issued : Refresh(r, t)
  PROVE  Inv'
<1>1. CASE \E u \in Users : Login(r, u)
  <2>1. PICK u \in Users : Login(r, u)
    BY <1>1
  <2>2. Recognise(u, NoToken) \in Requests /\ Established(Recognise(u, NoToken))
    BY <2>1, RecogniseRecord DEF Login
  <2> QED
    BY <2>1, <2>2, LocalStep DEF Login, Goto
<1>2. CASE \E t \in issued : Refresh(r, t)
  <2>1. PICK t \in issued : Refresh(r, t)
    BY <1>2
  <2>2. t \in Tokens /\ t.user \in Users
    BY DEF Inv, TypeOK, Tokens
  <2>3. CASE HasRow(t) /\ Goto(r, Recognise(t.user, t))
    <3>1. t.user \in users
      BY <2>3 DEF HasRow, Inv, TypeOK
    <3>2. Recognise(t.user, t) \in Requests /\ Established(Recognise(t.user, t))
      BY <2>2, <3>1, RecogniseRecord
    <3> QED
      BY <2>1, <2>3, <3>2, LocalStep DEF Refresh, Goto
  <2>4. CASE Goto(r, [Idle EXCEPT !.pc = "discard", !.user = t.user, !.old = t])
    <3> DEFINE q == [Idle EXCEPT !.pc = "discard", !.user = t.user, !.old = t]
    <3>1. q \in Requests /\ q.pc = "discard"
      BY <2>2, IdleRecord DEF Requests, Idle
    <3>2. Established(q)
      BY <3>1 DEF Established, Authenticating, Resolving, Admitted, Claiming
    <3> HIDE DEF q
    <3>3. req' = [req EXCEPT ![r] = q]
      BY <2>4 DEF Goto, q
    <3> QED
      BY <2>1, <3>1, <3>2, <3>3, LocalStep DEF Refresh
  <2> QED
    BY <2>1, <2>3, <2>4 DEF Refresh
<1> QED
  BY <1>1, <1>2

\* A member's claims come from his membership, anyone else's from the
\* organization he owns.
LEMMA ResolveSteps ==
  ASSUME Inv, NEW r \in Reqs, FindMember(r) \/ FindOrg(r)
  PROVE  Inv'
<1>1. PICK p \in Requests : p = req[r] /\ Established(p)
  BY DEF Inv, TypeOK
<1>2. p.pc \in Resolving /\ p.user \in Users /\ p.user \notin Clients
      /\ p.user \in users \cup deleted
  BY <1>1 DEF FindMember, FindOrg, At, Established, Resolving, Authenticating,
     Inv, TypeOK
<1>3. CASE req' = [req EXCEPT ![r] = [p EXCEPT !.pc = "findOrg"]]
           \/ req' = [req EXCEPT ![r] = [p EXCEPT !.pc = "createOrg"]]
  <2>1. PICK label \in {"findOrg", "createOrg"} :
               req' = [req EXCEPT ![r] = [p EXCEPT !.pc = label]]
    BY <1>3
  <2> DEFINE q == [p EXCEPT !.pc = label]
  <2>2. q \in Requests /\ q.pc = label /\ q.user = p.user
    BY AwaitRecord DEF Authenticating, Resolving
  <2>3. Established(q)
    BY <1>2, <2>2 DEF Established, Claiming, Admitted
  <2> QED
    BY <2>1, <2>2, <2>3, LocalStep DEF FindMember, FindOrg
<1>4. CASE FindMember(r) /\ p.user \in DOMAIN members
  <2> DEFINE m == members[p.user]
             q == [p EXCEPT !.pc = "checkOwned", !.org = m.org, !.role = m.role,
                            !.view = m.view]
  <2>1. m \in MemberRow /\ m.org \in DOMAIN orgs
    BY <1>4 DEF Inv, TypeOK
  <2>2. /\ q \in Requests
        /\ q.pc = "checkOwned" /\ q.user = p.user /\ q.org = m.org
    BY <2>1 DEF Requests, MemberRow, PartnerRoles, Authenticating, Resolving
  <2>3. Claimable(p.user, m.org)
    BY <1>2, <1>4, <2>1 DEF Claimable, Dual, OrgOf
  <2>4. Established(q)
    BY <1>2, <2>2, <2>3 DEF Established, Claiming
  <2>5. req' = [req EXCEPT ![r] = q]
    BY <1>1, <1>4 DEF FindMember, Goto
  <2> HIDE DEF q
  <2> QED
    BY <1>4, <2>2, <2>4, <2>5, LocalStep DEF FindMember
<1>5. CASE FindOrg(r) /\ p.user \in DOMAIN orgs
  <2> DEFINE q == AsOwner(p)
  <2>1. /\ q \in Requests
        /\ q.pc = "checkOwned" /\ q.user = p.user /\ q.org = p.user
    BY <1>2 DEF AsOwner, Requests, PartnerRoles, Authenticating, Resolving
  <2>2. Claimable(p.user, p.user)
    BY <1>2, <1>5 DEF Claimable, Dual, OrgOf
  <2>3. Established(q)
    BY <1>2, <2>1, <2>2 DEF Established, Claiming
  <2> QED
    BY <1>1, <1>5, <2>1, <2>3, LocalStep DEF FindOrg, Goto
<1> QED
  BY <1>1, <1>3, <1>4, <1>5 DEF FindMember, FindOrg, Await, Goto

\* A failing request forgets what it knew.
LEMMA FailStep ==
  ASSUME Inv, NEW r \in Reqs, Fail(r) \/ Finish(r),
         UNCHANGED <<tables, now, issued, access>>, tokens' \subseteq tokens
  PROVE  Inv'
  BY FailRecord, IdleRecord, LocalStep DEF Finish, Goto

\* The test of isActive, and what generateRefreshToken does before its insert.
LEMMA CheckSteps ==
  ASSUME Inv, NEW r \in Reqs,
         CheckOwned(r) \/ CheckMember(r) \/ CheckActive(r) \/ Cleanup(r) \/ Sign(r)
  PROVE  Inv'
<1>1. PICK p \in Requests : p = req[r] /\ Established(p)
  BY DEF Inv, TypeOK
<1>2. /\ p.pc \in Claiming \ {"store"}
      /\ UNCHANGED <<tables, now, issued, access>> /\ tokens' \subseteq tokens
  BY <1>1 DEF CheckOwned, CheckMember, CheckActive, Cleanup, Sign, At, Claiming,
     Admitted
<1>3. Claimable(p.user, p.org) /\ p.user \in Users
  BY <1>1, <1>2 DEF Established, Claimable, Inv, TypeOK
<1>4. CASE \E label \in {"checkMember", "cleanup", "sign"} :
             /\ label = "checkMember" => p.pc \in Resolving
             /\ req' = [req EXCEPT ![r] = [p EXCEPT !.pc = label]]
  <2>1. PICK label \in {"checkMember", "cleanup", "sign"} :
               /\ label = "checkMember" => p.pc \in Resolving
               /\ req' = [req EXCEPT ![r] = [p EXCEPT !.pc = label]]
    BY <1>4
  <2> DEFINE q == [p EXCEPT !.pc = label]
  <2>2. q \in Requests /\ q.pc = label /\ q.user = p.user /\ q.org = p.org
    BY AwaitRecord DEF Authenticating, Resolving, Admitted
  <2>3. Established(q)
    BY <1>1, <1>3, <2>1, <2>2
       DEF Established, Claiming, Admitted, Resolving, Claimable
  <2> QED
    BY <1>2, <2>1, <2>2, <2>3, LocalStep
<1>5. CASE \E o \in DOMAIN orgs :
             /\ p.pc \in Resolving
             /\ req' = [req EXCEPT ![r] = [p EXCEPT !.pc = "checkActive",
                                                   !.checked = o]]
  <2>1. PICK o \in DOMAIN orgs :
             /\ p.pc \in Resolving
             /\ req' = [req EXCEPT ![r] = [p EXCEPT !.pc = "checkActive",
                                                   !.checked = o]]
    BY <1>5
  <2> DEFINE q == [p EXCEPT !.pc = "checkActive", !.checked = o]
  <2>2. /\ q \in Requests /\ q.pc = "checkActive" /\ q.checked = o
        /\ q.user = p.user /\ q.org = p.org
    BY ZenonT(40) DEF Requests, Authenticating, Resolving, Inv, TypeOK, Users
  <2>3. Established(q)
    BY <1>1, <1>3, <2>1, <2>2
       DEF Established, Claiming, Admitted, Resolving, Claimable
  <2> QED
    BY <1>2, <2>1, <2>2, <2>3, LocalStep
<1>6. CASE Sign(r)
  <2> DEFINE t == [user |-> p.user, iat |-> now]
             q == [p EXCEPT !.pc = "store", !.fresh = t]
  <2>1. t \in Tokens
    BY <1>3 DEF Tokens, Inv, TypeOK
  <2>2. /\ q \in Requests /\ q.pc = "store" /\ q.fresh = t
        /\ q.user = p.user /\ q.org = p.org
    BY <2>1 DEF Requests, Authenticating, Admitted
  <2>3. Established(q)
    BY <1>1, <1>3, <2>1, <2>2
       DEF Established, Claiming, Admitted, Resolving, Claimable
  <2>4. req' = [req EXCEPT ![r] = q]
    BY <1>1, <1>6 DEF Sign, Goto, Signed
  <2> HIDE DEF q
  <2> QED
    BY <1>2, <2>2, <2>3, <2>4, LocalStep
<1>7. CASE CheckOwned(r)
  BY <1>1, <1>4, <1>5, <1>7 DEF CheckOwned, At, Goto, Await, Resolving
<1>8. CASE CheckMember(r)
  <2>1. p.user \in DOMAIN members => members[p.user].org \in DOMAIN orgs
    BY DEF Inv, TypeOK
  <2> QED
    BY <1>1, <1>4, <1>5, <1>8, <2>1 DEF CheckMember, At, Goto, Await, Resolving
<1>9. CASE CheckActive(r)
  BY <1>1, <1>2, <1>4, <1>9, FailStep DEF CheckActive, Await
<1>10. CASE Cleanup(r)
  BY <1>1, <1>4, <1>10 DEF Cleanup, Await
<1> QED
  BY <1>6, <1>7, <1>8, <1>9, <1>10

\* A new organization: its owner claims it from now on, and claimed none before.
LEMMA CreateOrgStep ==
  ASSUME Inv, NEW r \in Reqs, CreateOrg(r)
  PROVE  Inv'
<1>1. PICK p \in Requests : p = req[r] /\ Established(p)
  BY DEF Inv, TypeOK
<1>2. /\ p.pc = "createOrg" /\ p.user \in Users /\ p.user \notin Clients
      /\ p.user \in users \cup deleted
  BY <1>1 DEF CreateOrg, At, Established, Resolving, Authenticating, Inv, TypeOK
<1>3. CASE p.user \in users \ DOMAIN orgs
  <2> DEFINE u == p.user
             q == AsOwner(p)
  <2>1. /\ orgs' = [o \in DOMAIN orgs \cup {u} |->
                       IF o = u THEN TRUE ELSE orgs[o]]
        /\ req' = [req EXCEPT ![r] = q]
        /\ UNCHANGED <<users, deleted, members, tokens, now, issued, access>>
    BY <1>1, <1>3 DEF CreateOrg, Goto
  <2>2. /\ q \in Requests
        /\ q.pc = "checkOwned" /\ q.user = u /\ q.org = u
    BY <1>2 DEF AsOwner, Requests, PartnerRoles, Authenticating, Resolving
  <2>3. Grows
    <3>1. DOMAIN orgs' = DOMAIN orgs \cup {u}
      BY <2>1
    <3>2. ASSUME NEW v \in Users, NEW o \in Users \cup {Null}, Claimable(v, o)
          PROVE  Claimable(v, o)'
      <4>1. CASE v = u
        BY <1>2, <1>3, <2>1, <3>1, <3>2, <4>1, AccessAssumption
           DEF Claimable, Dual, OrgOf, Inv, TypeOK
      <4>2. CASE v # u
        BY <2>1, <3>1, <3>2, <4>2 DEF Claimable, Dual, OrgOf
      <4> QED
        BY <4>1, <4>2
    <3> QED
      BY <2>1, <3>1, <3>2 DEF Grows
  <2>4. TypeOK'
    BY <1>2, <1>3, <2>1, <2>2 DEF Inv, TypeOK
  <2>5. Claimable(u, u)'
    BY <1>2, <1>3, <2>1 DEF Claimable, Dual, OrgOf
  <2>6. Established(q)'
    BY <1>2, <2>1, <2>2, <2>5 DEF Established, Claiming, Claimable
  <2> HIDE DEF q
  <2> QED
    BY <2>1, <2>2, <2>3, <2>4, <2>6, OneRequest
<1>4. CASE p.user \notin users \ DOMAIN orgs
  BY <1>1, <1>4, FailStep DEF CreateOrg, tables
<1> QED
  BY <1>3, <1>4

\* The tokens and the claims that are handed out.
LEMMA StoreStep ==
  ASSUME Inv, NEW r \in Reqs, Store(r)
  PROVE  Inv'
<1>1. PICK p \in Requests : p = req[r] /\ Established(p)
  BY DEF Inv, TypeOK
<1>2. /\ p.pc = "store" /\ Claimable(p.user, p.org) /\ UNCHANGED <<tables, now>>
      /\ p.fresh \in Tokens /\ p.fresh.user = p.user
  BY <1>1 DEF Store, At, Established, Claiming, Admitted
<1>3. CASE p.fresh \notin tokens /\ p.user \in users
  <2>1. /\ tokens' = tokens \cup {p.fresh} /\ issued' = issued \cup {p.fresh}
        /\ access' = access \cup {ClaimsOf(p)}
        /\ req' = [req EXCEPT ![r] = Idle]
    BY <1>1, <1>3 DEF Store, Finish, Goto
  <2>2. ClaimsOf(p) \in Claims /\ ClaimsOf(p).user = p.user /\ ClaimsOf(p).org = p.org
    BY <1>3 DEF ClaimsOf, Claims, Requests, Inv, TypeOK
  <2>3. Grows
    BY <1>2, Unchanged
  <2>4. TypeOK'
    BY <1>2, <1>3, <2>1, <2>2, IdleRecord DEF Inv, TypeOK, tables
  <2>5. Claimable(p.user, p.org)'
    BY <1>2 DEF Claimable, Dual, OrgOf, tables
  <2>6. Established(Idle)'
    BY <2>3, IdleRecord, EstablishedStable DEF Inv
  <2>7. \A a \in access' \ access : Claimable(a.user, a.org)'
    BY <2>1, <2>2, <2>5
  <2>8. \A t \in issued' \ issued : t.user \in (users \cup deleted)'
    BY <1>2, <1>3, <2>1 DEF tables
  <2> QED
    BY <2>1, <2>3, <2>4, <2>6, <2>7, <2>8, IdleRecord, OneRequest
<1>4. CASE ~(p.fresh \notin tokens /\ p.user \in users)
  BY <1>1, <1>2, <1>4, FailStep DEF Store
<1> QED
  BY <1>3, <1>4

\* An invitation makes the user, then the membership.
LEMMA InviteSteps ==
  ASSUME Inv, NEW r \in Reqs, InviteUser(r) \/ InviteMember(r)
  PROVE  Inv'
<1>1. PICK p \in Requests : p = req[r] /\ Established(p)
  BY DEF Inv, TypeOK
<1>2. /\ p.user \in Invitees /\ p.org \in DOMAIN orgs /\ p.role \in MemberRoles
      /\ p.user \in Users
  BY <1>1 DEF InviteUser, InviteMember, At, Established, Users
<1>3. CASE InviteUser(r) /\ p.user \notin users \cup deleted
  <2> DEFINE q == [p EXCEPT !.pc = "inviteMember"]
  <2>1. /\ users' = users \cup {p.user}
        /\ req' = [req EXCEPT ![r] = q]
        /\ UNCHANGED <<deleted, orgs, members, tokens, now, issued, access>>
    BY <1>1, <1>3 DEF InviteUser, Await
  <2>2. /\ q \in Requests /\ q.pc = "inviteMember" /\ q.user = p.user
        /\ q.org = p.org /\ q.role = p.role
    BY DEF Requests, Managing
  <2>3. Grows
    BY <1>3, <2>1 DEF Grows, Claimable, Dual, OrgOf
  <2>4. TypeOK'
    BY <1>2, <2>1, <2>2 DEF Inv, TypeOK
  <2>5. Established(q)'
    BY <1>2, <2>1, <2>2
       DEF Established, Authenticating, Resolving, Admitted, Claiming
  <2> HIDE DEF q
  <2> QED
    BY <2>1, <2>2, <2>3, <2>4, <2>5, OneRequest
<1>4. CASE InviteMember(r) /\ p.user \in users \ DOMAIN members
  <2> DEFINE u == p.user
  <2>1. /\ members' = [m \in DOMAIN members \cup {u} |->
                          IF m = u THEN Joining(p) ELSE members[m]]
        /\ req' = [req EXCEPT ![r] = Idle]
        /\ UNCHANGED <<users, deleted, orgs, tokens, now, issued, access>>
    BY <1>1, <1>4 DEF InviteMember, Finish, Goto
  <2>2. Joining(p) \in MemberRow /\ Joining(p).org = p.org
    BY <1>2 DEF Joining, MemberRow, Requests, Inv, TypeOK
  <2>3. Grows
    <3>1. DOMAIN members' = DOMAIN members \cup {u}
      BY <2>1
    <3>2. ASSUME NEW v \in Users, NEW o \in Users \cup {Null}, Claimable(v, o)
          PROVE  Claimable(v, o)'
      <4>1. CASE v = u
        BY <1>2, <1>4, <2>1, <3>1, <3>2, <4>1, AccessAssumption
           DEF Claimable, Dual, OrgOf, Inv, TypeOK, Users
      <4>2. CASE v # u
        BY <2>1, <3>1, <3>2, <4>2 DEF Claimable, Dual, OrgOf
      <4> QED
        BY <4>1, <4>2
    <3> QED
      BY <2>1, <3>2 DEF Grows
  <2>4. TypeOK'
    BY <1>2, <1>4, <2>1, <2>2, IdleRecord DEF Inv, TypeOK
  <2>5. Established(Idle)'
    BY <2>3, IdleRecord, EstablishedStable DEF Inv
  <2> QED
    BY <2>1, <2>3, <2>4, <2>5, IdleRecord, OneRequest
<1>5. CASE Finish(r) /\ UNCHANGED tables
  BY <1>5, FailStep DEF InviteUser, InviteMember
<1> QED
  BY <1>1, <1>3, <1>4, <1>5 DEF InviteUser, InviteMember, tables

\* The other changes of members and users, and of isActive.
LEMMA DeleteStep ==
  ASSUME Inv, NEW r \in Reqs, DeleteUser(r)
  PROVE  Inv'
<1>1. CASE req[r].user \in users \ DOMAIN orgs
  <2> DEFINE u == req[r].user
  <2>1. /\ users' = users \ {u} /\ deleted' = deleted \cup {u}
        /\ members' = [m \in DOMAIN members \ {u} |-> members[m]]
        /\ tokens' = tokens \ TokensOf(u)
        /\ req' = [req EXCEPT ![r] = Idle]
        /\ UNCHANGED <<orgs, now, issued, access>>
    BY <1>1 DEF DeleteUser, Finish, Goto, Cascade
  <2>2. Grows
    BY <2>1 DEF Grows, Claimable, Dual, OrgOf
  <2>3. TypeOK'
    <3>1. \A t \in tokens' : t.user \in users'
      BY <2>1 DEF TokensOf, Inv, TypeOK
    <3> QED
      BY <1>1, <2>1, <3>1, IdleRecord DEF Inv, TypeOK
  <2>4. Established(Idle)'
    BY <2>2, IdleRecord, EstablishedStable DEF Inv
  <2> QED
    BY <2>1, <2>2, <2>3, <2>4, IdleRecord, OneRequest
<1>2. CASE req[r].user \notin users \ DOMAIN orgs
  BY <1>2, FailStep DEF DeleteUser, tables
<1> QED
  BY <1>1, <1>2

\* Changes of members are no changes of organizations.
LEMMA ChangeStep ==
  ASSUME Inv, NEW r \in Reqs, ApplyChange(r)
  PROVE  Inv'
<1>1. PICK p \in Requests : p = req[r] /\ Established(p)
  BY DEF Inv, TypeOK
<1>2. /\ req' = [req EXCEPT ![r] = Idle]
      /\ UNCHANGED <<users, deleted, orgs, tokens, now, issued, access>>
  BY DEF ApplyChange, Finish, Goto
<1>3. /\ DOMAIN members' = DOMAIN members
      /\ \A m \in DOMAIN members : members'[m].org = members[m].org
      /\ members' \in [DOMAIN members -> MemberRow]
  <2>1. CASE p.user \notin DOMAIN members
    BY <1>1, <2>1 DEF ApplyChange, Inv, TypeOK
  <2>2. CASE p.user \in DOMAIN members /\ p.pc = "setView"
    BY <1>1, <2>2 DEF ApplyChange, Inv, TypeOK, MemberRow, Requests
  <2>3. CASE p.user \in DOMAIN members /\ p.pc = "setRole"
    <3>1. members' = [members EXCEPT ![p.user].role = p.role]
      BY <1>1, <2>3 DEF ApplyChange
    <3>2. p.role \in MemberRoles
      BY <1>1, <2>3 DEF Established
    <3> QED
      BY <2>3, <3>1, <3>2 DEF Inv, TypeOK, MemberRow
  <2> QED
    BY <1>1, <2>1, <2>2, <2>3 DEF ApplyChange
<1>4. Grows
  BY <1>2, <1>3 DEF Grows, Claimable, Dual, OrgOf
<1>5. TypeOK'
  BY <1>2, <1>3, IdleRecord DEF Inv, TypeOK
<1>6. Established(Idle)'
  BY <1>4, IdleRecord, EstablishedStable DEF Inv
<1> QED
  BY <1>2, <1>4, <1>5, <1>6, IdleRecord, OneRequest

\* Requests that an administrator or an organization starts.
LEMMA ManagingRecord ==
  ASSUME NEW q \in Requests, q.pc \in {"deleteUser", "setRole", "setView"},
         q.user \in Users, q.pc = "setRole" => q.role \in MemberRoles
  PROVE  Established(q)
  BY DEF Established, Authenticating, Resolving, Admitted, Claiming

LEMMA ManagingSteps ==
  ASSUME Inv, NEW r \in Reqs, NEW u \in Users, NEW role \in MemberRoles,
         NEW o \in Users, NEW b \in BOOLEAN,
         \/ Remove(r, u) \/ UpdateMemberRole(r, u, role)
         \/ SetPermissions(r, u, b) \/ Invite(r, o, u, role)
  PROVE  Inv'
<1>1. CASE Remove(r, u)
  <2> DEFINE q == [Idle EXCEPT !.pc = "deleteUser", !.user = u]
  <2>1. q \in Requests /\ q.pc = "deleteUser" /\ q.user = u
    BY IdleRecord DEF Idle, Requests, Managing, PartnerRoles
  <2>2. Established(q)
    BY <2>1, ManagingRecord
  <2> HIDE DEF q
  <2>3. req' = [req EXCEPT ![r] = q]
    BY <1>1 DEF Remove, Goto, q
  <2> QED
    BY <1>1, <2>1, <2>2, <2>3, LocalStep DEF Remove
<1>2. CASE UpdateMemberRole(r, u, role)
  <2> DEFINE q == [Idle EXCEPT !.pc = "setRole", !.user = u, !.role = role]
  <2>1. q \in Requests /\ q.pc = "setRole" /\ q.user = u /\ q.role = role
    BY IdleRecord DEF Idle, Requests, Managing, PartnerRoles
  <2>2. Established(q)
    BY <2>1, ManagingRecord
  <2> HIDE DEF q
  <2>3. req' = [req EXCEPT ![r] = q]
    BY <1>2 DEF UpdateMemberRole, Goto, q
  <2> QED
    BY <1>2, <2>1, <2>2, <2>3, LocalStep DEF UpdateMemberRole
<1>3. CASE SetPermissions(r, u, b)
  <2> DEFINE q == [Idle EXCEPT !.pc = "setView", !.user = u, !.view = b]
  <2>1. q \in Requests /\ q.pc = "setView" /\ q.user = u
    BY IdleRecord DEF Idle, Requests, Managing, PartnerRoles
  <2>2. Established(q)
    BY <2>1, ManagingRecord
  <2> HIDE DEF q
  <2>3. req' = [req EXCEPT ![r] = q]
    BY <1>3 DEF SetPermissions, Goto, q
  <2> QED
    BY <1>3, <2>1, <2>2, <2>3, LocalStep DEF SetPermissions
<1>4. CASE Invite(r, o, u, role)
  <2> DEFINE q == [Idle EXCEPT !.pc = "inviteUser", !.user = u, !.org = o,
                               !.role = role]
  <2>1. PICK a \in access : a.org = o
    BY <1>4 DEF Invite
  <2>2. o \in DOMAIN orgs
    <3>1. a \in Claims /\ Claimable(a.user, a.org)
      BY DEF Inv, TypeOK
    <3> QED
      BY <2>1, <3>1, AccessAssumption DEF Claimable
  <2>3. /\ q \in Requests /\ q.pc = "inviteUser" /\ q.user = u /\ q.org = o
        /\ q.role = role
    BY IdleRecord DEF Idle, Requests, Managing, PartnerRoles
  <2>4. Established(q)
    BY <1>4, <2>2, <2>3
       DEF Invite, Established, Authenticating, Resolving, Admitted, Claiming
  <2> HIDE DEF q
  <2>5. req' = [req EXCEPT ![r] = q]
    BY <1>4 DEF Invite, Goto, q
  <2> QED
    BY <1>4, <2>3, <2>4, <2>5, LocalStep DEF Invite
<1> QED
  BY <1>1, <1>2, <1>3, <1>4

\* What starts and ends no request.
LEMMA OtherSteps ==
  ASSUME Inv,
         \/ \E t \in issued : Logout(t)
         \/ \E o \in Users, b \in BOOLEAN : SetActive(o, b)
         \/ \E a \in access : ExpireAccess(a)
         \/ Tick
         \/ UNCHANGED vars
  PROVE  Inv'
<1>1. /\ req' = req /\ issued' = issued /\ access' \subseteq access
      /\ UNCHANGED <<users, deleted, members>> /\ tokens' \subseteq tokens
      /\ DOMAIN orgs' = DOMAIN orgs /\ orgs' \in [DOMAIN orgs' -> BOOLEAN]
      /\ now' \in 0 .. MaxTime
  BY AccessAssumption DEF Logout, SetActive, ExpireAccess, Tick, vars, tables, Inv,
     TypeOK
<1>2. Grows
  BY <1>1 DEF Grows, Claimable, Dual, OrgOf
<1>3. TypeOK'
  BY <1>1 DEF Inv, TypeOK
<1>4. ASSUME NEW x \in Reqs PROVE Established(req[x])'
  <2>1. PICK p \in Requests : p = req[x] /\ Established(p)
    BY DEF Inv, TypeOK
  <2>2. Established(p)' /\ req'[x] = p
    BY <1>1, <1>2, <2>1, EstablishedStable DEF Inv
  <2> QED
    BY <2>2 DEF Established, Claimable
<1>5. \A a \in access' : Claimable(a.user, a.org)'
  BY <1>1, <1>2 DEF Inv, Grows, TypeOK, Claims
<1> QED
  BY <1>1, <1>3, <1>4, <1>5 DEF Inv

-----------------------------------------------------------------------------
\* Inv is an invariant: what a request has established stays true while it
\* waits, since organizations are never deleted, and a user who comes into a
\* second one is excepted.
THEOREM InvHolds == Spec => []Inv
<1>1. Init => Inv
  <2> SUFFICES ASSUME Init PROVE Inv
    OBVIOUS
  <2>1. TypeOK
    BY AccessAssumption, IdleRecord DEF Init, TypeOK, Users
  <2> QED
    BY <2>1, IdleRecord DEF Init, Inv
<1>2. Inv /\ [Next]_vars => Inv'
  <2> SUFFICES ASSUME Inv, [Next]_vars PROVE Inv'
    OBVIOUS
  <2>1. ASSUME NEW r \in Reqs, Call(r) PROVE Inv'
    <3>1. CASE \E t \in issued : Refresh(r, t)
      BY <3>1, LoginSteps
    <3>2. CASE \E u \in Users : Login(r, u)
      BY <3>2, LoginSteps
    <3>3. ASSUME NEW u \in Users,
                 \/ Remove(r, u)
                 \/ \E role \in MemberRoles : UpdateMemberRole(r, u, role)
                 \/ \E b \in BOOLEAN : SetPermissions(r, u, b)
                 \/ \E o \in Users, role \in MemberRoles : Invite(r, o, u, role)
          PROVE  Inv'
      <4>1. "MEMBER" \in MemberRoles /\ TRUE \in BOOLEAN
        BY DEF MemberRoles
      <4> QED
        BY <3>3, <4>1, ManagingSteps
    <3> QED
      BY <2>1, <3>1, <3>2, <3>3 DEF Call
  <2>2. ASSUME NEW r \in Reqs, Proceed(r) PROVE Inv'
    <3>1. CASE Discard(r)
      BY <3>1, FailStep DEF Discard
    <3> QED
      BY <2>2, <3>1, ResolveSteps, CreateOrgStep, CheckSteps, StoreStep,
         InviteSteps, DeleteStep, ChangeStep DEF Proceed
  <2>3. ASSUME NEW r \in Reqs, Reject(r) PROVE Inv'
    BY <2>3, FailStep DEF Reject
  <2> QED
    BY <2>1, <2>2, <2>3, OtherSteps DEF Next
<1> QED
  BY <1>1, <1>2, PTL DEF Spec

\* Every row refers to rows that exist, and variables keep their types.
THEOREM AccessTypes == Spec => []TypeOK
<1>1. Inv => TypeOK
  BY DEF Inv
<1> QED
  BY <1>1, InvHolds, PTL

\* The organization claimed in an access token is its user's.
THEOREM AgencyClaimHolds == Spec => []AgencyClaim
<1>1. Inv => AgencyClaim
  BY DEF Inv, AgencyClaim, Claimable
<1> QED
  BY <1>1, InvHolds, PTL

\* What a partner is shown stays within his organization: this needs of the
\* tables only that memberships refer to organizations that exist.
THEOREM VisibleWithinAgencyHolds == Spec => []VisibleWithinAgency
<1>1. ASSUME TypeOK, NEW u \in users, NEW v \in Visible(u) \ {u}
      PROVE  Dual(v) \/ OrgOf(v) = OrgOf(u)
  <2>1. v \in OrgUsers(OrgOf(u)) /\ OrgOf(u) # Null
    BY <1>1 DEF Visible
  <2>2. OrgOf(u) \in DOMAIN orgs
    BY <1>1, <2>1 DEF TypeOK, OrgOf
  <2> QED
    BY <2>1, <2>2 DEF OrgUsers, OrgOf, Dual
<1>2. ASSUME TypeOK, NEW u \in users, OrgOf(u) # Null, ~Dual(OrgOf(u))
      PROVE  Visible(u) \subseteq Visible(OrgOf(u))
  <2>1. OrgOf(u) \in DOMAIN orgs
    BY <1>2 DEF TypeOK, OrgOf
  <2>2. OrgOf(OrgOf(u)) = OrgOf(u) /\ SeesAll(OrgOf(u))
    BY <1>2, <2>1 DEF OrgOf, Dual, SeesAll
  <2>3. Visible(OrgOf(u)) = OrgUsers(OrgOf(u))
    BY <1>2, <2>2 DEF Visible
  <2>4. u \in OrgUsers(OrgOf(u))
    BY <1>2 DEF OrgUsers, OrgOf
  <2> QED
    BY <2>3, <2>4 DEF Visible
<1>3. TypeOK => VisibleWithinAgency
  BY <1>1, <1>2 DEF VisibleWithinAgency
<1> QED
  BY <1>3, AccessTypes, PTL

-----------------------------------------------------------------------------
(* What one step may do to a request and to the tokens *)

Continues(r) ==
    /\ req[r].pc \in Authenticating
    /\ req'[r].user = req[r].user
    /\ req'[r].fresh = req[r].fresh \/ req'[r].fresh.iat = now
Ends(r) ==
    /\ req'[r].pc \notin Authenticating
    /\ req'[r].fresh \in {req[r].fresh, NoToken}
LogsIn(r) == \E u \in Users : req[r] = Idle /\ req'[r] = Recognise(u, NoToken)
Refreshes(r) == \E t \in tokens : req[r] = Idle /\ req'[r] = Recognise(t.user, t)
Moves(r) == Continues(r) \/ Ends(r) \/ LogsIn(r) \/ Refreshes(r)

\* Only the request that moves is changed, and only Store adds a token.
StepEffect ==
    /\ \A r \in Reqs : req'[r] = req[r] \/ Moves(r)
    /\ \A t \in tokens' \ tokens :
          \E r \in Reqs : req[r].pc = "store" /\ req[r].fresh = t
    /\ now' \in Nat /\ now' >= now

Others(r) == \A x \in Reqs \ {r} : req'[x] = req[x]

\* How a request may move on: to its end, or with the same user and token.
LEMMA EndsWith ==
  ASSUME TypeOK, NEW r \in Reqs, NEW q, Goto(r, q),
         q.pc \in {"idle", "discard"} \cup Managing, q.fresh = NoToken
  PROVE  Others(r) /\ Ends(r)
<1>1. req'[r] = q /\ Others(r)
  BY DEF TypeOK, Goto, Others
<1> QED
  BY <1>1 DEF Ends, Authenticating, Resolving, Admitted, Managing

\* A request that authenticates goes on with its user and a token not stored
\* before.
LEMMA ContinuesWith ==
  ASSUME TypeOK, NEW r \in Reqs, req[r].pc \in Authenticating, NEW q, Goto(r, q),
         q.user = req[r].user, q.fresh = req[r].fresh \/ q.fresh.iat = now
  PROVE  Others(r) /\ Continues(r)
<1>1. req'[r] = q /\ Others(r)
  BY DEF TypeOK, Goto, Others
<1> QED
  BY <1>1 DEF Continues

\* What calls, failures and further steps do to requests, tokens and the
\* clock.
LEMMA FailMoves ==
  ASSUME TypeOK, NEW r \in Reqs, Fail(r) \/ Finish(r)
  PROVE  Others(r) /\ Ends(r)
<1>1. CASE Goto(r, Idle)
  BY <1>1, EndsWith DEF Idle
<1> DEFINE q == [Idle EXCEPT !.pc = "discard", !.user = req[r].user,
                             !.old = req[r].old]
<1>2. CASE Goto(r, q)
  <2>1. q.pc = "discard" /\ q.fresh = NoToken
    BY DEF Idle
  <2> HIDE DEF q
  <2> QED
    BY <1>2, <2>1, EndsWith
<1> QED
  BY <1>1, <1>2 DEF Fail, Finish

LEMMA CallMoves ==
  ASSUME TypeOK, NEW r \in Reqs, Call(r)
  PROVE  Others(r) /\ Moves(r) /\ tokens' = tokens /\ now' = now
<1>1. CASE \E t \in issued : Refresh(r, t)
  BY <1>1, ZenonT(40) DEF TypeOK, Refresh, Goto, HasRow, Others, Moves, Refreshes, Ends, Idle,
     Authenticating, Resolving, Admitted
<1>2. CASE \E u \in Users : Login(r, u)
  BY <1>2 DEF TypeOK, Login, Goto, Others, Moves, LogsIn
<1>3. ASSUME NEW u \in Users, NEW role \in MemberRoles, NEW b \in BOOLEAN,
             NEW o \in Users,
             \/ Remove(r, u) \/ UpdateMemberRole(r, u, role)
             \/ SetPermissions(r, u, b) \/ Invite(r, o, u, role)
      PROVE  Others(r) /\ Ends(r) /\ tokens' = tokens /\ now' = now
  <2>1. Others(r) /\ req'[r].pc \in Managing /\ req'[r].fresh = NoToken
    BY <1>3, ZenonT(40) DEF TypeOK, Remove, UpdateMemberRole, SetPermissions, Invite, Goto, Idle,
       Managing, Others
  <2>2. tokens' = tokens /\ now' = now
    BY <1>3 DEF Remove, UpdateMemberRole, SetPermissions, Invite
  <2> QED
    BY <2>1, <2>2 DEF Ends, Authenticating, Resolving, Admitted, Managing
<1>4. "MEMBER" \in MemberRoles /\ TRUE \in BOOLEAN
  BY DEF MemberRoles
<1> QED
  BY <1>1, <1>2, <1>3, <1>4 DEF Call, Moves

LEMMA ProceedMoves ==
  ASSUME TypeOK, NEW r \in Reqs, Proceed(r)
  PROVE  /\ Others(r) /\ Moves(r) /\ now' = now
         /\ \A t \in tokens' \ tokens : req[r].pc = "store" /\ req[r].fresh = t
<1>1. PICK p \in Requests : p = req[r]
  BY DEF TypeOK
<1>2. ASSUME p.pc \in Authenticating,
             \/ \E pc \in Authenticating : Await(r, pc)
             \/ \E o, role, view : Goto(r, [p EXCEPT !.pc = "checkOwned", !.org = o,
                                            !.role = role, !.view = view])
             \/ Goto(r, AsOwner(p))
             \/ \E o : Goto(r, [p EXCEPT !.pc = "checkActive", !.checked = o])
             \/ Goto(r, [p EXCEPT !.pc = "store", !.fresh = Signed(p)])
      PROVE  Others(r) /\ Continues(r)
  <2>1. ASSUME \E pc \in Authenticating : Await(r, pc)
        PROVE  Others(r) /\ req'[r].user = p.user /\ req'[r].fresh = p.fresh
    BY <1>1, <2>1 DEF TypeOK, Await, Others, Requests
  <2>2. ASSUME NEW q, Goto(r, q)
        PROVE  Others(r) /\ req'[r] = q
    BY <2>2 DEF TypeOK, Goto, Others
  <2>3. \A o, role, view :
           LET q == [p EXCEPT !.pc = "checkOwned", !.org = o,
                              !.role = role, !.view = view]
           IN  q.user = p.user /\ q.fresh = p.fresh
    BY DEF Requests
  <2>4. AsOwner(p).user = p.user /\ AsOwner(p).fresh = p.fresh
    BY DEF AsOwner, Requests
  <2>5. \A o : LET q == [p EXCEPT !.pc = "checkActive", !.checked = o]
               IN  q.user = p.user /\ q.fresh = p.fresh
    BY DEF Requests
  <2>6. LET q == [p EXCEPT !.pc = "store", !.fresh = Signed(p)]
        IN  q.user = p.user /\ q.fresh.iat = now
    BY DEF Signed, Requests
  <2>7. /\ Others(r) /\ req'[r].user = p.user
        /\ req'[r].fresh = p.fresh \/ req'[r].fresh.iat = now
    <3>1. CASE \E o, role, view : Goto(r, [p EXCEPT !.pc = "checkOwned", !.org = o,
                                            !.role = role, !.view = view])
      <4> PICK o, role, view : Goto(r, [p EXCEPT !.pc = "checkOwned", !.org = o,
                                        !.role = role, !.view = view])
        BY <3>1
      <4> DEFINE q == [p EXCEPT !.pc = "checkOwned", !.org = o,
                                !.role = role, !.view = view]
      <4>1. Others(r) /\ req'[r] = q
        BY <2>2
      <4>2. q.user = p.user /\ q.fresh = p.fresh
        BY <2>3
      <4> HIDE DEF q
      <4> QED
        BY <4>1, <4>2
    <3>2. CASE \E o : Goto(r, [p EXCEPT !.pc = "checkActive", !.checked = o])
      <4> PICK o : Goto(r, [p EXCEPT !.pc = "checkActive", !.checked = o])
        BY <3>2
      <4> DEFINE q == [p EXCEPT !.pc = "checkActive", !.checked = o]
      <4>1. Others(r) /\ req'[r] = q
        BY <2>2
      <4>2. q.user = p.user /\ q.fresh = p.fresh
        BY <2>5
      <4> HIDE DEF q
      <4> QED
        BY <4>1, <4>2
    <3>3. CASE Goto(r, [p EXCEPT !.pc = "store", !.fresh = Signed(p)])
      BY <2>2, <2>6, <3>3
    <3>4. CASE Goto(r, AsOwner(p))
      BY <2>2, <2>4, <3>4
    <3> QED
      BY <1>2, <2>1, <3>1, <3>2, <3>3, <3>4
  <2> QED
    BY <1>1, <1>2, <2>7 DEF Continues
<1>3. CASE FindMember(r) \/ FindOrg(r) \/ CheckOwned(r) \/ CheckMember(r)
  <2>1. p.pc \in Authenticating /\ now' = now /\ tokens' = tokens
    BY <1>1, <1>3 DEF FindMember, FindOrg, CheckOwned, CheckMember, At,
       Authenticating, Resolving
  <2>2. Others(r) /\ Continues(r)
    BY <1>1, <1>2, <1>3, <2>1 DEF FindMember, FindOrg, CheckOwned, CheckMember,
       Authenticating, Resolving, Admitted
  <2> QED
    BY <2>1, <2>2 DEF Moves
<1>4. CASE CreateOrg(r) \/ CheckActive(r)
  <2>1. p.pc \in Authenticating /\ now' = now /\ tokens' = tokens
    BY <1>1, <1>4 DEF CreateOrg, CheckActive, At, Authenticating, Resolving
  <2>2. Others(r) /\ (Continues(r) \/ Ends(r))
    BY <1>1, <1>2, <1>4, <2>1, FailMoves DEF CreateOrg, CheckActive, Authenticating,
       Admitted
  <2> QED
    BY <2>1, <2>2 DEF Moves
<1>5. CASE Cleanup(r) \/ Sign(r)
  <2>1. p.pc \in Authenticating /\ now' = now /\ tokens' \subseteq tokens
    BY <1>1, <1>5 DEF Cleanup, Sign, At, Authenticating, Admitted
  <2>2. Others(r) /\ Continues(r)
    BY <1>1, <1>2, <1>5, <2>1 DEF Cleanup, Sign, Authenticating, Admitted
  <2> QED
    BY <2>1, <2>2 DEF Moves
<1>6. CASE Store(r)
  BY <1>6, FailMoves DEF Store, At, Moves
<1>7. CASE Discard(r) \/ InviteMember(r) \/ DeleteUser(r) \/ ApplyChange(r)
  BY <1>7, FailMoves DEF Discard, InviteMember, DeleteUser, ApplyChange, Cascade,
     Moves
<1>8. CASE InviteUser(r)
  <2>1. CASE Await(r, "inviteMember")
    <3>1. Others(r) /\ req'[r].pc = "inviteMember" /\ req'[r].fresh = req[r].fresh
      BY <1>1, <2>1 DEF TypeOK, Await, Others, Requests
    <3> QED
      BY <1>8, <3>1 DEF InviteUser, Moves, Ends, Authenticating, Resolving, Admitted
  <2>2. CASE Finish(r)
    BY <1>8, <2>2, FailMoves DEF InviteUser, Moves
  <2> QED
    BY <1>8, <2>1, <2>2 DEF InviteUser
<1> QED
  BY <1>3, <1>4, <1>5, <1>6, <1>7, <1>8 DEF Proceed

\* What a step may do at all, whatever it reads.
LEMMA Effect == ASSUME TypeOK, [Next]_vars PROVE StepEffect
<1>1. now \in Nat
  BY AccessAssumption DEF TypeOK
<1>2. ASSUME NEW r \in Reqs, Call(r) \/ Proceed(r) \/ Reject(r)
      PROVE  StepEffect
  <2>1. /\ Others(r) /\ Moves(r) /\ now' = now
        /\ \A t \in tokens' \ tokens : req[r].pc = "store" /\ req[r].fresh = t
    BY <1>2, CallMoves, ProceedMoves, FailMoves DEF Reject, Moves
  <2> QED
    BY <1>1, <2>1 DEF StepEffect, Others
<1>3. CASE \/ \E t \in issued : Logout(t)
           \/ \E o \in Users, b \in BOOLEAN : SetActive(o, b)
           \/ \E a \in access : ExpireAccess(a)
           \/ Tick
           \/ UNCHANGED vars
  BY <1>1, <1>3 DEF Logout, SetActive, ExpireAccess, Tick, vars, StepEffect
<1> QED
  BY <1>2, <1>3 DEF Next

-----------------------------------------------------------------------------
\* refreshAccessToken alone gives a user no session who has none: what a request
\* inserts, it began as a login or with a token that was still there.
THEOREM SessionNeedsLoginHolds == Spec => SessionNeedsLogin
<1>1. ASSUME Inv, StepEffect, NEW u \in Users, LoggedOut(u),
             \A r \in Reqs : ~(req[r] = Idle /\ req'[r] = Recognise(u, NoToken))
      PROVE  LoggedOut(u)'
  <2>1. TokensOf(u)' = {}
    <3>1. ASSUME NEW t \in tokens', t.user = u PROVE FALSE
      <4>1. t \notin tokens
        BY <1>1, <3>1 DEF LoggedOut, TokensOf
      <4>2. PICK r \in Reqs : req[r].pc = "store" /\ req[r].fresh = t
        BY <1>1, <4>1 DEF StepEffect
      <4>3. req[r].user = u
        BY <1>1, <3>1, <4>2 DEF Inv, Established
      <4> QED
        BY <1>1, <4>2, <4>3 DEF LoggedOut, Authenticating, Admitted
    <3> QED
      BY <3>1 DEF TokensOf
  <2>2. ASSUME NEW r \in Reqs, req'[r].user = u, req'[r].pc \in Authenticating
        PROVE  FALSE
    <3>1. CASE req'[r] = req[r] \/ Continues(r)
      BY <1>1, <2>2, <3>1 DEF LoggedOut, Continues
    <3>2. CASE Ends(r)
      BY <2>2, <3>2 DEF Ends
    <3>3. \A v, t : Recognise(v, t).user = v
      BY DEF Recognise, Idle
    <3>4. CASE LogsIn(r)
      BY <1>1, <2>2, <3>3, <3>4 DEF LogsIn
    <3>5. CASE Refreshes(r)
      BY <1>1, <2>2, <3>3, <3>5 DEF Refreshes, LoggedOut, TokensOf
    <3> QED
      BY <1>1, <3>1, <3>2, <3>4, <3>5 DEF StepEffect, Moves
  <2> QED
    BY <2>1, <2>2 DEF LoggedOut
<1>2. Inv /\ [Next]_vars =>
        [\A u \in Users : LoggedOut(u) /\ ~LoggedOut(u)' =>
            \E r \in Reqs : req[r] = Idle /\ req'[r] = Recognise(u, NoToken)]_vars
  BY <1>1, Effect DEF Inv
<1> QED
  BY <1>2, InvHolds, PTL DEF Spec, SessionNeedsLogin

\* A deleted refresh token is not valid again: what is inserted later was signed
\* later.
THEOREM RevokedForGoodHolds == Spec => RevokedForGood
<1>1. ASSUME TypeOK, StepEffect, NEW t \in Tokens, Dead(t)
      PROVE  Dead(t)'
  <2>1. t.iat \in Nat /\ t # NoToken /\ now \in Nat
    BY <1>1, AccessAssumption DEF TypeOK, Tokens, NoToken
  <2>2. t \notin tokens'
    BY <1>1 DEF Dead, StepEffect
  <2>3. now' > t.iat
    BY <1>1, <2>1 DEF Dead, StepEffect
  <2>4. ASSUME NEW r \in Reqs PROVE req'[r].fresh # t
    <3>1. \A u, o : Recognise(u, o).fresh = NoToken
      BY DEF Recognise, Idle
    <3>2. CASE req'[r] = req[r]
      BY <1>1, <3>2 DEF Dead
    <3>3. CASE Continues(r)
      BY <1>1, <2>1, <3>3 DEF Dead, Continues
    <3>4. CASE Ends(r)
      BY <1>1, <2>1, <3>4 DEF Dead, Ends
    <3>5. CASE LogsIn(r) \/ Refreshes(r)
      BY <2>1, <3>1, <3>5 DEF LogsIn, Refreshes
    <3> QED
      BY <1>1, <3>2, <3>3, <3>4, <3>5 DEF StepEffect, Moves
  <2> QED
    BY <2>2, <2>3, <2>4 DEF Dead
<1>2. TypeOK /\ [Next]_vars => [\A t \in Tokens : Dead(t) => Dead(t)']_vars
  BY <1>1, Effect
<1> QED
  BY <1>2, AccessTypes, PTL DEF Spec, RevokedForGood

-----------------------------------------------------------------------------
(* How many refresh tokens a user may have *)

\* A request about to insert is one that has cleaned up; what it inserts is its
\* user's, and it is about to insert no longer.
LEMMA InsertMoves ==
  ASSUME Inv, [Next]_vars
  PROVE  \/ /\ tokens' \subseteq tokens
            /\ \A u \in Users : Inserting(u)' \subseteq Inserting(u)
         \/ \E r \in Reqs :
               /\ tokens' = tokens \ TokensOf(req[r].user)
               /\ \A u \in Users \ {req[r].user} : Inserting(u)' \subseteq Inserting(u)
         \/ \E r \in Reqs, t \in Tokens :
               /\ tokens' = tokens \cup {t} /\ r \in Inserting(t.user)
               /\ Inserting(t.user)' \subseteq Inserting(t.user) \ {r}
               /\ \A u \in Users : Inserting(u)' \subseteq Inserting(u)
<1>1. TypeOK
  BY DEF Inv
<1>2. ASSUME NEW r \in Reqs, Others(r), req'[r].pc \notin {"sign", "store"}
      PROVE  \A u \in Users : Inserting(u)' \subseteq Inserting(u) \ {r}
  BY <1>2 DEF Others, Inserting
<1>3. ASSUME NEW r \in Reqs, Call(r)
      PROVE  /\ tokens' \subseteq tokens
             /\ \A u \in Users : Inserting(u)' \subseteq Inserting(u)
  <2>1. Others(r) /\ Moves(r) /\ tokens' = tokens /\ req[r] = Idle
    BY <1>1, <1>3, CallMoves DEF Call, Refresh, Login, Remove, UpdateMemberRole,
       SetPermissions, Invite
  <2>2. \A u, t : Recognise(u, t).pc \in {"cleanup", "findMember"}
    BY DEF Recognise, Idle
  <2>3. Idle.pc = "idle"
    BY DEF Idle
  <2>4. req'[r].pc \notin {"sign", "store"}
    BY <2>1, <2>2, <2>3 DEF Moves, LogsIn, Refreshes, Ends, Continues, Authenticating,
       Resolving, Admitted
  <2> QED
    BY <1>2, <2>1, <2>4
<1>4. ASSUME NEW r \in Reqs, Reject(r) \/ Discard(r) \/ InviteMember(r)
                               \/ DeleteUser(r) \/ ApplyChange(r)
      PROVE  /\ tokens' \subseteq tokens
             /\ \A u \in Users : Inserting(u)' \subseteq Inserting(u)
  <2>1. Fail(r) \/ Finish(r)
    BY <1>4 DEF Reject, Discard, InviteMember, DeleteUser, ApplyChange
  <2>2. Others(r) /\ req'[r].pc \notin {"sign", "store"}
    BY <1>1, <2>1, FailMoves DEF Ends, Authenticating, Admitted
  <2>3. tokens' \subseteq tokens
    BY <1>4 DEF Reject, Discard, InviteMember, DeleteUser, ApplyChange, Cascade
  <2> QED
    BY <1>2, <2>2, <2>3
<1>5. ASSUME NEW r \in Reqs, FindMember(r) \/ FindOrg(r) \/ CreateOrg(r)
                   \/ CheckOwned(r) \/ CheckMember(r) \/ CheckActive(r) \/ InviteUser(r)
      PROVE  /\ tokens' \subseteq tokens
             /\ \A u \in Users : Inserting(u)' \subseteq Inserting(u)
  <2>1. PICK p \in Requests : p = req[r]
    BY <1>1 DEF TypeOK
  <2>2. ASSUME Fail(r) \/ Finish(r)
        PROVE  Others(r) /\ req'[r].pc \notin {"sign", "store"}
    BY <1>1, <2>2, FailMoves DEF Ends, Authenticating, Admitted
  <2>3. ASSUME NEW q, Goto(r, q), q.pc \notin {"sign", "store"}
        PROVE  Others(r) /\ req'[r].pc \notin {"sign", "store"}
    BY <1>1, <2>3 DEF Goto, Others, TypeOK
  <2>4. ASSUME NEW pc, Await(r, pc), pc \notin {"sign", "store"}
        PROVE  Others(r) /\ req'[r].pc \notin {"sign", "store"}
    BY <1>1, <2>1, <2>4 DEF Await, Others, TypeOK, Requests
  <2>5. /\ \A o, role, view : [p EXCEPT !.pc = "checkOwned", !.org = o, !.role = role,
                                        !.view = view].pc = "checkOwned"
        /\ AsOwner(p).pc = "checkOwned"
        /\ \A o : [p EXCEPT !.pc = "checkActive", !.checked = o].pc = "checkActive"
    BY DEF Requests, AsOwner
  <2>6. Others(r) /\ req'[r].pc \notin {"sign", "store"}
    <3>1. CASE FindMember(r)
      BY <2>1, <2>3, <2>4, <2>5, <3>1 DEF FindMember
    <3>2. CASE FindOrg(r)
      BY <2>1, <2>3, <2>4, <2>5, <3>2 DEF FindOrg
    <3>3. CASE CreateOrg(r)
      BY <2>1, <2>2, <2>3, <2>5, <3>3 DEF CreateOrg
    <3>4. CASE CheckOwned(r)
      BY <2>1, <2>3, <2>4, <2>5, <3>4 DEF CheckOwned
    <3>5. CASE CheckMember(r)
      BY <2>1, <2>3, <2>4, <2>5, <3>5 DEF CheckMember
    <3>6. CASE CheckActive(r)
      BY <2>1, <2>2, <2>4, <3>6 DEF CheckActive
    <3>7. CASE InviteUser(r)
      BY <2>1, <2>2, <2>4, <3>7 DEF InviteUser
    <3> QED
      BY <1>5, <3>1, <3>2, <3>3, <3>4, <3>5, <3>6, <3>7
  <2>7. tokens' = tokens
    BY <1>5 DEF FindMember, FindOrg, CreateOrg, CheckOwned, CheckMember, CheckActive,
       InviteUser
  <2> QED
    BY <1>2, <2>6, <2>7
<1>6. ASSUME NEW r \in Reqs, Cleanup(r)
      PROVE  /\ tokens' = tokens \ TokensOf(req[r].user)
             /\ \A u \in Users \ {req[r].user} : Inserting(u)' \subseteq Inserting(u)
  <2>1. PICK p \in Requests : p = req[r]
    BY <1>1 DEF TypeOK
  <2>2. Others(r) /\ req'[r].user = req[r].user
    BY <1>1, <1>6, <2>1 DEF Cleanup, Await, Others, TypeOK, Requests
  <2> QED
    BY <1>6, <2>2 DEF Cleanup, Spent, Others, Inserting
<1>7. ASSUME NEW r \in Reqs, Sign(r)
      PROVE  /\ tokens' \subseteq tokens
             /\ \A u \in Users : Inserting(u)' \subseteq Inserting(u)
  <2>1. PICK p \in Requests : p = req[r]
    BY <1>1 DEF TypeOK
  <2>2. PICK q : q = [p EXCEPT !.pc = "store", !.fresh = Signed(p)]
    OBVIOUS
  <2>3. q.user = p.user
    BY <2>2 DEF Requests
  <2>4. Others(r) /\ req'[r] = q /\ p.pc = "sign" /\ tokens' = tokens
    BY <1>1, <1>7, <2>1, <2>2 DEF Sign, Goto, Others, TypeOK, At
  <2> QED
    BY <2>1, <2>3, <2>4 DEF Others, Inserting
<1>8. ASSUME NEW r \in Reqs, Store(r)
      PROVE  \/ /\ tokens' \subseteq tokens
                /\ \A u \in Users : Inserting(u)' \subseteq Inserting(u)
             \/ \E t \in Tokens :
                   /\ tokens' = tokens \cup {t} /\ r \in Inserting(t.user)
                   /\ Inserting(t.user)' \subseteq Inserting(t.user) \ {r}
                   /\ \A u \in Users : Inserting(u)' \subseteq Inserting(u)
  <2>1. Fail(r) \/ Finish(r)
    BY <1>8 DEF Store
  <2>2. Others(r) /\ req'[r].pc \notin {"sign", "store"}
    BY <1>1, <2>1, FailMoves DEF Ends, Authenticating, Admitted
  <2>3. \A u \in Users : Inserting(u)' \subseteq Inserting(u) \ {r}
    BY <1>2, <2>2
  <2>4. req[r].fresh \in Tokens /\ req[r].fresh.user = req[r].user /\ req[r].pc = "store"
    BY <1>8 DEF Inv, Established, Store, At
  <2>5. r \in Inserting(req[r].user) /\ req[r].user \in Users
    BY <2>4 DEF Inserting, Tokens
  <2> QED
    BY <1>8, <2>3, <2>4, <2>5 DEF Store
<1>9. CASE \/ \E t \in issued : Logout(t)
           \/ \E o \in Users, b \in BOOLEAN : SetActive(o, b)
           \/ \E a \in access : ExpireAccess(a)
           \/ Tick
           \/ UNCHANGED vars
  BY <1>9 DEF Logout, SetActive, ExpireAccess, Tick, vars, Inserting
<1> QED
  BY <1>3, <1>4, <1>5, <1>6, <1>7, <1>8, <1>9 DEF Next, Proceed

\* The tokens and the insertions of one user, counted.
Counted(u) == /\ IsFiniteSet(TokensOf(u))
              /\ Cardinality(TokensOf(u)) + Cardinality(Inserting(u)) <= Cardinality(Reqs)

\* Requests that are about to store a token are at most as many as requests.
LEMMA SomeInserting ==
  \A u : /\ IsFiniteSet(Inserting(u)) /\ Cardinality(Inserting(u)) \in Nat
         /\ Cardinality(Inserting(u)) <= Cardinality(Reqs) /\ Cardinality(Reqs) \in Nat
<1>1. \A u : Inserting(u) \subseteq Reqs
  BY DEF Inserting
<1> QED
  BY <1>1, AccessAssumption, FS_Subset, FS_CardinalityType

\* A user's tokens and the requests about to store one are no more than the
\* requests.
LEMMA CountedStep ==
  ASSUME Inv, TypeOK', [Next]_vars, NEW u \in Users, Counted(u)
  PROVE  Counted(u)'
<1> DEFINE had == TokensOf(u)  has == TokensOf(u)'
           was == Inserting(u) is == Inserting(u)'
<1>1. /\ IsFiniteSet(had) /\ Cardinality(had) \in Nat
      /\ IsFiniteSet(was) /\ Cardinality(was) \in Nat /\ Cardinality(Reqs) \in Nat
      /\ Cardinality(had) + Cardinality(was) <= Cardinality(Reqs)
  BY SomeInserting, FS_CardinalityType DEF Counted
<1>2. is \subseteq Reqs
  BY DEF Inserting
<1>3. IsFiniteSet(is) /\ Cardinality(is) \in Nat /\ Cardinality(is) <= Cardinality(Reqs)
  BY <1>2, AccessAssumption, FS_Subset, FS_CardinalityType
<1>4. ASSUME has \subseteq had, is \subseteq was
      PROVE  /\ IsFiniteSet(has)
             /\ Cardinality(has) + Cardinality(is) <= Cardinality(Reqs)
  <2>1. /\ IsFiniteSet(has) /\ Cardinality(has) \in Nat
        /\ Cardinality(has) <= Cardinality(had)
    BY <1>1, <1>4, FS_Subset, FS_CardinalityType
  <2>2. Cardinality(is) <= Cardinality(was)
    BY <1>1, <1>4, FS_Subset
  <2> HIDE DEF had, has, was, is
  <2> QED
    BY <1>1, <1>3, <2>1, <2>2
<1>5. ASSUME has = {}
      PROVE  /\ IsFiniteSet(has)
             /\ Cardinality(has) + Cardinality(is) <= Cardinality(Reqs)
  <2>1. IsFiniteSet(has) /\ Cardinality(has) = 0
    BY <1>5, FS_EmptySet
  <2> HIDE DEF had, has, was, is
  <2> QED
    BY <1>3, <2>1
<1>6. ASSUME NEW r \in was, NEW t, has = had \cup {t}, is \subseteq was \ {r}
      PROVE  /\ IsFiniteSet(has)
             /\ Cardinality(has) + Cardinality(is) <= Cardinality(Reqs)
  <2> HIDE DEF had, has, was, is
  <2>1. /\ IsFiniteSet(has) /\ Cardinality(has) \in Nat
        /\ Cardinality(has) <= Cardinality(had) + 1
    <3>1. Cardinality(has) = Cardinality(had) \/ Cardinality(has) = Cardinality(had) + 1
      BY <1>1, <1>6, FS_AddElement
    <3>2. IsFiniteSet(has)
      BY <1>1, <1>6, FS_AddElement
    <3> QED
      BY <1>1, <3>1, <3>2
  <2>2. IsFiniteSet(was \ {r}) /\ Cardinality(was \ {r}) = Cardinality(was) - 1
    BY <1>1, <1>6, FS_RemoveElement
  <2>3. Cardinality(is) <= Cardinality(was \ {r})
    BY <1>6, <2>2, FS_Subset
  <2> QED
    BY <1>1, <1>3, <2>1, <2>2, <2>3
<1>7. CASE \E r \in Reqs :
               /\ tokens' = tokens \ TokensOf(req[r].user)
               /\ \A v \in Users \ {req[r].user} : Inserting(v)' \subseteq Inserting(v)
  <2>1. PICK r \in Reqs :
               /\ tokens' = tokens \ TokensOf(req[r].user)
               /\ \A v \in Users \ {req[r].user} : Inserting(v)' \subseteq Inserting(v)
    BY <1>7
  <2>2. CASE u = req[r].user
    BY <1>5, <2>1, <2>2 DEF TokensOf, Counted
  <2>3. CASE u # req[r].user
    BY <1>4, <2>1, <2>3 DEF TokensOf, Counted
  <2> QED
    BY <2>2, <2>3
<1>8. CASE \E r \in Reqs, t \in Tokens :
               /\ tokens' = tokens \cup {t} /\ r \in Inserting(t.user)
               /\ Inserting(t.user)' \subseteq Inserting(t.user) \ {r}
               /\ \A v \in Users : Inserting(v)' \subseteq Inserting(v)
  <2>1. PICK r \in Reqs, t \in Tokens :
               /\ tokens' = tokens \cup {t} /\ r \in Inserting(t.user)
               /\ Inserting(t.user)' \subseteq Inserting(t.user) \ {r}
               /\ \A v \in Users : Inserting(v)' \subseteq Inserting(v)
    BY <1>8
  <2>2. CASE u = t.user
    <3>1. has = had \cup {t}
      BY <2>1, <2>2 DEF TokensOf
    <3> QED
      BY <1>6, <2>1, <2>2, <3>1 DEF Counted
  <2>3. CASE u # t.user
    BY <1>4, <2>1, <2>3 DEF TokensOf, Counted
  <2> QED
    BY <2>2, <2>3
<1>9. CASE /\ tokens' \subseteq tokens
           /\ \A v \in Users : Inserting(v)' \subseteq Inserting(v)
  BY <1>4, <1>9 DEF TokensOf, Counted
<1> QED
  BY <1>7, <1>8, <1>9, InsertMoves

\* However many requests overlap, a user has at most as many refresh tokens as
\* there can be requests at once; with requests one at a time there is one.
THEOREM TokensBoundedHolds == Spec => []TokensBounded
<1> DEFINE All == \A u \in Users : Counted(u)
<1>1. Init => All
  <2> SUFFICES ASSUME Init, NEW u \in Users PROVE Counted(u)
    OBVIOUS
  <2>1. TokensOf(u) = {}
    BY DEF Init, TokensOf
  <2>2. IsFiniteSet(TokensOf(u)) /\ Cardinality(TokensOf(u)) = 0
    BY <2>1, FS_EmptySet
  <2> QED
    BY <2>2, SomeInserting DEF Counted
<1>2. Inv /\ TypeOK' /\ All /\ [Next]_vars => All'
  BY CountedStep
<1>3. All => TokensBounded
  BY DEF Counted, TokensBounded
<1> HIDE DEF All
<1> QED
  BY <1>1, <1>2, <1>3, InvHolds, AccessTypes, PTL DEF Spec

-----------------------------------------------------------------------------
(* Disabled organizations *)

\* What ShutOut asks of a request of the user.
BarredRequest(u, r) ==
    req[r].user = u =>
      /\ req[r].pc \notin Admitted
      /\ req[r].pc = "checkActive" => req[r].checked = OrgOf(u)
      /\ req[r].pc \in {"findOrg", "createOrg"} => u \in DOMAIN orgs
      /\ req[r].pc = "checkMember" => u \notin DOMAIN orgs

\* To be shut out is a matter of one's organization and of each request.
LEMMA ShutOutRequests ==
  \A u : ShutOut(u) <=> /\ u \in users /\ OrgOf(u) # Null /\ ~orgs[OrgOf(u)]
                        /\ \A r \in Reqs : BarredRequest(u, r)
  BY DEF ShutOut, BarredRequest

\* The organization of a user who has one does not change while he is there.
LEMMA OrgStays ==
  ASSUME TypeOK, [Next]_vars, NEW u \in Users, ShutOut(u), u \in users'
  PROVE  /\ OrgOf(u)' = OrgOf(u)
         /\ u \in DOMAIN orgs' <=> u \in DOMAIN orgs
<1>1. OrgOf(u) # Null /\ (u \in DOMAIN orgs \/ u \in DOMAIN members)
  BY DEF ShutOut, OrgOf
<1>2. CASE UNCHANGED <<orgs, members>>
  BY <1>2 DEF OrgOf
<1>3. ASSUME NEW r \in Reqs, Call(r) PROVE UNCHANGED <<orgs, members>>
  BY <1>3 DEF Call, Refresh, Login, Remove, UpdateMemberRole, SetPermissions, Invite,
     tables
<1>4. ASSUME NEW r \in Reqs, CreateOrg(r)
      PROVE  OrgOf(u)' = OrgOf(u) /\ (u \in DOMAIN orgs' <=> u \in DOMAIN orgs)
  <2>1. req[r].user = u => u \in DOMAIN orgs
    BY <1>4 DEF CreateOrg, At, ShutOut
  <2>2. CASE orgs' = orgs
    BY <1>2, <1>4, <2>2 DEF CreateOrg
  <2>3. CASE orgs' = [o \in DOMAIN orgs \cup {req[r].user} |->
                        IF o = req[r].user THEN TRUE ELSE orgs[o]]
    BY <1>4, <2>1, <2>3 DEF CreateOrg, OrgOf
  <2> QED
    BY <1>4, <2>2, <2>3 DEF CreateOrg
<1>5. ASSUME NEW r \in Reqs, InviteMember(r)
      PROVE  OrgOf(u)' = OrgOf(u) /\ (u \in DOMAIN orgs' <=> u \in DOMAIN orgs)
  BY <1>1, <1>5 DEF InviteMember, OrgOf
<1>6. ASSUME NEW r \in Reqs, DeleteUser(r)
      PROVE  OrgOf(u)' = OrgOf(u) /\ (u \in DOMAIN orgs' <=> u \in DOMAIN orgs)
  BY <1>1, <1>6 DEF DeleteUser, OrgOf
<1>7. ASSUME NEW r \in Reqs, ApplyChange(r)
      PROVE  OrgOf(u)' = OrgOf(u) /\ (u \in DOMAIN orgs' <=> u \in DOMAIN orgs)
  <2>1. DOMAIN members' = DOMAIN members /\ orgs' = orgs
    BY <1>7 DEF ApplyChange
  <2>2. u \in DOMAIN members => members'[u].org = members[u].org
    <3>1. ASSUME u \in DOMAIN members, NEW v \in DOMAIN members, NEW z,
                 members' = [members EXCEPT ![v] = z], z.org = members[v].org
          PROVE  members'[u].org = members[u].org
      BY <3>1
    <3>2. CASE members' = members
      BY <3>2
    <3>3. CASE req[r].user \in DOMAIN members /\ req[r].pc = "setView"
      <4>1. PICK m \in MemberRow : m = members[req[r].user]
        BY <3>3 DEF TypeOK
      <4>2. PICK z : z = [m EXCEPT !.view = req[r].view]
        OBVIOUS
      <4>3. members' = [members EXCEPT ![req[r].user] = z]
        BY <1>7, <3>3, <4>1, <4>2 DEF ApplyChange
      <4>4. z.org = m.org
        BY <4>2 DEF MemberRow
      <4> QED
        BY <3>1, <3>3, <4>1, <4>3, <4>4
    <3>4. CASE req[r].user \in DOMAIN members /\ req[r].pc = "setRole"
      <4>1. PICK m \in MemberRow : m = members[req[r].user]
        BY <3>4 DEF TypeOK
      <4>2. PICK z : z = [m EXCEPT !.role = req[r].role]
        OBVIOUS
      <4>3. members' = [members EXCEPT ![req[r].user] = z]
        BY <1>7, <3>4, <4>1, <4>2 DEF ApplyChange
      <4>4. z.org = m.org
        BY <4>2 DEF MemberRow
      <4> QED
        BY <3>1, <3>4, <4>1, <4>3, <4>4
    <3> QED
      BY <1>7, <3>2, <3>3, <3>4 DEF ApplyChange
  <2> QED
    BY <2>1, <2>2 DEF OrgOf
<1>8. ASSUME NEW o \in Users, NEW b \in BOOLEAN, SetActive(o, b)
      PROVE  OrgOf(u)' = OrgOf(u) /\ (u \in DOMAIN orgs' <=> u \in DOMAIN orgs)
  BY <1>8 DEF SetActive, OrgOf
<1>9. ASSUME NEW r \in Reqs,
             \/ FindMember(r) \/ FindOrg(r) \/ CheckOwned(r) \/ CheckMember(r)
             \/ CheckActive(r) \/ Cleanup(r) \/ Sign(r) \/ Store(r) \/ Discard(r)
             \/ InviteUser(r) \/ Reject(r)
      PROVE  UNCHANGED <<orgs, members>>
  BY <1>9 DEF FindMember, FindOrg, CheckOwned, CheckMember, CheckActive, Cleanup, Sign,
     Store, Discard, InviteUser, Reject, tables
<1>10. CASE \/ (\E t \in issued : Logout(t)) \/ (\E a \in access : ExpireAccess(a))
            \/ Tick \/ UNCHANGED vars
  BY <1>2, <1>10 DEF Logout, ExpireAccess, Tick, vars, tables
<1>11. CASE \E r \in Reqs : Proceed(r)
  BY <1>2, <1>4, <1>5, <1>6, <1>7, <1>9, <1>11 DEF Proceed
<1> QED
  BY <1>2, <1>3, <1>8, <1>9, <1>10, <1>11 DEF Next

\* A request of such a user does not get past the test of isActive: each step
\* reads what the step before it left true, or fails.
LEMMA RequestStays ==
  ASSUME TypeOK, [Next]_vars, NEW u \in Users, ShutOut(u), u \in users',
         NEW x \in Reqs
  PROVE  BarredRequest(u, x)'
<1>1. OrgOf(u)' = OrgOf(u) /\ (u \in DOMAIN orgs' <=> u \in DOMAIN orgs)
  BY OrgStays
<1>2. /\ OrgOf(u) # Null /\ ~orgs[OrgOf(u)] /\ u \notin Clients
      /\ u \in DOMAIN orgs => OrgOf(u) = u
      /\ u \notin DOMAIN orgs => u \in DOMAIN members /\ OrgOf(u) = members[u].org
  BY AccessAssumption DEF ShutOut, OrgOf, TypeOK
<1>3. \A r \in Reqs : BarredRequest(u, r)
  BY ShutOutRequests
<1>4. ASSUME req'[x] = req[x] PROVE BarredRequest(u, x)'
  BY <1>1, <1>3, <1>4 DEF BarredRequest
<1>5. ASSUME NEW q, req'[x] = q, q.user = u =>
                /\ q.pc \notin Admitted
                /\ q.pc = "checkActive" => q.checked = OrgOf(u)
                /\ q.pc \in {"findOrg", "createOrg"} => u \in DOMAIN orgs
                /\ q.pc = "checkMember" => u \notin DOMAIN orgs
      PROVE  BarredRequest(u, x)'
  BY <1>1, <1>5 DEF BarredRequest
<1>6. ASSUME req'[x].pc \in {"idle", "discard", "findMember", "checkOwned"} \cup Managing
      PROVE  BarredRequest(u, x)'
  BY <1>5, <1>6 DEF Admitted, Managing
<1>7. ASSUME Fail(x) \/ Finish(x) PROVE BarredRequest(u, x)'
  <2>1. req'[x].pc \notin Authenticating
    BY <1>7, FailMoves DEF Ends
  <2> QED
    BY <1>5, <2>1 DEF Authenticating, Resolving
<1>8. ASSUME NEW r \in Reqs, Call(r) PROVE BarredRequest(u, x)'
  <2>1. Others(r)
    BY <1>8, CallMoves
  <2>2. CASE x # r
    BY <1>4, <2>1, <2>2 DEF Others
  <2>3. CASE x = r
    <3>1. CASE \E v \in Users : \E t : Goto(r, Recognise(v, t))
      <4>1. PICK v \in Users : \E t : Goto(r, Recognise(v, t))
        BY <3>1
      <4>2. PICK t : Goto(r, Recognise(v, t))
        BY <4>1
      <4>3. PICK q : q = Recognise(v, t)
        OBVIOUS
      <4>4. req'[x] = q
        BY <2>3, <4>2, <4>3 DEF Goto, TypeOK
      <4>5. q.user = v /\ (v \notin Clients => q.pc = "findMember")
        BY <4>3 DEF Recognise, Idle
      <4> QED
        BY <1>2, <1>5, <4>4, <4>5 DEF Admitted
    <3>2. CASE \E t \in issued : Goto(r, [Idle EXCEPT !.pc = "discard", !.user = t.user,
                                                      !.old = t])
      <4>1. PICK t \in issued : Goto(r, [Idle EXCEPT !.pc = "discard", !.user = t.user,
                                                     !.old = t])
        BY <3>2
      <4>2. req'[x].pc = "discard"
        BY <2>3, <4>1 DEF Goto, TypeOK, Idle
      <4> QED
        BY <1>6, <4>2
    <3>3. CASE \E t \in issued : Refresh(r, t)
      BY <3>1, <3>2, <3>3 DEF Refresh, TypeOK, Tokens
    <3>4. CASE \E v \in Users : Login(r, v)
      BY <3>1, <3>4 DEF Login
    <3>5. ASSUME NEW v \in Users, NEW role \in MemberRoles, NEW b \in BOOLEAN,
                 NEW o \in Users,
                 \/ Remove(r, v) \/ UpdateMemberRole(r, v, role)
                 \/ SetPermissions(r, v, b) \/ Invite(r, o, v, role)
          PROVE  BarredRequest(u, x)'
      <4>1. req'[x].pc \in Managing
        BY <2>3, <3>5, ZenonT(40) DEF TypeOK, Remove, UpdateMemberRole, SetPermissions, Invite, Goto,
           Idle, Managing
      <4> QED
        BY <1>6, <4>1
    <3>6. "MEMBER" \in MemberRoles /\ TRUE \in BOOLEAN
      BY DEF MemberRoles
    <3> QED
      BY <1>8, <3>3, <3>4, <3>5, <3>6 DEF Call
  <2> QED
    BY <2>2, <2>3
<1>9. ASSUME NEW r \in Reqs, Proceed(r) PROVE BarredRequest(u, x)'
  <2>1. Others(r)
    BY <1>9, ProceedMoves
  <2>2. CASE x # r
    BY <1>4, <2>1, <2>2 DEF Others
  <2>3. CASE x = r
    <3>1. PICK p \in Requests : p = req[r]
      BY DEF TypeOK
    <3>2. BarredRequest(u, r)
      BY <1>3, <3>1
    <3>3. ASSUME NEW q, Goto(r, q) PROVE req'[x] = q
      BY <2>3, <3>3 DEF Goto, TypeOK
    <3>4. ASSUME NEW pc, Await(r, pc)
          PROVE  req'[x].pc = pc /\ req'[x].user = p.user
      BY <2>3, <3>1, <3>4 DEF Await, TypeOK, Requests
    <3>5. CASE Store(r) \/ Discard(r) \/ InviteMember(r) \/ DeleteUser(r)
               \/ ApplyChange(r) \/ Fail(r) \/ Finish(r)
      BY <1>7, <2>3, <3>5 DEF Store, Discard, InviteMember, DeleteUser, ApplyChange
    <3>6. CASE FindMember(r)
      <4>1. CASE Await(r, "findOrg") /\ p.user \notin DOMAIN members
        BY <1>2, <1>5, <3>4, <4>1 DEF Admitted
      <4>2. CASE p.user \in DOMAIN members
        <5>1. PICK q : /\ Goto(r, q)
                       /\ q = [p EXCEPT !.pc = "checkOwned", !.org = members[p.user].org,
                                        !.role = members[p.user].role,
                                        !.view = members[p.user].view]
          BY <3>1, <3>6, <4>2 DEF FindMember
        <5>2. q.pc = "checkOwned"
          BY <5>1 DEF Requests
        <5> QED
          BY <1>6, <3>3, <5>1, <5>2
      <4> QED
        BY <3>1, <3>6, <4>1, <4>2 DEF FindMember
    <3>7. CASE FindOrg(r)
      <4>1. CASE Await(r, "createOrg") /\ p.user \notin DOMAIN orgs
        BY <1>5, <3>1, <3>2, <3>4, <3>7, <4>1 DEF FindOrg, At, BarredRequest, Admitted
      <4>2. CASE Goto(r, AsOwner(p))
        <5>1. PICK q : Goto(r, q) /\ q = AsOwner(p)
          BY <4>2
        <5>2. q.pc = "checkOwned"
          BY <5>1 DEF AsOwner, Requests
        <5> QED
          BY <1>6, <3>3, <5>1, <5>2
      <4> QED
        BY <3>1, <3>7, <4>1, <4>2 DEF FindOrg
    <3>8. CASE CreateOrg(r)
      <4>1. CASE Goto(r, AsOwner(p))
        <5>1. PICK q : Goto(r, q) /\ q = AsOwner(p)
          BY <4>1
        <5>2. q.pc = "checkOwned"
          BY <5>1 DEF AsOwner, Requests
        <5> QED
          BY <1>6, <3>3, <5>1, <5>2
      <4> QED
        BY <3>1, <3>5, <3>8, <4>1 DEF CreateOrg
    <3>9. ASSUME NEW o, Goto(r, [p EXCEPT !.pc = "checkActive", !.checked = o]),
                 p.user = u => o = OrgOf(u)
          PROVE  BarredRequest(u, x)'
      <4>1. PICK q : Goto(r, q) /\ q = [p EXCEPT !.pc = "checkActive", !.checked = o]
        BY <3>9
      <4>2. q.pc = "checkActive" /\ q.checked = o /\ q.user = p.user
        BY <4>1 DEF Requests
      <4>3. req'[x] = q
        BY <3>3, <4>1
      <4> QED
        BY <1>5, <3>9, <4>2, <4>3 DEF Admitted
    <3>10. CASE CheckOwned(r)
      <4>1. CASE Await(r, "checkMember") /\ p.user \notin DOMAIN orgs
        BY <1>5, <3>4, <4>1 DEF Admitted
      <4> QED
        BY <1>2, <3>1, <3>9, <3>10, <4>1 DEF CheckOwned
    <3>11. CASE CheckMember(r)
      <4>1. p.user = u => u \notin DOMAIN orgs
        BY <3>1, <3>2, <3>11 DEF CheckMember, At, BarredRequest
      <4>2. CASE Await(r, "cleanup") /\ p.user \notin DOMAIN members
        BY <1>2, <1>5, <3>4, <4>1, <4>2
      <4> QED
        BY <1>2, <3>1, <3>9, <3>11, <4>1, <4>2 DEF CheckMember
    <3>12. CASE CheckActive(r)
      <4>1. p.user = u => p.checked = OrgOf(u)
        BY <3>1, <3>2, <3>12 DEF CheckActive, At, BarredRequest
      <4>2. CASE Await(r, "cleanup") /\ orgs[p.checked]
        BY <1>2, <1>5, <3>4, <4>1, <4>2
      <4> QED
        BY <3>1, <3>5, <3>12, <4>2 DEF CheckActive, MayEnter
    <3>13. CASE Cleanup(r)
      <4>1. p.user # u
        BY <3>1, <3>2, <3>13 DEF Cleanup, At, BarredRequest, Admitted
      <4>2. req'[x].user = p.user
        BY <3>4, <3>13 DEF Cleanup
      <4> QED
        BY <1>5, <4>1, <4>2
    <3>14. CASE Sign(r)
      <4>1. p.user # u
        BY <3>1, <3>2, <3>14 DEF Sign, At, BarredRequest, Admitted
      <4>2. PICK q : Goto(r, q) /\ q = [p EXCEPT !.pc = "store", !.fresh = Signed(p)]
        BY <3>1, <3>14 DEF Sign
      <4>3. req'[x] = q /\ q.user = p.user
        BY <3>3, <4>2 DEF Requests
      <4> QED
        BY <1>5, <4>1, <4>3
    <3>15. CASE InviteUser(r)
      <4>1. CASE Await(r, "inviteMember")
        BY <1>6, <3>4, <4>1 DEF Managing
      <4> QED
        BY <3>5, <3>15, <4>1 DEF InviteUser
    <3> QED
      BY <1>9, <2>3, <3>5, <3>6, <3>7, <3>8, <3>10, <3>11, <3>12, <3>13, <3>14, <3>15
         DEF Proceed
  <2> QED
    BY <2>2, <2>3
<1>10. ASSUME NEW r \in Reqs, Reject(r) PROVE BarredRequest(u, x)'
  <2>1. (Fail(r) \/ Finish(r)) /\ Others(r)
    BY <1>10, FailMoves DEF Reject
  <2> QED
    BY <1>4, <1>7, <2>1 DEF Others
<1>11. CASE \/ (\E t \in issued : Logout(t)) \/ (\E a \in access : ExpireAccess(a))
            \/ (\E o \in Users, b \in BOOLEAN : SetActive(o, b))
            \/ Tick \/ UNCHANGED vars
  BY <1>4, <1>11 DEF Logout, ExpireAccess, SetActive, Tick, vars
<1> QED
  BY <1>8, <1>9, <1>10, <1>11 DEF Next

\* A user whose organization is disabled, and who has no request past the test,
\* is admitted by no login and no refresh before it is enabled again.
THEOREM DisabledStaysOutHolds == Spec => DisabledStaysOut
<1>1. ASSUME TypeOK, [Next]_vars, NEW u \in Users, ShutOut(u), u \in users',
             ~orgs'[OrgOf(u)]
      PROVE  ShutOut(u)'
  <2>1. OrgOf(u)' = OrgOf(u)
    BY <1>1, OrgStays
  <2>2. \A x \in Reqs : BarredRequest(u, x)'
    BY <1>1, RequestStays
  <2> QED
    BY <1>1, <2>1, <2>2 DEF ShutOut, BarredRequest
<1>2. TypeOK /\ [Next]_vars =>
        [\A u \in Users :
            ShutOut(u) => ShutOut(u)' \/ orgs'[OrgOf(u)] \/ u \notin users']_vars
  BY <1>1
<1> QED
  BY <1>2, AccessTypes, PTL DEF Spec, DisabledStaysOut
=============================================================================
