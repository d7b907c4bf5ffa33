------------------------ MODULE Applications_proofs -------------------------
(***************************************************************************)
(* The applications of clients implement ApplicationLifecycle, for any     *)
(* users, applications and requests; and a submission of a partner that    *)
(* nothing disturbs finds every active application, for any students,      *)
(* applications, intakes and requests.  A user has the profile due to him;  *)
(* and the daily job carries the programs of every closed intake on to the *)
(* next cycle.                                                             *)
(***************************************************************************)
EXTENDS ClientApplications, PartnerApplications, Accounts, Intakes,
        FiniteSetTheorems, WellFoundedInduction, TLAPS

-----------------------------------------------------------------------------
(* ClientApplications *)

\* What a request has established: a new row may be inserted with what it
\* brings; other requests know their application, what they are to write of
\* it, and, past their test, that the status they read allows it.
Established(q) ==
    /\ q.pc = "insert" => q.user \in Profiled /\ q.new \in AppStatuses
    /\ q.pc \notin {"idle", "insert"} =>
         /\ q.app \in Applications
         /\ q.read \in [owner : Profiled, status : AppStatuses]
    /\ q.pc = "applyStatus" => q.user \in Admins /\ q.new \in AppStatuses
    /\ q.pc \in {"checkUpdate", "applyUpdate"} =>
         q.new \in (IF q.user \in Admins THEN AppStatuses ELSE Wishes) \cup {Null}
    /\ q.pc \in {"applyRemove", "applySubmit"} => Owned(q, {"DRAFT"})
    /\ q.pc = "applyUpdate" /\ q.user \notin Admins =>
         Owned(q, {"DRAFT", "REJECTED"})

\* The inductive invariant.
CAInv == CATypeOK /\ \A r \in Reqs : Established(appReq[r])

\* What is implemented: a step of the lifecycle, or none.
LStep == LC!LNext \/ UNCHANGED LC!lvars

\* What a request has decided to do, if anything.
Taken(r, q) == IF Decided(q) THEN {DecisionOf(r, q)} ELSE {}

\* The decisions in flight, request by request.
LEMMA DecidedIs == DecidedNow = UNION {Taken(r, appReq[r]) : r \in Reqs}
BY DEF DecidedNow, Taken

\* The same of the next state.
LEMMA DecidedIsNext == (DecidedNow = UNION {Taken(r, appReq[r]) : r \in Reqs})'
  BY DecidedIs, PTL

\* A decision names the request that took it.
LEMMA DecidedBy == \A r, q : \A d \in Taken(r, q) : d.by = r
BY DEF Taken, DecisionOf

\* A step of one request changes its own decision only.
LEMMA StepDecisions ==
  ASSUME CATypeOK, NEW r \in Reqs, NEW q, appReq' = Step(appReq, r, q)
  PROVE  DecidedNow' = {d \in DecidedNow : d.by # r} \cup Taken(r, q)
<1>1. DecidedNow' = UNION {Taken(x, appReq'[x]) : x \in Reqs}
  BY DecidedIsNext
<1>2. \A x \in Reqs : appReq'[x] = IF x = r THEN q ELSE appReq[x]
  BY DEF CATypeOK, Step
<1> QED
  BY <1>1, <1>2, DecidedBy, DecidedIs

\* What a request has decided is among the decisions in flight, and nothing else
\* of its is.
LEMMA OwnDecisions ==
  ASSUME NEW r \in Reqs
  PROVE  {d \in DecidedNow : d.by = r} = Taken(r, appReq[r])
BY DecidedIs, DecidedBy

\* Three ways to leave the applications alone: the request goes on with what it has
\* decided, drops it, or decides what it may as the application is.
LEMMA ApplicationQuiet ==
  ASSUME CAInv, NEW r \in Reqs, NEW q, appReq' = Step(appReq, r, q),
         UNCHANGED <<apps, appsGone>>,
         \/ Taken(r, q) = Taken(r, appReq[r])
         \/ ~ Decided(q)
         \/ /\ ~ Decided(appReq[r])
            /\ Decided(q) => /\ q.app \in DOMAIN apps
                             /\ DecisionOf(r, q) \in LC!Decision
                             /\ LC!May(DecisionOf(r, q))
  PROVE  LStep
<1>1. DecidedNow' = {d \in DecidedNow : d.by # r} \cup Taken(r, q)
  BY StepDecisions DEF CAInv
<1>2. {d \in DecidedNow : d.by = r} = Taken(r, appReq[r])
  BY OwnDecisions
<1>3. CASE Taken(r, q) = Taken(r, appReq[r])
  BY <1>1, <1>2, <1>3 DEF LC!lvars, LStep
<1>4. CASE ~ Decided(q)
  <2>1. CASE ~ Decided(appReq[r])
    BY <1>3, <1>4, <2>1 DEF Taken
  <2>2. CASE Decided(appReq[r])
    <3> DEFINE d == DecisionOf(r, appReq[r])
    <3>1. Taken(r, appReq[r]) = {d} /\ Taken(r, q) = {}
      BY <1>4, <2>2 DEF Taken
    <3>2. d \in DecidedNow /\ DecidedNow' = DecidedNow \ {d}
      BY <1>1, <1>2, <3>1
    <3> HIDE DEF d
    <3> QED BY <3>2 DEF LC!LNext, LC!Drop, LStep
  <2> QED BY <2>1, <2>2
<1>5. CASE /\ ~ Decided(appReq[r]) /\ Decided(q)
           /\ q.app \in DOMAIN apps
           /\ DecisionOf(r, q) \in LC!Decision /\ LC!May(DecisionOf(r, q))
  <2> DEFINE d == DecisionOf(r, q)
  <2>1. Taken(r, appReq[r]) = {} /\ Taken(r, q) = {d}
    BY <1>5 DEF Taken
  <2>2. DecidedNow' = DecidedNow \cup {d} /\ \A e \in DecidedNow : e.by # r
    BY <1>1, <1>2, <2>1
  <2>3. d.by = r /\ d.app = q.app
    BY DEF DecisionOf
  <2>4. d \in LC!Decision /\ LC!May(d) /\ d.app \in DOMAIN apps
    BY <1>5, <2>3
  <2> HIDE DEF d
  <2>5. LC!Decide(d)
    BY <2>2, <2>3, <2>4 DEF LC!Decide
  <2> QED BY <2>4, <2>5 DEF LC!LNext, LStep
<1> QED
  BY <1>3, <1>4, <1>5

\* The invariant is about the rows and each request by itself.
LEMMA StepInv ==
  ASSUME CAInv, NEW r \in Reqs, NEW q \in AppRequest \cup {AppIdle}, Established(q),
         appReq' = Step(appReq, r, q),
         DOMAIN apps' \subseteq Applications, apps' \in [DOMAIN apps' -> Application],
         appsGone' \subseteq Applications \ DOMAIN apps'
  PROVE  CAInv'
<1>1. appReq' \in [Reqs -> AppRequest \cup {AppIdle}]
  BY DEF CAInv, CATypeOK, Step
<1>2. \A x \in Reqs : appReq'[x] = IF x = r THEN q ELSE appReq[x]
  BY DEF CAInv, CATypeOK, Step
<1> QED
  BY <1>1, <1>2 DEF CAInv, CATypeOK, Established

\* A request that leaves the tables alone.
LEMMA QuietInv ==
  ASSUME CAInv, NEW r \in Reqs, NEW q \in AppRequest \cup {AppIdle}, Established(q),
         appReq' = Step(appReq, r, q), UNCHANGED <<apps, appsGone>>
  PROVE  CAInv'
BY StepInv DEF CAInv, CATypeOK

\* The idle request knows nothing and has decided nothing.
LEMMA Idle == Established(AppIdle) /\ ~ Decided(AppIdle)
BY DEF Established, Decided, AppIdle

\* The end of a request that leaves the tables alone.
LEMMA Finishes ==
  ASSUME CAInv, NEW r \in Reqs, AppFinish(r), UNCHANGED <<apps, appsGone>>
  PROVE  CAInv' /\ LStep
BY Idle, QuietInv, ApplicationQuiet DEF AppFinish, AppGoto

\* A new application's request.
LEMMA ApplicationCreated ==
  ASSUME CAInv, NEW r \in Reqs, NEW u \in Applicants, NEW dto \in CreateApplicationDto,
         Create(r, u, dto)
  PROVE  CAInv' /\ LStep
<1>1. PICK new \in AppStatuses :
        AppGoto(r, [AppIdle EXCEPT !.pc = "insert", !.user = u, !.new = new])
  BY DEF CreateApplicationDto, AppStatuses, Create
<1>2. PICK q : q = [AppIdle EXCEPT !.pc = "insert", !.user = u, !.new = new]
  OBVIOUS
<1>3. q = [pc |-> "insert", user |-> u, app |-> Null, read |-> Null, new |-> new]
  BY <1>2 DEF AppIdle
<1>4. q \in AppRequest /\ Established(q) /\ ~ Decided(q)
  BY <1>1, <1>3 DEF AppRequest, Established, Decided, Create
<1>5. appReq' = Step(appReq, r, q) /\ UNCHANGED <<apps, appsGone>>
  BY <1>1, <1>2 DEF Create, AppGoto
<1> QED
  BY <1>4, <1>5, QuietInv, ApplicationQuiet

\* The four operations on an existing application begin alike; what one decides
\* by what it reads, it may as the application is.
LEMMA ApplicationFound ==
  ASSUME CAInv, NEW r \in Reqs, NEW u \in Applicants, NEW a \in Applications,
         NEW pc \in {"checkUpdate", "checkRemove", "checkSubmit", "applyStatus"},
         NEW new \in AppStatuses \cup Wishes \cup {Null},
         pc = "applyStatus" => u \in Admins /\ new \in AppStatuses,
         pc = "checkUpdate" =>
           new \in (IF u \in Admins THEN AppStatuses ELSE Wishes) \cup {Null},
         Find(r, pc, u, a, new)
  PROVE  CAInv' /\ LStep
<1> DEFINE read == [owner |-> apps[a].owner, status |-> apps[a].status]
           q == [pc |-> pc, user |-> u, app |-> a, new |-> new, read |-> read]
<1>1. a \in DOMAIN apps /\ read \in [owner : Profiled, status : AppStatuses]
  BY DEF CAInv, CATypeOK, Application, Find
<1>2. q \in AppRequest /\ Established(q)
  BY <1>1 DEF AppRequest, Established
<1>3. appReq' = Step(appReq, r, q) /\ UNCHANGED <<apps, appsGone>>
  BY DEF Find, AppGoto
<1>4. ~ Decided(appReq[r])
  BY Idle DEF Find
<1>5. /\ q.pc = pc /\ q.user = u /\ q.app = a /\ q.new = new
      /\ q.read.owner = apps[a].owner /\ q.read.status = apps[a].status
  OBVIOUS
<1> HIDE DEF q
<1>6. ASSUME Decided(q)
      PROVE  DecisionOf(r, q) \in LC!Decision /\ LC!May(DecisionOf(r, q))
  <2> DEFINE d == DecisionOf(r, q)
  <2>1. d.by = r /\ d.user = u /\ d.app = a /\ d.what = What(q)
    BY <1>5 DEF DecisionOf
  <2>2. CASE pc \in {"checkSubmit", "checkRemove"}
    <3>1. apps[a].owner = u /\ apps[a].status \in {"DRAFT"}
      BY <1>5, <1>6, <2>2 DEF Decided, Owned
    <3>2. \/ d.what = "submit" /\ d.to = "SUBMITTED"
          \/ d.what = "remove" /\ d.to = "deleted"
      BY <1>5, <2>2 DEF DecisionOf, What
    <3>3. d \in LC!Decision
      BY <2>1, <3>2 DEF DecisionOf, LC!Decision, AppStatuses
    <3> HIDE DEF d
    <3> QED BY <2>1, <3>1, <3>2, <3>3 DEF LC!May, LC!Owners, d
  <2>3. CASE pc \in {"checkUpdate", "applyStatus"}
    <3>1. d.what = (IF u \in Admins THEN "review" ELSE "edit") /\ d.to = new
      BY <1>5, <2>3 DEF DecisionOf, What
    <3>2. new # Null
      BY <1>5, <1>6, <2>3 DEF Decided
    <3>3. IF u \in Admins THEN new \in AppStatuses ELSE new \in Wishes
      BY <2>3, <3>2
    <3>4. u \notin Admins =>
            apps[a].owner = u /\ apps[a].status \in {"DRAFT", "REJECTED"}
      BY <1>5, <1>6, <2>3 DEF Decided, Owned
    <3>5. d \in LC!Decision
      BY <2>1, <3>1, <3>3 DEF DecisionOf, LC!Decision
    <3> HIDE DEF d
    <3> QED BY <2>1, <3>1, <3>3, <3>4, <3>5 DEF LC!May, LC!Owners, d
  <2> QED BY <2>2, <2>3
<1> QED
  BY <1>1, <1>2, <1>3, <1>4, <1>5, <1>6, QuietInv, ApplicationQuiet

\* The test of a request, and its end or the write that follows: a request that
\* passes had decided when it read.
LEMMA CheckStep ==
  ASSUME CAInv, NEW r \in Reqs, CheckUpdate(r) \/ CheckRemove(r) \/ CheckSubmit(r)
  PROVE  CAInv' /\ LStep
<1> DEFINE q0 == appReq[r]
<1>0. q0 \in AppRequest \cup {AppIdle} /\ Established(q0) /\ q0.pc # "idle"
  BY DEF CAInv, CATypeOK, CheckUpdate, CheckRemove, CheckSubmit, AppAt
<1>1. q0 \in AppRequest
  BY <1>0 DEF AppIdle
<1>2. UNCHANGED <<apps, appsGone>>
  BY DEF CheckUpdate, CheckRemove, CheckSubmit, CheckOwned
<1>3. CASE AppFinish(r)
  BY <1>2, <1>3, Finishes
<1>4. ASSUME NEW pc, AppAwait(r, pc),
             \/ /\ q0.pc = "checkUpdate" /\ pc = "applyUpdate"
                /\ Owned(q0, IF q0.user \in Admins THEN AppStatuses
                             ELSE {"DRAFT", "REJECTED"})
             \/ q0.pc = "checkRemove" /\ pc = "applyRemove" /\ Owned(q0, {"DRAFT"})
             \/ q0.pc = "checkSubmit" /\ pc = "applySubmit" /\ Owned(q0, {"DRAFT"})
      PROVE  CAInv' /\ LStep
  <2>1. PICK q : q = [q0 EXCEPT !.pc = pc]
    OBVIOUS
  <2>2. /\ q.pc = pc /\ q.user = q0.user /\ q.app = q0.app
        /\ q.read = q0.read /\ q.new = q0.new
    BY <1>1, <2>1 DEF AppRequest
  <2>3. q \in AppRequest
    BY <1>1, <1>4, <2>1 DEF AppRequest
  <2>4. Established(q)
    BY <1>0, <1>4, <2>2 DEF Established, Owned
  <2>5. Decided(q) <=> Decided(q0)
    BY <1>4, <2>2 DEF Decided
  <2>6. DecisionOf(r, q) = DecisionOf(r, q0)
    BY <1>4, <2>2 DEF DecisionOf, What
  <2>7. Taken(r, q) = Taken(r, q0)
    BY <2>5, <2>6 DEF Taken
  <2>8. appReq' = Step(appReq, r, q)
    BY <1>4, <2>1 DEF AppAwait, Step, CAInv, CATypeOK
  <2> QED
    BY <1>2, <2>3, <2>4, <2>7, <2>8, QuietInv, ApplicationQuiet
<1>5. q0.read.status \in AppStatuses
  BY <1>0 DEF Established, CheckUpdate, CheckRemove, CheckSubmit, AppAt
<1>6. CASE CheckUpdate(r)
  BY <1>3, <1>4, <1>5, <1>6 DEF CheckUpdate, CheckOwned, Owned, AppAt
<1>7. CASE CheckRemove(r)
  BY <1>3, <1>4, <1>7 DEF CheckRemove, CheckOwned, Owned, AppAt
<1>8. CASE CheckSubmit(r)
  BY <1>3, <1>4, <1>8 DEF CheckSubmit, CheckOwned, Owned, AppAt
<1> QED
  BY <1>6, <1>7, <1>8

\* A new row.
LEMMA ApplicationInserted ==
  ASSUME CAInv, NEW r \in Reqs, Insert(r)
  PROVE  CAInv' /\ LStep
<1> DEFINE q == appReq[r]
           row == [owner |-> q.user, status |-> q.new, wish |-> "first"]
<1>1. PICK a \in Applications \ (DOMAIN apps \cup appsGone) : apps' = With(apps, a, row)
  BY DEF Insert
<1>2. /\ DOMAIN apps' = DOMAIN apps \cup {a} /\ apps'[a] = row
      /\ \A b \in DOMAIN apps : apps'[b] = apps[b]
  BY <1>1 DEF With
<1>3. Established(q) /\ q.pc = "insert" /\ ~ Decided(q)
  BY DEF CAInv, Insert, AppAt, Decided
<1>4. row \in Application /\ row \in LC!Row
  BY <1>3, ApplicantsAssumption DEF Established, Application, Wishes, LC!Row
<1> HIDE DEF row
<1>5. appReq' = Step(appReq, r, AppIdle) /\ appsGone' = appsGone
  BY DEF Insert, AppFinish, AppGoto
<1>6. CAInv'
  <2>1. apps' \in [DOMAIN apps' -> Application]
    BY <1>1, <1>2, <1>4 DEF With, CAInv, CATypeOK
  <2> QED
    BY <1>1, <1>2, <1>5, <2>1, Idle, StepInv DEF CAInv, CATypeOK
<1>7. DecidedNow' = DecidedNow
  <2>1. DecidedNow' = {d \in DecidedNow : d.by # r} \cup Taken(r, AppIdle)
    BY <1>5, StepDecisions DEF CAInv
  <2>2. Taken(r, q) = {} /\ Taken(r, AppIdle) = {}
    BY <1>3, Idle DEF Taken
  <2> QED BY <2>1, <2>2, OwnDecisions
<1>8. LC!Open(a, row)
  BY <1>1, <1>5, <1>7 DEF LC!Open, With
<1> QED
  BY <1>1, <1>4, <1>6, <1>8 DEF LC!LNext, LStep

\* A request that ends has carried out what it decided, or dropped it.
LEMMA EndDecisions ==
  ASSUME CAInv, NEW r \in Reqs, AppFinish(r), Decided(appReq[r])
  PROVE  LET d == DecisionOf(r, appReq[r])
         IN  d \in DecidedNow /\ DecidedNow' = DecidedNow \ {d}
<1>1. DecidedNow' = {d \in DecidedNow : d.by # r} \cup Taken(r, AppIdle)
  BY StepDecisions DEF CAInv, AppFinish, AppGoto
<1>2. Taken(r, appReq[r]) = {DecisionOf(r, appReq[r])} /\ Taken(r, AppIdle) = {}
  BY Idle DEF Taken
<1> QED
  BY <1>1, <1>2, OwnDecisions

\* The rows after `Apply` has written one.
FieldWritten(a, field, value) == [apps EXCEPT ![a] = [@ EXCEPT ![field] = value]]

\* A request that writes had decided it, as to field and value.
LEMMA AtWrite ==
  ASSUME CAInv, NEW r \in Reqs, NEW field, NEW value, value # Null,
         \/ ApplyUpdate(r) /\ value = appReq[r].new
            /\ field = (IF appReq[r].user \in Admins THEN "status" ELSE "wish")
         \/ ApplyStatus(r) /\ value = appReq[r].new /\ field = "status"
         \/ ApplySubmit(r) /\ value = "SUBMITTED" /\ field = "status"
  PROVE  /\ appReq[r].app \in Applications /\ Decided(appReq[r])
         /\ DecisionOf(r, appReq[r]).app = appReq[r].app
         /\ DecisionOf(r, appReq[r]).to = value
         /\ \/ /\ field = "status" /\ value \in AppStatuses
               /\ What(appReq[r]) \in {"submit", "review"}
            \/ field = "wish" /\ value \in Wishes /\ What(appReq[r]) = "edit"
<1> DEFINE q == appReq[r]
<1>1. Established(q) /\ q.pc \in {"applyUpdate", "applyStatus", "applySubmit"}
  BY DEF CAInv, ApplyUpdate, ApplyStatus, ApplySubmit, Apply, AppAt
<1>2. q.app \in Applications
  BY <1>1 DEF Established
<1>3. CASE ApplyUpdate(r) /\ value = q.new
           /\ field = (IF q.user \in Admins THEN "status" ELSE "wish")
  <2>1. q.pc = "applyUpdate"
    BY <1>3 DEF ApplyUpdate, Apply, AppAt
  <2>2. IF q.user \in Admins THEN q.new \in AppStatuses ELSE q.new \in Wishes
    BY <1>1, <1>3, <2>1 DEF Established
  <2>3. Decided(q) /\ What(q) = IF q.user \in Admins THEN "review" ELSE "edit"
    BY <1>3, <2>1 DEF Decided, What
  <2> QED BY <1>2, <1>3, <2>2, <2>3 DEF DecisionOf
<1>4. CASE ApplyStatus(r) /\ value = q.new /\ field = "status"
  <2>1. q.pc = "applyStatus"
    BY <1>4 DEF ApplyStatus, Apply, AppAt
  <2>2. q.new \in AppStatuses /\ Decided(q) /\ What(q) = "review"
    BY <1>1, <1>4, <2>1 DEF Established, Decided, What
  <2> QED BY <1>2, <1>4, <2>2 DEF DecisionOf
<1>5. CASE ApplySubmit(r) /\ value = "SUBMITTED" /\ field = "status"
  <2>1. q.pc = "applySubmit"
    BY <1>5 DEF ApplySubmit, Apply, AppAt
  <2>2. Decided(q) /\ What(q) = "submit"
    BY <2>1 DEF Decided, What
  <2> QED BY <1>2, <1>5, <2>2 DEF DecisionOf, AppStatuses
<1> QED
  BY <1>3, <1>4, <1>5

\* A field is written, as was decided.
LEMMA WriteStep ==
  ASSUME CAInv, NEW r \in Reqs, NEW field, NEW value, NEW a \in DOMAIN apps,
         a = appReq[r].app, Decided(appReq[r]),
         DecisionOf(r, appReq[r]).app = a, DecisionOf(r, appReq[r]).to = value,
         \/ /\ field = "status" /\ value \in AppStatuses
            /\ What(appReq[r]) \in {"submit", "review"}
         \/ field = "wish" /\ value \in Wishes /\ What(appReq[r]) = "edit",
         apps' = FieldWritten(a, field, value), AppFinish(r), UNCHANGED appsGone
  PROVE  CAInv' /\ LStep
<1>1. PICK row \in Application : row = apps[a]
  BY DEF CAInv, CATypeOK
<1>2. /\ DOMAIN apps' = DOMAIN apps
      /\ apps'[a] = [row EXCEPT ![field] = value]
      /\ \A b \in DOMAIN apps \ {a} : apps'[b] = apps[b]
  BY <1>1 DEF FieldWritten
<1>3. [row EXCEPT ![field] = value] \in Application
  <2>1. CASE field = "status" /\ value \in AppStatuses
    BY <2>1 DEF Application
  <2>2. CASE field = "wish" /\ value \in Wishes
    BY <2>2 DEF Application
  <2> QED BY <2>1, <2>2
<1>4. CAInv'
  <2>1. apps' \in [DOMAIN apps' -> Application]
    BY <1>1, <1>2, <1>3 DEF FieldWritten, CAInv, CATypeOK
  <2> QED
    BY <1>2, <2>1, Idle, StepInv DEF CAInv, CATypeOK, AppFinish, AppGoto
<1>5. PICK d : d = DecisionOf(r, appReq[r])
  OBVIOUS
<1>6. d \in DecidedNow /\ DecidedNow' = DecidedNow \ {d}
  BY <1>5, EndDecisions
<1>7. d.app = a /\ d.to = value /\ d.what = What(appReq[r])
  BY <1>5 DEF DecisionOf
<1>8. LC!CarryOut(d)
  <2>1. CASE field = "status" /\ What(appReq[r]) \in {"submit", "review"}
    BY <1>6, <1>7, <2>1 DEF LC!CarryOut, FieldWritten
  <2>2. CASE field = "wish" /\ What(appReq[r]) = "edit"
    BY <1>6, <1>7, <2>2 DEF LC!CarryOut, FieldWritten
  <2> QED BY <2>1, <2>2
<1> QED
  BY <1>4, <1>6, <1>8 DEF LC!LNext, LStep

\* A row is deleted, as its owner decided, or was deleted before.
LEMMA RemoveStep ==
  ASSUME CAInv, NEW r \in Reqs, ApplyRemove(r)
  PROVE  CAInv' /\ LStep
<1>1. PICK a : a = appReq[r].app
  OBVIOUS
<1>2. /\ appReq[r].pc = "applyRemove" /\ a \in Applications
      /\ apps' = Without(apps, {a}) /\ appsGone' = appsGone \cup ({a} \cap DOMAIN apps)
      /\ AppFinish(r)
  BY <1>1 DEF ApplyRemove, AppAt, CAInv, Established
<1>3. DOMAIN apps' = DOMAIN apps \ {a} /\ \A b \in DOMAIN apps' : apps'[b] = apps[b]
  BY <1>2 DEF Without
<1>4. CASE a \notin DOMAIN apps
  <2>1. apps' = [b \in DOMAIN apps |-> apps[b]] /\ appsGone' = appsGone
    BY <1>2, <1>4 DEF Without
  <2>2. apps = [b \in DOMAIN apps |-> apps[b]]
    BY DEF CAInv, CATypeOK
  <2> QED
    BY <1>2, <2>1, <2>2, Finishes
<1>5. CASE a \in DOMAIN apps
  <2>0. apps' \in [DOMAIN apps' -> Application]
    BY <1>2, <1>3 DEF Without, CAInv, CATypeOK
  <2>1. CAInv'
    BY <1>2, <1>3, <1>5, <2>0, Idle, StepInv DEF CAInv, CATypeOK, AppFinish, AppGoto
  <2>2. PICK d : d = DecisionOf(r, appReq[r])
    OBVIOUS
  <2>3. d.app = a /\ d.what = "remove" /\ Decided(appReq[r])
    BY <1>1, <1>2, <2>2 DEF DecisionOf, What, Decided
  <2>4. d \in DecidedNow /\ DecidedNow' = DecidedNow \ {d}
    BY <1>2, <2>2, <2>3, EndDecisions
  <2>5. apps' = [b \in DOMAIN apps \ {a} |-> apps[b]] /\ appsGone' = appsGone \cup {a}
    BY <1>2, <1>5 DEF Without
  <2>6. LC!CarryOut(d)
    BY <1>5, <2>3, <2>4, <2>5 DEF LC!CarryOut
  <2> QED
    BY <2>1, <2>4, <2>6 DEF LC!LNext, LStep
<1> QED
  BY <1>4, <1>5

\* The other three writes: of a row that is there, or none.
LEMMA ApplyStep ==
  ASSUME CAInv, NEW r \in Reqs, ApplyUpdate(r) \/ ApplyStatus(r) \/ ApplySubmit(r)
  PROVE  CAInv' /\ LStep
<1> DEFINE Writes(field, value) ==
             apps' = IF appReq[r].app \in DOMAIN apps /\ value # Null
                     THEN FieldWritten(appReq[r].app, field, value) ELSE apps
<1>1. AppFinish(r) /\ UNCHANGED appsGone
  BY DEF ApplyUpdate, ApplyStatus, ApplySubmit, Apply
<1>2. ASSUME NEW field, NEW value, Writes(field, value),
             \/ ApplyUpdate(r) /\ value = appReq[r].new
                /\ field = (IF appReq[r].user \in Admins THEN "status" ELSE "wish")
             \/ ApplyStatus(r) /\ value = appReq[r].new /\ field = "status"
             \/ ApplySubmit(r) /\ value = "SUBMITTED" /\ field = "status"
      PROVE  CAInv' /\ LStep
  <2>1. CASE appReq[r].app \in DOMAIN apps /\ value # Null
    BY <1>1, <1>2, <2>1, AtWrite, WriteStep
  <2>2. CASE ~ (appReq[r].app \in DOMAIN apps /\ value # Null)
    BY <1>1, <1>2, <2>2, Finishes
  <2> QED
    BY <2>1, <2>2
<1>3. CASE ApplyUpdate(r)
  <2>1. Writes(IF appReq[r].user \in Admins THEN "status" ELSE "wish", appReq[r].new)
    BY <1>3 DEF ApplyUpdate, Apply, FieldWritten
  <2> HIDE DEF Writes
  <2> QED BY <1>2, <1>3, <2>1
<1>4. CASE ApplyStatus(r)
  <2>1. Writes("status", appReq[r].new)
    BY <1>4 DEF ApplyStatus, Apply, FieldWritten
  <2> HIDE DEF Writes
  <2> QED BY <1>2, <1>4, <2>1
<1>5. CASE ApplySubmit(r)
  <2>1. Writes("status", "SUBMITTED")
    BY <1>5 DEF ApplySubmit, Apply, FieldWritten
  <2> HIDE DEF Writes
  <2> QED BY <1>2, <1>5, <2>1
<1> QED
  BY <1>3, <1>4, <1>5

\* At first there is nothing.
LEMMA InitInv == CAInit => CAInv /\ LC!LInit
<1> SUFFICES ASSUME CAInit PROVE CAInv /\ LC!LInit
  OBVIOUS
<1>1. CAInv
  BY Idle DEF CAInit, CAInv, CATypeOK, NoRows
<1>2. DecidedNow = {}
  BY DecidedIs, Idle DEF CAInit, Taken
<1>3. apps = [a \in {} |-> {}] /\ appsGone = {}
  BY DEF CAInit, NoRows
<1> QED
  BY <1>1, <1>2, <1>3 DEF LC!LInit

\* Every action.
LEMMA NextInv == CAInv /\ [CANext]_caVars => CAInv' /\ LStep
<1> SUFFICES ASSUME CAInv, [CANext]_caVars PROVE CAInv' /\ LStep
  OBVIOUS
<1>1. CASE UNCHANGED caVars
  <2>1. UNCHANGED <<apps, appsGone, appReq>>
    BY <1>1 DEF caVars
  <2>2. CAInv'
    BY <2>1 DEF CAInv, CATypeOK
  <2>3. DecidedNow' = DecidedNow
    BY <2>1, DecidedIs, DecidedIsNext
  <2> QED
    BY <2>1, <2>2, <2>3 DEF LStep, LC!lvars
<1>2. ASSUME NEW r \in Reqs, NEW u \in Applicants, NEW dto \in CreateApplicationDto,
             Create(r, u, dto)
      PROVE  CAInv' /\ LStep
  BY <1>2, ApplicationCreated
<1>3. ASSUME NEW r \in Reqs, NEW u \in Applicants, NEW a \in Applications,
             NEW dto \in UpdateApplicationDto, FindForUpdate(r, u, a, dto)
      PROVE  CAInv' /\ LStep
  <2>1. DtoForUpdate(u, dto) \in (IF u \in Admins THEN AppStatuses ELSE Wishes) \cup {Null}
    BY DEF DtoForUpdate, UpdateApplicationDto
  <2> QED
    BY <1>3, <2>1, ApplicationFound DEF FindForUpdate
<1>4. ASSUME NEW r \in Reqs, NEW u \in Applicants, NEW a \in Applications,
             NEW dto \in UpdateApplicationStatusDto, FindForStatus(r, u, a, dto)
      PROVE  CAInv' /\ LStep
  <2>1. dto.status \in AppStatuses
    BY DEF UpdateApplicationStatusDto
  <2> QED
    BY <1>4, <2>1, ApplicationFound DEF FindForStatus
<1>5. ASSUME NEW r \in Reqs, NEW u \in Applicants, NEW a \in Applications,
             FindForRemove(r, u, a) \/ FindForSubmit(r, u, a)
      PROVE  CAInv' /\ LStep
  BY <1>5, ApplicationFound DEF FindForRemove, FindForSubmit
<1>6. ASSUME NEW r \in Reqs,
             \/ CheckUpdate(r) \/ CheckRemove(r) \/ CheckSubmit(r) \/ Insert(r)
             \/ ApplyUpdate(r) \/ ApplyStatus(r) \/ ApplySubmit(r) \/ ApplyRemove(r)
      PROVE  CAInv' /\ LStep
  BY <1>6, CheckStep, ApplicationInserted, ApplyStep, RemoveStep
<1>7. ASSUME NEW r \in Reqs, AppReject(r)
      PROVE  CAInv' /\ LStep
  BY <1>7, Finishes DEF AppReject
<1> QED
  BY <1>1, <1>2, <1>3, <1>4, <1>5, <1>6, <1>7 DEF CANext

-----------------------------------------------------------------------------

\* Rows and requests keep their types, a deleted application stays deleted, and
\* a request that comes to write was allowed to by what it read.
THEOREM ClientTypes == CASpec => []CAInv
<1>1. CAInit => CAInv
  BY InitInv
<1>2. CAInv /\ [CANext]_caVars => CAInv'
  BY NextInv
<1> QED
  BY <1>1, <1>2, PTL DEF CASpec

\* Applications and requests keep their types: what is deleted stays deleted.
THEOREM ClientRowsTyped == CASpec => []CATypeOK
<1>1. CAInv => CATypeOK
  BY DEF CAInv
<1> QED
  BY <1>1, ClientTypes, PTL

\* The service of clients' applications implements the lifecycle: whatever its
\* requests overlap with, a submission or a deletion takes effect only as its owner
\* decided on a draft, an edit as he decided on a draft or a rejected application,
\* another change of status as an administrator decided, and each decision once.
THEOREM LifecycleHolds == CASpec => Lifecycle
<1>1. CAInit => LC!LInit
  BY InitInv
<1>2. CAInv /\ [CANext]_caVars => [LC!LNext]_LC!lvars
  BY NextInv DEF LStep
<1> QED
  BY <1>1, <1>2, ClientTypes, PTL DEF CASpec, Lifecycle, LC!LSpec

-----------------------------------------------------------------------------
(* PartnerApplications *)

PAppRequest ==
    [pc : {"deleteStudent", "findOffer", "dedupe", "insert", "applyUpdate",
           "applyStatus", "delete"},
     student : Students \cup {Null}, app : PartnerApplicationIds \cup {Null},
     new : Intakes \cup PartnerStatuses \cup {Null}]

\* What a request has established: what it is to write is of the right type, and
\* if nobody has written since its search, there still is no duplicate.
Searched(q) ==
    /\ q.pc \in {"findOffer", "dedupe", "insert"} =>
         q.student \in Students /\ q.new \in Intakes
    /\ q.pc = "applyUpdate" => q.new \in Intakes
    /\ q.pc = "applyStatus" => q.new \in PartnerStatuses
NoneFound(r) ==
    pappReq[r].pc = "insert" /\ r \notin disturbed =>
      Duplicates(pappReq[r].student, pappReq[r].new) = {}

\* The tables, which hold no row of a student that is gone.
PartnerRows ==
    /\ students \subseteq Students \ paGone
    /\ DOMAIN papps \subseteq PartnerApplicationIds \ paGone
    /\ papps = [a \in DOMAIN papps |-> papps[a]]
    /\ \A a \in DOMAIN papps :
         papps[a] \in PartnerApplication /\ papps[a].student \in students
    /\ paGone \subseteq PartnerApplicationIds \cup Students

\* The inductive invariant.
PAInv ==
    /\ PartnerRows
    /\ pappReq \in [Reqs -> PAppRequest \cup {PAppIdle}]
    /\ disturbed \subseteq {r \in Reqs : pappReq[r] # PAppIdle}
    /\ \A r \in Reqs : Searched(pappReq[r]) /\ NoneFound(r)

\* It contains the types.
LEMMA RowsTyped == PAInv => PATypeOK
<1> SUFFICES ASSUME PAInv PROVE PATypeOK
  OBVIOUS
<1>1. papps \in [DOMAIN papps -> PartnerApplication]
  BY DEF PAInv, PartnerRows
<1>2. papps \in Table(PartnerApplicationIds \ paGone, PartnerApplication)
  BY <1>1 DEF PAInv, PartnerRows, Table
<1> QED
  BY <1>2 DEF PAInv, PartnerRows, PATypeOK, PAppRequest

\* A request that writes no application.
LEMMA SilentStep ==
  ASSUME PAInv, NEW r \in Reqs, NEW q \in PAppRequest \cup {PAppIdle}, Searched(q),
         pappReq' = Step(pappReq, r, q), PartnerRows', UNCHANGED papps,
         disturbed' = (IF q = PAppIdle THEN disturbed \ {r} ELSE disturbed),
         q.pc = "insert" /\ r \notin disturbed => Duplicates(q.student, q.new) = {}
  PROVE  PAInv'
<1>1. \A x \in Reqs : pappReq'[x] = IF x = r THEN q ELSE pappReq[x]
  BY DEF PAInv, Step
<1>2. pappReq' \in [Reqs -> PAppRequest \cup {PAppIdle}]
  BY DEF PAInv, Step
<1>3. disturbed' \subseteq {x \in Reqs : pappReq'[x] # PAppIdle}
  BY <1>1 DEF PAInv
<1>4. \A s, i : Duplicates(s, i)' = Duplicates(s, i)
  BY DEF Duplicates, AppsOf
<1>5. ASSUME NEW x \in Reqs
      PROVE  Searched(pappReq[x])' /\ NoneFound(x)'
  <2>1. Searched(pappReq[x])'
    BY <1>1 DEF PAInv, Searched
  <2>2. CASE x # r
    BY <1>1, <1>4, <2>2 DEF PAInv, NoneFound
  <2>3. CASE x = r /\ q # PAppIdle
    BY <1>1, <1>4, <2>3 DEF NoneFound
  <2>4. CASE x = r /\ q = PAppIdle
    BY <1>1, <2>4 DEF NoneFound, PAppIdle
  <2> QED BY <2>1, <2>2, <2>3, <2>4
<1> QED
  BY <1>2, <1>3, <1>5 DEF PAInv

\* A request that writes one: it is done, and all others are disturbed.
LEMMA WritingStep ==
  ASSUME PAInv, NEW r \in Reqs, PAppWrote(r), PartnerRows'
  PROVE  PAInv'
<1>1. \A x \in Reqs : pappReq'[x] = IF x = r THEN PAppIdle ELSE pappReq[x]
  BY DEF PAInv, Step, PAppWrote
<1>2. pappReq' \in [Reqs -> PAppRequest \cup {PAppIdle}]
  BY DEF PAInv, Step, PAppWrote
<1>3. disturbed' = {x \in Reqs \ {r} : pappReq[x] # PAppIdle}
  BY DEF PAppWrote
<1>4. ASSUME NEW x \in Reqs
      PROVE  Searched(pappReq[x])' /\ NoneFound(x)'
  BY <1>1, <1>3 DEF PAInv, Searched, NoneFound, PAppIdle
<1> QED
  BY <1>1, <1>2, <1>3, <1>4 DEF PAInv

-----------------------------------------------------------------------------

\* The idle request knows nothing.
LEMMA IdleSearched == Searched(PAppIdle) /\ PAppIdle.pc = "idle"
BY DEF Searched, PAppIdle

\* A request that ends without a write.
LEMMA FinishStep ==
  ASSUME PAInv, NEW r \in Reqs, PAppFinish(r), UNCHANGED <<students, papps, paGone>>
  PROVE  PAInv'
BY IdleSearched, SilentStep DEF PAppFinish, PAInv, PartnerRows

\* A request that begins.
LEMMA PartnerStart ==
  ASSUME PAInv, NEW r \in Reqs, NEW q \in PAppRequest, Searched(q), q.pc # "insert",
         PAppStart(r, q)
  PROVE  PAInv'
<1>1. q # PAppIdle
  BY DEF PAppRequest, PAppIdle
<1> QED
  BY <1>1, SilentStep DEF PAppStart, PAInv, PartnerRows

\* A request that goes on.
LEMMA PartnerAwait ==
  ASSUME PAInv, NEW r \in Reqs, NEW pc,
         \/ pappReq[r].pc = "findOffer" /\ pc = "dedupe"
         \/ /\ pappReq[r].pc = "dedupe" /\ pc = "insert"
            /\ Duplicates(pappReq[r].student, pappReq[r].new) = {},
         PAppAwait(r, pc), UNCHANGED <<students, papps, paGone>>
  PROVE  PAInv'
<1>1. PICK q0 : q0 = pappReq[r]
  OBVIOUS
<1>2. q0 \in PAppRequest /\ Searched(q0)
  BY <1>1 DEF PAInv, PAppIdle
<1>3. PICK q : q = [q0 EXCEPT !.pc = pc]
  OBVIOUS
<1>4. q.pc = pc /\ q.student = q0.student /\ q.new = q0.new /\ q \in PAppRequest
  BY <1>1, <1>2, <1>3 DEF PAppRequest
<1>5. q # PAppIdle /\ Searched(q)
  BY <1>1, <1>2, <1>4 DEF Searched, PAppIdle
<1>6. pappReq' = Step(pappReq, r, q) /\ disturbed' = disturbed
  BY <1>1, <1>3 DEF PAppAwait, Step, PAInv
<1>7. q.pc = "insert" => Duplicates(q.student, q.new) = {}
  BY <1>1, <1>4
<1>8. PartnerRows'
  BY DEF PAInv, PartnerRows
<1> QED
  BY <1>4, <1>5, <1>6, <1>7, <1>8, SilentStep

\* A student is added, or looked up to be removed.
LEMMA StudentSteps ==
  ASSUME PAInv, NEW s \in Students, PartnerStudentsController(s)
  PROVE  PAInv'
<1>1. CASE AddStudent(s)
  <2>1. PartnerRows'
    BY <1>1 DEF AddStudent, PAInv, PartnerRows
  <2>2. \A x, i : Duplicates(x, i)' = Duplicates(x, i)
    BY <1>1 DEF AddStudent, Duplicates, AppsOf
  <2> QED
    BY <1>1, <2>1, <2>2 DEF AddStudent, PAInv, Searched, NoneFound
<1>2. ASSUME NEW r \in Reqs, FindStudent(r, s)
      PROVE  PAInv'
  <2>1. PICK q : q = [PAppIdle EXCEPT !.pc = "deleteStudent", !.student = s]
    OBVIOUS
  <2>2. q = [pc |-> "deleteStudent", student |-> s, app |-> Null, new |-> Null]
    BY <2>1 DEF PAppIdle
  <2>3. q \in PAppRequest /\ Searched(q) /\ q.pc # "insert"
    BY <2>2 DEF PAppRequest, Searched
  <2> QED
    BY <1>2, <2>1, <2>3, PartnerStart DEF FindStudent
<1> QED
  BY <1>1, <1>2 DEF PartnerStudentsController

\* A request on applications begins.
LEMMA PartnerStarts ==
  ASSUME PAInv, NEW r \in Reqs,
         \/ \E s \in Students, i \in Intakes : Submit(r, s, i)
         \/ \E a \in PartnerApplicationIds :
              \/ \E i \in Intakes : Update(r, a, i) \/ AdminUpdate(r, a, i)
              \/ \E dto \in UpdatePartnerApplicationStatusDto : UpdateStatus(r, a, dto)
              \/ RemoveApplication(r, a)
  PROVE  PAInv'
<1>1. ASSUME NEW s \in Students, NEW i \in Intakes, Submit(r, s, i)
      PROVE  PAInv'
  <2>1. PICK q : q = [PAppIdle EXCEPT !.pc = "findOffer", !.student = s, !.new = i]
    OBVIOUS
  <2>2. q = [pc |-> "findOffer", student |-> s, app |-> Null, new |-> i]
    BY <2>1 DEF PAppIdle
  <2>3. q \in PAppRequest /\ Searched(q) /\ q.pc # "insert"
    BY <2>2 DEF PAppRequest, Searched
  <2> QED
    BY <1>1, <2>1, <2>3, PartnerStart DEF Submit
<1>2. ASSUME NEW a \in PartnerApplicationIds,
             NEW pc \in {"applyUpdate", "applyStatus", "delete"},
             NEW new \in Intakes \cup PartnerStatuses \cup {Null},
             pc = "applyUpdate" => new \in Intakes,
             pc = "applyStatus" => new \in PartnerStatuses,
             FindApplication(r, a, pc, new)
      PROVE  PAInv'
  <2>1. PICK q : q = [PAppIdle EXCEPT !.pc = pc, !.app = a, !.new = new]
    OBVIOUS
  <2>2. q = [pc |-> pc, student |-> Null, app |-> a, new |-> new]
    BY <2>1 DEF PAppIdle
  <2>3. q \in PAppRequest /\ Searched(q) /\ q.pc # "insert"
    BY <1>2, <2>2 DEF PAppRequest, Searched
  <2> QED
    BY <1>2, <2>1, <2>3, PartnerStart DEF FindApplication
<1>3. ASSUME NEW a \in PartnerApplicationIds, NEW i \in Intakes,
             Update(r, a, i) \/ AdminUpdate(r, a, i)
      PROVE  PAInv'
  BY <1>2, <1>3 DEF Update, AdminUpdate
<1>4. ASSUME NEW a \in PartnerApplicationIds, NEW dto \in UpdatePartnerApplicationStatusDto,
             UpdateStatus(r, a, dto)
      PROVE  PAInv'
  <2>1. dto.status \in PartnerStatuses
    BY DEF UpdatePartnerApplicationStatusDto
  <2> QED
    BY <1>2, <1>4, <2>1 DEF UpdateStatus
<1>5. ASSUME NEW a \in PartnerApplicationIds, RemoveApplication(r, a)
      PROVE  PAInv'
  BY <1>2, <1>5 DEF RemoveApplication
<1> QED
  BY <1>1, <1>3, <1>4, <1>5

\* A student's rows are deleted, or one application.
LEMMA PartnerDeletes ==
  ASSUME PAInv, NEW r \in Reqs, DeleteStudent(r) \/ DeleteApplication(r)
  PROVE  PAInv'
<1>1. CASE DeleteStudent(r)
  <2>1. PICK s : /\ students' = students \ {s}
                 /\ papps' = Without(papps, AppsOf(s))
                 /\ paGone' = paGone \cup AppsOf(s) \cup ({s} \cap students)
    BY <1>1 DEF DeleteStudent
  <2>2. AppsOf(s) \subseteq PartnerApplicationIds /\ {s} \cap students \subseteq Students
    BY DEF AppsOf, PAInv, PartnerRows
  <2>3. /\ DOMAIN papps' = DOMAIN papps \ AppsOf(s)
        /\ papps' = [a \in DOMAIN papps' |-> papps'[a]]
        /\ \A a \in DOMAIN papps' : papps'[a] = papps[a] /\ papps[a].student # s
    BY <2>1 DEF Without, AppsOf
  <2>4. students' \subseteq Students \ paGone'
    BY <2>1, <2>2, StudentsAssumption DEF PAInv, PartnerRows
  <2>5. DOMAIN papps' \subseteq PartnerApplicationIds \ paGone'
    BY <2>1, <2>2, <2>3, StudentsAssumption DEF PAInv, PartnerRows
  <2>6. \A a \in DOMAIN papps' : papps'[a] \in PartnerApplication /\ papps'[a].student \in students'
    BY <2>1, <2>3 DEF PAInv, PartnerRows
  <2>7. PartnerRows'
    BY <2>1, <2>2, <2>3, <2>4, <2>5, <2>6 DEF PAInv, PartnerRows
  <2> QED
    BY <1>1, <2>7, WritingStep DEF DeleteStudent
<1>2. CASE DeleteApplication(r)
  <2>1. PICK a : /\ papps' = Without(papps, {a})
                 /\ paGone' = paGone \cup ({a} \cap DOMAIN papps)
                 /\ students' = students
    BY <1>2 DEF DeleteApplication
  <2>2. /\ DOMAIN papps' = DOMAIN papps \ {a}
        /\ papps' = [x \in DOMAIN papps' |-> papps'[x]]
        /\ \A x \in DOMAIN papps' : papps'[x] = papps[x]
    BY <2>1 DEF Without
  <2>3. PartnerRows'
    BY <2>1, <2>2, StudentsAssumption DEF PAInv, PartnerRows
  <2> QED
    BY <1>2, <2>3, WritingStep DEF DeleteApplication
<1> QED
  BY <1>1, <1>2

\* An intake or a status is written.
LEMMA AssignStep ==
  ASSUME PAInv, NEW r \in Reqs, ApplyPartnerUpdate(r) \/ ApplyPartnerStatus(r)
  PROVE  PAInv'
<1>0. PICK a : a = pappReq[r].app
  OBVIOUS
<1>1. ASSUME a \notin DOMAIN papps
      PROVE  PAInv'
  BY <1>0, <1>1, FinishStep DEF ApplyPartnerUpdate, ApplyPartnerStatus, Assign
<1>2. ASSUME a \in DOMAIN papps,
             DOMAIN papps' = DOMAIN papps, papps' = [x \in DOMAIN papps' |-> papps'[x]],
             \A x \in DOMAIN papps \ {a} : papps'[x] = papps[x],
             papps'[a] \in PartnerApplication, papps'[a].student = papps[a].student,
             PAppWrote(r), UNCHANGED <<students, paGone>>
      PROVE  PAInv'
  <2>1. PartnerRows'
    BY <1>2 DEF PAInv, PartnerRows
  <2> QED
    BY <1>2, <2>1, WritingStep
<1>3. CASE ApplyPartnerUpdate(r) /\ a \in DOMAIN papps
  <2>1. PICK new \in Intakes : new = pappReq[r].new
    BY <1>3 DEF ApplyPartnerUpdate, Assign, PAppAt, PAInv, Searched
  <2>2. PICK row \in PartnerApplication : row = papps[a]
    BY <1>3 DEF PAInv, PartnerRows
  <2>3. papps' = [papps EXCEPT ![a] = [@ EXCEPT !["intake"] = new]]
    BY <1>0, <1>3, <2>1 DEF ApplyPartnerUpdate, Assign
  <2>4. /\ DOMAIN papps' = DOMAIN papps /\ papps' = [x \in DOMAIN papps' |-> papps'[x]]
        /\ papps'[a] = [row EXCEPT !.intake = new]
        /\ \A x \in DOMAIN papps \ {a} : papps'[x] = papps[x]
    BY <1>3, <2>2, <2>3 DEF PAInv, PartnerRows
  <2>5. papps'[a] \in PartnerApplication /\ papps'[a].student = papps[a].student
    BY <2>2, <2>4 DEF PartnerApplication
  <2> QED
    BY <1>0, <1>2, <1>3, <2>4, <2>5 DEF ApplyPartnerUpdate, Assign
<1>4. CASE ApplyPartnerStatus(r) /\ a \in DOMAIN papps
  <2>1. PICK new \in PartnerStatuses : new = pappReq[r].new
    BY <1>4 DEF ApplyPartnerStatus, Assign, PAppAt, PAInv, Searched
  <2>2. PICK row \in PartnerApplication : row = papps[a]
    BY <1>4 DEF PAInv, PartnerRows
  <2>3. papps' = [papps EXCEPT ![a] = [@ EXCEPT !["status"] = new]]
    BY <1>0, <1>4, <2>1 DEF ApplyPartnerStatus, Assign
  <2>4. /\ DOMAIN papps' = DOMAIN papps /\ papps' = [x \in DOMAIN papps' |-> papps'[x]]
        /\ papps'[a] = [row EXCEPT !.status = new]
        /\ \A x \in DOMAIN papps \ {a} : papps'[x] = papps[x]
    BY <1>4, <2>2, <2>3 DEF PAInv, PartnerRows
  <2>5. papps'[a] \in PartnerApplication /\ papps'[a].student = papps[a].student
    BY <2>2, <2>4 DEF PartnerApplication
  <2> QED
    BY <1>0, <1>2, <1>4, <2>4, <2>5 DEF ApplyPartnerStatus, Assign
<1> QED
  BY <1>1, <1>3, <1>4

\* An insert, of a request that nothing has disturbed: there is no duplicate.
LEMMA InsertAlone ==
  ASSUME PAInv, NEW r \in Reqs, InsertApplication(r), papps' # papps
  PROVE  \E a \in PartnerApplicationIds \ (DOMAIN papps \cup paGone) :
           LET row == [student |-> pappReq[r].student, intake |-> pappReq[r].new,
                       status |-> "OPEN"] IN
           /\ row \in PartnerApplication /\ row.student \in students
           /\ DOMAIN papps' = DOMAIN papps \cup {a} /\ papps'[a] = row
           /\ \A x \in DOMAIN papps : papps'[x] = papps[x]
           /\ papps' = [x \in DOMAIN papps' |-> papps'[x]]
           /\ PAppWrote(r) /\ UNCHANGED <<students, paGone>>
           /\ r \notin disturbed => Duplicates(row.student, row.intake) = {}
<1> DEFINE row == [student |-> pappReq[r].student, intake |-> pappReq[r].new, status |-> "OPEN"]
<1>1. pappReq[r].student \in students /\ pappReq[r].pc = "insert"
  BY DEF InsertApplication, PAppAt
<1>2. row \in PartnerApplication
  BY <1>1 DEF PAInv, Searched, PartnerApplication, PartnerStatuses
<1>3. PICK a \in PartnerApplicationIds \ (DOMAIN papps \cup paGone) : papps' = With(papps, a, row)
  BY <1>1 DEF InsertApplication
<1>4. /\ DOMAIN papps' = DOMAIN papps \cup {a} /\ papps'[a] = row
      /\ \A x \in DOMAIN papps : papps'[x] = papps[x]
      /\ papps' = [x \in DOMAIN papps' |-> papps'[x]]
  BY <1>3 DEF With
<1>5. PAppWrote(r) /\ UNCHANGED <<students, paGone>>
  BY <1>1 DEF InsertApplication
<1>6. r \notin disturbed => Duplicates(row.student, row.intake) = {}
  BY <1>1 DEF PAInv, NoneFound
<1> QED
  BY <1>1, <1>2, <1>3, <1>4, <1>5, <1>6

\* The steps of a submission, and any that fails.
LEMMA SubmitSteps ==
  ASSUME PAInv, NEW r \in Reqs,
         FindOffer(r) \/ Dedupe(r) \/ InsertApplication(r) \/ PAppReject(r)
  PROVE  PAInv'
<1>1. CASE FindOffer(r)
  BY <1>1, FinishStep, PartnerAwait DEF FindOffer, PAppAt
<1>2. CASE Dedupe(r)
  BY <1>2, FinishStep, PartnerAwait DEF Dedupe, PAppAt
<1>3. CASE InsertApplication(r) /\ papps' # papps
  <2>1. PartnerRows' /\ PAppWrote(r)
    <3>1. PICK a \in PartnerApplicationIds \ (DOMAIN papps \cup paGone) :
            /\ DOMAIN papps' = DOMAIN papps \cup {a}
            /\ papps'[a] \in PartnerApplication /\ papps'[a].student \in students
            /\ \A x \in DOMAIN papps : papps'[x] = papps[x]
            /\ papps' = [x \in DOMAIN papps' |-> papps'[x]]
            /\ PAppWrote(r) /\ UNCHANGED <<students, paGone>>
      BY <1>3, InsertAlone
    <3> QED BY <3>1 DEF PAInv, PartnerRows
  <2> QED BY <2>1, WritingStep
<1>4. CASE InsertApplication(r) /\ papps' = papps
  <2>1. UNCHANGED <<students, paGone>>
    BY <1>4 DEF InsertApplication
  <2>2. PartnerRows'
    BY <1>4, <2>1 DEF PAInv, PartnerRows
  <2> QED BY <1>4, <2>1, <2>2, FinishStep, WritingStep DEF InsertApplication
<1>5. CASE PAppReject(r)
  BY <1>5, FinishStep DEF PAppReject
<1> QED
  BY <1>1, <1>2, <1>3, <1>4, <1>5

\* At first there is nothing.
LEMMA InitPAInv == PAInit => PAInv
BY IdleSearched DEF PAInit, PAInv, PartnerRows, NoRows, NoneFound

\* Every action.
LEMMA NextPAInv == PAInv /\ [PANext]_paVars => PAInv'
<1> SUFFICES ASSUME PAInv, [PANext]_paVars PROVE PAInv'
  OBVIOUS
<1>1. CASE UNCHANGED paVars
  BY <1>1 DEF paVars, PAInv, PartnerRows, NoneFound, Duplicates, AppsOf
<1>2. CASE PANext
  BY <1>2, StudentSteps, PartnerStarts, PartnerDeletes, AssignStep, SubmitSteps DEF PANext
<1> QED
  BY <1>1, <1>2

-----------------------------------------------------------------------------

\* What holds of the requests and the tables at every moment; in particular that
\* a submission nobody has disturbed since its search still has no duplicate.
THEOREM PartnerInvHolds == PASpec => []PAInv
<1> QED
  BY InitPAInv, NextPAInv, PTL DEF PASpec

\* Every application is a partner's student's, of a known intake and status, and
\* rows that were deleted stay so.
THEOREM PartnerTypes == PASpec => []PATypeOK
<1> QED
  BY PartnerInvHolds, RowsTyped, PTL

\* A submission makes a second active application for a student, program and
\* intake only if another request wrote in between, however the earlier one came
\* to be active.
THEOREM OneActiveHolds == PASpec => OneActivePerIntake
<1>1. ASSUME PAInv, NEW r \in Reqs, InsertApplication(r), r \notin disturbed,
             NEW s \in Students, NEW i \in Intakes, ActiveFor(s, i)' # ActiveFor(s, i)
      PROVE  Cardinality(ActiveFor(s, i)') = 1
  <2>1. papps' # papps
    BY <1>1 DEF ActiveFor
  <2>2. PICK a \in PartnerApplicationIds \ (DOMAIN papps \cup paGone), row \in PartnerApplication :
          /\ DOMAIN papps' = DOMAIN papps \cup {a} /\ papps'[a] = row
          /\ \A x \in DOMAIN papps : papps'[x] = papps[x]
          /\ Duplicates(row.student, row.intake) = {}
    BY <1>1, <2>1, InsertAlone
  <2>3. row.student = s /\ row.intake = i
    BY <1>1, <2>2 DEF ActiveFor
  <2>4. ActiveFor(s, i) = {}
    BY <2>2, <2>3 DEF ActiveFor, Duplicates, AppsOf, Active
  <2>5. ActiveFor(s, i)' = {a}
    BY <1>1, <2>2, <2>3, <2>4 DEF ActiveFor
  <2> QED BY <2>5, FS_Singleton
<1>2. PAInv /\ [PANext]_paVars =>
        [\A r \in Reqs :
           InsertApplication(r) /\ r \notin disturbed =>
             \A s \in Students, i \in Intakes :
               ActiveFor(s, i)' # ActiveFor(s, i) => Cardinality(ActiveFor(s, i)') = 1]_paVars
  BY <1>1
<1> QED
  BY <1>2, PartnerInvHolds, PTL DEF PASpec, OneActivePerIntake

-----------------------------------------------------------------------------
(* Accounts *)

\* A request that may yet make the profile of each user in its todo.
MakesProfiles(q) == q.pc \in {"readBack", "profiles"}

AccountRequest(q) ==
    /\ q = [pc |-> q.pc, dtos |-> q.dtos, asAdmin |-> q.asAdmin, batch |-> q.batch,
            attempt |-> q.attempt, todo |-> q.todo, dto |-> q.dto]
    /\ q.pc \in {"idle", "find", "insert", "readBack", "profiles", "update", "findProfile"}
    /\ DOMAIN q.dtos \subseteq Emails
    /\ \A e \in DOMAIN q.dtos : q.dtos[e].role \in Roles
    /\ q.attempt \in 1..MaxRetries /\ q.todo \subseteq UserIds
    /\ q.pc = "update" => q.dto \in UpdateUserDto

\* An email is one user's, a profile is a user's.
AccountTables ==
    /\ users = [u \in DOMAIN users |-> users[u]]
    /\ DOMAIN users \subseteq UserIds \ usersGone
    /\ \A u \in DOMAIN users : users[u] \in User
    /\ \A u, v \in DOMAIN users : users[u].email = users[v].email => u = v
    /\ profiles \subseteq DOMAIN users /\ usersGone \subseteq UserIds /\ bare \subseteq UserIds

\* Who lacks a profile without a reason is about to have it.
DueBy(u, q) == MakesProfiles(q) /\ u \in q.todo
ProfilesDue ==
    \A u \in DOMAIN users \ (profiles \cup bare) : \E r \in Reqs : DueBy(u, userReq[r])

\* The inductive invariant.
AccountsInv ==
    /\ AccountTables
    /\ userReq = [r \in Reqs |-> userReq[r]]
    /\ \A r \in Reqs : AccountRequest(userReq[r])
    /\ ProfilesDue

-----------------------------------------------------------------------------

\* It contains the types.
LEMMA AccountsTyped == AccountsInv => ACTypeOK
<1> SUFFICES ASSUME AccountsInv PROVE ACTypeOK
  OBVIOUS
<1>1. users \in [DOMAIN users -> User] /\ DOMAIN users \in SUBSET (UserIds \ usersGone)
  BY DEF AccountsInv, AccountTables
<1>2. users \in Table(UserIds \ usersGone, User)
  BY <1>1 DEF Table
<1> QED
  BY <1>2 DEF AccountsInv, AccountTables, AccountRequest, ACTypeOK

\* The property, in terms of who is due a profile.
LEMMA DueIs == ProfilesDue <=> ProfilesFollow
BY DEF ProfilesDue, ProfilesFollow, Due, DueBy, MakesProfiles

\* A step of one request, that leaves no one without his profile: who was to
\* have it of another still is, and who was of this one has a reason or is.
LEMMA AccountStep ==
  ASSUME AccountsInv, NEW r \in Reqs, NEW q, AccountRequest(q), UserGoto(r, q),
         AccountTables',
         \A u \in DOMAIN users' \ (profiles' \cup bare') :
           \/ DueBy(u, q)
           \/ u \in DOMAIN users \ (profiles \cup bare) /\ ~DueBy(u, userReq[r])
  PROVE  AccountsInv'
<1>1. userReq' = [p \in Reqs |-> IF p = r THEN q ELSE userReq[p]]
  BY DEF AccountsInv, UserGoto, Step
<1>2. userReq' = [p \in Reqs |-> userReq'[p]] /\ userReq'[r] = q
  BY <1>1
<1>3. \A p \in Reqs : AccountRequest(userReq'[p])
  BY <1>1 DEF AccountsInv
<1>4. ASSUME NEW u \in DOMAIN users' \ (profiles' \cup bare')
      PROVE  \E p \in Reqs : DueBy(u, userReq'[p])
  <2>1. CASE DueBy(u, q)
    BY <1>2, <2>1
  <2>2. CASE u \in DOMAIN users \ (profiles \cup bare) /\ ~DueBy(u, userReq[r])
    <3>1. PICK p \in Reqs : DueBy(u, userReq[p])
      BY <2>2 DEF AccountsInv, ProfilesDue
    <3>2. userReq'[p] = userReq[p]
      BY <1>1, <2>2, <3>1
    <3> QED
      BY <3>1, <3>2
  <2> QED
    BY <1>4, <2>1, <2>2
<1> QED
  BY <1>2, <1>3, <1>4 DEF AccountsInv, ProfilesDue

\* A step of one request that was not to make profiles, with the same tables.
LEMMA QuietAccountStep ==
  ASSUME AccountsInv, NEW r \in Reqs, NEW q, AccountRequest(q), UserGoto(r, q),
         UNCHANGED acTables, bare \subseteq bare', bare' \subseteq UserIds,
         MakesProfiles(userReq[r]) =>
           userReq[r].todo \subseteq profiles \cup bare' \cup {u \in UserIds : DueBy(u, q)}
  PROVE  AccountsInv'
<1>1. UNCHANGED <<users, profiles, usersGone>>
  BY DEF acTables
<1>2. AccountTables'
  BY <1>1 DEF AccountsInv, AccountTables
<1>3. \A u \in DOMAIN users' \ (profiles' \cup bare') :
        \/ DueBy(u, q)
        \/ u \in DOMAIN users \ (profiles \cup bare) /\ ~DueBy(u, userReq[r])
  BY <1>1 DEF DueBy
<1> QED
  BY <1>2, <1>3, AccountStep

LEMMA AccountsInvInit == ACInit => AccountsInv
<1> SUFFICES ASSUME ACInit PROVE AccountsInv
  OBVIOUS
<1>1. /\ users = NoRows /\ profiles = {} /\ usersGone = {} /\ bare = {}
      /\ userReq = [r \in Reqs |-> UserIdle]
  BY DEF ACInit
<1>2. DOMAIN users = {} /\ users = [u \in DOMAIN users |-> users[u]]
  BY <1>1 DEF NoRows
<1>3. AccountTables
  BY <1>1, <1>2 DEF AccountTables
<1>4. AccountRequest(UserIdle)
  BY AccountsAssumption DEF AccountRequest, UserIdle, NoRows
<1> QED
  BY <1>1, <1>2, <1>3, <1>4 DEF AccountsInv, ProfilesDue

\* A request is begun.
LEMMA UserStartStep ==
  ASSUME AccountsInv, NEW r \in Reqs, NEW q, AccountRequest(q), ~MakesProfiles(q),
         UserStart(r, q)
  PROVE  AccountsInv'
<1>1. userReq[r] = UserIdle /\ UserGoto(r, q) /\ UNCHANGED <<acTables, bare>>
  BY DEF UserStart
<1>2. ~MakesProfiles(userReq[r])
  BY <1>1 DEF UserIdle, MakesProfiles
<1>3. bare \subseteq UserIds
  BY DEF AccountsInv, AccountTables
<1> QED
  BY <1>1, <1>2, <1>3, QuietAccountStep

\* Creations begin with users that are not there yet.
LEMMA StartCreationStep ==
  ASSUME AccountsInv, NEW r \in Reqs, NEW dtos, NEW a, NEW b, StartCreation(r, dtos, a, b),
         DOMAIN dtos \subseteq Emails, \A e \in DOMAIN dtos : dtos[e].role \in Roles
  PROVE  AccountsInv'
<1>1. PICK q : q = [UserIdle EXCEPT !.pc = "find", !.dtos = dtos, !.asAdmin = a, !.batch = b]
  OBVIOUS
<1>2. q = [pc |-> "find", dtos |-> dtos, asAdmin |-> a, batch |-> b, attempt |-> 1,
           todo |-> {}, dto |-> Null]
  BY <1>1 DEF UserIdle
<1>3. AccountRequest(q) /\ ~MakesProfiles(q)
  BY <1>2, AccountsAssumption DEF AccountRequest, MakesProfiles
<1>4. UserStart(r, q)
  BY <1>1 DEF StartCreation
<1> QED
  BY <1>3, <1>4, UserStartStep

LEMMA ControllerStep ==
  ASSUME AccountsInv, NEW r \in Reqs, UsersController(r)
  PROVE  AccountsInv'
<1>1. ASSUME NEW e \in Emails, NEW dto \in CreateUserDto, NEW a,
             StartCreation(r, [x \in {e} |-> dto], a, FALSE)
      PROVE  AccountsInv'
  <2>1. PICK dtos : dtos = [x \in {e} |-> dto]
    OBVIOUS
  <2>2. DOMAIN dtos = {e} /\ dtos[e] = dto /\ dto.role \in Roles
    BY <2>1 DEF CreateUserDto
  <2> QED
    BY <1>1, <2>1, <2>2, StartCreationStep
<1>2. ASSUME NEW es \in SUBSET Emails, NEW dtos \in [es -> CreateUserDto], NEW a,
             StartCreation(r, dtos, a, TRUE)
      PROVE  AccountsInv'
  <2>1. DOMAIN dtos \subseteq Emails /\ \A e \in DOMAIN dtos : dtos[e] \in CreateUserDto
    OBVIOUS
  <2>2. \A e \in DOMAIN dtos : dtos[e].role \in Roles
    BY <2>1 DEF CreateUserDto
  <2> QED
    BY <1>2, <2>1, <2>2, StartCreationStep
<1>3. ASSUME NEW u \in UserIds, NEW dto \in UpdateUserDto, UpdateUser(r, u, dto)
      PROVE  AccountsInv'
  <2>1. PICK q : q = [UserIdle EXCEPT !.pc = "update", !.todo = {u}, !.dto = dto]
    OBVIOUS
  <2>2. q = [pc |-> "update", dtos |-> NoRows, asAdmin |-> FALSE, batch |-> FALSE,
             attempt |-> 1, todo |-> {u}, dto |-> dto]
    BY <2>1 DEF UserIdle
  <2>3. AccountRequest(q) /\ ~MakesProfiles(q)
    BY <2>2, AccountsAssumption DEF AccountRequest, MakesProfiles, NoRows
  <2>4. UserStart(r, q)
    BY <1>3, <2>1 DEF UpdateUser
  <2> QED
    BY <2>3, <2>4, UserStartStep
<1> QED
  BY <1>1, <1>2, <1>3 DEF UsersController, CreateUser, CreateAsAdmin, CreateMany,
     CreateManyAsAdmin

\* A request that gives up, or begins again, makes no profiles any more.
LEMMA AbandonTo ==
  ASSUME AccountsInv, NEW r \in Reqs, Abandon(r)
  PROVE  \E n : AccountRequest(n) /\ ~MakesProfiles(n) /\ UserGoto(r, n)
<1>1. PICK q : q = userReq[r]
  OBVIOUS
<1>2. AccountRequest(q)
  BY <1>1 DEF AccountsInv
<1>3. CASE UserGoto(r, UserIdle)
  <2>1. AccountRequest(UserIdle) /\ ~MakesProfiles(UserIdle)
    BY AccountsAssumption DEF AccountRequest, MakesProfiles, UserIdle, NoRows
  <2> QED
    BY <1>3, <2>1
<1>4. CASE /\ q.attempt < MaxRetries
           /\ UserGoto(r, [q EXCEPT !.pc = "find", !.attempt = q.attempt + 1, !.todo = {}])
  <2>1. PICK n : n = [q EXCEPT !.pc = "find", !.attempt = q.attempt + 1, !.todo = {}]
    OBVIOUS
  <2>2. n = [pc |-> "find", dtos |-> q.dtos, asAdmin |-> q.asAdmin, batch |-> q.batch,
             attempt |-> q.attempt + 1, todo |-> {}, dto |-> q.dto]
    BY <1>2, <2>1 DEF AccountRequest
  <2>3. q.attempt + 1 \in 1..MaxRetries
    BY <1>2, <1>4, AccountsAssumption DEF AccountRequest
  <2>4. AccountRequest(n) /\ ~MakesProfiles(n)
    BY <1>2, <2>2, <2>3 DEF AccountRequest, MakesProfiles
  <2> QED
    BY <1>4, <2>1, <2>4
<1> QED
  BY <1>1, <1>3, <1>4 DEF Abandon

\* What is read of users already there is no one's duty yet.
LEMMA FindExistingStep ==
  ASSUME AccountsInv, NEW r \in Reqs, FindExisting(r)
  PROVE  AccountsInv'
<1>1. PICK q : q = userReq[r]
  OBVIOUS
<1>2. /\ q.pc = "find" /\ AccountRequest(q) /\ ~MakesProfiles(q)
      /\ UNCHANGED <<acTables, bare>> /\ bare \subseteq UserIds
  BY <1>1 DEF AccountsInv, AccountTables, FindExisting, UserAt, MakesProfiles
<1>3. PICK n : n = [q EXCEPT !.pc = "insert"]
  OBVIOUS
<1>4. UserGoto(r, n) \/ UserGoto(r, UserIdle)
  BY <1>1, <1>3 DEF FindExisting
<1>5. AccountRequest(n)
  BY <1>2, <1>3 DEF AccountRequest
<1>6. AccountRequest(UserIdle)
  BY AccountsAssumption DEF AccountRequest, UserIdle, NoRows
<1> QED
  BY <1>1, <1>2, <1>4, <1>5, <1>6, QuietAccountStep

\* The users of a batch are read back by their emails, which are unique.
LEMMA ReadBackStep ==
  ASSUME AccountsInv, NEW r \in Reqs, ReadBack(r)
  PROVE  AccountsInv'
<1>1. PICK q : q = userReq[r]
  OBVIOUS
<1>2. PICK due : due = {u \in UsersWith(DOMAIN q.dtos) :
                          ProfileDue(q.asAdmin, q.dtos[users[u].email])}
  OBVIOUS
<1>3. PICK n : n = [q EXCEPT !.pc = "profiles", !.todo = due]
  OBVIOUS
<1>4. /\ UserGoto(r, n) /\ bare' = bare \cup (q.todo \ due) /\ UNCHANGED acTables
  BY <1>1, <1>2, <1>3 DEF ReadBack
<1>5. AccountRequest(q) /\ bare \subseteq UserIds /\ DOMAIN users \subseteq UserIds
  BY <1>1 DEF AccountsInv, AccountTables
<1>6. due \subseteq UserIds /\ q.todo \subseteq UserIds
  BY <1>2, <1>5 DEF UsersWith, AccountRequest
<1>7. n = [pc |-> "profiles", dtos |-> q.dtos, asAdmin |-> q.asAdmin, batch |-> q.batch,
           attempt |-> q.attempt, todo |-> due, dto |-> q.dto]
  BY <1>3, <1>5 DEF AccountRequest
<1>8. AccountRequest(n)
  BY <1>5, <1>6, <1>7 DEF AccountRequest
<1>9. \A u \in due : DueBy(u, n)
  BY <1>7 DEF DueBy, MakesProfiles
<1> QED
  BY <1>1, <1>4, <1>5, <1>6, <1>8, <1>9, QuietAccountStep

LEMMA UserAnswerStep ==
  ASSUME AccountsInv, NEW r \in Reqs, UserAnswer(r)
  PROVE  AccountsInv'
<1>1. /\ userReq[r].todo = {} /\ UserGoto(r, UserIdle)
      /\ UNCHANGED <<acTables, bare>> /\ bare \subseteq UserIds
  BY DEF UserAnswer, AccountsInv, AccountTables
<1>2. AccountRequest(UserIdle)
  BY AccountsAssumption DEF AccountRequest, UserIdle, NoRows
<1> QED
  BY <1>1, <1>2, QuietAccountStep

LEMMA FindProfileStep ==
  ASSUME AccountsInv, NEW r \in Reqs, FindProfile(r)
  PROVE  AccountsInv'
<1>1. PICK q : q = userReq[r]
  OBVIOUS
<1>2. /\ q.pc = "findProfile" /\ AccountRequest(q) /\ ~MakesProfiles(q)
      /\ UNCHANGED <<acTables, bare>> /\ bare \subseteq UserIds
  BY <1>1 DEF AccountsInv, AccountTables, FindProfile, UserAt, MakesProfiles
<1>3. PICK n : n = [q EXCEPT !.pc = "profiles"]
  OBVIOUS
<1>4. UserGoto(r, n) \/ UserGoto(r, UserIdle)
  BY <1>1, <1>3 DEF FindProfile
<1>5. AccountRequest(n)
  BY <1>2, <1>3 DEF AccountRequest
<1>6. AccountRequest(UserIdle)
  BY AccountsAssumption DEF AccountRequest, UserIdle, NoRows
<1> QED
  BY <1>1, <1>2, <1>4, <1>5, <1>6, QuietAccountStep

\* A request that fails leaves its users bare, and named so.
LEMMA UserRejectStep ==
  ASSUME AccountsInv, NEW r \in Reqs, UserReject(r)
  PROVE  AccountsInv'
<1>1. PICK q : q = userReq[r]
  OBVIOUS
<1>2. Abandon(r) /\ bare' = bare \cup (q.todo \ profiles) /\ UNCHANGED acTables
  BY <1>1 DEF UserReject
<1>3. PICK n : AccountRequest(n) /\ ~MakesProfiles(n) /\ UserGoto(r, n)
  BY <1>2, AbandonTo
<1>4. q.todo \subseteq UserIds /\ bare \subseteq UserIds
  BY <1>1 DEF AccountsInv, AccountTables, AccountRequest
<1> QED
  BY <1>1, <1>2, <1>3, <1>4, QuietAccountStep

\* Every new user is to have a profile or has a reason not to.
LEMMA InsertUsersStep ==
  ASSUME AccountsInv, NEW r \in Reqs, InsertUsers(r)
  PROVE  AccountsInv'
<1>1. PICK q : q = userReq[r]
  OBVIOUS
<1>2. /\ q.pc = "insert" /\ AccountRequest(q) /\ ~MakesProfiles(q)
      /\ UNCHANGED <<profiles, usersGone>> /\ AccountTables
  BY <1>1 DEF AccountsInv, InsertUsers, UserAt, MakesProfiles
<1>3. AccountRequest(UserIdle)
  BY AccountsAssumption DEF AccountRequest, UserIdle, NoRows
<1>4. CASE UserGoto(r, UserIdle) /\ UNCHANGED <<users, bare>>
  <2>1. UNCHANGED acTables /\ bare \subseteq UserIds
    BY <1>2, <1>4 DEF acTables, AccountTables
  <2> QED
    BY <1>1, <1>2, <1>3, <1>4, <2>1, QuietAccountStep
<1>5. CASE ~(UserGoto(r, UserIdle) /\ UNCHANGED <<users, bare>>)
  <2>1. PICK ids \in Injection(DOMAIN userReq[r].dtos, UserIds \ (DOMAIN users \cup usersGone)) :
          LET new == [u \in Range(ids) |-> CHOOSE e \in DOMAIN ids : ids[e] = u]
              due == {u \in Range(ids) : ProfileDue(userReq[r].asAdmin, userReq[r].dtos[new[u]])}
              excused == {u \in Range(ids) : MayBeBare(userReq[r].asAdmin, userReq[r].dtos[new[u]])} IN
          IF UsersWith(DOMAIN userReq[r].dtos) # {}
          THEN UserGoto(r, UserIdle) /\ UNCHANGED <<users, bare>>
          ELSE /\ users' = [u \in DOMAIN users \cup DOMAIN new |->
                             IF u \in DOMAIN users THEN users[u]
                             ELSE [email |-> new[u], role |-> userReq[r].dtos[new[u]].role]]
               /\ \/ UserGoto(r, [userReq[r] EXCEPT !.pc = IF userReq[r].batch THEN "readBack" ELSE "profiles",
                                          !.todo = due])
                      /\ bare' = bare \cup excused
                  \/ Faults /\ Abandon(r) /\ bare' = bare \cup DOMAIN new
    BY Zenon DEF InsertUsers
  <2>2. PICK new : new = [u \in Range(ids) |-> CHOOSE e \in DOMAIN ids : ids[e] = u]
    OBVIOUS
  <2>3. PICK due, excused :
          /\ due = {u \in Range(ids) : ProfileDue(q.asAdmin, q.dtos[new[u]])}
          /\ excused = {u \in Range(ids) : MayBeBare(q.asAdmin, q.dtos[new[u]])}
    OBVIOUS
  <2>4. PICK t : t = [u \in DOMAIN users \cup DOMAIN new |->
                        IF u \in DOMAIN users THEN users[u]
                        ELSE [email |-> new[u], role |-> q.dtos[new[u]].role]]
    OBVIOUS
  <2>5. PICK pc \in {"readBack", "profiles"} : pc = IF q.batch THEN "readBack" ELSE "profiles"
    OBVIOUS
  <2>6. PICK n : n = [q EXCEPT !.pc = pc, !.todo = due]
    OBVIOUS
  <2>7. /\ UsersWith(DOMAIN q.dtos) = {} /\ users' = t
        /\ \/ UserGoto(r, n) /\ bare' = bare \cup excused
           \/ Abandon(r) /\ bare' = bare \cup DOMAIN new
    BY <1>1, <1>5, <2>1, <2>2, <2>3, <2>4, <2>5, <2>6
  <2>8. /\ DOMAIN new = Range(ids) /\ Range(ids) \subseteq UserIds
        /\ DOMAIN t = DOMAIN users \cup Range(ids) /\ t = [u \in DOMAIN t |-> t[u]]
        /\ DOMAIN t \subseteq UserIds \ usersGone
        /\ \A u \in DOMAIN t : t[u] \in User
        /\ \A u, v \in DOMAIN t : t[u].email = t[v].email => u = v
    <3>1. ids \in Injection(DOMAIN q.dtos, UserIds \ (DOMAIN users \cup usersGone))
      BY <1>1, <2>1
    <3>2. PICK R : R = Range(ids)
      OBVIOUS
    <3>3. DOMAIN ids = DOMAIN q.dtos /\ R = {ids[e] : e \in DOMAIN ids}
      BY <3>1, <3>2 DEF Injection, Range
    <3>4. R \in SUBSET (UserIds \ (DOMAIN users \cup usersGone))
      BY <3>1, <3>3 DEF Injection
    <3>5. DOMAIN new = R /\ \A u \in R : new[u] \in DOMAIN q.dtos /\ ids[new[u]] = u
      BY <2>2, <3>2, <3>3
    <3>6. DOMAIN t = DOMAIN users \cup R /\ t = [u \in DOMAIN t |-> t[u]]
      BY <2>4, <3>5
    <3>7. ASSUME NEW u \in R
          PROVE  t[u] \in User /\ t[u].email = new[u] /\ t[u].email \in DOMAIN q.dtos
      <4>1. PICK e \in DOMAIN q.dtos : e = new[u]
        BY <3>5
      <4>2. PICK o : o = q.dtos[e].role
        OBVIOUS
      <4>3. t[u] = [email |-> e, role |-> o] /\ e \in Emails /\ o \in Roles
        BY <1>2, <2>4, <3>4, <3>5, <4>1, <4>2 DEF AccountRequest
      <4> QED
        BY <4>1, <4>3 DEF User
    <3>8. \A u, v \in R : t[u].email = t[v].email => u = v
      BY <3>5, <3>7
    <3>9. \A u \in DOMAIN users : users[u].email \notin DOMAIN q.dtos /\ t[u] = users[u]
      BY <2>4, <2>7, <3>5 DEF UsersWith
    <3>10. /\ DOMAIN t \subseteq UserIds \ usersGone
           /\ \A u \in DOMAIN t : t[u] \in User
           /\ \A u, v \in DOMAIN t : t[u].email = t[v].email => u = v
      <4>1. PICK E : E = DOMAIN q.dtos
        OBVIOUS
      <4>2. \A u \in DOMAIN users : users[u].email \notin E
        BY <3>9, <4>1
      <4>3. \A u \in R : t[u] \in User /\ t[u].email \in E
        BY <3>7, <4>1
      <4>4. \A u \in DOMAIN users : t[u] = users[u]
        BY <3>9
      <4>5. DOMAIN t = DOMAIN users \cup R
        BY <3>6
      <4>6. AccountTables
        BY <1>2
      <4>7. DOMAIN t \subseteq UserIds \ usersGone
        BY <3>4, <4>5, <4>6 DEF AccountTables
      <4>8. \A u \in DOMAIN t : t[u] \in User
        BY <4>3, <4>4, <4>5, <4>6 DEF AccountTables
      <4>9. ASSUME NEW u \in DOMAIN t, NEW v \in DOMAIN t, t[u].email = t[v].email
             PROVE  u = v
        <5>1. CASE u \in R /\ v \in R
          BY <3>8, <4>9, <5>1
        <5>2. CASE u \in DOMAIN users /\ v \in DOMAIN users
          BY <4>4, <4>6, <4>9, <5>2 DEF AccountTables
        <5>3. CASE u \in R /\ v \in DOMAIN users
          BY <4>2, <4>3, <4>4, <4>9, <5>3
        <5>4. CASE v \in R /\ u \in DOMAIN users
          BY <4>2, <4>3, <4>4, <4>9, <5>4
        <5> QED
          BY <4>5, <5>1, <5>2, <5>3, <5>4
      <4> QED
        BY <4>7, <4>8, <4>9
    <3> QED
      BY <3>2, <3>4, <3>5, <3>6, <3>10
  <2>9. Range(ids) \subseteq due \cup excused /\ due \subseteq Range(ids) /\ excused \subseteq Range(ids)
    BY <2>3 DEF ProfileDue, MayBeBare
  <2>10. bare' \subseteq UserIds
    BY <1>2, <2>7, <2>8, <2>9 DEF AccountTables
  <2>11. AccountTables'
    BY <1>2, <2>7, <2>8, <2>10 DEF AccountTables
  <2>12. n = [pc |-> pc, dtos |-> q.dtos, asAdmin |-> q.asAdmin, batch |-> q.batch,
              attempt |-> q.attempt, todo |-> due, dto |-> q.dto]
    BY <1>2, <2>6 DEF AccountRequest
  <2>13. AccountRequest(n)
    BY <1>2, <2>5, <2>8, <2>9, <2>12 DEF AccountRequest
  <2>14. \A u \in due : DueBy(u, n)
    BY <2>12, <2>5 DEF DueBy, MakesProfiles
  <2>15. \A u : ~DueBy(u, userReq[r])
    BY <1>1, <1>2 DEF DueBy
  <2>16. CASE UserGoto(r, n) /\ bare' = bare \cup excused
    <3>1. \A u \in DOMAIN users' \ (profiles' \cup bare') :
            \/ DueBy(u, n)
            \/ u \in DOMAIN users \ (profiles \cup bare) /\ ~DueBy(u, userReq[r])
      BY <1>2, <2>7, <2>8, <2>9, <2>14, <2>15, <2>16
    <3> QED
      BY <2>11, <2>13, <2>16, <3>1, AccountStep
  <2>17. CASE Abandon(r) /\ bare' = bare \cup DOMAIN new
    <3>1. PICK m : AccountRequest(m) /\ ~MakesProfiles(m) /\ UserGoto(r, m)
      BY <2>17, AbandonTo
    <3>2. \A u \in DOMAIN users' \ (profiles' \cup bare') :
            u \in DOMAIN users \ (profiles \cup bare) /\ ~DueBy(u, userReq[r])
      BY <1>2, <2>7, <2>8, <2>15, <2>17
    <3> QED
      BY <2>11, <3>1, <3>2, AccountStep
  <2> QED
    BY <2>7, <2>16, <2>17
<1> QED
  BY <1>4, <1>5

\* The profile is made, or the user is gone.
LEMMA InsertProfileStep ==
  ASSUME AccountsInv, NEW r \in Reqs, InsertProfile(r)
  PROVE  AccountsInv'
<1>1. PICK q : q = userReq[r]
  OBVIOUS
<1>2. PICK u \in q.todo :
        IF u \in DOMAIN users \ profiles
        THEN /\ profiles' = profiles \cup {u} /\ bare' = bare \ {u}
             /\ UserGoto(r, [q EXCEPT !.todo = q.todo \ {u}])
        ELSE /\ UserGoto(r, UserIdle)
             /\ bare' = bare \cup (q.todo \ profiles) /\ UNCHANGED profiles
  BY <1>1 DEF InsertProfile
<1>3. /\ q.pc = "profiles" /\ AccountRequest(q) /\ AccountTables
      /\ UNCHANGED <<users, usersGone>>
  BY <1>1 DEF AccountsInv, InsertProfile, UserAt
<1>4. CASE u \in DOMAIN users \ profiles
  <2>1. PICK n : n = [q EXCEPT !.todo = q.todo \ {u}]
    OBVIOUS
  <2>2. profiles' = profiles \cup {u} /\ bare' = bare \ {u} /\ UserGoto(r, n)
    BY <1>2, <1>4, <2>1
  <2>3. n = [pc |-> "profiles", dtos |-> q.dtos, asAdmin |-> q.asAdmin, batch |-> q.batch,
             attempt |-> q.attempt, todo |-> q.todo \ {u}, dto |-> q.dto]
    BY <1>3, <2>1 DEF AccountRequest
  <2>4. AccountRequest(n)
    BY <1>3, <2>3 DEF AccountRequest
  <2>5. \A v \in q.todo \ {u} : DueBy(v, n)
    BY <2>3 DEF DueBy, MakesProfiles
  <2>6. AccountTables'
    BY <1>3, <1>4, <2>2 DEF AccountTables
  <2>7. \A v \in DOMAIN users' \ (profiles' \cup bare') :
          \/ DueBy(v, n)
          \/ v \in DOMAIN users \ (profiles \cup bare) /\ ~DueBy(v, userReq[r])
    BY <1>1, <1>3, <2>2, <2>5 DEF DueBy
  <2> QED
    BY <2>2, <2>4, <2>6, <2>7, AccountStep
<1>5. CASE u \notin DOMAIN users \ profiles
  <2>1. UserGoto(r, UserIdle) /\ bare' = bare \cup (q.todo \ profiles) /\ UNCHANGED acTables
    BY <1>2, <1>3, <1>5 DEF acTables
  <2>2. AccountRequest(UserIdle)
    BY AccountsAssumption DEF AccountRequest, UserIdle, NoRows
  <2>3. q.todo \subseteq UserIds /\ bare \subseteq UserIds
    BY <1>3 DEF AccountRequest, AccountTables
  <2> QED
    BY <1>1, <2>1, <2>2, <2>3, QuietAccountStep
<1> QED
  BY <1>4, <1>5

LEMMA WriteUserStep ==
  ASSUME AccountsInv, NEW r \in Reqs, WriteUser(r)
  PROVE  AccountsInv'
<1>1. PICK q : q = userReq[r]
  OBVIOUS
<1>2. PICK u \in q.todo :
         LET row == [email |-> IF q.dto.email = Null THEN users[u].email ELSE q.dto.email,
                     role |-> IF q.dto.role = Null THEN users[u].role ELSE q.dto.role]
         IN  IF u \in DOMAIN users /\ UsersWith({q.dto.email}) \subseteq {u}
             THEN /\ users' = With(users, u, row)
                  /\ UserGoto(r, IF q.dto.profile THEN [q EXCEPT !.pc = "findProfile"]
                                 ELSE UserIdle)
             ELSE UserGoto(r, UserIdle) /\ UNCHANGED users
  BY <1>1 DEF WriteUser
<1>3. PICK row :
        row = [email |-> IF q.dto.email = Null THEN users[u].email ELSE q.dto.email,
               role |-> IF q.dto.role = Null THEN users[u].role ELSE q.dto.role]
  OBVIOUS
<1>4. PICK n : n = [q EXCEPT !.pc = "findProfile"]
  OBVIOUS
<1>5. /\ q.pc = "update" /\ AccountRequest(q) /\ ~MakesProfiles(q) /\ AccountTables
      /\ UNCHANGED <<profiles, usersGone, bare>>
  BY <1>1 DEF AccountsInv, WriteUser, UserAt, MakesProfiles
<1>6. q.dto \in UpdateUserDto
  BY <1>5 DEF AccountRequest
<1>7. AccountRequest(UserIdle) /\ AccountRequest(n)
  <2>1. AccountRequest(UserIdle)
    BY AccountsAssumption DEF AccountRequest, UserIdle, NoRows
  <2>2. AccountRequest(n)
    BY <1>4, <1>5 DEF AccountRequest
  <2> QED
    BY <2>1, <2>2
<1>8. CASE u \in DOMAIN users /\ UsersWith({q.dto.email}) \subseteq {u}
  <2>1. users' = With(users, u, row) /\ (UserGoto(r, n) \/ UserGoto(r, UserIdle))
    BY <1>2, <1>3, <1>4, <1>8
  <2>2. /\ DOMAIN users' = DOMAIN users /\ users' = [v \in DOMAIN users' |-> users'[v]]
        /\ users'[u] = row /\ \A v \in DOMAIN users \ {u} : users'[v] = users[v]
    BY <1>8, <2>1 DEF With
  <2>3. /\ row \in User
        /\ row.email = IF q.dto.email = Null THEN users[u].email ELSE q.dto.email
    BY <1>3, <1>5, <1>6, <1>8 DEF AccountTables, User, UpdateUserDto
  <2>4. \A v \in DOMAIN users \ {u} : users[v].email # row.email
    BY <1>5, <1>8, <2>3 DEF AccountTables, UsersWith
  <2>5. AccountTables'
    BY <1>5, <2>2, <2>3, <2>4 DEF AccountTables
  <2>6. \A v \in DOMAIN users' \ (profiles' \cup bare') :
          v \in DOMAIN users \ (profiles \cup bare) /\ ~DueBy(v, userReq[r])
    BY <1>1, <1>5, <2>2 DEF DueBy
  <2> QED
    BY <1>7, <2>1, <2>5, <2>6, AccountStep
<1>9. CASE ~(u \in DOMAIN users /\ UsersWith({q.dto.email}) \subseteq {u})
  <2>1. UserGoto(r, UserIdle) /\ UNCHANGED acTables /\ bare' = bare /\ bare \subseteq UserIds
    BY <1>2, <1>5, <1>9 DEF acTables, AccountTables
  <2> QED
    BY <1>1, <1>5, <1>7, <2>1, QuietAccountStep
<1> QED
  BY <1>8, <1>9

\* A step of no request after which no one else lacks a profile.
LEMMA AccountTablesStep ==
  ASSUME AccountsInv, UNCHANGED userReq, AccountTables',
         DOMAIN users' \ (profiles' \cup bare') \subseteq DOMAIN users \ (profiles \cup bare)
  PROVE  AccountsInv'
BY DEF AccountsInv, ProfilesDue

\* With a user goes the profile.
LEMMA RemoveUserStep == ASSUME AccountsInv, NEW u \in UserIds, RemoveUser(u) PROVE AccountsInv'
<1>1. /\ users' = Without(users, {u}) /\ profiles' = profiles \ {u}
      /\ usersGone' = usersGone \cup {u} /\ bare' = bare \ {u} /\ UNCHANGED userReq
      /\ AccountTables
  BY DEF RemoveUser, AccountsInv
<1>2. /\ DOMAIN users' = DOMAIN users \ {u} /\ users' = [v \in DOMAIN users' |-> users'[v]]
      /\ \A v \in DOMAIN users' : users'[v] = users[v]
  BY <1>1 DEF Without
<1>3. AccountTables'
  BY <1>1, <1>2 DEF AccountTables
<1> QED
  BY <1>1, <1>2, <1>3, AccountTablesStep

LEMMA OwnProfileStep ==
  ASSUME AccountsInv, NEW u \in UserIds, ProfilesController(u)
  PROVE  AccountsInv'
<1>1. AccountTables /\ UNCHANGED <<users, usersGone, userReq>>
  BY DEF AccountsInv, ProfilesController, CreateProfile, RemoveProfile
<1>2. \/ u \in DOMAIN users /\ profiles' = profiles \cup {u} /\ bare' = bare \ {u}
      \/ u \in profiles /\ profiles' = profiles \ {u} /\ bare' = bare \cup {u}
  BY DEF ProfilesController, CreateProfile, RemoveProfile
<1>3. AccountTables'
  BY <1>1, <1>2 DEF AccountTables
<1> QED
  BY <1>1, <1>2, <1>3, AccountTablesStep

LEMMA AccountsInvNext == AccountsInv /\ [ACNext]_acVars => AccountsInv'
<1> SUFFICES ASSUME AccountsInv, [ACNext]_acVars PROVE AccountsInv'
  OBVIOUS
<1>1. CASE UNCHANGED acVars
  <2>1. UNCHANGED <<users, profiles, usersGone, userReq, bare>>
    BY <1>1 DEF acVars, acTables
  <2> QED
    BY <2>1 DEF AccountsInv, AccountTables, ProfilesDue
<1>2. ASSUME NEW r \in Reqs, UsersController(r) PROVE AccountsInv'
  BY <1>2, ControllerStep
<1>3. ASSUME NEW r \in Reqs, FindExisting(r) PROVE AccountsInv'
  BY <1>3, FindExistingStep
<1>4. ASSUME NEW r \in Reqs, InsertUsers(r) PROVE AccountsInv'
  BY <1>4, InsertUsersStep
<1>5. ASSUME NEW r \in Reqs, ReadBack(r) PROVE AccountsInv'
  BY <1>5, ReadBackStep
<1>6. ASSUME NEW r \in Reqs, InsertProfile(r) PROVE AccountsInv'
  BY <1>6, InsertProfileStep
<1>7. ASSUME NEW r \in Reqs, UserAnswer(r) PROVE AccountsInv'
  BY <1>7, UserAnswerStep
<1>8. ASSUME NEW r \in Reqs, WriteUser(r) PROVE AccountsInv'
  BY <1>8, WriteUserStep
<1>9. ASSUME NEW r \in Reqs, FindProfile(r) PROVE AccountsInv'
  BY <1>9, FindProfileStep
<1>10. ASSUME NEW r \in Reqs, UserReject(r) PROVE AccountsInv'
  BY <1>10, UserRejectStep
<1>11. ASSUME NEW u \in UserIds, RemoveUser(u) PROVE AccountsInv'
  BY <1>11, RemoveUserStep
<1>12. ASSUME NEW u \in UserIds, ProfilesController(u) PROVE AccountsInv'
  BY <1>12, OwnProfileStep
<1> QED
  BY <1>1, <1>2, <1>3, <1>4, <1>5, <1>6, <1>7, <1>8, <1>9, <1>10, <1>11, <1>12 DEF ACNext

\* No email is two users', no profile without a user, and no user without a
\* profile that no request is to make and no reason explains.
THEOREM AccountsInvHolds == ACSpec => []AccountsInv
BY AccountsInvInit, AccountsInvNext, PTL DEF ACSpec

\* An email is one user's, a profile is a user's.
THEOREM AccountsTypes == ACSpec => []ACTypeOK
BY AccountsInvHolds, AccountsTyped, PTL

\* A user has his profile when the request that makes him is through with him,
\* however creations, batches, their repetitions, updates and deletions overlap,
\* but for those who have a reason to be without.
THEOREM ProfilesFollowHolds == ACSpec => []ProfilesFollow
<1>1. AccountsInv => ProfilesFollow
  BY DueIs DEF AccountsInv
<1> QED
  BY <1>1, AccountsInvHolds, PTL

-----------------------------------------------------------------------------
(* Induction over the loop of the daily job *)

\* A set of numbers that has any has a least one: the induction that follows.
LEMMA LeastNumber ==
  ASSUME NEW T \in SUBSET Nat, T # {}
  PROVE  \E x \in T : \A y \in T : x <= y
<1> DEFINE Below(x) == 0..(x - 1)
           B == {Below(x) : x \in T}
<1>1. B \subseteq FiniteSubsetsOf(Nat)
  <2>1. \A x \in T : IsFiniteSet(Below(x))
    BY FS_Interval
  <2>2. \A x \in T : Below(x) \subseteq Nat
    OBVIOUS
  <2> QED
    BY <2>1, <2>2, Zenon DEF FiniteSubsetsOf
<1>2. IsWellFoundedOn(StrictSubsetOrdering(Nat), FiniteSubsetsOf(Nat))
  BY FS_StrictSubsetOrderingWellFounded, Zenon
<1>3. \E b \in B : \A c \in B : ~(<<c, b>> \in StrictSubsetOrdering(Nat))
  <2> HIDE DEF B
  <2>1. B # {}
    BY DEF B
  <2> QED
    BY <1>1, <1>2, <2>1, WFMin, Zenon
<1>4. PICK x \in T : \A y \in T : ~(<<Below(y), Below(x)>> \in StrictSubsetOrdering(Nat))
  BY <1>3, Zenon
<1>5. ASSUME NEW y \in T, y < x PROVE FALSE
  <2>1. Below(y) \subseteq Below(x) /\ y \in Below(x) /\ y \notin Below(y)
    BY <1>5
  <2>2. Below(y) \in SUBSET Nat /\ Below(x) \in SUBSET Nat
    OBVIOUS
  <2>3. <<Below(y), Below(x)>> \in StrictSubsetOrdering(Nat)
    <3> HIDE DEF Below
    <3> QED
      BY <2>1, <2>2 DEF StrictSubsetOrdering
  <2> QED
    BY <1>4, <2>3
<1>6. \A y \in T : x <= y
  BY <1>5
<1> QED
  BY <1>6

\* What holds of 0, and of a number when it holds of the one before, holds of
\* all: the induction, over the set of those of which it does not.
LEMMA NumbersAll ==
  ASSUME NEW G \in SUBSET Nat, 0 \in G, \A n \in Nat : n \in G => n + 1 \in G
  PROVE  G = Nat
<1> SUFFICES ASSUME Nat \ G # {} PROVE FALSE
  OBVIOUS
<1>1. PICK x \in Nat \ G : \A y \in Nat \ G : x <= y
  <2> DEFINE T == Nat \ G
  <2>1. T \in SUBSET Nat /\ T # {}
    OBVIOUS
  <2> HIDE DEF T
  <2>2. \E x \in T : \A y \in T : x <= y
    BY <2>1, LeastNumber
  <2> QED
    BY <2>2 DEF T
<1>2. x - 1 \in Nat /\ x - 1 \in G
  BY <1>1
<1> QED
  BY <1>1, <1>2

\* The job's recursion defines what it says.
LEMMA RolloverUnfolds ==
  ASSUME NEW order, Len(order) \in Nat
  PROVE  LET db == Rollover(order) IN
         db = [n \in 0..Len(order) |->
                 IF n = 0 THEN [intakes |-> intakes, links |-> links]
                 ELSE RolledOver(db[n - 1], order[n])]
<1> DEFINE Upto(g, m) ==
             g = [n \in 0..m |->
                    IF n = 0 THEN [intakes |-> intakes, links |-> links]
                    ELSE RolledOver(g[n - 1], order[n])]
           G == {m \in Nat : \E g : Upto(g, m)}
<1>1. 0 \in G
  <2> DEFINE g == [n \in 0..0 |-> [intakes |-> intakes, links |-> links]]
  <2>1. Upto(g, 0)
    OBVIOUS
  <2> QED
    BY <2>1
<1>2. ASSUME NEW m \in Nat, m \in G PROVE m + 1 \in G
  <2>1. PICK g : Upto(g, m)
    BY <1>2
  <2> DEFINE h == [n \in 0..(m + 1) |->
                     IF n = m + 1 THEN RolledOver(g[m], order[m + 1]) ELSE g[n]]
  <2>2. \A n \in 0..m : h[n] = g[n]
    OBVIOUS
  <2>3. \A n \in 0..(m + 1) :
          h[n] = IF n = 0 THEN [intakes |-> intakes, links |-> links]
                 ELSE RolledOver(h[n - 1], order[n])
    <3> SUFFICES ASSUME NEW n \in 0..(m + 1)
                 PROVE  h[n] = IF n = 0 THEN [intakes |-> intakes, links |-> links]
                               ELSE RolledOver(h[n - 1], order[n])
      OBVIOUS
    <3>1. CASE n = m + 1
      <4>1. h[n] = RolledOver(g[m], order[m + 1])
        BY <3>1
      <4>2. n - 1 = m /\ m \in 0..m /\ n # 0
        BY <3>1
      <4>3. h[n - 1] = g[m]
        BY <4>2, <2>2
      <4> HIDE DEF h
      <4> QED
        BY <3>1, <4>1, <4>2, <4>3
    <3>2. CASE n # m + 1
      <4>1. n \in 0..m
        BY <3>2
      <4>2. n # 0 => n - 1 \in 0..m
        BY <4>1
      <4>3. h[n] = g[n] /\ (n # 0 => h[n - 1] = g[n - 1])
        BY <2>2, <4>1, <4>2
      <4>4. g[n] = IF n = 0 THEN [intakes |-> intakes, links |-> links]
                   ELSE RolledOver(g[n - 1], order[n])
        BY <2>1, <4>1
      <4> HIDE DEF h
      <4> QED
        BY <4>3, <4>4
    <3> QED
      BY <3>1, <3>2
  <2>4. Upto(h, m + 1)
    <3>1. h = [n \in 0..(m + 1) |-> h[n]]
      OBVIOUS
    <3> HIDE DEF h
    <3> QED
      BY <2>3, <3>1
  <2> HIDE DEF h, Upto
  <2> QED
    BY <2>4, m + 1 \in Nat
<1>3. G = Nat
  <2> HIDE DEF G
  <2>1. G \in SUBSET Nat
    BY DEF G
  <2> QED
    BY <1>1, <1>2, <2>1, NumbersAll
<1>4. \E g : Upto(g, Len(order))
  BY <1>3
<1>5. Upto(CHOOSE g : Upto(g, Len(order)), Len(order))
  <2> HIDE DEF Upto
  <2> QED
    BY <1>4, Zenon
<1> QED
  BY <1>5, Zenon DEF Rollover

-----------------------------------------------------------------------------
(* Intakes *)

IntakeRow == [startMonth : StartMonths, year : Int, deadline : Int]

\* The tables of intakes and links are whole: typed, one intake for each cycle,
\* whose applications close before it starts, and no link without its intake.
IntakesWhole(table, joins) ==
    /\ DOMAIN table \subseteq IntakeIds /\ IsFiniteSet(DOMAIN table)
    /\ \A i \in DOMAIN table : table[i] \in IntakeRow /\ IsDeadlineBeforeStart(table[i])
    /\ \A i, j \in DOMAIN table : SameCycle(table[i], table[j]) => i = j
    /\ joins \subseteq Offers \X DOMAIN table

\* What the job has read were such rows, closed at the one time it asked.
ListRead ==
    /\ DOMAIN expiry \subseteq IntakeIds /\ IsFiniteSet(DOMAIN expiry)
    /\ \A i \in DOMAIN expiry :
         /\ expiry[i].row \in IntakeRow /\ IsDeadlineBeforeStart(expiry[i].row)
         /\ expiry[i].offers \subseteq Offers
         /\ expiry[i].now \in Months /\ expiry[i].row.deadline < expiry[i].now
    /\ \A i, j \in DOMAIN expiry : expiry[i].now = expiry[j].now

\* The inductive invariant.
IntakesInv ==
    /\ IntakesWhole(intakes, links) /\ ListRead
    /\ month \in Months
    /\ \A r \in Reqs : intakeReq[r] # Null =>
         /\ intakeReq[r].id \in IntakeIds
         /\ intakeReq[r].row \in IntakeRow /\ IsDeadlineBeforeStart(intakeReq[r].row)

\* The cycle that follows is a later one of the same month; if the search comes
\* to an end, applications for it are open.
LEMMA NextCycle ==
  ASSUME NEW i \in IntakeRow, NEW now \in Int, IsDeadlineBeforeStart(i)
  PROVE  LET c == NextFutureCycle(i, now) IN
         /\ c \in IntakeRow /\ IsDeadlineBeforeStart(c)
         /\ c.startMonth = i.startMonth /\ c.year > i.year
         /\ c.deadline >= i.deadline
         /\ now <= i.deadline + 12 * MAX_SHIFT => c.deadline >= now
<1> DEFINE future == {n \in 1..MAX_SHIFT : ShiftedByYears(i, n).deadline >= now}
           shift == IF future = {} THEN MAX_SHIFT
                    ELSE CHOOSE n \in future : \A m \in future : n <= m
<1>1. future # {} => shift \in future
  <2> SUFFICES ASSUME future # {} PROVE shift \in future
    OBVIOUS
  <2>1. future \in SUBSET Nat
    BY DEF MAX_SHIFT
  <2>2. \E n \in future : \A m \in future : n <= m
    <3> HIDE DEF future
    <3> QED
      BY <2>1, LeastNumber
  <2> HIDE DEF future
  <2> QED
    BY <2>2, Zenon
<1>2. shift \in 1..MAX_SHIFT
  BY <1>1 DEF MAX_SHIFT
<1>3. NextFutureCycle(i, now) = ShiftedByYears(i, shift)
  BY DEF NextFutureCycle
<1>4. MAX_SHIFT = 50
  BY DEF MAX_SHIFT
<1>5. now <= i.deadline + 12 * MAX_SHIFT => future # {}
  <2> SUFFICES ASSUME now <= i.deadline + 12 * MAX_SHIFT PROVE MAX_SHIFT \in future
    OBVIOUS
  <2> QED
    BY <1>4 DEF ShiftedByYears, IntakeRow
<1>6. now <= i.deadline + 12 * MAX_SHIFT => ShiftedByYears(i, shift).deadline >= now
  BY <1>1, <1>5
<1> HIDE DEF shift, future
<1>7. LET c == ShiftedByYears(i, shift) IN
      /\ c \in IntakeRow /\ IsDeadlineBeforeStart(c)
      /\ c.startMonth = i.startMonth /\ c.year > i.year /\ c.deadline >= i.deadline
  <2>1. /\ i.startMonth \in StartMonths /\ i.startMonth \in Int
        /\ i.year \in Int /\ i.deadline \in Int
    <3>1. i.startMonth \in StartMonths /\ i.year \in Int /\ i.deadline \in Int
      BY DEF IntakeRow
    <3>2. i.startMonth \in 1..12
      BY <3>1, IntakesAssumption
    <3> QED
      BY <3>1, <3>2
  <2>2. shift \in Int /\ shift >= 1
    BY <1>2, <1>4
  <2>3. /\ ShiftedByYears(i, shift).startMonth = i.startMonth
        /\ ShiftedByYears(i, shift).year = i.year + shift
        /\ ShiftedByYears(i, shift).deadline = i.deadline + 12 * shift
    BY DEF ShiftedByYears, IntakeRow
  <2>4. ShiftedByYears(i, shift) \in IntakeRow
    <3>1. i.year + shift \in Int /\ i.deadline + 12 * shift \in Int
      BY <2>1, <2>2
    <3> QED
      BY <3>1 DEF ShiftedByYears, IntakeRow
  <2>5. i.deadline < 12 * i.year + i.startMonth - 1
    BY DEF IsDeadlineBeforeStart, IntakeStartDate
  <2>6. IsDeadlineBeforeStart(ShiftedByYears(i, shift))
    BY <2>1, <2>2, <2>3, <2>5 DEF IsDeadlineBeforeStart, IntakeStartDate
  <2> QED
    BY <2>1, <2>2, <2>3, <2>4, <2>6
<1> QED
  BY <1>3, <1>6, <1>7

\* A row of a cycle that has none keeps the tables whole.
LEMMA WholeWith ==
  ASSUME NEW table, NEW joins, IntakesWhole(table, joins), NEW id \in IntakeIds, NEW row \in IntakeRow,
         IsDeadlineBeforeStart(row), RowsOf(table, row) \subseteq {id}
  PROVE  IntakesWhole(With(table, id, row), joins)
<1> DEFINE new == With(table, id, row)
<1>1. DOMAIN new = DOMAIN table \cup {id}
  BY DEF With
<1>2. \A j \in DOMAIN new : new[j] = IF j = id THEN row ELSE table[j]
  BY DEF With
<1>3. \A j \in DOMAIN table : SameCycle(table[j], row) => j = id
  BY DEF RowsOf
<1>4. \A j \in DOMAIN table : SameCycle(row, table[j]) => j = id
  BY <1>3 DEF SameCycle
<1>5. IsFiniteSet(DOMAIN new)
  BY <1>1, FS_AddElement DEF IntakesWhole
<1> HIDE DEF new
<1>6. \A j, k \in DOMAIN new : SameCycle(new[j], new[k]) => j = k
  BY <1>1, <1>2, <1>3, <1>4 DEF IntakesWhole
<1>7. joins \subseteq Offers \X DOMAIN new
  BY <1>1 DEF IntakesWhole
<1>8. \A j \in DOMAIN new : new[j] \in IntakeRow /\ IsDeadlineBeforeStart(new[j])
  BY <1>1, <1>2 DEF IntakesWhole
<1>9. DOMAIN new \subseteq IntakeIds
  BY <1>1 DEF IntakesWhole
<1>10. IntakesWhole(new, joins)
  BY <1>5, <1>6, <1>7, <1>8, <1>9 DEF IntakesWhole
<1> QED
  BY <1>10 DEF new

\* So does a row that nothing is linked to, when it goes.
LEMMA WholeWithout ==
  ASSUME NEW table, NEW joins, IntakesWhole(table, joins), NEW i, NEW rest \in SUBSET joins,
         \A l \in rest : l[2] # i
  PROVE  IntakesWhole(Without(table, {i}), rest)
<1> DEFINE new == Without(table, {i})
<1>1. DOMAIN new = DOMAIN table \ {i} /\ \A j \in DOMAIN new : new[j] = table[j]
  BY DEF Without
<1>2. IsFiniteSet(DOMAIN new)
  BY <1>1, FS_Subset DEF IntakesWhole
<1> HIDE DEF new
<1>3. rest \subseteq Offers \X DOMAIN new
  BY <1>1 DEF IntakesWhole
<1>4. IntakesWhole(new, rest)
  BY <1>1, <1>2, <1>3 DEF IntakesWhole
<1> QED
  BY <1>4 DEF new

\* Tables stay whole when links are added to rows that are there, or removed.
LEMMA WholeJoins ==
  ASSUME NEW table, NEW joins, IntakesWhole(table, joins), NEW new \in SUBSET (Offers \X DOMAIN table)
  PROVE  IntakesWhole(table, new)
  BY DEF IntakesWhole

\* findOrCreate: the row of the cycle is there afterwards, and what was there still
\* is; an id that is drawn is new, unless the bound has been reached.
LEMMA CycleFound ==
  ASSUME NEW table, NEW joins, IntakesWhole(table, joins), NEW cycle \in IntakeRow,
         IsDeadlineBeforeStart(cycle), FoundOrCreated(table, cycle).id # Null
  PROVE  LET found == FoundOrCreated(table, cycle) IN
         /\ IntakesWhole(found.table, joins)
         /\ found.id \in DOMAIN found.table
         /\ SameCycle(found.table[found.id], cycle)
         /\ DOMAIN found.table = DOMAIN table \cup {found.id}
         /\ \A j \in DOMAIN table : found.table[j] = table[j]
         /\ found.id \notin DOMAIN table =>
              /\ found.id \notin DOMAIN intakes \cup DOMAIN expiry
              /\ found.table[found.id] = cycle
<1>1. CASE RowsOf(table, cycle) # {}
  <2>1. FoundOrCreated(table, cycle).table = table
    BY <1>1 DEF FoundOrCreated
  <2>2. FoundOrCreated(table, cycle).id \in RowsOf(table, cycle)
    <3>1. FoundOrCreated(table, cycle).id = CHOOSE i \in RowsOf(table, cycle) : TRUE
      BY <1>1 DEF FoundOrCreated
    <3> QED
      BY <1>1, <3>1, Zenon
  <2>3. FoundOrCreated(table, cycle).id \in DOMAIN table
        /\ SameCycle(table[FoundOrCreated(table, cycle).id], cycle)
    BY <2>2 DEF RowsOf
  <2>4. DOMAIN table \cup {FoundOrCreated(table, cycle).id} = DOMAIN table
    BY <2>3
  <2> QED
    BY <2>1, <2>3, <2>4
<1>2. CASE RowsOf(table, cycle) = {}
  <2> DEFINE id == FreshIntake(table)
             new == With(table, id, cycle)
  <2>1. FoundOrCreated(table, cycle).table = new /\ FoundOrCreated(table, cycle).id = id
    BY <1>2 DEF FoundOrCreated
  <2>2. id \in Free(table)
    <3>1. Free(table) # {}
      BY <2>1 DEF FreshIntake
    <3>2. id = CHOOSE i \in Free(table) : TRUE
      BY <3>1, Zenon DEF FreshIntake
    <3> QED
      BY <3>1, <3>2, Zenon
  <2>3. id \in IntakeIds /\ id \notin DOMAIN table /\ id \notin DOMAIN intakes \cup DOMAIN expiry
    BY <2>2 DEF Free
  <2> HIDE DEF id
  <2>4. IntakesWhole(new, joins)
    BY <1>2, <2>3, WholeWith
  <2>5. DOMAIN new = DOMAIN table \cup {id} /\ new[id] = cycle
        /\ \A j \in DOMAIN table : new[j] = table[j]
    BY <2>3 DEF With
  <2>6. SameCycle(new[id], cycle)
    BY <2>5 DEF SameCycle
  <2> HIDE DEF new
  <2> QED
    BY <2>1, <2>3, <2>4, <2>5, <2>6
<1> QED
  BY <1>1, <1>2

\* A program that was linked to a closed intake is linked to an open one that
\* follows, or to one that was closed before the job came to it.
CarriedOn(db, i, p) ==
    \/ \E j \in DOMAIN db.intakes \ DOMAIN expiry :
         /\ <<p, j>> \in db.links /\ db.intakes[j].deadline >= expiry[i].now
         /\ db.intakes[j].startMonth = expiry[i].row.startMonth
         /\ db.intakes[j].year > expiry[i].row.year
    \/ \E j \in RowsOf(intakes, CycleAfter(i)) : intakes[j].deadline < expiry[i].now

\* No closed intake is so old that the search for its next cycle gives up.
Recent == \A i \in DOMAIN expiry :
            expiry[i].now <= expiry[i].row.deadline + 12 * MAX_SHIFT
\* None was edited since the job read it.
Unedited == \A j \in DOMAIN expiry \cap DOMAIN intakes : intakes[j] = expiry[j].row

\* What the job has made of the tables so far: rows are those that were there,
\* or new and open; links to what is open stay.
Extends(db) ==
    /\ \A j \in DOMAIN db.intakes :
         \/ j \in DOMAIN intakes /\ db.intakes[j] = intakes[j]
         \/ /\ j \notin DOMAIN intakes \cup DOMAIN expiry
            /\ \A i \in DOMAIN expiry : db.intakes[j].deadline >= expiry[i].now
    /\ \A l \in links : l[2] \notin DOMAIN expiry => l \in db.links

\* One closed intake: rows stay but itself, links but those to itself.
LEMMA RolloverStep ==
  ASSUME ListRead, NEW db, IntakesWhole(db.intakes, db.links), NEW i \in DOMAIN expiry,
         Null \notin DOMAIN RolledOver(db, i).intakes
  PROVE  LET new == RolledOver(db, i)
             found == FoundOrCreated(db.intakes, CycleAfter(i)) IN
         /\ IntakesWhole(new.intakes, new.links)
         /\ \A j \in DOMAIN db.intakes \ {i} :
              j \in DOMAIN new.intakes /\ new.intakes[j] = db.intakes[j]
         /\ \A l \in db.links : l[2] # i => l \in new.links
         /\ expiry[i].offers = {} => \A j \in DOMAIN new.intakes :
              j \in DOMAIN db.intakes /\ new.intakes[j] = db.intakes[j]
         /\ expiry[i].offers # {} =>
              /\ found.id # Null
              /\ \A j \in DOMAIN new.intakes :
                   j \in DOMAIN found.table /\ new.intakes[j] = found.table[j]
              /\ \A j \in DOMAIN found.table \ {i} :
                   j \in DOMAIN new.intakes /\ new.intakes[j] = found.table[j]
              /\ found.id # i => \A p \in expiry[i].offers : <<p, found.id>> \in new.links
<1> DEFINE read == expiry[i]
           found == FoundOrCreated(db.intakes, CycleAfter(i))
           table == IF read.offers = {} THEN db.intakes ELSE found.table
           linked == IF read.offers = {} THEN db.links
                     ELSE {l \in db.links \cup (read.offers \X {found.id}) : l[2] # i}
           delete == IsIntakeFullyExpired(read.row, read.now) /\ \A l \in linked : l[2] # i
           new == RolledOver(db, i)
<1>1. /\ new.links = linked
      /\ new.intakes = IF delete THEN Without(table, {i}) ELSE table
  BY DEF RolledOver
<1>2. i # Null
  BY IntakesAssumption DEF ListRead
<1>3. Null \notin DOMAIN table
  BY <1>1, <1>2 DEF Without
<1>4. ASSUME read.offers # {} PROVE found.id # Null
  <2> SUFFICES ASSUME found.id = Null PROVE FALSE
    OBVIOUS
  <2>1. table = found.table
    BY <1>4
  <2>2. RowsOf(db.intakes, CycleAfter(i)) # {} => found.id \in DOMAIN db.intakes
    <3> SUFFICES ASSUME RowsOf(db.intakes, CycleAfter(i)) # {}
                 PROVE  found.id \in RowsOf(db.intakes, CycleAfter(i))
      BY DEF RowsOf
    <3>1. found.id = CHOOSE j \in RowsOf(db.intakes, CycleAfter(i)) : TRUE
      BY DEF FoundOrCreated
    <3> QED
      BY <3>1, Zenon
  <2>3. DOMAIN found.table = DOMAIN db.intakes \cup {found.id}
    <3>1. CASE RowsOf(db.intakes, CycleAfter(i)) # {}
      <4>1. found.table = db.intakes
        BY <3>1 DEF FoundOrCreated
      <4> QED
        BY <2>2, <3>1, <4>1
    <3>2. CASE RowsOf(db.intakes, CycleAfter(i)) = {}
      BY <3>2 DEF FoundOrCreated, With
    <3> QED
      BY <3>1, <3>2
  <2> QED
    BY <1>3, <2>1, <2>3
<1>5. CycleAfter(i) \in IntakeRow /\ IsDeadlineBeforeStart(CycleAfter(i))
  <2>1. read.row \in IntakeRow /\ IsDeadlineBeforeStart(read.row) /\ read.now \in Int
    BY IntakesAssumption DEF ListRead
  <2> QED
    BY <2>1, NextCycle DEF CycleAfter
<1>6. ASSUME read.offers # {}
      PROVE  /\ IntakesWhole(found.table, db.links)
             /\ found.id \in DOMAIN found.table
             /\ DOMAIN found.table = DOMAIN db.intakes \cup {found.id}
             /\ \A j \in DOMAIN db.intakes : found.table[j] = db.intakes[j]
  BY <1>4, <1>5, <1>6, CycleFound
<1>7. IntakesWhole(table, linked)
  <2>1. CASE read.offers = {}
    BY <2>1
  <2>2. CASE read.offers # {}
    <3>1. linked \subseteq Offers \X DOMAIN found.table
      <4>1. linked \subseteq db.links \cup (read.offers \X {found.id})
        BY <2>2
      <4>2. db.links \subseteq Offers \X DOMAIN found.table
        BY <1>6, <2>2 DEF IntakesWhole
      <4>3. read.offers \X {found.id} \subseteq Offers \X DOMAIN found.table
        BY <1>6, <2>2 DEF ListRead
      <4> QED
        BY <4>1, <4>2, <4>3
    <3>2. IntakesWhole(found.table, linked)
      BY <1>6, <2>2, <3>1, WholeJoins
    <3> QED
      BY <2>2, <3>2
  <2> QED
    BY <2>1, <2>2
<1> HIDE DEF linked, table, found
<1>8. IntakesWhole(new.intakes, new.links)
  <2>1. CASE delete
    <3>1. \A l \in linked : l[2] # i
      BY <2>1
    <3>2. new.links = linked /\ new.intakes = Without(table, {i})
      BY <1>1, <2>1
    <3> HIDE DEF new, delete
    <3>3. IntakesWhole(Without(table, {i}), linked)
      BY <1>7, <3>1, WholeWithout
    <3> QED
      BY <3>2, <3>3
  <2>2. CASE ~delete
    BY <1>1, <1>7, <2>2
  <2> QED
    BY <2>1, <2>2
<1>9. /\ \A j \in DOMAIN table \ {i} : j \in DOMAIN new.intakes /\ new.intakes[j] = table[j]
      /\ \A j \in DOMAIN new.intakes : j \in DOMAIN table /\ new.intakes[j] = table[j]
  <2> HIDE DEF delete
  <2> QED
    BY <1>1 DEF Without
<1> HIDE DEF new, delete
<1>10. /\ read.offers = {} => table = db.intakes
       /\ read.offers # {} => table = found.table
  BY DEF table
<1>11. \A j \in DOMAIN db.intakes \ {i} :
         j \in DOMAIN new.intakes /\ new.intakes[j] = db.intakes[j]
  <2>1. \A j \in DOMAIN db.intakes : j \in DOMAIN table /\ table[j] = db.intakes[j]
    BY <1>6, <1>10
  <2> QED
    BY <1>9, <2>1
<1>12. \A l \in db.links : l[2] # i => l \in new.links
  BY <1>1 DEF linked
<1>13. read.offers # {} /\ found.id # i => \A p \in read.offers : <<p, found.id>> \in new.links
  <2> SUFFICES ASSUME read.offers # {}, found.id # i, NEW p \in read.offers
               PROVE  <<p, found.id>> \in linked
    BY <1>1
  <2>1. <<p, found.id>> \in read.offers \X {found.id} /\ <<p, found.id>>[2] # i
    OBVIOUS
  <2> QED
    BY <2>1 DEF linked
<1> QED
  BY <1>4, <1>8, <1>9, <1>10, <1>11, <1>12, <1>13 DEF found, new

\* Deadlines that the search for the next cycle does not give up on, and rows
\* whose deadline is one, and stays one when the default takes its place.
Reaching(deadline) == \A m \in Months : m <= deadline + 12 * MAX_SHIFT
RowReaches(row) == Reaching(row.deadline) /\ Reaching(DefaultDeadline(1, row.year))
AllReach(table) == \A i \in DOMAIN table : RowReaches(table[i])
ListReaches == \A i \in DOMAIN expiry : RowReaches(expiry[i].row)

\* What the job inserts closes later than what it read.
LEMMA RolloverReaches ==
  ASSUME ListRead, ListReaches, NEW db, IntakesWhole(db.intakes, db.links), AllReach(db.intakes),
         NEW i \in DOMAIN expiry, Null \notin DOMAIN RolledOver(db, i).intakes
  PROVE  AllReach(RolledOver(db, i).intakes)
<1> DEFINE new == RolledOver(db, i)
           cycle == CycleAfter(i)
           found == FoundOrCreated(db.intakes, cycle)
<1>1. /\ expiry[i].offers = {} => \A j \in DOMAIN new.intakes :
           j \in DOMAIN db.intakes /\ new.intakes[j] = db.intakes[j]
      /\ expiry[i].offers # {} =>
           /\ found.id # Null
           /\ \A j \in DOMAIN new.intakes :
                j \in DOMAIN found.table /\ new.intakes[j] = found.table[j]
  BY RolloverStep
<1>2. /\ expiry[i].row \in IntakeRow /\ IsDeadlineBeforeStart(expiry[i].row)
      /\ expiry[i].now \in Int
  BY IntakesAssumption DEF ListRead
<1>3. cycle \in IntakeRow /\ IsDeadlineBeforeStart(cycle)
      /\ cycle.deadline >= expiry[i].row.deadline /\ cycle.year > expiry[i].row.year
  BY <1>2, NextCycle DEF CycleAfter
<1>4. RowReaches(cycle)
  <2>1. \A m \in Months : /\ m \in Int /\ m <= expiry[i].row.deadline + 12 * MAX_SHIFT
                          /\ m <= DefaultDeadline(1, expiry[i].row.year) + 12 * MAX_SHIFT
    BY IntakesAssumption DEF ListReaches, RowReaches, Reaching
  <2>2. /\ cycle.deadline \in Int /\ expiry[i].row.deadline \in Int
        /\ cycle.year \in Int /\ expiry[i].row.year \in Int
    BY <1>2, <1>3 DEF IntakeRow
  <2> HIDE DEF cycle
  <2>3. Reaching(cycle.deadline)
    BY <1>3, <2>1, <2>2 DEF Reaching, MAX_SHIFT
  <2>4. Reaching(DefaultDeadline(1, cycle.year))
    BY <1>3, <2>1, <2>2
       DEF Reaching, MAX_SHIFT, DefaultDeadline, IntakeStartDate, DEADLINE_MONTHS_BEFORE_START
  <2> QED
    BY <2>3, <2>4 DEF RowReaches
<1> HIDE DEF cycle
<1>5. CASE expiry[i].offers = {}
  <2> HIDE DEF new
  <2>1. AllReach(new.intakes)
    BY <1>1, <1>5 DEF AllReach
  <2> QED
    BY <2>1 DEF new
<1>6. CASE expiry[i].offers # {}
  <2>1. /\ DOMAIN found.table = DOMAIN db.intakes \cup {found.id}
        /\ \A j \in DOMAIN db.intakes : found.table[j] = db.intakes[j]
        /\ found.id \notin DOMAIN db.intakes => found.table[found.id] = cycle
    BY <1>1, <1>3, <1>6, CycleFound
  <2> HIDE DEF new, found
  <2>2. AllReach(new.intakes)
    BY <1>1, <1>4, <1>6, <2>1 DEF AllReach
  <2> QED
    BY <2>2 DEF new
<1> QED
  BY <1>5, <1>6

\* A row without an id, once made, stays: it tells that the bound was reached.
LEMMA NullStays ==
  ASSUME ListRead, NEW db, NEW i \in DOMAIN expiry, Null \in DOMAIN db.intakes
  PROVE  Null \in DOMAIN RolledOver(db, i).intakes
<1>1. i # Null
  BY IntakesAssumption DEF ListRead
<1>2. Null \in DOMAIN FoundOrCreated(db.intakes, CycleAfter(i)).table
  BY DEF FoundOrCreated, With
<1> QED
  BY <1>1, <1>2 DEF RolledOver, Without

\* With the loop's own bookkeeping: what is carried on stays so.
LEMMA RolloverExtends ==
  ASSUME IntakesInv, Recent, Unedited,
         NEW db, IntakesWhole(db.intakes, db.links), Extends(db), NEW i \in DOMAIN expiry,
         Null \notin DOMAIN RolledOver(db, i).intakes
  PROVE  LET new == RolledOver(db, i) IN
         /\ Extends(new)
         /\ \A p \in expiry[i].offers : CarriedOn(new, i, p)
         /\ \A k \in DOMAIN expiry : \A p : CarriedOn(db, k, p) => CarriedOn(new, k, p)
<1> DEFINE new == RolledOver(db, i)
           cycle == CycleAfter(i)
           found == FoundOrCreated(db.intakes, cycle)
<1>1. ListRead
  BY DEF IntakesInv
<1>2. /\ \A j \in DOMAIN db.intakes \ {i} :
           j \in DOMAIN new.intakes /\ new.intakes[j] = db.intakes[j]
      /\ \A l \in db.links : l[2] # i => l \in new.links
      /\ expiry[i].offers = {} => \A j \in DOMAIN new.intakes :
           j \in DOMAIN db.intakes /\ new.intakes[j] = db.intakes[j]
      /\ expiry[i].offers # {} =>
           /\ found.id # Null
           /\ \A j \in DOMAIN new.intakes :
                j \in DOMAIN found.table /\ new.intakes[j] = found.table[j]
           /\ \A j \in DOMAIN found.table \ {i} :
                j \in DOMAIN new.intakes /\ new.intakes[j] = found.table[j]
           /\ found.id # i => \A p \in expiry[i].offers : <<p, found.id>> \in new.links
  BY <1>1, RolloverStep
<1>3. /\ cycle \in IntakeRow /\ IsDeadlineBeforeStart(cycle)
      /\ cycle.startMonth = expiry[i].row.startMonth /\ cycle.year > expiry[i].row.year
      /\ cycle.deadline >= expiry[i].now
  <2>1. /\ expiry[i].row \in IntakeRow /\ IsDeadlineBeforeStart(expiry[i].row)
        /\ expiry[i].now \in Int
        /\ expiry[i].now <= expiry[i].row.deadline + 12 * MAX_SHIFT
    BY <1>1, IntakesAssumption DEF ListRead, Recent
  <2> QED
    BY <2>1, NextCycle DEF CycleAfter
<1>4. ASSUME expiry[i].offers # {}
      PROVE  /\ found.id \in DOMAIN found.table
             /\ SameCycle(found.table[found.id], cycle)
             /\ DOMAIN found.table = DOMAIN db.intakes \cup {found.id}
             /\ \A j \in DOMAIN db.intakes : found.table[j] = db.intakes[j]
             /\ found.id \notin DOMAIN db.intakes =>
                  /\ found.id \notin DOMAIN intakes \cup DOMAIN expiry
                  /\ found.table[found.id] = cycle
  BY <1>2, <1>3, <1>4, CycleFound
<1>5. \A k \in DOMAIN expiry : expiry[k].now = expiry[i].now
  BY <1>1 DEF ListRead
<1> HIDE DEF new, cycle, found
<1>6. Extends(new)
  <2>1. ASSUME NEW j \in DOMAIN new.intakes
        PROVE  \/ j \in DOMAIN intakes /\ new.intakes[j] = intakes[j]
               \/ /\ j \notin DOMAIN intakes \cup DOMAIN expiry
                  /\ \A k \in DOMAIN expiry : new.intakes[j].deadline >= expiry[k].now
    <3>1. CASE j \in DOMAIN db.intakes /\ new.intakes[j] = db.intakes[j]
      BY <3>1 DEF Extends
    <3>2. CASE expiry[i].offers # {} /\ j = found.id /\ j \notin DOMAIN db.intakes
      <4>1. new.intakes[j] = cycle /\ j \notin DOMAIN intakes \cup DOMAIN expiry
        BY <1>2, <1>4, <3>2
      <4> QED
        BY <1>3, <1>5, <4>1
    <3> QED
      BY <1>2, <1>4, <3>1, <3>2
  <2>2. \A l \in links : l[2] \notin DOMAIN expiry => l \in new.links
    BY <1>2 DEF Extends
  <2> QED
    BY <2>1, <2>2 DEF Extends
<1>7. ASSUME NEW p \in expiry[i].offers PROVE CarriedOn(new, i, p)
  <2>1. expiry[i].offers # {}
    BY <1>7
  <2> DEFINE j == found.id
  <2>2. j \in DOMAIN found.table /\ SameCycle(found.table[j], cycle)
    BY <1>4, <2>1
  <2>3. ASSUME j \notin DOMAIN expiry, found.table[j].deadline >= expiry[i].now
        PROVE  CarriedOn(new, i, p)
    <3>1. j # i
      BY <2>3
    <3>2. j \in DOMAIN new.intakes /\ new.intakes[j] = found.table[j] /\ <<p, j>> \in new.links
      BY <1>2, <2>1, <2>2, <3>1
    <3>3. /\ new.intakes[j].startMonth = expiry[i].row.startMonth
          /\ new.intakes[j].year > expiry[i].row.year
      BY <1>3, <2>2, <3>2 DEF SameCycle
    <3> QED
      BY <2>3, <3>2, <3>3 DEF CarriedOn
  <2>4. CASE j \notin DOMAIN db.intakes
    BY <1>3, <1>4, <2>1, <2>3, <2>4
  <2>5. CASE j \in DOMAIN db.intakes /\ j \in DOMAIN intakes /\ db.intakes[j] = intakes[j]
    <3>1. found.table[j] = intakes[j] /\ SameCycle(intakes[j], cycle)
      BY <1>4, <2>1, <2>2, <2>5
    <3>2. CASE intakes[j].deadline < expiry[i].now
      BY <2>5, <3>1, <3>2 DEF CarriedOn, RowsOf, cycle
    <3>3. CASE ~(intakes[j].deadline < expiry[i].now)
      <4>1. j \notin DOMAIN expiry
        <5>1. j \in DOMAIN expiry => intakes[j] = expiry[j].row
          BY <2>5 DEF Unedited
        <5>2. j \in DOMAIN expiry => expiry[j].row.deadline < expiry[i].now
          BY <1>1, <1>5 DEF ListRead
        <5> QED
          BY <3>3, <5>1, <5>2
      <4>2. intakes[j].deadline \in Int /\ expiry[i].now \in Int
        BY <1>1, <2>5, IntakesAssumption DEF IntakesInv, IntakesWhole, IntakeRow, ListRead
      <4> QED
        BY <2>3, <3>1, <3>3, <4>1, <4>2
    <3> QED
      BY <3>2, <3>3
  <2>6. CASE /\ j \in DOMAIN db.intakes /\ j \notin DOMAIN intakes \cup DOMAIN expiry
             /\ db.intakes[j].deadline >= expiry[i].now
    BY <1>4, <2>1, <2>3, <2>6
  <2> QED
    BY <2>4, <2>5, <2>6 DEF Extends
<1>8. ASSUME NEW k \in DOMAIN expiry, NEW p, CarriedOn(db, k, p) PROVE CarriedOn(new, k, p)
  <2>1. CASE \E j \in RowsOf(intakes, CycleAfter(k)) : intakes[j].deadline < expiry[k].now
    BY <2>1 DEF CarriedOn
  <2>2. CASE \E j \in DOMAIN db.intakes \ DOMAIN expiry :
               /\ <<p, j>> \in db.links /\ db.intakes[j].deadline >= expiry[k].now
               /\ db.intakes[j].startMonth = expiry[k].row.startMonth
               /\ db.intakes[j].year > expiry[k].row.year
    <3>1. PICK j \in DOMAIN db.intakes \ DOMAIN expiry :
                 /\ <<p, j>> \in db.links /\ db.intakes[j].deadline >= expiry[k].now
                 /\ db.intakes[j].startMonth = expiry[k].row.startMonth
                 /\ db.intakes[j].year > expiry[k].row.year
      BY <2>2
    <3>2. j # i /\ j \in DOMAIN new.intakes /\ new.intakes[j] = db.intakes[j]
      BY <1>2
    <3>3. <<p, j>> \in new.links
      BY <1>2, <3>1, <3>2
    <3> QED
      BY <3>1, <3>2, <3>3 DEF CarriedOn
  <2> QED
    BY <1>8, <2>1, <2>2 DEF CarriedOn
<1> QED
  BY <1>6, <1>7, <1>8 DEF new

\* An order of the closed intakes comes to each of them.
LEMMA OrderCovers ==
  ASSUME ListRead, NEW order \in SetToSeqs(DOMAIN expiry)
  PROVE  /\ Len(order) \in Nat /\ \A n \in 1..Len(order) : order[n] \in DOMAIN expiry
         /\ \A i \in DOMAIN expiry : \E n \in 1..Len(order) : order[n] = i
<1> DEFINE N == Cardinality(DOMAIN expiry)
<1>1. N \in Nat /\ IsFiniteSet(DOMAIN expiry)
  BY FS_CardinalityType DEF ListRead
<1>2. /\ order \in [1..N -> DOMAIN expiry]
      /\ \A i, j \in 1..N : i # j => order[i] # order[j]
  BY DEF SetToSeqs
<1>3. order \in Seq(DOMAIN expiry) /\ Len(order) = N
  <2> HIDE DEF N
  <2> QED
    BY <1>1, <1>2
<1>4. order \in Injection(1..N, DOMAIN expiry)
  BY <1>2 DEF Injection, IsInjective
<1>5. order \in Surjection(1..N, DOMAIN expiry)
  <2> HIDE DEF N
  <2>1. Cardinality(1..N) = N
    BY <1>1, FS_Interval
  <2>2. Cardinality(1..N) = Cardinality(DOMAIN expiry)
    BY <2>1 DEF N
  <2> QED
    BY <1>1, <1>4, <2>2, FS_Injection
<1>6. \A i \in DOMAIN expiry : \E n \in 1..N : order[n] = i
  BY <1>5 DEF Surjection
<1> QED
  BY <1>1, <1>2, <1>3, <1>6

\* The job, when it ends, leaves whole tables; and if none of what it read was
\* edited or is too old, it has carried on every program.
LEMMA RolloverWhole ==
  ASSUME IntakesInv, NEW order \in SetToSeqs(DOMAIN expiry),
         Null \notin DOMAIN Rollover(order)[Len(order)].intakes
  PROVE  LET db == Rollover(order)[Len(order)] IN
         /\ IntakesWhole(db.intakes, db.links)
         /\ AllReach(intakes) /\ ListReaches => AllReach(db.intakes)
         /\ Recent /\ Unedited =>
              /\ \A i \in DOMAIN expiry : \A p \in expiry[i].offers : CarriedOn(db, i, p)
              /\ Extends(db)
<1> DEFINE N == Len(order)
           db == Rollover(order)
<1>1. /\ N \in Nat /\ \A n \in 1..N : order[n] \in DOMAIN expiry
      /\ \A i \in DOMAIN expiry : \E n \in 1..N : order[n] = i
  BY OrderCovers DEF IntakesInv
<1>2. db = [n \in 0..N |-> IF n = 0 THEN [intakes |-> intakes, links |-> links]
                           ELSE RolledOver(db[n - 1], order[n])]
  BY <1>1, RolloverUnfolds
<1> HIDE DEF N, db
<1>3. db[0] = [intakes |-> intakes, links |-> links]
  BY <1>1, <1>2
<1>4. \A n \in Nat : n + 1 <= N => db[n + 1] = RolledOver(db[n], order[n + 1])
  <2> SUFFICES ASSUME NEW n \in Nat, n + 1 <= N
               PROVE  db[n + 1] = RolledOver(db[n], order[n + 1])
    OBVIOUS
  <2>1. n + 1 \in 0..N /\ n + 1 # 0 /\ (n + 1) - 1 = n
    BY <1>1
  <2> QED
    BY <1>2, <2>1
<1> DEFINE Good(n) ==
             Null \notin DOMAIN db[n].intakes =>
               /\ IntakesWhole(db[n].intakes, db[n].links)
               /\ AllReach(intakes) /\ ListReaches => AllReach(db[n].intakes)
               /\ Recent /\ Unedited =>
                    /\ Extends(db[n])
                    /\ \A m \in 1..n : \A p \in expiry[order[m]].offers :
                         CarriedOn(db[n], order[m], p)
           G == {n \in Nat : n <= N => Good(n)}
<1>5. 0 \in G
  <2>1. IntakesWhole(db[0].intakes, db[0].links)
    BY <1>3 DEF IntakesInv
  <2>2. Extends(db[0])
    BY <1>3 DEF Extends
  <2> QED
    BY <1>3, <2>1, <2>2
<1>6. ASSUME NEW n \in Nat, n \in G PROVE n + 1 \in G
  <2> SUFFICES ASSUME n + 1 <= N, Null \notin DOMAIN db[n + 1].intakes
               PROVE  Good(n + 1)
    OBVIOUS
  <2> DEFINE i == order[n + 1]
  <2>1. i \in DOMAIN expiry /\ db[n + 1] = RolledOver(db[n], i)
    <3> HIDE DEF Good, G
    <3>1. n + 1 \in 1..N
      BY <1>1
    <3>2. order[n + 1] \in DOMAIN expiry
      BY <1>1, <3>1
    <3>3. db[n + 1] = RolledOver(db[n], order[n + 1])
      BY <1>4
    <3> QED
      BY <3>2, <3>3
  <2> HIDE DEF i
  <2>2. Null \notin DOMAIN db[n].intakes
    BY <2>1, NullStays DEF IntakesInv
  <2>3. n <= N
    BY <1>1
  <2>4. Good(n)
    BY <1>6, <2>3
  <2>5. IntakesWhole(db[n].intakes, db[n].links)
    BY <2>2, <2>4
  <2>6. IntakesWhole(db[n + 1].intakes, db[n + 1].links)
    BY <2>1, <2>5, RolloverStep DEF IntakesInv
  <2>8. AllReach(intakes) /\ ListReaches => AllReach(db[n + 1].intakes)
    BY <2>1, <2>2, <2>4, <2>5, RolloverReaches DEF IntakesInv
  <2>7. ASSUME Recent, Unedited
        PROVE  /\ Extends(db[n + 1])
               /\ \A m \in 1..(n + 1) : \A p \in expiry[order[m]].offers :
                    CarriedOn(db[n + 1], order[m], p)
    <3>1. Extends(db[n])
      BY <2>2, <2>4, <2>7
    <3>2. /\ Extends(db[n + 1])
          /\ \A p \in expiry[i].offers : CarriedOn(db[n + 1], i, p)
          /\ \A k \in DOMAIN expiry : \A p : CarriedOn(db[n], k, p) => CarriedOn(db[n + 1], k, p)
      BY <2>1, <2>5, <2>7, <3>1, RolloverExtends
    <3>3. ASSUME NEW m \in 1..(n + 1), NEW p \in expiry[order[m]].offers
          PROVE  CarriedOn(db[n + 1], order[m], p)
      <4>1. CASE m = n + 1
        BY <3>2, <4>1 DEF i
      <4>2. CASE m # n + 1
        <5>1. m \in 1..n /\ order[m] \in DOMAIN expiry
          BY <1>1, <4>2
        <5>2. CarriedOn(db[n], order[m], p)
          BY <2>2, <2>4, <2>7, <5>1
        <5> QED
          BY <3>2, <5>1, <5>2
      <4> QED
        BY <4>1, <4>2
    <3> QED
      BY <3>2, <3>3
  <2> QED
    BY <2>6, <2>7, <2>8
<1>7. Good(N)
  <2> HIDE DEF Good
  <2>1. G \in SUBSET Nat
    OBVIOUS
  <2> HIDE DEF G
  <2>2. G = Nat
    BY <1>5, <1>6, <2>1, NumbersAll
  <2>3. N \in G
    BY <1>1, <2>2
  <2> QED
    BY <1>1, <2>3 DEF G
<1>8. Null \notin DOMAIN db[N].intakes
  BY DEF db, N
<1>9. ASSUME Recent, Unedited, NEW i \in DOMAIN expiry, NEW p \in expiry[i].offers
      PROVE  CarriedOn(db[N], i, p)
  <2>1. PICK n \in 1..N : order[n] = i
    BY <1>1
  <2> QED
    BY <1>7, <1>8, <1>9, <2>1
<1> QED
  BY <1>7, <1>8, <1>9 DEF db, N

\* What a request asks for is a row.
LEMMA ResolvedRow ==
  ASSUME NEW m \in StartMonths, NEW y \in Int, NEW d \in Int \cup {Null}
  PROVE  Resolve(m, y, d) \in IntakeRow
<1>1. m \in Int
  <2>1. m \in 1..12
    BY IntakesAssumption
  <2> QED
    BY <2>1
<1>2. DefaultDeadline(m, y) \in Int
  BY <1>1 DEF DefaultDeadline, IntakeStartDate, DEADLINE_MONTHS_BEFORE_START
<1> QED
  BY <1>2 DEF Resolve, IntakeRow

\* So is what a new intake is made of.
LEMMA DtoRow == \A c \in ResolvedDtos : c \in IntakeRow /\ IsDeadlineBeforeStart(c)
<1> SUFFICES ASSUME NEW c \in ResolvedDtos PROVE c \in IntakeRow
  BY DEF ResolvedDtos
<1>1. PICK m \in StartMonths, y \in Years, d \in Deadlines \cup {Null} : c = Resolve(m, y, d)
  BY DEF ResolvedDtos
<1>2. y \in Int /\ d \in Int \cup {Null}
  BY IntakesAssumption
<1> QED
  BY <1>1, <1>2, ResolvedRow

\* And what an update is to write: the row as read, with what was asked for.
Merges(r, i, m, y, d) ==
    /\ y \in Years \cup {intakes[i].year}
    /\ d \in Deadlines \cup {Null, intakes[i].deadline}
    /\ i \in DOMAIN intakes
    /\ Resolve(m, y, d) \in IntakeRow /\ IsDeadlineBeforeStart(Resolve(m, y, d))
    /\ intakeReq' = [intakeReq EXCEPT ![r] = [id |-> i, row |-> Resolve(m, y, d)]]

LEMMA Merged ==
  ASSUME IntakesInv, NEW r, NEW i, NEW m \in StartMonths, FindIntake(r, i, m)
  PROVE  \E y \in Int, d \in Int \cup {Null} : Merges(r, i, m, y, d)
<1>1. PICK y \in Years \cup {intakes[i].year},
           d \in Deadlines \cup {Null, intakes[i].deadline} :
        /\ IsDeadlineBeforeStart(Resolve(m, y, d))
        /\ intakeReq' = [intakeReq EXCEPT ![r] = [id |-> i, row |-> Resolve(m, y, d)]]
  BY DEF FindIntake
<1>2. i \in DOMAIN intakes /\ intakes[i].year \in Int /\ intakes[i].deadline \in Int
  BY DEF FindIntake, IntakesInv, IntakesWhole, IntakeRow
<1>3. y \in Int /\ d \in Int \cup {Null}
  BY <1>2, IntakesAssumption
<1> QED
  BY <1>1, <1>2, <1>3, ResolvedRow DEF Merges

\* Nothing there, nothing read.
LEMMA IntakesInit == ITInit => IntakesInv
<1> SUFFICES ASSUME ITInit PROVE IntakesInv
  OBVIOUS
<1>1. DOMAIN intakes = {} /\ DOMAIN expiry = {} /\ links = {} /\ month \in Months
  BY DEF ITInit, NoRows
<1>2. \A r \in Reqs : intakeReq[r] = Null
  BY DEF ITInit
<1> QED
  BY <1>1, <1>2, FS_EmptySet DEF IntakesInv, IntakesWhole, ListRead

\* A request's own writes.
LEMMA IntakeCreated ==
  ASSUME IntakesInv, NEW c \in ResolvedDtos, CreateIntake(c), FreshIntake(intakes) \in IntakeIds
  PROVE  IntakesWhole(intakes, links)'
<1>1. RowsOf(intakes, c) = {} /\ links' = links
      /\ intakes' = With(intakes, FreshIntake(intakes), c)
  BY DEF CreateIntake
<1>2. IntakesWhole(With(intakes, FreshIntake(intakes), c), links)
  BY <1>1, DtoRow, WholeWith DEF IntakesInv
<1> QED
  BY <1>1, <1>2 DEF IntakesWhole

\* The second query of update finds no other row of the cycle, or writes nothing.
LEMMA IntakeUpdated ==
  ASSUME IntakesInv, NEW r \in Reqs, UpdateIntake(r)
  PROVE  IntakesWhole(intakes, links)'
<1> DEFINE q == intakeReq[r]
<1>1. /\ q.id \in IntakeIds /\ q.row \in IntakeRow /\ IsDeadlineBeforeStart(q.row)
      /\ links' = links
  BY DEF UpdateIntake, IntakesInv
<1>2. CASE q.id \in DOMAIN intakes /\ RowsOf(intakes, q.row) \subseteq {q.id}
  <2>1. intakes' = With(intakes, q.id, q.row)
    BY <1>2 DEF UpdateIntake
  <2> HIDE DEF q
  <2>2. IntakesWhole(With(intakes, q.id, q.row), links)
    BY <1>1, <1>2, WholeWith DEF IntakesInv
  <2> QED
    BY <1>1, <2>1, <2>2 DEF IntakesWhole
<1>3. CASE ~(q.id \in DOMAIN intakes /\ RowsOf(intakes, q.row) \subseteq {q.id})
  <2>1. intakes' = intakes
    BY <1>3 DEF UpdateIntake
  <2> QED
    BY <1>1, <2>1 DEF IntakesInv, IntakesWhole
<1> QED
  BY <1>2, <1>3

\* The links go with the row.
LEMMA IntakeRemoved ==
  ASSUME IntakesInv, NEW i, RemoveIntake(i)
  PROVE  IntakesWhole(intakes, links)'
<1> DEFINE rest == {l \in links : l[2] # i}
<1>1. intakes' = Without(intakes, {i}) /\ links' = rest
  BY DEF RemoveIntake
<1>2. rest \in SUBSET links /\ \A l \in rest : l[2] # i
  OBVIOUS
<1> HIDE DEF rest
<1>3. IntakesWhole(Without(intakes, {i}), rest)
  BY <1>2, WholeWithout DEF IntakesInv
<1> QED
  BY <1>1, <1>3 DEF IntakesWhole

\* The links of a program.
LEMMA IntakesLinked ==
  ASSUME IntakesInv, NEW p \in Offers, NEW i
  PROVE  /\ LinkOffer(p, i) \/ UnlinkOffer(p, i) => IntakesWhole(intakes, links)'
         /\ \A c \in ResolvedDtos : LinkCycle(p, c) => IntakesWhole(intakes, links)'
<1>1. ASSUME LinkOffer(p, i) \/ UnlinkOffer(p, i) PROVE IntakesWhole(intakes, links)'
  <2>1. links' \subseteq Offers \X DOMAIN intakes /\ intakes' = intakes
    BY <1>1 DEF LinkOffer, UnlinkOffer, IntakesInv, IntakesWhole
  <2> QED
    BY <2>1 DEF IntakesInv, IntakesWhole
<1>2. ASSUME NEW c \in ResolvedDtos, LinkCycle(p, c) PROVE IntakesWhole(intakes, links)'
  <2> DEFINE found == FoundOrCreated(intakes, c)
  <2>1. found.id # Null /\ intakes' = found.table /\ links' = links \cup {<<p, found.id>>}
    BY <1>2 DEF LinkCycle
  <2>2. IntakesWhole(found.table, links) /\ found.id \in DOMAIN found.table
    BY <2>1, DtoRow, CycleFound DEF IntakesInv
  <2> HIDE DEF found
  <2>3. links \cup {<<p, found.id>>} \in SUBSET (Offers \X DOMAIN found.table)
    BY <2>2 DEF IntakesWhole
  <2>4. IntakesWhole(found.table, links \cup {<<p, found.id>>})
    BY <2>2, <2>3, WholeJoins
  <2> QED
    BY <2>1, <2>4 DEF IntakesWhole
<1> QED
  BY <1>1, <1>2

\* The job's end.
LEMMA ExpiryEnds ==
  ASSUME IntakesInv, FinishExpiry
  PROVE  /\ IntakesWhole(intakes, links)'
         /\ AllReach(intakes) /\ ListReaches => AllReach(intakes)'
         /\ links' # links /\ Recent /\ Unedited =>
              LET db == [intakes |-> intakes', links |-> links'] IN
              /\ \A i \in DOMAIN expiry : \A p \in expiry[i].offers : CarriedOn(db, i, p)
              /\ Extends(db)
<1>1. CASE Faults /\ UNCHANGED <<intakes, links>>
  BY <1>1 DEF IntakesInv, IntakesWhole, AllReach
<1>2. ASSUME NEW order \in SetToSeqs(DOMAIN expiry),
             LET db == Rollover(order)[Len(order)] IN
             Null \notin DOMAIN db.intakes /\ intakes' = db.intakes /\ links' = db.links
      PROVE  /\ IntakesWhole(intakes, links)'
             /\ AllReach(intakes) /\ ListReaches => AllReach(intakes)'
             /\ Recent /\ Unedited =>
                  LET db == [intakes |-> intakes', links |-> links'] IN
                  /\ \A i \in DOMAIN expiry : \A p \in expiry[i].offers : CarriedOn(db, i, p)
                  /\ Extends(db)
  <2> DEFINE end == Rollover(order)[Len(order)]
  <2>1. /\ IntakesWhole(end.intakes, end.links)
        /\ AllReach(intakes) /\ ListReaches => AllReach(end.intakes)
        /\ Recent /\ Unedited =>
             /\ \A i \in DOMAIN expiry : \A p \in expiry[i].offers : CarriedOn(end, i, p)
             /\ Extends(end)
    BY <1>2, RolloverWhole
  <2>2. intakes' = end.intakes /\ links' = end.links
    BY <1>2
  <2> HIDE DEF end
  <2>3. IntakesWhole(intakes, links)' /\ (AllReach(intakes) /\ ListReaches => AllReach(intakes)')
    BY <2>1, <2>2 DEF IntakesWhole, AllReach
  <2> QED
    BY <2>1, <2>2, <2>3 DEF CarriedOn, Extends
<1> QED
  BY <1>1, <1>2 DEF FinishExpiry

\* Every step keeps the invariant.
LEMMA IntakesNext == IntakesInv /\ [ITNext]_intakeVars => IntakesInv'
<1> SUFFICES ASSUME IntakesInv, [ITNext]_intakeVars PROVE IntakesInv'
  OBVIOUS
<1> USE DEF IntakesWhole
<1>1. CASE UNCHANGED intakeVars
  BY <1>1 DEF intakeVars, IntakesInv, ListRead
<1>2. CASE Time
  BY <1>2 DEF Time, IntakesInv, ListRead
<1>3. CASE StartExpiry
  <2>1. /\ expiry' = [i \in Expired(intakes) |->
                        [row |-> intakes[i], offers |-> OffersOf(i), now |-> month]]
        /\ UNCHANGED <<intakes, links, month, intakeReq>>
    BY <1>3 DEF StartExpiry
  <2>2. Expired(intakes) \subseteq DOMAIN intakes /\ IsFiniteSet(Expired(intakes))
    BY FS_Subset DEF Expired, IntakesInv
  <2>3. /\ DOMAIN expiry' = Expired(intakes)
        /\ \A i \in Expired(intakes) :
             /\ expiry'[i].row = intakes[i] /\ expiry'[i].offers = OffersOf(i)
             /\ expiry'[i].now = month
    BY <2>1
  <2>4. \A i \in Expired(intakes) : intakes[i].deadline < month /\ OffersOf(i) \subseteq Offers
    BY DEF Expired, OffersOf
  <2>5. ListRead'
    BY <2>2, <2>3, <2>4 DEF ListRead, IntakesInv
  <2> QED
    BY <2>1, <2>5 DEF IntakesInv
<1>4. CASE FinishExpiry
  <2>1. IntakesWhole(intakes, links)'
    BY <1>4, ExpiryEnds
  <2>2. DOMAIN expiry' = {} /\ UNCHANGED <<month, intakeReq>>
    BY <1>4 DEF FinishExpiry, NoRows
  <2>3. ListRead'
    BY <2>2, FS_EmptySet DEF ListRead
  <2> QED
    BY <2>1, <2>2, <2>3 DEF IntakesInv
<1>5. ASSUME NEW c \in ResolvedDtos, CreateIntake(c) \/ \E p \in Offers : LinkCycle(p, c)
      PROVE  IntakesInv'
  <2>1. IntakesWhole(intakes, links)'
    <3>1. CASE CreateIntake(c)
      <4>1. FreshIntake(intakes) \in IntakeIds
        <5>1. Free(intakes) # {}
          BY <3>1 DEF CreateIntake
        <5>2. FreshIntake(intakes) = CHOOSE j \in Free(intakes) : TRUE
          BY <5>1, Zenon DEF FreshIntake
        <5> QED
          BY <5>1, <5>2, Zenon DEF Free
      <4> QED
        BY <3>1, <4>1, IntakeCreated
    <3>2. CASE \E p \in Offers : LinkCycle(p, c)
      BY <3>2, IntakesLinked
    <3> QED
      BY <1>5, <3>1, <3>2
  <2>2. UNCHANGED <<month, intakeReq, expiry>>
    BY <1>5 DEF CreateIntake, LinkCycle
  <2> QED
    BY <2>1, <2>2 DEF IntakesInv, ListRead
<1>6. ASSUME NEW i \in IntakeIds, RemoveIntake(i) PROVE IntakesInv'
  <2>1. IntakesWhole(intakes, links)'
    BY <1>6, IntakeRemoved
  <2> QED
    BY <1>6, <2>1 DEF RemoveIntake, IntakesInv, ListRead
<1>7. ASSUME NEW i \in IntakeIds, NEW r \in Reqs, NEW m \in StartMonths,
             FindIntake(r, i, m)
      PROVE  IntakesInv'
  <2>1. PICK row \in IntakeRow :
          /\ IsDeadlineBeforeStart(row)
          /\ intakeReq' = [intakeReq EXCEPT ![r] = [id |-> i, row |-> row]]
    BY <1>7, Merged DEF Merges
  <2>2. UNCHANGED <<intakes, links, month, expiry>>
    BY <1>7 DEF FindIntake
  <2>3. \A q \in Reqs : intakeReq'[q] # Null =>
          /\ intakeReq'[q].id \in IntakeIds
          /\ intakeReq'[q].row \in IntakeRow /\ IsDeadlineBeforeStart(intakeReq'[q].row)
    BY <2>1 DEF IntakesInv
  <2> QED
    BY <2>2, <2>3 DEF IntakesInv, ListRead
<1>8. ASSUME NEW i \in IntakeIds, NEW p \in Offers, LinkOffer(p, i) \/ UnlinkOffer(p, i)
      PROVE  IntakesInv'
  <2>1. IntakesWhole(intakes, links)'
    BY <1>8, IntakesLinked
  <2>2. UNCHANGED <<intakes, month, intakeReq, expiry>>
    BY <1>8 DEF LinkOffer, UnlinkOffer
  <2> QED
    BY <2>1, <2>2 DEF IntakesInv, ListRead
<1>9. ASSUME NEW r \in Reqs, UpdateIntake(r) PROVE IntakesInv'
  <2>1. IntakesWhole(intakes, links)'
    BY <1>9, IntakeUpdated
  <2>2. intakeReq' = [intakeReq EXCEPT ![r] = Null] /\ UNCHANGED <<links, month, expiry>>
    BY <1>9 DEF UpdateIntake
  <2>3. \A q \in Reqs : intakeReq'[q] # Null =>
          /\ intakeReq'[q].id \in IntakeIds
          /\ intakeReq'[q].row \in IntakeRow /\ IsDeadlineBeforeStart(intakeReq'[q].row)
    BY <2>2 DEF IntakesInv
  <2> QED
    BY <2>1, <2>2, <2>3 DEF IntakesInv, ListRead
<1> QED
  BY <1>1, <1>2, <1>3, <1>4, <1>5, <1>6, <1>7, <1>8, <1>9 DEF ITNext

\* The inductive invariant holds for any intakes, programs and dates.
THEOREM IntakesInvHolds == ITSpec => []IntakesInv
  BY IntakesInit, IntakesNext, PTL DEF ITSpec

\* Intakes keep their types, and a cycle has one intake, however requests and
\* the job interleave; no link outlives its intake.
THEOREM IntakesTypes == ITSpec => []ITTypeOK
<1>1. IntakesInv => ITTypeOK
  <2> SUFFICES ASSUME IntakesInv PROVE ITTypeOK
    OBVIOUS
  <2>1. \A i \in DOMAIN intakes : RowsOf(intakes, intakes[i]) = {i}
    BY DEF IntakesInv, IntakesWhole, RowsOf, SameCycle
  <2> QED
    BY <2>1 DEF ITTypeOK, IntakesInv, IntakesWhole, ListRead
<1> QED
  BY <1>1, IntakesInvHolds, PTL

\* The search for the next cycle does not come to its cap: nobody asks for a
\* deadline, or an intake of a year, fifty years ago.
NoneAncient ==
    /\ \A d \in Deadlines : Reaching(d)
    /\ \A y \in Years : Reaching(DefaultDeadline(1, y))
ReachInv ==
    /\ AllReach(intakes) /\ ListReaches /\ IntakesInv
    /\ \A r \in Reqs : intakeReq[r] # Null => RowReaches(intakeReq[r].row)

\* Nor does one get there whose year and deadline are asked for, or kept from a
\* row that does not.
LEMMA ResolvedReaches ==
  ASSUME NEW m \in StartMonths, NEW y \in Int, NEW d \in Int \cup {Null},
         Reaching(DefaultDeadline(1, y)), d # Null => Reaching(d)
  PROVE  RowReaches(Resolve(m, y, d))
<1>1. m \in 1..12 /\ \A n \in Months : n \in Int
  BY IntakesAssumption
<1>2. m >= 1 /\ m \in Int
  BY <1>1
<1>3. Reaching(DefaultDeadline(m, y))
  BY <1>1, <1>2
     DEF Reaching, MAX_SHIFT, DefaultDeadline, IntakeStartDate, DEADLINE_MONTHS_BEFORE_START
<1> QED
  BY <1>3 DEF RowReaches, Resolve

LEMMA DtoReaches == ASSUME NoneAncient PROVE \A c \in ResolvedDtos : RowReaches(c)
<1> SUFFICES ASSUME NEW c \in ResolvedDtos PROVE RowReaches(c)
  OBVIOUS
<1>1. PICK m \in StartMonths, y \in Years, d \in Deadlines \cup {Null} : c = Resolve(m, y, d)
  BY DEF ResolvedDtos
<1>2. y \in Int /\ d \in Int \cup {Null}
  BY IntakesAssumption
<1>3. Reaching(DefaultDeadline(1, y)) /\ (d # Null => Reaching(d))
  BY DEF NoneAncient
<1> QED
  BY <1>1, <1>2, <1>3, ResolvedReaches

\* Rows only ever close later, or as they were asked to.
LEMMA ReachNext ==
  ASSUME NoneAncient, ReachInv, [ITNext]_intakeVars
  PROVE  ReachInv'
<1>1. IntakesInv'
  BY IntakesNext DEF ReachInv
<1> DEFINE Kept == \A j \in DOMAIN intakes' :
             \/ j \in DOMAIN intakes /\ intakes'[j] = intakes[j]
             \/ RowReaches(intakes'[j])
<1>2. ASSUME Kept PROVE AllReach(intakes)'
  BY <1>2 DEF AllReach, ReachInv
<1>3. ASSUME UNCHANGED expiry PROVE ListReaches'
  BY <1>3 DEF ListReaches, ReachInv
<1> DEFINE Asked == \A r \in Reqs : intakeReq[r] # Null => RowReaches(intakeReq[r].row)
<1>14. Asked
  BY DEF ReachInv
<1>15. AllReach(intakes)' /\ ListReaches' /\ Asked' => ReachInv'
  BY <1>1 DEF ReachInv
<1>16. ASSUME UNCHANGED intakeReq PROVE Asked'
  BY <1>14, <1>16
<1> HIDE DEF Asked
<1>4. CASE UNCHANGED intakeVars
  BY <1>15, <1>16, <1>2, <1>3, <1>4 DEF intakeVars
<1>5. CASE Time
  BY <1>15, <1>16, <1>2, <1>3, <1>5 DEF Time
<1>6. CASE StartExpiry
  <2>1. intakes' = intakes /\ intakeReq' = intakeReq
        /\ expiry' = [i \in Expired(intakes) |->
                        [row |-> intakes[i], offers |-> OffersOf(i), now |-> month]]
    BY <1>6 DEF StartExpiry
  <2>2. ListReaches'
    BY <2>1 DEF ListReaches, Expired, ReachInv, AllReach
  <2> QED
    BY <1>15, <1>16, <1>2, <2>1, <2>2
<1>7. CASE FinishExpiry
  <2>1. AllReach(intakes)'
    BY <1>7, ExpiryEnds DEF ReachInv
  <2>2. ListReaches' /\ intakeReq' = intakeReq
    BY <1>7 DEF FinishExpiry, NoRows, ListReaches
  <2> QED
    BY <1>15, <1>16, <2>1, <2>2
<1>8. ASSUME NEW c \in ResolvedDtos, CreateIntake(c) PROVE ReachInv'
  <2>1. Kept /\ UNCHANGED <<expiry, intakeReq>>
    BY <1>8, DtoReaches DEF CreateIntake, With
  <2> QED
    BY <1>15, <1>16, <1>2, <1>3, <2>1
<1>9. ASSUME NEW c \in ResolvedDtos, NEW p \in Offers, LinkCycle(p, c) PROVE ReachInv'
  <2>1. Kept
    <3>1. intakes' = FoundOrCreated(intakes, c).table
      BY <1>9 DEF LinkCycle
    <3>2. CASE RowsOf(intakes, c) # {}
      BY <3>1, <3>2 DEF FoundOrCreated
    <3>3. CASE RowsOf(intakes, c) = {}
      BY <3>1, <3>3, DtoReaches DEF FoundOrCreated, With
    <3> QED
      BY <3>2, <3>3
  <2> QED
    BY <1>15, <1>16, <1>2, <1>3, <1>9, <2>1 DEF LinkCycle
<1>10. ASSUME NEW i, RemoveIntake(i) PROVE ReachInv'
  <2>1. Kept /\ UNCHANGED <<expiry, intakeReq>>
    BY <1>10 DEF RemoveIntake, Without
  <2> QED
    BY <1>15, <1>16, <1>2, <1>3, <2>1
<1>11. ASSUME NEW i, NEW r, NEW m \in StartMonths, FindIntake(r, i, m) PROVE ReachInv'
  <2>1. PICK y \in Int, d \in Int \cup {Null} : Merges(r, i, m, y, d)
    <3>1. IntakesInv
      BY DEF ReachInv
    <3> QED
      BY <1>11, <3>1, Merged
  <2>2. RowReaches(intakes[i])
    BY <2>1 DEF ReachInv, AllReach, Merges
  <2>3. Reaching(DefaultDeadline(1, y)) /\ (d # Null => Reaching(d))
    BY <2>1, <2>2 DEF NoneAncient, RowReaches, Merges
  <2>4. RowReaches(Resolve(m, y, d))
    BY <2>3, ResolvedReaches
  <2>5. Asked'
    BY <1>14, <2>1, <2>4 DEF Asked, Merges
  <2> QED
    BY <1>15, <1>2, <1>3, <1>11, <2>5 DEF FindIntake
<1>12. ASSUME NEW i, NEW p, LinkOffer(p, i) \/ UnlinkOffer(p, i) PROVE ReachInv'
  BY <1>15, <1>16, <1>2, <1>3, <1>12 DEF LinkOffer, UnlinkOffer
<1>13. ASSUME NEW r \in Reqs, UpdateIntake(r) PROVE ReachInv'
  <2>1. RowReaches(intakeReq[r].row)
    BY <1>14, <1>13 DEF Asked, UpdateIntake
  <2>2. Kept /\ UNCHANGED expiry
    BY <1>13, <2>1 DEF UpdateIntake, With
  <2>3. intakeReq' = [intakeReq EXCEPT ![r] = Null]
    BY <1>13 DEF UpdateIntake
  <2>4. Asked'
    BY <1>14, <2>3 DEF Asked
  <2> QED
    BY <1>15, <1>2, <1>3, <2>2, <2>4
<1> QED
  BY <1>4, <1>5, <1>6, <1>7, <1>8, <1>9, <1>10, <1>11, <1>12, <1>13 DEF ITNext

\* The job carries every program it found linked to a closed intake on to a
\* later one that is open, or meets one that was closed, and takes no link from an
\* open intake, for any intakes, programs, dates and requests in between; what it
\* read was not edited, and no deadline or year was asked for that lies fifty
\* years before a month looked at.
THEOREM NobodyDropped == NoneAncient => (ITSpec => NoProgramDropped)
<1> SUFFICES ASSUME NoneAncient PROVE ITSpec => NoProgramDropped
  OBVIOUS
<1>1. ITInit => ReachInv
  <2>1. ITInit => /\ AllReach(intakes) /\ ListReaches
                  /\ \A r \in Reqs : intakeReq[r] = Null
    BY DEF ITInit, NoRows, AllReach, ListReaches
  <2> QED
    BY <2>1, IntakesInit DEF ReachInv
<1>2. ReachInv /\ [ITNext]_intakeVars => ReachInv'
  BY ReachNext
<1> DEFINE Ends == /\ FinishExpiry /\ links' # links
                   /\ \A j \in DOMAIN expiry \cap DOMAIN intakes : intakes[j] = expiry[j].row
           Carried ==
             /\ \A i \in DOMAIN expiry : \A p \in expiry[i].offers :
                  LET read == expiry[i]
                      cycle == CycleAfter(i) IN
                  \/ \E j \in DOMAIN intakes' :
                       /\ <<p, j>> \in links' /\ intakes'[j].deadline >= read.now
                       /\ intakes'[j].startMonth = read.row.startMonth
                       /\ intakes'[j].year > read.row.year
                  \/ \E j \in RowsOf(intakes, cycle) : intakes[j].deadline < read.now
             /\ \A l \in links : l[2] \notin DOMAIN expiry => l \in links'
<1>3. ASSUME ReachInv, Ends PROVE Carried
  <2>1. Recent /\ Unedited
    BY <1>3 DEF Recent, Unedited, ReachInv, ListReaches, RowReaches, Reaching, IntakesInv, ListRead
  <2>2. LET db == [intakes |-> intakes', links |-> links'] IN
        /\ \A i \in DOMAIN expiry : \A p \in expiry[i].offers : CarriedOn(db, i, p)
        /\ Extends(db)
    BY <1>3, <2>1, ExpiryEnds DEF ReachInv
  <2> QED
    BY <2>2 DEF Extends, CarriedOn
<1>4. ReachInv /\ [ITNext]_intakeVars => [Ends => Carried]_intakeVars
  <2> HIDE DEF Ends, Carried
  <2> QED
    BY <1>3
<1> QED
  BY <1>1, <1>2, <1>4, PTL DEF ITSpec, NoProgramDropped
=============================================================================
