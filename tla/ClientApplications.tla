------------------------ MODULE ClientApplications -------------------------
(***************************************************************************)
(* src/applications: the applications of clients, over the tables          *)
(* Application and Profile.  Every operation on an existing application    *)
(* reads it, checks who owns it and in which status it was, and writes in  *)
(* a query of its own that tests nothing.                                  *)
(***************************************************************************)
EXTENDS Backend

CONSTANTS
    Applicants,    \* users that call the service
    Profiled,      \* those that have a profile
    Admins,        \* those of role ADMIN
    Applications   \* the uuids that inserts will draw

ASSUME ApplicantsAssumption ==
    Profiled \subseteq Applicants /\ Admins \subseteq Applicants

VARIABLES
    apps,       \* Application
    appsGone,   \* ids of deleted rows: a uuid is not drawn twice
    appReq
caVars == <<apps, appsGone, appReq>>

AppStatuses == {"DRAFT", "SUBMITTED", "UNDER_REVIEW", "APPROVED", "REJECTED"}

\* One of two wishes stands for country, university, program and intake; the
\* date of submission and the reason of a rejection are left out.
Wishes == {"first", "second"}
Application == [owner : Profiled, status : AppStatuses, wish : Wishes]

\* What a request may bring; Null where the DTO leaves a field out.
CreateApplicationDto == [applicationStatus : AppStatuses \cup {Null}]
UpdateApplicationDto == [wish : Wishes \cup {Null},
                         applicationStatus : AppStatuses \cup {Null}]
UpdateApplicationStatusDto == [status : AppStatuses, reason : BOOLEAN]

\* `read` is what the request found of the row, `new` what it is to write
\* of it, a wish or a status.
AppIdle == [pc |-> "idle", user |-> Null, app |-> Null, read |-> Null,
            new |-> Null]
AppAt(r, pc) == appReq[r].pc = pc
AppGoto(r, q) == appReq' = Step(appReq, r, q)
AppAwait(r, pc) == appReq' = [appReq EXCEPT ![r].pc = pc]
AppFinish(r) == AppGoto(r, AppIdle)

CAInit ==
    /\ apps = NoRows /\ appsGone = {}
    /\ appReq = [r \in Reqs |-> AppIdle]

-----------------------------------------------------------------------------
(* create, a client's: the profile, then the row.  The DTO may bring a status. *)

Create(r, u, dto) ==
    /\ appReq[r] = AppIdle
    /\ u \in Profiled \ Admins
    /\ AppGoto(r, [AppIdle EXCEPT !.pc = "insert", !.user = u,
                     !.new = IF dto.applicationStatus = Null THEN "DRAFT"
                             ELSE dto.applicationStatus])
    /\ UNCHANGED <<apps, appsGone>>

Insert(r) ==
    LET q == appReq[r] IN
    /\ AppAt(r, "insert")
    /\ \E a \in Applications \ (DOMAIN apps \cup appsGone) :
         apps' = With(apps, a,
                         [owner |-> q.user, status |-> q.new, wish |-> "first"])
    /\ AppFinish(r)
    /\ UNCHANGED appsGone

-----------------------------------------------------------------------------
(* update, updateStatus, remove, submit *)

\* findById
Find(r, pc, u, a, new) ==
    /\ appReq[r] = AppIdle
    /\ a \in DOMAIN apps
    /\ AppGoto(r, [pc |-> pc, user |-> u, app |-> a, new |-> new,
                   read |-> [owner |-> apps[a].owner, status |-> apps[a].status]])
    /\ UNCHANGED <<apps, appsGone>>

\* Of an administrator's update only the status is taken, of a client's the rest.
DtoForUpdate(u, dto) == IF u \in Admins THEN dto.applicationStatus ELSE dto.wish

FindForUpdate(r, u, a, dto) == Find(r, "checkUpdate", u, a, DtoForUpdate(u, dto))
FindForRemove(r, u, a) == Find(r, "checkRemove", u, a, Null)
FindForSubmit(r, u, a) == u \notin Admins /\ Find(r, "checkSubmit", u, a, Null)

\* An administrator's; a rejection needs its reason.
FindForStatus(r, u, a, dto) ==
    /\ u \in Admins
    /\ dto.status = "REJECTED" => dto.reason
    /\ Find(r, "applyStatus", u, a, dto.status)

\* The profile of the user is read, and the application must be of it.
CheckOwned(r, allowed, pc) ==
    LET q == appReq[r] IN
    /\ IF q.user \in Profiled /\ q.read.owner = q.user /\ allowed
       THEN AppAwait(r, pc) ELSE AppFinish(r)
    /\ UNCHANGED <<apps, appsGone>>

\* That holds for an administrator too.
CheckUpdate(r) ==
    /\ AppAt(r, "checkUpdate")
    /\ CheckOwned(r, \/ appReq[r].user \in Admins
                     \/ appReq[r].read.status \in {"DRAFT", "REJECTED"},
                  "applyUpdate")

CheckRemove(r) ==
    /\ AppAt(r, "checkRemove")
    /\ CheckOwned(r, appReq[r].read.status = "DRAFT", "applyRemove")

CheckSubmit_AnyStatus(r) ==
    AppAt(r, "checkSubmit") /\ CheckOwned(r, TRUE, "applySubmit")
CheckSubmit(r) ==
    /\ AppAt(r, "checkSubmit")
    /\ CheckOwned(r, appReq[r].read.status = "DRAFT", "applySubmit")

\* applicationsRepository.update; a row that is gone rejects the query.
Apply(r, pc, field, value) ==
    LET a == appReq[r].app IN
    /\ AppAt(r, pc)
    /\ apps' = IF a \in DOMAIN apps /\ value # Null
               THEN [apps EXCEPT ![a] = [@ EXCEPT ![field] = value]] ELSE apps
    /\ AppFinish(r)
    /\ UNCHANGED appsGone

ApplyUpdate(r) ==
    Apply(r, "applyUpdate", IF appReq[r].user \in Admins THEN "status" ELSE "wish",
          appReq[r].new)
ApplyStatus(r) == Apply(r, "applyStatus", "status", appReq[r].new)
ApplySubmit(r) == Apply(r, "applySubmit", "status", "SUBMITTED")

ApplyRemove(r) ==
    LET a == appReq[r].app IN
    /\ AppAt(r, "applyRemove")
    /\ apps' = Without(apps, {a})
    /\ appsGone' = appsGone \cup ({a} \cap DOMAIN apps)
    /\ AppFinish(r)

\* Any awaited query may reject; what the request had read is forgotten.
AppReject(r) ==
    /\ Faults /\ appReq[r] # AppIdle
    /\ AppFinish(r)
    /\ UNCHANGED <<apps, appsGone>>

CANext ==
    \E r \in Reqs :
      \/ \E u \in Applicants :
           \/ \E dto \in CreateApplicationDto : Create(r, u, dto)
           \/ \E a \in Applications :
                \/ \E dto \in UpdateApplicationDto : FindForUpdate(r, u, a, dto)
                \/ \E dto \in UpdateApplicationStatusDto : FindForStatus(r, u, a, dto)
                \/ FindForRemove(r, u, a)
                \/ FindForSubmit(r, u, a)
      \/ Insert(r) \/ CheckUpdate(r) \/ CheckRemove(r) \/ CheckSubmit(r)
      \/ ApplyUpdate(r) \/ ApplyStatus(r) \/ ApplyRemove(r) \/ ApplySubmit(r)
      \/ AppReject(r)

CASpec == CAInit /\ [][CANext]_caVars

-----------------------------------------------------------------------------

AppRequest ==
    [pc : {"insert", "checkUpdate", "checkRemove", "checkSubmit", "applyUpdate",
           "applyStatus", "applyRemove", "applySubmit"},
     user : Applicants, app : Applications \cup {Null},
     read : [owner : Profiled, status : AppStatuses] \cup {Null},
     new : AppStatuses \cup Wishes \cup {Null}]

\* Types, and a deleted application stays deleted.
CATypeOK ==
    /\ DOMAIN apps \subseteq Applications
    /\ apps \in [DOMAIN apps -> Application]
    /\ appsGone \subseteq Applications \ DOMAIN apps
    /\ appReq \in [Reqs -> AppRequest \cup {AppIdle}]

\* The decisions in flight.  A request is one from the read that its test will
\* accept, at its write in any case, unless it brings nothing to write.
Owned(q, statuses) ==
    q.user \in Profiled /\ q.read.owner = q.user /\ q.read.status \in statuses
Decided(q) ==
    \/ q.pc \in {"applySubmit", "applyRemove"}
    \/ q.pc \in {"applyUpdate", "applyStatus"} /\ q.new # Null
    \/ q.pc \in {"checkSubmit", "checkRemove"} /\ Owned(q, {"DRAFT"})
    \/ /\ q.pc = "checkUpdate" /\ q.new # Null
       /\ Owned(q, IF q.user \in Admins THEN AppStatuses ELSE {"DRAFT", "REJECTED"})
What(q) ==
    IF q.pc \in {"checkSubmit", "applySubmit"} THEN "submit"
    ELSE IF q.pc \in {"checkRemove", "applyRemove"} THEN "remove"
    ELSE IF q.pc = "applyStatus" \/ q.user \in Admins THEN "review" ELSE "edit"
DecisionOf(r, q) ==
    [by |-> r, user |-> q.user, app |-> q.app, what |-> What(q),
     to |-> CASE What(q) = "submit" -> "SUBMITTED"
              [] What(q) = "remove" -> "deleted"
              [] OTHER -> q.new]
DecidedNow ==
    {DecisionOf(r, appReq[r]) : r \in {r \in Reqs : Decided(appReq[r])}}
LC == INSTANCE ApplicationLifecycle
        WITH Ids <- Applications, Statuses <- AppStatuses, Wishes <- Wishes,
             Users <- Applicants, Reviewers <- Admins, Tickets <- Reqs,
             live <- apps, gone <- appsGone, decided <- DecidedNow

\* Whatever the requests overlap with, a submission or a deletion takes effect
\* only on a decision of the owner while the application was a draft, an edit on
\* one while it was a draft or rejected, any other change of status on one of an
\* administrator, and each decision once.
Lifecycle == LC!LSpec
=============================================================================
