------------------------ MODULE PartnerApplications ------------------------
(***************************************************************************)
(* src/partner-applications and src/partner-students: a partner's students *)
(* and the applications made for them, over the tables PartnerStudent,     *)
(* UniversityProgram (only read) and PartnerApplication.                   *)
(*                                                                         *)
(* Callers see the student they name: whom a partner sees is the subject   *)
(* of PartnerAccess, and a refusal changes nothing.  An application's      *)
(* partner is always its student's, so the search for duplicates, which is *)
(* over the partners the caller sees, is over the student's applications.  *)
(***************************************************************************)
EXTENDS Backend

CONSTANTS
    Students,            \* the uuids of students
    PartnerApplicationIds,
    Intakes              \* university, program, season and year together

\* A uuid is of one row.
ASSUME StudentsAssumption == Students \cap PartnerApplicationIds = {}

VARIABLES
    students,     \* PartnerStudent
    papps,        \* PartnerApplication
    paGone,       \* ids of deleted rows of either: uuids are not drawn twice
    pappReq,
    disturbed     \* requests during which another one wrote papps
paVars == <<students, papps, paGone, pappReq, disturbed>>

\* OPEN stands for SUBMITTED, UNDER_REVIEW, DOCUMENTS_REQUIRED,
\* CONDITIONAL_OFFER, ACCEPTED and ENROLLED, which no condition tells apart.
PartnerStatuses == {"DRAFT", "OPEN", "REJECTED", "WITHDRAWN"}
PartnerApplication ==
    [student : Students, intake : Intakes, status : PartnerStatuses]
UpdatePartnerApplicationStatusDto == [status : PartnerStatuses, reason : BOOLEAN]

PAppIdle == [pc |-> "idle", student |-> Null, app |-> Null, new |-> Null]
PAppAt(r, pc) == pappReq[r].pc = pc
PAppFinish(r) ==
    /\ pappReq' = Step(pappReq, r, PAppIdle)
    /\ disturbed' = disturbed \ {r}
PAppStart(r, q) ==
    /\ pappReq[r] = PAppIdle
    /\ pappReq' = Step(pappReq, r, q)
    /\ UNCHANGED <<students, papps, paGone, disturbed>>
PAppAwait(r, pc) ==
    pappReq' = [pappReq EXCEPT ![r].pc = pc] /\ UNCHANGED disturbed

\* A write of r, its last query.
PAppWrote(r) ==
    /\ pappReq' = Step(pappReq, r, PAppIdle)
    /\ disturbed' = {q \in Reqs \ {r} : pappReq[q] # PAppIdle}

PAInit ==
    /\ students = {} /\ papps = NoRows /\ paGone = {}
    /\ pappReq = [r \in Reqs |-> PAppIdle] /\ disturbed = {}

-----------------------------------------------------------------------------
(* Students *)

AddStudent(s) ==
    /\ s \notin students \cup paGone
    /\ students' = students \cup {s}
    /\ UNCHANGED <<papps, paGone, pappReq, disturbed>>

FindStudent(r, s) ==
    /\ s \in students
    /\ PAppStart(r, [PAppIdle EXCEPT !.pc = "deleteStudent", !.student = s])

AppsOf(s) == {a \in DOMAIN papps : papps[a].student = s}

\* The applications go with the student.
DeleteStudent(r) ==
    LET s == pappReq[r].student IN
    /\ PAppAt(r, "deleteStudent")
    /\ students' = students \ {s}
    /\ papps' = Without(papps, AppsOf(s))
    /\ paGone' = paGone \cup AppsOf(s) \cup ({s} \cap students)
    /\ PAppWrote(r)

-----------------------------------------------------------------------------
(* create, adminCreate *)

Submit(r, s, i) ==
    /\ s \in students
    /\ PAppStart(r, [PAppIdle EXCEPT !.pc = "findOffer", !.student = s, !.new = i])

\* The university may not offer the program.
FindOffer(r) ==
    /\ PAppAt(r, "findOffer")
    /\ PAppAwait(r, "dedupe") \/ PAppFinish(r)
    /\ UNCHANGED <<students, papps, paGone>>

Active(status) == status \notin {"REJECTED", "WITHDRAWN"}
Duplicates_OpenOnly(s, i) ==
    {a \in AppsOf(s) : papps[a].intake = i /\ papps[a].status = "OPEN"}
Duplicates(s, i) ==
    {a \in AppsOf(s) : papps[a].intake = i /\ Active(papps[a].status)}

Dedupe(r) ==
    /\ PAppAt(r, "dedupe")
    /\ IF Duplicates(pappReq[r].student, pappReq[r].new) = {}
       THEN PAppAwait(r, "insert") ELSE PAppFinish(r)
    /\ UNCHANGED <<students, papps, paGone>>

InsertApplication(r) ==
    LET q == pappReq[r] IN
    /\ PAppAt(r, "insert")
    /\ IF q.student \in students
       THEN /\ \E a \in PartnerApplicationIds \ (DOMAIN papps \cup paGone) :
                 papps' = With(papps, a, [student |-> q.student, intake |-> q.new,
                                          status |-> "OPEN"])
            /\ PAppWrote(r)
       ELSE UNCHANGED papps /\ PAppFinish(r)    \* the foreign key
    /\ UNCHANGED <<students, paGone>>

-----------------------------------------------------------------------------
(* update, adminUpdate, updateStatus, remove: a read that tests the status,  *)
(* and a write that does not                                                 *)

FindApplication(r, a, pc, new) ==
    /\ a \in DOMAIN papps
    /\ PAppStart(r, [PAppIdle EXCEPT !.pc = pc, !.app = a, !.new = new])

\* The new intake is not compared with those of other applications.
Update(r, a, i) ==
    FindApplication(r, a, "applyUpdate", i) /\ papps[a].status = "DRAFT"
AdminUpdate(r, a, i) == FindApplication(r, a, "applyUpdate", i)

UpdateStatus(r, a, dto) ==
    /\ dto.status = "REJECTED" => dto.reason
    /\ FindApplication(r, a, "applyStatus", dto.status)

RemoveApplication(r, a) ==
    /\ FindApplication(r, a, "delete", Null)
    /\ papps[a].status \in {"DRAFT", "WITHDRAWN"}

\* A row that is gone rejects the query.
Assign(r, pc, field) ==
    LET q == pappReq[r] IN
    /\ PAppAt(r, pc)
    /\ IF q.app \in DOMAIN papps
       THEN papps' = [papps EXCEPT ![q.app] = [@ EXCEPT ![field] = q.new]] /\ PAppWrote(r)
       ELSE UNCHANGED papps /\ PAppFinish(r)
    /\ UNCHANGED <<students, paGone>>

ApplyPartnerUpdate(r) == Assign(r, "applyUpdate", "intake")
ApplyPartnerStatus(r) == Assign(r, "applyStatus", "status")

DeleteApplication(r) ==
    LET a == pappReq[r].app IN
    /\ PAppAt(r, "delete")
    /\ papps' = Without(papps, {a})
    /\ paGone' = paGone \cup ({a} \cap DOMAIN papps)
    /\ PAppWrote(r)
    /\ UNCHANGED students

PAppReject(r) ==
    /\ Faults /\ pappReq[r] # PAppIdle
    /\ PAppFinish(r)
    /\ UNCHANGED <<students, papps, paGone>>

PartnerStudentsController(s) == AddStudent(s) \/ \E r \in Reqs : FindStudent(r, s)

PANext ==
    \/ \E s \in Students : PartnerStudentsController(s)
    \/ \E r \in Reqs :
         \/ \E s \in Students, i \in Intakes : Submit(r, s, i)
         \/ \E a \in PartnerApplicationIds :
              \/ \E i \in Intakes : Update(r, a, i) \/ AdminUpdate(r, a, i)
              \/ \E dto \in UpdatePartnerApplicationStatusDto : UpdateStatus(r, a, dto)
              \/ RemoveApplication(r, a)
         \/ DeleteStudent(r) \/ FindOffer(r) \/ Dedupe(r) \/ InsertApplication(r)
         \/ ApplyPartnerUpdate(r) \/ ApplyPartnerStatus(r) \/ DeleteApplication(r)
         \/ PAppReject(r)

PASpec == PAInit /\ [][PANext]_paVars

-----------------------------------------------------------------------------

PATypeOK ==
    /\ students \subseteq Students \ paGone
    /\ papps \in Table(PartnerApplicationIds \ paGone, PartnerApplication)
    /\ \A a \in DOMAIN papps : papps[a].student \in students
    /\ paGone \subseteq PartnerApplicationIds \cup Students
    /\ pappReq \in [Reqs ->
         [pc : {"deleteStudent", "findOffer", "dedupe", "insert", "applyUpdate",
                "applyStatus", "delete"},
          student : Students \cup {Null},
          app : PartnerApplicationIds \cup {Null},
          new : Intakes \cup PartnerStatuses \cup {Null}] \cup {PAppIdle}]
    /\ disturbed \subseteq {r \in Reqs : pappReq[r] # PAppIdle}

ActiveFor(s, i) == {a \in DOMAIN papps : /\ papps[a].student = s
                                        /\ papps[a].intake = i
                                        /\ papps[a].status \in {"DRAFT", "OPEN"}}

\* A submission makes a second active application for the same student,
\* program and intake only if another request wrote in between, however the
\* earlier one came to be active.
OneActivePerIntake ==
    [][\A r \in Reqs :
         InsertApplication(r) /\ r \notin disturbed =>
           \A s \in Students, i \in Intakes :
             ActiveFor(s, i)' # ActiveFor(s, i) => Cardinality(ActiveFor(s, i)') = 1]_paVars
=============================================================================
