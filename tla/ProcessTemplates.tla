------------------------- MODULE ProcessTemplates --------------------------
(***************************************************************************)
(* src/application-process: the templates of the process an application    *)
(* goes through, over the tables ApplicationProcessTemplate,               *)
(* ApplicationProcessStep and ApplicationDocumentType, with the deletion   *)
(* of a program, whose template goes with it; and                          *)
(* src/application-documents: the uploads of applications, in the table    *)
(* ApplicationDocument, and the checklist a template makes of them.        *)
(*                                                                         *)
(* A step is named by its place in its template and has at most one        *)
(* document type.  Operations on steps and document types read the row     *)
(* they need and write in a second query; as foreign keys and missing rows *)
(* reject that query just as the read would, they are one step here.       *)
(***************************************************************************)
EXTENDS Backend

CONSTANTS
    Templates,   \* the uuids of templates
    Programs,
    Steps,       \* places in a template: a set of numbers
    Documents    \* the uuids of uploaded documents

ASSUME StepsAssumption == Steps \subseteq Nat /\ IsFiniteSet(Steps)
ASSUME TemplatesAssumption == Null \notin Templates

VARIABLES
    templates,   \* ApplicationProcessTemplate
    tmplSteps,   \* ApplicationProcessStep: which places each template has
    tmplTypes,   \* ApplicationDocumentType: which of them ask for a document
    programs,    \* Program
    docs,        \* ApplicationDocument
    tmplReq,
    edited,      \* clones changed by hand while they are being made
    late         \* requests that cleared the default before another set one
tmplTables == <<templates, tmplSteps, tmplTypes, programs, docs>>
tmplGhosts == <<edited, late>>
tmplVars == <<tmplTables, tmplReq, tmplGhosts>>

Template == [isDefault : BOOLEAN, program : Programs \cup {Null}]
Contents == [steps : SUBSET Steps, types : SUBSET Steps]
\* A document belongs to an application for a program; its type may be none.
DocStatuses == {"PENDING", "IN_REVIEW", "APPROVED", "REJECTED"}
ApplicationDocument ==
    [program : Programs, type : (Templates \X Steps) \cup {Null}, status : DocStatuses]
NoContents == [steps |-> {}, types |-> {}]
ContentsOf(t) == [steps |-> tmplSteps[t], types |-> tmplTypes[t]]

\* `template` is the row to write, `row` what is written into it, `copy` what
\* the source of a clone holds and `left` the steps of it that are to be copied.
TmplIdle == [pc |-> "idle", template |-> Null, row |-> Null, copy |-> NoContents,
             left |-> {}]
TmplAt(r, pc) == tmplReq[r].pc = pc
TmplGoto(r, q) == tmplReq' = Step(tmplReq, r, q)
Cloning == {r \in Reqs : tmplReq[r].pc \in {"copyStep", "copyTypes"}}
TmplStart(r, q) ==
    /\ tmplReq[r] = TmplIdle
    /\ TmplGoto(r, q)
    /\ UNCHANGED <<tmplTables, tmplGhosts>>

PTInit ==
    /\ templates = NoRows /\ programs = Programs
    /\ tmplSteps = [t \in Templates |-> {}] /\ tmplTypes = [t \in Templates |-> {}]
    /\ tmplReq = [r \in Reqs |-> TmplIdle]
    /\ docs = NoRows /\ edited = {} /\ late = {}

-----------------------------------------------------------------------------
(* createTemplate, updateTemplate, deleteTemplate *)

\* updateMany of the templates that are to be the default no longer.
Undefaulted_NotOwnProgram(id) ==
    [t \in DOMAIN templates |->
       IF t # id /\ templates[t].program = Null
       THEN [templates[t] EXCEPT !.isDefault = FALSE] ELSE templates[t]]
Undefaulted(id) ==
    [t \in DOMAIN templates |->
       IF t # id THEN [templates[t] EXCEPT !.isDefault = FALSE] ELSE templates[t]]

\* A default is set: by a request that had cleared the others, as of then.
TmplWrote(r, isDefault) ==
    /\ TmplGoto(r, TmplIdle) /\ UNCHANGED edited
    /\ late' = (late \ {r}) \cup
               (IF isDefault THEN {q \in Reqs \ {r} : tmplReq[q].pc \in {"insert", "write"}}
                ELSE {})
EndRequest(r) ==
    /\ TmplGoto(r, TmplIdle)
    /\ late' = late \ {r}
    /\ edited' = IF r \in Cloning THEN edited \ {tmplReq[r].template} ELSE edited

CreateTemplate(r, row) ==
    TmplStart(r, [TmplIdle EXCEPT !.row = row,
                                  !.pc = IF row.isDefault THEN "clear" ELSE "insert"])

\* findUnique; the DTO changes isDefault, to TRUE or FALSE, or leaves it.
UpdateTemplate(r, t, isDefault) ==
    /\ t \in DOMAIN templates
    /\ TmplStart(r, [TmplIdle EXCEPT !.template = t,
                                     !.row = [isDefault |-> isDefault, program |-> Null],
                                     !.pc = IF isDefault THEN "clear" ELSE "write"])

ClearDefault(r) ==
    LET q == tmplReq[r] IN
    /\ TmplAt(r, "clear")
    /\ templates' = Undefaulted(q.template)
    /\ TmplGoto(r, [q EXCEPT !.pc = IF q.template = Null THEN "insert" ELSE "write"])
    /\ UNCHANGED <<tmplSteps, tmplTypes, programs, docs, tmplGhosts>>

\* The program must exist and have no template yet.
MayHave(p) == p = Null \/ /\ p \in programs
                          /\ \A t \in DOMAIN templates : templates[t].program # p
\* A uuid nothing refers to.
FreshTemplate == Templates \ (DOMAIN templates \cup {tmplReq[r].template : r \in Reqs})

InsertTemplate(r) ==
    LET row == tmplReq[r].row IN
    /\ TmplAt(r, "insert")
    /\ IF MayHave(row.program)
       THEN /\ \E t \in FreshTemplate : templates' = With(templates, t, row)
            /\ TmplWrote(r, row.isDefault)
       ELSE UNCHANGED templates /\ EndRequest(r)
    /\ UNCHANGED <<tmplSteps, tmplTypes, programs, docs>>

WriteTemplate(r) ==
    LET q == tmplReq[r] IN
    /\ TmplAt(r, "write")
    /\ IF q.template \in DOMAIN templates
       THEN /\ templates' = [templates EXCEPT ![q.template].isDefault = q.row.isDefault]
            /\ TmplWrote(r, q.row.isDefault)
       ELSE UNCHANGED templates /\ EndRequest(r)
    /\ UNCHANGED <<tmplSteps, tmplTypes, programs, docs>>

\* The default is not deleted: if it was read as such.
FindToDelete(r, t) ==
    /\ t \in DOMAIN templates /\ ~templates[t].isDefault
    /\ TmplStart(r, [TmplIdle EXCEPT !.pc = "delete", !.template = t])

\* onDelete: SetNull, from document type to document.
Untyped_Not(gone) == docs
Untyped(gone) == [d \in DOMAIN docs |-> IF docs[d].type \in gone
                                       THEN [docs[d] EXCEPT !.type = Null] ELSE docs[d]]

\* onDelete: Cascade, from program to template to step to document type.
Delete(ids) ==
    /\ templates' = Without(templates, ids)
    /\ tmplSteps' = [t \in Templates |-> IF t \in ids THEN {} ELSE tmplSteps[t]]
    /\ tmplTypes' = [t \in Templates |-> IF t \in ids THEN {} ELSE tmplTypes[t]]
    /\ docs' = Untyped(ids \X Steps)

DeleteTemplate(r) ==
    LET t == tmplReq[r].template IN
    /\ TmplAt(r, "delete")
    /\ Delete({t}) /\ UNCHANGED programs
    /\ EndRequest(r)

DeleteProgram(p) ==
    /\ p \in programs
    /\ \A d \in DOMAIN docs : docs[d].program # p    \* applications restrict
    /\ Delete({t \in DOMAIN templates : templates[t].program = p})
    /\ programs' = programs \ {p}
    /\ UNCHANGED <<tmplReq, tmplGhosts>>

-----------------------------------------------------------------------------
(* cloneTemplateForProgram: a query for each step and for its document types *)

\* The source is read with all it contains, once; then that the program has no
\* template, and that it exists.
StartClone(r, t, p) ==
    /\ t \in DOMAIN templates
    /\ TmplStart(r, [TmplIdle EXCEPT !.pc = "checkProgram", !.copy = ContentsOf(t),
                                     !.row = [isDefault |-> FALSE, program |-> p]])

CheckProgram(r) ==
    LET q == tmplReq[r] IN
    /\ TmplAt(r, "checkProgram")
    /\ IF MayHave(q.row.program) THEN TmplGoto(r, [q EXCEPT !.pc = "insertClone"])
       ELSE TmplGoto(r, TmplIdle)
    /\ UNCHANGED <<tmplTables, tmplGhosts>>

\* What a clone does next: the steps in their order, then nothing.
CopyNext(r, q) ==
    IF q.left = {} THEN EndRequest(r)
    ELSE TmplGoto(r, [q EXCEPT !.pc = "copyStep"]) /\ UNCHANGED tmplGhosts
FirstLeft(q) == CHOOSE i \in q.left : \A j \in q.left : i <= j

InsertClone(r) ==
    LET q == tmplReq[r] IN
    /\ TmplAt(r, "insertClone")
    /\ IF MayHave(q.row.program)
       THEN \E t \in FreshTemplate :
              /\ templates' = With(templates, t, q.row)
              /\ CopyNext(r, [q EXCEPT !.template = t, !.left = q.copy.steps])
       ELSE UNCHANGED templates /\ EndRequest(r)
    /\ UNCHANGED <<tmplSteps, tmplTypes, programs, docs>>

\* The step, then the document types it asks for, if any.
TypesFollow_Never(q) == FALSE
TypesFollow(q) == FirstLeft(q) \in q.copy.types

CopyStep(r) ==
    LET q == tmplReq[r] IN
    /\ TmplAt(r, "copyStep")
    /\ IF q.template \in DOMAIN templates
       THEN /\ tmplSteps' = [tmplSteps EXCEPT ![q.template] = @ \cup {FirstLeft(q)}]
            /\ IF TypesFollow(q)
               THEN TmplGoto(r, [q EXCEPT !.pc = "copyTypes"]) /\ UNCHANGED tmplGhosts
               ELSE CopyNext(r, [q EXCEPT !.left = @ \ {FirstLeft(q)}])
       ELSE UNCHANGED tmplSteps /\ EndRequest(r)
    /\ UNCHANGED <<templates, tmplTypes, programs, docs>>

\* The new step may have been deleted, or its template.
CopyTypes(r) ==
    LET q == tmplReq[r] IN
    /\ TmplAt(r, "copyTypes")
    /\ IF FirstLeft(q) \in tmplSteps[q.template]
       THEN /\ tmplTypes' = [tmplTypes EXCEPT ![q.template] = @ \cup {FirstLeft(q)}]
            /\ CopyNext(r, [q EXCEPT !.left = @ \ {FirstLeft(q)}])
       ELSE UNCHANGED tmplTypes /\ EndRequest(r)
    /\ UNCHANGED <<templates, tmplSteps, programs, docs>>

\* No transaction: what has been copied stays, and so does a cleared default.
TmplReject(r) ==
    /\ Faults /\ tmplReq[r] # TmplIdle
    /\ EndRequest(r)
    /\ UNCHANGED tmplTables

-----------------------------------------------------------------------------
(* Steps and document types *)

EditStep(t, steps, types) ==
    /\ t \in DOMAIN templates
    /\ tmplSteps' = [tmplSteps EXCEPT ![t] = steps]
    /\ tmplTypes' = [tmplTypes EXCEPT ![t] = types]
    /\ edited' = edited \cup ({t} \cap {tmplReq[r].template : r \in Cloning})
    /\ UNCHANGED <<templates, programs, tmplReq, late>>

CreateStep(t, i) ==
    /\ i \notin tmplSteps[t]
    /\ EditStep(t, tmplSteps[t] \cup {i}, tmplTypes[t]) /\ UNCHANGED docs

DeleteStep(t, i) ==
    /\ i \in tmplSteps[t]
    /\ EditStep(t, tmplSteps[t] \ {i}, tmplTypes[t] \ {i})
    /\ docs' = Untyped({<<t, i>>})

CreateDocumentType(t, i) ==
    /\ i \in tmplSteps[t] \ tmplTypes[t]
    /\ EditStep(t, tmplSteps[t], tmplTypes[t] \cup {i}) /\ UNCHANGED docs

DeleteDocumentType(t, i) ==
    /\ i \in tmplTypes[t]
    /\ EditStep(t, tmplSteps[t], tmplTypes[t] \ {i})
    /\ docs' = Untyped({<<t, i>>})

-----------------------------------------------------------------------------
(* ApplicationDocumentsService: an upload, its review, its removal, and the  *)
(* removal of the application.  Who may is read first, and does not change.  *)

DocWrite == UNCHANGED <<templates, tmplSteps, tmplTypes, programs, tmplReq, tmplGhosts>>

\* Any type that exists is taken, that of another template too.
CreateDocument(d, p, type, status) ==
    /\ d \notin DOMAIN docs /\ p \in programs
    /\ type # Null => type[2] \in tmplTypes[type[1]]
    /\ docs' = With(docs, d, [program |-> p, type |-> type, status |-> status])
    /\ DocWrite

UpdateDocumentStatus(d, status) ==
    /\ d \in DOMAIN docs
    /\ docs' = [docs EXCEPT ![d].status = status]
    /\ DocWrite

RemoveDocument(d) ==
    /\ d \in DOMAIN docs
    /\ docs' = Without(docs, {d})
    /\ DocWrite

\* findTemplateForProgram and resolveTemplateForProgram: the program's own
\* template, or a default one; there may be several of those.
TemplateFor(p) ==
    LET own == {t \in DOMAIN templates : templates[t].program = p}
    IN  IF own # {} THEN own ELSE {t \in DOMAIN templates : templates[t].isDefault}

\* getRequirements: the documents of a type of the template, and the others.
Listed(d, t) == docs[d].type = Null \/ docs[d].type \in {t} \X tmplTypes[t]

ApplicationDocumentsController(d) ==
    \/ \E p \in Programs, type \in (Templates \X Steps) \cup {Null},
          status \in DocStatuses : CreateDocument(d, p, type, status)
    \/ \E status \in DocStatuses : UpdateDocumentStatus(d, status)
    \/ RemoveDocument(d)

PTNext ==
    \/ \E r \in Reqs :
         \/ \E row \in Template : CreateTemplate(r, row)
         \/ \E t \in Templates :
              \/ \E isDefault \in BOOLEAN : UpdateTemplate(r, t, isDefault)
              \/ FindToDelete(r, t)
              \/ \E p \in Programs : StartClone(r, t, p)
         \/ ClearDefault(r) \/ InsertTemplate(r) \/ WriteTemplate(r) \/ DeleteTemplate(r)
         \/ CheckProgram(r) \/ InsertClone(r) \/ CopyStep(r) \/ CopyTypes(r)
         \/ TmplReject(r)
    \/ \E p \in Programs : DeleteProgram(p)
    \/ \E t \in Templates, i \in Steps :
         \/ CreateStep(t, i) \/ DeleteStep(t, i)
         \/ CreateDocumentType(t, i) \/ DeleteDocumentType(t, i)
    \/ \E d \in Documents : ApplicationDocumentsController(d)

PTSpec == PTInit /\ [][PTNext]_tmplVars

-----------------------------------------------------------------------------

\* Types and foreign keys: a program has one template, a step belongs to a
\* template, a document type to a step, a document to a type that exists.
PTTypeOK ==
    /\ templates \in Table(Templates, Template)
    /\ \A t, u \in DOMAIN templates :
         t # u => templates[t].program = Null \/ templates[t].program # templates[u].program
    /\ \A t \in Templates :
         /\ tmplTypes[t] \subseteq tmplSteps[t] /\ tmplSteps[t] \subseteq Steps
         /\ t \notin DOMAIN templates => tmplSteps[t] = {}
    /\ docs \in Table(Documents, ApplicationDocument)
    /\ \A d \in DOMAIN docs :
         docs[d].type # Null => docs[d].type[2] \in tmplTypes[docs[d].type[1]]
    /\ tmplReq \in [Reqs ->
         [pc : {"clear", "insert", "write", "delete", "checkProgram", "insertClone",
                "copyStep", "copyTypes"},
          template : Templates \cup {Null}, row : Template \cup {Null},
          copy : Contents, left : SUBSET Steps] \cup {TmplIdle}]
    /\ programs \subseteq Programs /\ edited \subseteq Templates /\ late \subseteq Reqs

Defaults == {t \in DOMAIN templates : templates[t].isDefault}

\* A request that makes a template the default leaves it the only one, unless
\* another request made one the default after this one had cleared the others.
OneDefaultTemplate ==
    [][\A r \in Reqs \ late :
         (InsertTemplate(r) \/ WriteTemplate(r)) /\ Defaults' \ Defaults # {} =>
           Cardinality(Defaults') = 1]_tmplVars

\* A clone whose request gets to its end holds what its source held when it
\* was read, unless it has been edited by hand, or deleted, meanwhile.
ClonesWhole ==
    [][\A r \in Reqs :
         LET q == tmplReq[r] IN
         /\ CopyStep(r) \/ CopyTypes(r)
         /\ tmplReq'[r] = TmplIdle
         /\ q.template \in DOMAIN templates \ edited
         => /\ tmplSteps'[q.template] = q.copy.steps
            /\ tmplTypes'[q.template] = q.copy.types]_tmplVars

\* An upload that the checklist of its application shows goes on being shown,
\* whatever happens to document types and steps, as long as the same template
\* is the one that applies.
ChecklistKept ==
    [][\A d \in DOMAIN docs, t \in Templates :
         /\ d \in DOMAIN docs'
         /\ t \in TemplateFor(docs[d].program) /\ t \in TemplateFor(docs[d].program)'
         /\ Listed(d, t)
         => Listed(d, t)']_tmplVars

\* Checklists are whole: as copied, and as once shown.
ChecklistsWhole == ClonesWhole /\ ChecklistKept
=============================================================================
