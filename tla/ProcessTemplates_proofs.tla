----------------------- MODULE ProcessTemplates_proofs -----------------------
(***************************************************************************)
(* For any templates, programs, steps, documents and requests: a request   *)
(* that makes a template the default leaves it the only one, unless        *)
(* another did so after it had cleared the others; clones are whole; and   *)
(* what a checklist has shown it goes on showing.  The files it shows are  *)
(* in the table and in the bucket, but for those in a request's hands.     *)
(***************************************************************************)
EXTENDS ProcessTemplates, FileStore, FiniteSetTheorems, WellFoundedInduction, TLAPS

TmplPcs == {"idle", "clear", "insert", "write", "delete", "checkProgram",
            "insertClone", "copyStep", "copyTypes"}
Setting == {"insert", "write"}   \* where a request has cleared the others

\* The fields of a request that matter to defaults.  What a clone has left to
\* copy is not among them.
TmplRequest(q) ==
    /\ q = [pc |-> q.pc, template |-> q.template, row |-> q.row, copy |-> q.copy,
            left |-> q.left]
    /\ q.pc \in TmplPcs
    /\ q.template \in Templates \cup {Null}
    /\ q.pc \in {"clear", "insert", "write", "checkProgram", "insertClone"} =>
         q.row \in Template
    /\ q.pc \in {"checkProgram", "insertClone"} => ~q.row.isDefault
    /\ q.pc \in Setting => (q.template = Null <=> q.pc = "insert")

\* What a request that is about to set a default has cleared.
Cleared(r) ==
    tmplReq[r].pc \in Setting /\ tmplReq[r].row.isDefault /\ r \notin late =>
      Defaults \subseteq {tmplReq[r].template}

TemplateRows ==
    /\ DOMAIN templates \subseteq Templates
    /\ templates = [t \in DOMAIN templates |-> templates[t]]
    /\ \A t \in DOMAIN templates : templates[t] \in Template

\* The inductive invariant.
DefaultInv ==
    /\ TemplateRows
    /\ tmplReq = [r \in Reqs |-> tmplReq[r]]
    /\ \A r \in Reqs : TmplRequest(tmplReq[r]) /\ Cleared(r)

-----------------------------------------------------------------------------

\* A step of one request, to q, that sets no default.
LEMMA TemplateQuiet ==
  ASSUME DefaultInv, NEW r \in Reqs, NEW q, tmplReq' = Step(tmplReq, r, q),
         TmplRequest(q), TemplateRows', Defaults' \subseteq Defaults,
         late' \in {late, late \ {r}},
         q.pc \in Setting /\ q.row.isDefault => Defaults' \subseteq {q.template}
  PROVE  DefaultInv'
<1>1. \A x \in Reqs : tmplReq'[x] = IF x = r THEN q ELSE tmplReq[x]
  BY DEF DefaultInv, Step
<1>2. (tmplReq = [x \in Reqs |-> tmplReq[x]])'
  BY DEF DefaultInv, Step
<1>3. ASSUME NEW x \in Reqs
      PROVE  TmplRequest(tmplReq'[x]) /\ Cleared(x)'
  <2>1. CASE x = r
    BY <1>1, <2>1 DEF Cleared
  <2>2. CASE x # r
    <3>1. tmplReq'[x] = tmplReq[x] /\ (x \in late' <=> x \in late)
      BY <1>1, <2>2
    <3> QED BY <3>1 DEF DefaultInv, Cleared
  <2> QED BY <2>1, <2>2
<1> QED
  BY <1>2, <1>3 DEF DefaultInv, TmplRequest

\* A default is set by r, which overtakes whoever has cleared.
LEMMA SettingStep ==
  ASSUME DefaultInv, NEW r \in Reqs, TmplWrote(r, TRUE), TemplateRows'
  PROVE  DefaultInv'
<1>1. \A x \in Reqs : tmplReq'[x] = IF x = r THEN TmplIdle ELSE tmplReq[x]
  BY DEF DefaultInv, TmplWrote, TmplGoto, Step
<1>2. (tmplReq = [x \in Reqs |-> tmplReq[x]])'
  BY DEF DefaultInv, TmplWrote, TmplGoto, Step
<1>3. \A x \in Reqs \ {r} : tmplReq[x].pc \in Setting => x \in late'
  BY DEF TmplWrote, Setting
<1>4. ASSUME NEW x \in Reqs
      PROVE  TmplRequest(tmplReq'[x]) /\ Cleared(x)'
  <2>1. CASE x = r
    BY <1>1, <2>1 DEF Cleared, TmplIdle, TmplRequest, TmplPcs, Setting
  <2>2. CASE x # r
    BY <1>1, <1>3, <2>2 DEF DefaultInv, Cleared
  <2> QED BY <2>1, <2>2
<1> QED
  BY <1>2, <1>4 DEF DefaultInv, TmplRequest

\* An idle request is of the requests' types, and of their shape.
LEMMA IdleTyped == TmplRequest(TmplIdle) /\ TmplIdle.pc = "idle"
  BY DEF TmplRequest, TmplIdle, TmplPcs, Setting

\* A request ends; templates may have been deleted.
LEMMA TemplateEnd ==
  ASSUME DefaultInv, NEW r \in Reqs, EndRequest(r), TemplateRows', Defaults' \subseteq Defaults
  PROVE  DefaultInv'
<1>1. tmplReq' = Step(tmplReq, r, TmplIdle) /\ late' = late \ {r}
  BY DEF EndRequest, TmplGoto
<1> QED
  BY <1>1, IdleTyped, TemplateQuiet DEF Setting

\* The tables without some templates.
LEMMA Shrunk ==
  ASSUME TemplateRows, NEW ids, Delete(ids)
  PROVE  TemplateRows' /\ Defaults' \subseteq Defaults
BY DEF TemplateRows, Delete, Without, Defaults

\* Nothing was written.
LEMMA TemplatesUnmoved ==
  ASSUME DefaultInv, UNCHANGED templates
  PROVE  TemplateRows' /\ Defaults' = Defaults
BY DEF DefaultInv, TemplateRows, Defaults

\* A request starts, with a row that sets no default before clearing others.
LEMMA TemplateStart ==
  ASSUME DefaultInv, NEW r \in Reqs, NEW q, TmplStart(r, q), TmplRequest(q),
         q.pc \in Setting => ~q.row.isDefault
  PROVE  DefaultInv'
<1>1. /\ tmplReq' = Step(tmplReq, r, q) /\ UNCHANGED templates /\ late' = late
  BY DEF TmplStart, TmplGoto, tmplTables, tmplGhosts
<1> QED
  BY <1>1, TemplatesUnmoved, TemplateQuiet

-----------------------------------------------------------------------------

LEMMA IdleShape == TmplIdle = [pc |-> "idle", template |-> Null, row |-> Null,
                               copy |-> NoContents, left |-> {}]
  BY DEF TmplIdle

\* The steps that start a request.
LEMMA TemplateStarts ==
  ASSUME DefaultInv, NEW r \in Reqs
  PROVE  /\ \A row \in Template : CreateTemplate(r, row) => DefaultInv'
         /\ \A t \in Templates :
              /\ \A isDefault \in BOOLEAN : UpdateTemplate(r, t, isDefault) => DefaultInv'
              /\ FindToDelete(r, t) => DefaultInv'
              /\ \A p \in Programs : StartClone(r, t, p) => DefaultInv'
<1>1. ASSUME NEW row \in Template, CreateTemplate(r, row) PROVE DefaultInv'
  <2>1. PICK q : q = [TmplIdle EXCEPT !.row = row,
                                  !.pc = IF row.isDefault THEN "clear" ELSE "insert"]
    OBVIOUS
  <2>2. TmplRequest(q) /\ (q.pc \in Setting => ~q.row.isDefault)
    BY <2>1, IdleShape DEF TmplRequest, TmplPcs, Setting
  <2>3. TmplStart(r, q)
    BY <1>1, <2>1 DEF CreateTemplate
  <2> QED BY <2>2, <2>3, TemplateStart
<1>2. ASSUME NEW t \in Templates, NEW isDefault \in BOOLEAN, UpdateTemplate(r, t, isDefault)
      PROVE  DefaultInv'
  <2>1. PICK q : q = [TmplIdle EXCEPT !.template = t,
                                     !.row = [isDefault |-> isDefault, program |-> Null],
                                     !.pc = IF isDefault THEN "clear" ELSE "write"]
    OBVIOUS
  <2>2. TmplRequest(q) /\ (q.pc \in Setting => ~q.row.isDefault)
    BY <2>1, IdleShape, TemplatesAssumption DEF TmplRequest, TmplPcs, Setting, Template
  <2>3. TmplStart(r, q)
    BY <1>2, <2>1 DEF UpdateTemplate
  <2> QED BY <2>2, <2>3, TemplateStart
<1>3. ASSUME NEW t \in Templates, FindToDelete(r, t) PROVE DefaultInv'
  <2>1. PICK q : q = [TmplIdle EXCEPT !.pc = "delete", !.template = t]
    OBVIOUS
  <2>2. TmplRequest(q) /\ q.pc \notin Setting
    BY <2>1, IdleShape DEF TmplRequest, TmplPcs, Setting
  <2>3. TmplStart(r, q)
    BY <1>3, <2>1 DEF FindToDelete
  <2> QED BY <2>2, <2>3, TemplateStart
<1>4. ASSUME NEW t \in Templates, NEW p \in Programs, StartClone(r, t, p) PROVE DefaultInv'
  <2>1. PICK q : q = [TmplIdle EXCEPT !.pc = "checkProgram", !.copy = ContentsOf(t),
                                     !.row = [isDefault |-> FALSE, program |-> p]]
    OBVIOUS
  <2>2. TmplRequest(q) /\ q.pc \notin Setting
    BY <2>1, IdleShape DEF TmplRequest, TmplPcs, Setting, Template
  <2>3. TmplStart(r, q)
    BY <1>4, <2>1 DEF StartClone
  <2> QED BY <2>2, <2>3, TemplateStart
<1> QED
  BY <1>1, <1>2, <1>3, <1>4

\* The others are cleared, and the request knows.
LEMMA ClearStep ==
  ASSUME DefaultInv, NEW r \in Reqs, ClearDefault(r)
  PROVE  DefaultInv'
<1>1. TmplRequest(tmplReq[r]) /\ tmplReq[r].pc = "clear"
  BY DEF DefaultInv, ClearDefault, TmplAt
<1>2. PICK q : q = [tmplReq[r] EXCEPT !.pc = IF tmplReq[r].template = Null
                                             THEN "insert" ELSE "write"]
  OBVIOUS
<1>3. /\ TmplRequest(q) /\ q.template = tmplReq[r].template
      /\ q.template \in Templates \cup {Null}
  BY <1>1, <1>2 DEF TmplRequest, TmplPcs, Setting
<1>4. tmplReq' = Step(tmplReq, r, q) /\ late' = late /\ templates' = Undefaulted(q.template)
  BY <1>2, <1>3 DEF ClearDefault, TmplGoto, tmplGhosts
<1>5. /\ DOMAIN templates' = DOMAIN templates
      /\ templates' = [t \in DOMAIN templates' |-> templates'[t]]
  BY <1>4 DEF Undefaulted
<1>6. \A t \in DOMAIN templates :
        /\ templates'[t] \in Template
        /\ templates'[t].isDefault => t = q.template /\ templates[t].isDefault
  BY <1>4 DEF Undefaulted, DefaultInv, TemplateRows, Template
<1>7. TemplateRows' /\ Defaults' \subseteq Defaults /\ Defaults' \subseteq {q.template}
  BY <1>5, <1>6 DEF TemplateRows, Defaults, DefaultInv
<1> QED
  BY <1>3, <1>4, <1>7, TemplateQuiet

\* A row is inserted: the only default, if it is one and nobody was faster.
LEMMA Inserted ==
  ASSUME DefaultInv, NEW r \in Reqs, NEW t \in FreshTemplate, NEW row \in Template,
         templates' = With(templates, t, row)
  PROVE  /\ TemplateRows'
         /\ Defaults' = Defaults \cup (IF row.isDefault THEN {t} ELSE {})
<1>1. t \in Templates \ DOMAIN templates
  BY DEF FreshTemplate
<1>2. /\ DOMAIN templates' = DOMAIN templates \cup {t}
      /\ templates' = [x \in DOMAIN templates' |-> templates'[x]]
      /\ templates'[t] = row
      /\ \A x \in DOMAIN templates : templates'[x] = templates[x]
  BY <1>1 DEF With
<1>3. TemplateRows'
  BY <1>1, <1>2 DEF TemplateRows, DefaultInv
<1>4. \A x \in DOMAIN templates' : templates'[x].isDefault
                                     <=> x \in Defaults \/ (x = t /\ row.isDefault)
  BY <1>1, <1>2 DEF Defaults
<1> QED
  BY <1>2, <1>3, <1>4 DEF Defaults

\* A request that writes a row that is no default.
LEMMA PlainStep ==
  ASSUME DefaultInv, NEW r \in Reqs, TmplWrote(r, FALSE), TemplateRows',
         Defaults' \subseteq Defaults
  PROVE  DefaultInv'
<1>1. tmplReq' = Step(tmplReq, r, TmplIdle) /\ late' = late \ {r}
  BY DEF TmplWrote, TmplGoto
<1> QED
  BY <1>1, IdleTyped, TemplateQuiet DEF Setting

\* createTemplate and updateTemplate write, or are refused.
LEMMA TemplateInsert ==
  ASSUME DefaultInv, NEW r \in Reqs, InsertTemplate(r)
  PROVE  DefaultInv'
<1>1. tmplReq[r].row \in Template
  BY DEF DefaultInv, TmplRequest, InsertTemplate, TmplAt
<1>2. CASE /\ \E t \in FreshTemplate : templates' = With(templates, t, tmplReq[r].row)
           /\ TmplWrote(r, tmplReq[r].row.isDefault)
  <2>1. /\ TemplateRows'
        /\ ~tmplReq[r].row.isDefault => Defaults' \subseteq Defaults
    BY <1>1, <1>2, Inserted
  <2>2. tmplReq[r].row.isDefault \in BOOLEAN
    BY <1>1 DEF Template
  <2>3. tmplReq[r].row.isDefault = TRUE \/ tmplReq[r].row.isDefault = FALSE
    BY <2>2
  <2> QED BY <1>2, <2>1, <2>3, SettingStep, PlainStep
<1>3. CASE UNCHANGED templates /\ EndRequest(r)
  BY <1>3, TemplatesUnmoved, TemplateEnd
<1> QED
  BY <1>2, <1>3 DEF InsertTemplate

\* The flag of an existing row is written.
LEMMA TemplateWritten ==
  ASSUME TemplateRows, NEW t \in DOMAIN templates, NEW flag \in BOOLEAN,
         templates' = [templates EXCEPT ![t].isDefault = flag]
  PROVE  /\ TemplateRows'
         /\ flag => Defaults' = Defaults \cup {t}
         /\ ~flag => Defaults' \subseteq Defaults
<1>1. PICK row : row = [templates[t] EXCEPT !.isDefault = flag]
  OBVIOUS
<1>2. row \in Template /\ row.isDefault = flag
  BY <1>1 DEF TemplateRows, Template
<1>3. templates' = [templates EXCEPT ![t] = row]
  BY <1>1
<1>4. /\ DOMAIN templates' = DOMAIN templates
      /\ templates' = [x \in DOMAIN templates' |-> templates'[x]]
      /\ \A x \in DOMAIN templates : templates'[x] = IF x = t THEN row ELSE templates[x]
  BY <1>3 DEF TemplateRows
<1> QED
  BY <1>2, <1>4 DEF TemplateRows, Defaults

\* A template becomes the default after the others have been cleared.
LEMMA TemplateWrite ==
  ASSUME DefaultInv, NEW r \in Reqs, WriteTemplate(r)
  PROVE  DefaultInv'
<1>1. tmplReq[r].row \in Template
  BY DEF DefaultInv, TmplRequest, WriteTemplate, TmplAt
<1>2. tmplReq[r].row.isDefault \in BOOLEAN
  BY <1>1 DEF Template
<1>3. CASE /\ tmplReq[r].template \in DOMAIN templates
           /\ templates' = [templates EXCEPT ![tmplReq[r].template].isDefault
                                               = tmplReq[r].row.isDefault]
           /\ TmplWrote(r, tmplReq[r].row.isDefault)
  <2>1. /\ TemplateRows'
        /\ ~tmplReq[r].row.isDefault => Defaults' \subseteq Defaults
    BY <1>2, <1>3, TemplateWritten DEF DefaultInv
  <2>2. tmplReq[r].row.isDefault = TRUE \/ tmplReq[r].row.isDefault = FALSE
    BY <1>2
  <2> QED BY <1>3, <2>1, <2>2, SettingStep, PlainStep
<1>4. CASE UNCHANGED templates /\ EndRequest(r)
  BY <1>4, TemplatesUnmoved, TemplateEnd
<1> QED
  BY <1>3, <1>4 DEF WriteTemplate

\* What goes away leaves the other defaults what they were.
LEMMA TemplateDeletes ==
  /\ \A r \in Reqs : DefaultInv /\ DeleteTemplate(r) => DefaultInv'
  /\ \A p : DefaultInv /\ DeleteProgram(p) => DefaultInv'
<1>1. ASSUME DefaultInv, NEW r \in Reqs, DeleteTemplate(r) PROVE DefaultInv'
  <2>1. TemplateRows' /\ Defaults' \subseteq Defaults
    BY <1>1, Shrunk DEF DeleteTemplate, DefaultInv
  <2> QED BY <1>1, <2>1, TemplateEnd DEF DeleteTemplate
<1>2. ASSUME DefaultInv, NEW p, DeleteProgram(p) PROVE DefaultInv'
  <2>1. TemplateRows' /\ Defaults' \subseteq Defaults
    BY <1>2, Shrunk DEF DeleteProgram, DefaultInv
  <2> QED
    BY <1>2, <2>1 DEF DeleteProgram, DefaultInv, Cleared, tmplGhosts, TmplRequest
<1> QED
  BY <1>1, <1>2

-----------------------------------------------------------------------------

\* A clone's request goes on to its next query, or ends.
LEMMA TemplateGoesOn ==
  ASSUME DefaultInv, NEW r \in Reqs, NEW q, TmplRequest(q), q.pc \notin Setting,
         tmplReq' = Step(tmplReq, r, q), UNCHANGED tmplGhosts,
         TemplateRows', Defaults' \subseteq Defaults
  PROVE  DefaultInv'
BY TemplateQuiet DEF tmplGhosts

\* Copying on neither makes a default nor comes to set one.
LEMMA CopyNextStep ==
  ASSUME DefaultInv, NEW r \in Reqs, NEW q, TmplRequest(q), CopyNext(r, q),
         TemplateRows', Defaults' \subseteq Defaults
  PROVE  DefaultInv'
<1>1. CASE q.left = {}
  BY <1>1, TemplateEnd DEF CopyNext
<1>2. CASE q.left # {}
  <2>1. PICK n : n = [q EXCEPT !.pc = "copyStep"]
    OBVIOUS
  <2>2. TmplRequest(n) /\ n.pc \notin Setting
    BY <2>1 DEF TmplRequest, TmplPcs, Setting
  <2>3. tmplReq' = Step(tmplReq, r, n) /\ UNCHANGED tmplGhosts
    BY <1>2, <2>1 DEF CopyNext, TmplGoto
  <2> QED BY <2>2, <2>3, TemplateGoesOn
<1> QED
  BY <1>1, <1>2

\* The queries of a clone, whose row is no default.
LEMMA CheckProgramStep ==
  ASSUME DefaultInv, NEW r \in Reqs, CheckProgram(r)
  PROVE  DefaultInv'
<1>1. TmplRequest(tmplReq[r]) /\ tmplReq[r].pc = "checkProgram"
  BY DEF DefaultInv, CheckProgram, TmplAt
<1>2. PICK q : q = [tmplReq[r] EXCEPT !.pc = "insertClone"]
  OBVIOUS
<1>3. TmplRequest(q) /\ q.pc \notin Setting
  BY <1>1, <1>2 DEF TmplRequest, TmplPcs, Setting
<1>4. UNCHANGED tmplGhosts /\ UNCHANGED templates
  BY DEF CheckProgram, tmplTables
<1>5. tmplReq' = Step(tmplReq, r, q) \/ tmplReq' = Step(tmplReq, r, TmplIdle)
  BY <1>2 DEF CheckProgram, TmplGoto
<1> QED
  BY <1>3, <1>4, <1>5, IdleTyped, TemplatesUnmoved, TemplateGoesOn DEF Setting

LEMMA InsertCloneStep ==
  ASSUME DefaultInv, NEW r \in Reqs, InsertClone(r)
  PROVE  DefaultInv'
<1>1. /\ TmplRequest(tmplReq[r]) /\ tmplReq[r].pc = "insertClone"
      /\ tmplReq[r].row \in Template /\ ~tmplReq[r].row.isDefault
  BY DEF DefaultInv, InsertClone, TmplAt, TmplRequest
<1>2. CASE \E t \in FreshTemplate :
             /\ templates' = With(templates, t, tmplReq[r].row)
             /\ CopyNext(r, [tmplReq[r] EXCEPT !.template = t,
                                               !.left = tmplReq[r].copy.steps])
  <2>1. PICK t \in FreshTemplate :
             /\ templates' = With(templates, t, tmplReq[r].row)
             /\ CopyNext(r, [tmplReq[r] EXCEPT !.template = t,
                                               !.left = tmplReq[r].copy.steps])
    BY <1>2
  <2>2. TemplateRows' /\ Defaults' \subseteq Defaults
    BY <1>1, <2>1, Inserted
  <2>3. PICK q : q = [tmplReq[r] EXCEPT !.template = t, !.left = tmplReq[r].copy.steps]
    OBVIOUS
  <2>4. TmplRequest(q)
    BY <1>1, <2>3 DEF TmplRequest, TmplPcs, Setting, FreshTemplate
  <2> QED BY <2>1, <2>2, <2>3, <2>4, CopyNextStep
<1>3. CASE UNCHANGED templates /\ EndRequest(r)
  BY <1>3, TemplatesUnmoved, TemplateEnd
<1> QED
  BY <1>2, <1>3 DEF InsertClone

LEMMA CopySteps ==
  ASSUME DefaultInv, NEW r \in Reqs, CopyStep(r) \/ CopyTypes(r)
  PROVE  DefaultInv'
<1>1. /\ TmplRequest(tmplReq[r]) /\ tmplReq[r].pc \in {"copyStep", "copyTypes"}
      /\ UNCHANGED templates
  BY DEF DefaultInv, CopyStep, CopyTypes, TmplAt
<1>2. PICK n : n = [tmplReq[r] EXCEPT !.left = @ \ {FirstLeft(tmplReq[r])}]
  OBVIOUS
<1>3. PICK q : q = [tmplReq[r] EXCEPT !.pc = "copyTypes"]
  OBVIOUS
<1>4. TmplRequest(n) /\ TmplRequest(q) /\ q.pc \notin Setting
  BY <1>1, <1>2, <1>3 DEF TmplRequest, TmplPcs, Setting
<1>5. \/ CopyNext(r, n) \/ EndRequest(r)
      \/ tmplReq' = Step(tmplReq, r, q) /\ UNCHANGED tmplGhosts
  BY <1>2, <1>3 DEF CopyStep, CopyTypes, TmplGoto
<1> QED
  BY <1>1, <1>4, <1>5, TemplatesUnmoved, CopyNextStep, TemplateEnd, TemplateGoesOn

\* Everything else leaves templates and requests alone.
LEMMA ContentStep ==
  ASSUME DefaultInv, UNCHANGED <<templates, tmplReq, late>>
  PROVE  DefaultInv'
BY DEF DefaultInv, TemplateRows, TmplRequest, Cleared, Defaults

\* These are the steps, document types and documents.
LEMMA ContentSteps ==
  ASSUME DefaultInv
  PROVE  /\ \A t, i : (\/ CreateStep(t, i) \/ DeleteStep(t, i)
                       \/ CreateDocumentType(t, i) \/ DeleteDocumentType(t, i)) => DefaultInv'
         /\ \A d : ApplicationDocumentsController(d) => DefaultInv'
<1>1. ASSUME NEW t, NEW i, \/ CreateStep(t, i) \/ DeleteStep(t, i)
                           \/ CreateDocumentType(t, i) \/ DeleteDocumentType(t, i)
      PROVE  DefaultInv'
  BY <1>1, ContentStep DEF CreateStep, DeleteStep, CreateDocumentType, DeleteDocumentType, EditStep
<1>2. ASSUME NEW d, ApplicationDocumentsController(d)
      PROVE  DefaultInv'
  BY <1>2, ContentStep DEF ApplicationDocumentsController, CreateDocument,
     UpdateDocumentStatus, RemoveDocument, DocWrite, tmplGhosts
<1> QED
  BY <1>1, <1>2

-----------------------------------------------------------------------------

\* The inductive invariant is preserved, action by action.
LEMMA InitDefaults == PTInit => DefaultInv
<1> SUFFICES ASSUME PTInit PROVE DefaultInv
  OBVIOUS
<1>1. \A r \in Reqs : tmplReq[r] = TmplIdle
  BY DEF PTInit
<1>2. tmplReq = [r \in Reqs |-> tmplReq[r]]
  BY DEF PTInit
<1>3. TemplateRows
  BY DEF PTInit, TemplateRows, NoRows
<1> QED
  BY <1>1, <1>2, <1>3, IdleTyped DEF DefaultInv, Cleared, Setting

\* So there is no second default by any step that no other has come between.
LEMMA NextDefaults == DefaultInv /\ [PTNext]_tmplVars => DefaultInv'
<1> SUFFICES ASSUME DefaultInv, [PTNext]_tmplVars PROVE DefaultInv'
  OBVIOUS
<1>1. ASSUME NEW r \in Reqs,
             \/ ClearDefault(r) \/ InsertTemplate(r) \/ WriteTemplate(r) \/ DeleteTemplate(r)
             \/ CheckProgram(r) \/ InsertClone(r) \/ CopyStep(r) \/ CopyTypes(r)
      PROVE  DefaultInv'
  BY <1>1, ClearStep, TemplateInsert, TemplateWrite, TemplateDeletes, CheckProgramStep,
     InsertCloneStep, CopySteps
<1>2. ASSUME NEW r \in Reqs, TmplReject(r) PROVE DefaultInv'
  <2>1. EndRequest(r) /\ UNCHANGED templates
    BY <1>2 DEF TmplReject, tmplTables
  <2> QED BY <2>1, TemplatesUnmoved, TemplateEnd
<1>3. CASE UNCHANGED tmplVars
  BY <1>3, ContentStep DEF tmplVars, tmplTables, tmplGhosts
<1> QED
  BY <1>1, <1>2, <1>3, TemplateStarts, TemplateDeletes, ContentSteps DEF PTNext

\* What a request has cleared stays cleared until another sets a default: the
\* inductive invariant holds of every reachable state.
THEOREM DefaultInvHolds == PTSpec => []DefaultInv
  BY InitDefaults, NextDefaults, PTL DEF PTSpec

\* A new default is the only one.
LEMMA SoleDefault ==
  ASSUME DefaultInv, NEW r \in Reqs \ late, InsertTemplate(r) \/ WriteTemplate(r),
         Defaults' \ Defaults # {}
  PROVE  Cardinality(Defaults') = 1
<1>1. /\ tmplReq[r].pc \in Setting /\ TmplRequest(tmplReq[r])
      /\ tmplReq[r].row \in Template /\ tmplReq[r].row.isDefault \in BOOLEAN
  BY DEF DefaultInv, TmplRequest, InsertTemplate, WriteTemplate, TmplAt, Setting, Template
<1>2. ~UNCHANGED templates
  BY TemplatesUnmoved
<1>3. \E t \in Templates : Defaults' = {t}
  <2>1. CASE InsertTemplate(r)
    <3>1. PICK t \in FreshTemplate : templates' = With(templates, t, tmplReq[r].row)
      BY <1>2, <2>1 DEF InsertTemplate
    <3>2. tmplReq[r].row.isDefault /\ Defaults' = Defaults \cup {t}
      BY <1>1, <3>1, Inserted
    <3>3. Defaults \subseteq {Null} /\ Defaults \subseteq Templates
      BY <1>1, <2>1, <3>2
         DEF DefaultInv, Cleared, InsertTemplate, TmplAt, TmplRequest, TemplateRows, Defaults
    <3> QED BY <3>2, <3>3, TemplatesAssumption DEF FreshTemplate
  <2>2. CASE WriteTemplate(r)
    <3>1. /\ tmplReq[r].template \in DOMAIN templates
          /\ templates' = [templates EXCEPT ![tmplReq[r].template].isDefault
                                              = tmplReq[r].row.isDefault]
      BY <1>2, <2>2 DEF WriteTemplate
    <3>2. tmplReq[r].row.isDefault /\ Defaults' = Defaults \cup {tmplReq[r].template}
      BY <1>1, <3>1, TemplateWritten DEF DefaultInv
    <3>3. Defaults \subseteq {tmplReq[r].template}
      BY <1>1, <3>2 DEF DefaultInv, Cleared
    <3> QED BY <3>1, <3>2, <3>3 DEF DefaultInv, TemplateRows
  <2> QED BY <2>1, <2>2
<1> QED
  BY <1>3, FS_Singleton

\* A request that makes a template the default, and that no other overtook
\* after it had cleared them, leaves it the only one.
THEOREM OneDefaultHolds == PTSpec => OneDefaultTemplate
<1>1. DefaultInv /\ [PTNext]_tmplVars =>
        [\A r \in Reqs \ late :
           (InsertTemplate(r) \/ WriteTemplate(r)) /\ Defaults' \ Defaults # {} =>
             Cardinality(Defaults') = 1]_tmplVars
  BY SoleDefault
<1> QED
  BY <1>1, DefaultInvHolds, PTL DEF PTSpec, OneDefaultTemplate

-----------------------------------------------------------------------------
(* Checklists *)

\* The first of the steps a clone has left is one of them.
LEMMA FirstIsLeft ==
  ASSUME NEW q, q.left \subseteq Steps, q.left # {}
  PROVE  FirstLeft(q) \in q.left
<1>1. PICK less : less = {ss \in Nat \X Nat : ss[1] < ss[2]}
  OBVIOUS
<1>2. IsWellFoundedOn(less, Nat)
  BY <1>1, NatLessThanWellFounded DEF OpToRel
<1>3. q.left \subseteq Nat
  BY StepsAssumption
<1>4. PICK i \in q.left : \A j \in q.left : ~(<<j, i>> \in less)
  BY <1>2, <1>3, WFMin
<1>5. \A j \in q.left : i <= j
  <2> SUFFICES ASSUME NEW j \in q.left, ~(i <= j) PROVE FALSE
    OBVIOUS
  <2>1. i \in Nat /\ j \in Nat
    BY <1>3
  <2>2. j < i
    BY <2>1
  <2>3. PICK ss : ss = <<j, i>>
    OBVIOUS
  <2>4. ss \in Nat \X Nat /\ ss[1] = j /\ ss[2] = i
    BY <2>1, <2>3
  <2>5. ss \in less
    BY <1>1, <2>2, <2>4
  <2> QED
    BY <1>4, <2>3, <2>5
<1> QED
  BY <1>5 DEF FirstLeft

\* The contents of the templates: only templates that exist have steps, only
\* steps have document types.
Tree ==
    /\ tmplSteps = [t \in Templates |-> tmplSteps[t]]
    /\ tmplTypes = [t \in Templates |-> tmplTypes[t]]
    /\ \A t \in Templates :
         /\ tmplTypes[t] \subseteq tmplSteps[t] /\ tmplSteps[t] \subseteq Steps
         /\ t \notin DOMAIN templates => tmplSteps[t] = {}

\* A program has one template.
OneEach ==
    \A t, u \in DOMAIN templates :
        t # u => templates[t].program = Null \/ templates[t].program # templates[u].program

\* Documents refer to types that exist.
Typed(d) == docs[d].type # Null => docs[d].type[2] \in tmplTypes[docs[d].type[1]]
DocTable ==
    /\ DOMAIN docs \subseteq Documents
    /\ docs = [d \in DOMAIN docs |-> docs[d]]
    /\ \A d \in DOMAIN docs : docs[d] \in ApplicationDocument
DocRows == DocTable /\ \A d \in DOMAIN docs : Typed(d)

\* What a clone's request knows: what it read of its source, and what of that it
\* has still to copy.
CopyRequest(q) ==
    /\ q.copy \in Contents /\ q.copy.types \subseteq q.copy.steps
    /\ q.left \subseteq q.copy.steps
    /\ q.row \in Template \cup {Null}
    /\ q.pc \in {"copyStep", "copyTypes"} => q.template \in Templates /\ q.left # {}
    /\ q.pc = "copyTypes" => FirstLeft(q) \in q.copy.types
    /\ q.pc = "idle" => q = TmplIdle

Bounds == programs \subseteq Programs /\ edited \subseteq Templates /\ late \subseteq Reqs

\* No two requests copy into the same template.
Apart == \A r, q \in Cloning : r # q => tmplReq[r].template # tmplReq[q].template

\* A template being copied into, that nobody else has edited, holds what has been
\* copied: all of the source but what is left.
Copied(r) ==
    LET q == tmplReq[r] IN
    q.template \in DOMAIN templates \ edited =>
      /\ tmplSteps[q.template] =
           q.copy.steps \ (IF q.pc = "copyTypes" THEN q.left \ {FirstLeft(q)} ELSE q.left)
      /\ tmplTypes[q.template] = q.copy.types \ q.left

\* What the requests that clone know, and have done.
CloneInv ==
    /\ \A r \in Reqs : CopyRequest(tmplReq[r])
    /\ Apart /\ \A r \in Cloning : Copied(r)

\* The second inductive invariant, beside DefaultInv.
WholeInv == Tree /\ OneEach /\ DocRows /\ Bounds /\ CloneInv

-----------------------------------------------------------------------------
\* The steps of one request and the edits by hand.
RequestStarts(r) ==
    \/ \E row \in Template : CreateTemplate(r, row)
    \/ \E t \in Templates :
         \/ \E isDefault \in BOOLEAN : UpdateTemplate(r, t, isDefault)
         \/ FindToDelete(r, t)
         \/ \E p \in Programs : StartClone(r, t, p)
Edits(t, i) == \/ CreateStep(t, i) \/ DeleteStep(t, i)
               \/ CreateDocumentType(t, i) \/ DeleteDocumentType(t, i)

\* The steps, grouped by what they have in common.
LEMMA TemplateCases ==
  ASSUME [PTNext]_tmplVars
  PROVE  \/ \E r \in Reqs :
              \/ RequestStarts(r) \/ ClearDefault(r) \/ InsertTemplate(r) \/ WriteTemplate(r)
              \/ DeleteTemplate(r) \/ CheckProgram(r) \/ InsertClone(r) \/ CopyStep(r)
              \/ CopyTypes(r) \/ TmplReject(r)
         \/ \E p \in Programs : DeleteProgram(p)
         \/ \E t \in Templates, i \in Steps : Edits(t, i)
         \/ \E d \in Documents : ApplicationDocumentsController(d)
         \/ UNCHANGED tmplVars
  BY DEF PTNext, RequestStarts, Edits

\* How the table of templates may change.
Inserts(t, row) ==
    /\ t \in FreshTemplate /\ row \in Template /\ MayHave(row.program)
    /\ templates' = With(templates, t, row)
    /\ UNCHANGED <<tmplSteps, tmplTypes, docs>>
Reflags ==
    /\ DOMAIN templates' = DOMAIN templates
    /\ \A t \in DOMAIN templates : templates'[t].program = templates[t].program

\* Flags are set without touching programs.
LEMMA FlagStep ==
  ASSUME DefaultInv, NEW r \in Reqs, ClearDefault(r) \/ WriteTemplate(r)
  PROVE  Reflags /\ UNCHANGED <<tmplSteps, tmplTypes, docs>>
<1>1. UNCHANGED <<tmplSteps, tmplTypes, docs>>
  BY DEF ClearDefault, WriteTemplate
<1>2. CASE ClearDefault(r)
  <2>1. PICK id : templates' = Undefaulted(id)
    BY <1>2 DEF ClearDefault
  <2>2. \A t \in DOMAIN templates : templates[t] \in Template
    BY DEF DefaultInv, TemplateRows
  <2>3. ASSUME NEW t \in DOMAIN templates
        PROVE  templates'[t].program = templates[t].program
    <3>1. PICK z : z = [templates[t] EXCEPT !.isDefault = FALSE]
      OBVIOUS
    <3>2. z.program = templates[t].program
      BY <2>2, <3>1 DEF Template
    <3>3. templates'[t] = z \/ templates'[t] = templates[t]
      BY <2>1, <3>1 DEF Undefaulted
    <3> QED
      BY <3>2, <3>3
  <2> QED
    BY <1>1, <2>1, <2>3 DEF Reflags, Undefaulted
<1>3. CASE WriteTemplate(r)
  <2>1. CASE UNCHANGED templates
    BY <1>1, <2>1 DEF Reflags
  <2>2. CASE tmplReq[r].template \in DOMAIN templates
    <3>1. PICK old \in Template : old = templates[tmplReq[r].template]
      BY <2>2 DEF DefaultInv, TemplateRows
    <3>2. PICK z : z = [old EXCEPT !.isDefault = tmplReq[r].row.isDefault]
      OBVIOUS
    <3>3. templates' = [templates EXCEPT ![tmplReq[r].template] = z]
      BY <1>3, <2>2, <3>1, <3>2 DEF WriteTemplate
    <3>4. z.program = old.program
      BY <3>2 DEF Template
    <3> QED
      BY <1>1, <2>2, <3>1, <3>3, <3>4 DEF Reflags
  <2> QED
    BY <1>3, <2>1, <2>2 DEF WriteTemplate
<1> QED
  BY <1>2, <1>3

\* A template that is inserted is new, whoever inserts it.
LEMMA InsertsStep ==
  ASSUME DefaultInv, NEW r \in Reqs, InsertTemplate(r) \/ InsertClone(r)
  PROVE  \/ \E t \in Templates : Inserts(t, tmplReq[r].row)
         \/ UNCHANGED <<templates, tmplSteps, tmplTypes, docs>>
<1>1. tmplReq[r].row \in Template
  BY DEF DefaultInv, TmplRequest, InsertTemplate, InsertClone, TmplAt
<1> QED
  BY <1>1 DEF InsertTemplate, InsertClone, Inserts, FreshTemplate

\* Any step of a request that is not one of these two kinds, a deletion or a copy.
LEMMA QuietTables ==
  ASSUME NEW r \in Reqs, RequestStarts(r) \/ CheckProgram(r) \/ TmplReject(r)
  PROVE  UNCHANGED tmplTables
  BY DEF RequestStarts, CreateTemplate, UpdateTemplate, FindToDelete, StartClone, TmplStart,
     CheckProgram, TmplReject

\* Programs keep their one template.
LEMMA OneEachStep ==
  ASSUME DefaultInv, OneEach, [PTNext]_tmplVars
  PROVE  OneEach'
<1>1. CASE UNCHANGED templates
  BY <1>1 DEF OneEach
<1>2. CASE Reflags
  BY <1>2 DEF OneEach, Reflags
<1>3. ASSUME NEW ids, Delete(ids) PROVE OneEach'
  BY <1>3 DEF OneEach, Delete, Without
<1>4. ASSUME NEW t, NEW row, Inserts(t, row) PROVE OneEach'
  <2>1. /\ DOMAIN templates' = DOMAIN templates \cup {t}
        /\ templates'[t] = row /\ t \notin DOMAIN templates
        /\ \A x \in DOMAIN templates : templates'[x] = templates[x]
    BY <1>4 DEF Inserts, With, FreshTemplate
  <2>2. row.program = Null \/ \A x \in DOMAIN templates : templates[x].program # row.program
    BY <1>4 DEF Inserts, MayHave
  <2> QED
    BY <2>1, <2>2 DEF OneEach
<1>5. ASSUME NEW r \in Reqs, RequestStarts(r) \/ CheckProgram(r) \/ TmplReject(r)
      PROVE  OneEach'
  BY <1>1, <1>5, QuietTables DEF tmplTables
<1>6. ASSUME NEW r \in Reqs, DeleteTemplate(r) PROVE OneEach'
  BY <1>3, <1>6 DEF DeleteTemplate
<1>7. ASSUME NEW r \in Reqs, CopyStep(r) \/ CopyTypes(r) PROVE OneEach'
  BY <1>1, <1>7 DEF CopyStep, CopyTypes
<1>8. ASSUME NEW p, DeleteProgram(p) PROVE OneEach'
  BY <1>3, <1>8 DEF DeleteProgram
<1>9. ASSUME NEW t, NEW i, Edits(t, i) PROVE OneEach'
  BY <1>1, <1>9 DEF Edits, CreateStep, DeleteStep, CreateDocumentType,
     DeleteDocumentType, EditStep
<1>10. ASSUME NEW d, ApplicationDocumentsController(d) PROVE OneEach'
  BY <1>1, <1>10 DEF ApplicationDocumentsController, CreateDocument,
     UpdateDocumentStatus, RemoveDocument, DocWrite
<1>11. CASE UNCHANGED tmplVars
  BY <1>1, <1>11 DEF tmplVars, tmplTables
<1> QED
  BY <1>1, <1>2, <1>4, <1>5, <1>6, <1>7, <1>8, <1>9, <1>10, <1>11, TemplateCases,
     FlagStep, InsertsStep

\* What a copy writes.
LEMMA CopyWrites ==
  ASSUME DefaultInv, Tree, NEW r \in Reqs, CopyRequest(tmplReq[r]),
         CopyStep(r) \/ CopyTypes(r)
  PROVE  LET t == tmplReq[r].template  i == FirstLeft(tmplReq[r]) IN
         /\ t \in Templates /\ i \in tmplReq[r].left /\ i \in Steps
         /\ UNCHANGED <<templates, docs, programs>>
         /\ \/ /\ t \in DOMAIN templates /\ UNCHANGED tmplTypes /\ CopyStep(r)
               /\ tmplSteps' = [tmplSteps EXCEPT ![t] = @ \cup {i}]
            \/ /\ i \in tmplSteps[t] /\ UNCHANGED tmplSteps /\ CopyTypes(r)
               /\ tmplTypes' = [tmplTypes EXCEPT ![t] = @ \cup {i}]
            \/ UNCHANGED <<tmplSteps, tmplTypes>> /\ EndRequest(r)
<1>1. tmplReq[r].pc \in {"copyStep", "copyTypes"}
  BY DEF CopyStep, CopyTypes, TmplAt
<1>2. /\ tmplReq[r].template \in Templates /\ tmplReq[r].left # {}
      /\ tmplReq[r].left \subseteq Steps
  BY <1>1 DEF CopyRequest, Contents
<1>3. FirstLeft(tmplReq[r]) \in tmplReq[r].left
  BY <1>2, FirstIsLeft
<1> QED
  BY <1>2, <1>3 DEF CopyStep, CopyTypes

\* What an edit by hand writes.
LEMMA EditWrites ==
  ASSUME Tree, NEW t \in Templates, NEW i \in Steps, Edits(t, i)
  PROVE  /\ t \in DOMAIN templates /\ UNCHANGED <<templates, programs, tmplReq, late>>
         /\ edited' = edited \cup ({t} \cap {tmplReq[r].template : r \in Cloning})
         /\ \E steps \in SUBSET Steps, types \in SUBSET Steps :
              /\ types \subseteq steps
              /\ tmplSteps' = [tmplSteps EXCEPT ![t] = steps]
              /\ tmplTypes' = [tmplTypes EXCEPT ![t] = types]
              /\ \/ docs' = docs /\ tmplTypes[t] \subseteq types
                 \/ docs' = Untyped({<<t, i>>}) /\ types = tmplTypes[t] \ {i}
<1>1. tmplTypes[t] \subseteq tmplSteps[t] /\ tmplSteps[t] \subseteq Steps
  BY DEF Tree
<1>2. CASE CreateStep(t, i)
  BY <1>1, <1>2 DEF CreateStep, EditStep
<1>3. CASE DeleteStep(t, i)
  BY <1>1, <1>3 DEF DeleteStep, EditStep
<1>4. CASE CreateDocumentType(t, i)
  <2>1. PICK types \in SUBSET Steps : types = tmplTypes[t] \cup {i}
    BY <1>1
  <2>2. types \subseteq tmplSteps[t] /\ tmplTypes[t] \subseteq types
    BY <1>1, <1>4, <2>1 DEF CreateDocumentType
  <2>3. EditStep(t, tmplSteps[t], types) /\ UNCHANGED docs
    BY <1>4, <2>1 DEF CreateDocumentType
  <2>4. PICK steps \in SUBSET Steps : steps = tmplSteps[t]
    BY <1>1
  <2> QED
    BY <2>2, <2>3, <2>4 DEF EditStep
<1>5. CASE DeleteDocumentType(t, i)
  BY <1>1, <1>5 DEF DeleteDocumentType, EditStep
<1> QED
  BY <1>2, <1>3, <1>4, <1>5 DEF Edits

\* Steps belong to templates, document types to steps: a deletion takes all.
LEMMA TreeStep ==
  ASSUME DefaultInv, Tree, \A r \in Reqs : CopyRequest(tmplReq[r]), [PTNext]_tmplVars
  PROVE  Tree'
<1>1. ASSUME UNCHANGED <<tmplSteps, tmplTypes>>, DOMAIN templates \subseteq DOMAIN templates'
      PROVE  Tree'
  BY <1>1 DEF Tree
<1>2. ASSUME NEW ids, Delete(ids) PROVE Tree'
  BY <1>2 DEF Tree, Delete, Without
<1>3. ASSUME NEW r \in Reqs, CopyStep(r) \/ CopyTypes(r) PROVE Tree'
  <2>1. PICK t \in Templates, i \in Steps :
          t = tmplReq[r].template /\ i = FirstLeft(tmplReq[r])
    BY <1>3, CopyWrites
  <2>2. UNCHANGED templates
    BY <1>3, CopyWrites
  <2>3. CASE /\ t \in DOMAIN templates /\ UNCHANGED tmplTypes
             /\ tmplSteps' = [tmplSteps EXCEPT ![t] = @ \cup {i}]
    BY <2>2, <2>3 DEF Tree
  <2>4. CASE /\ i \in tmplSteps[t] /\ UNCHANGED tmplSteps
             /\ tmplTypes' = [tmplTypes EXCEPT ![t] = @ \cup {i}]
    BY <2>2, <2>4 DEF Tree
  <2> QED
    BY <1>1, <1>3, <2>1, <2>2, <2>3, <2>4, CopyWrites
<1>4. ASSUME NEW t \in Templates, NEW i \in Steps, Edits(t, i) PROVE Tree'
  <2>1. PICK steps \in SUBSET Steps, types \in SUBSET Steps :
              /\ types \subseteq steps
              /\ tmplSteps' = [tmplSteps EXCEPT ![t] = steps]
              /\ tmplTypes' = [tmplTypes EXCEPT ![t] = types]
    BY <1>4, EditWrites
  <2>2. UNCHANGED templates /\ t \in DOMAIN templates
    BY <1>4, EditWrites
  <2> QED
    BY <2>1, <2>2 DEF Tree
<1>5. ASSUME NEW t, NEW row, Inserts(t, row) PROVE Tree'
  BY <1>1, <1>5 DEF Inserts, With
<1>6. ASSUME NEW r \in Reqs, ClearDefault(r) \/ WriteTemplate(r) PROVE Tree'
  BY <1>1, <1>6, FlagStep DEF Reflags
<1>7. ASSUME NEW r \in Reqs, RequestStarts(r) \/ CheckProgram(r) \/ TmplReject(r)
      PROVE  Tree'
  BY <1>1, <1>7, QuietTables DEF tmplTables
<1>8. ASSUME NEW d, ApplicationDocumentsController(d) PROVE Tree'
  BY <1>1, <1>8 DEF ApplicationDocumentsController, CreateDocument,
     UpdateDocumentStatus, RemoveDocument, DocWrite
<1>9. CASE UNCHANGED tmplVars
  BY <1>1, <1>9 DEF tmplVars, tmplTables
<1> QED
  BY <1>1, <1>2, <1>3, <1>4, <1>5, <1>6, <1>7, <1>8, <1>9, TemplateCases, InsertsStep
     DEF DeleteTemplate, DeleteProgram

-----------------------------------------------------------------------------
(* Documents *)

\* A document keeps its type until the type is deleted.
DocsStay ==
    \A d \in DOMAIN docs \cap DOMAIN docs' : docs'[d].type \in {docs[d].type, Null}

\* What becomes of the document types, all but those in gone.
TypesStay(gone) ==
    \A t \in Templates, i \in Steps :
        i \in tmplTypes[t] /\ <<t, i>> \notin gone => i \in tmplTypes'[t]

\* The documents of the types in gone lose their type, the others keep it.
LEMMA UntypedRows ==
  ASSUME DocTable, NEW gone, docs' = Untyped(gone)
  PROVE  /\ DocTable' /\ DOMAIN docs' = DOMAIN docs
         /\ \A d \in DOMAIN docs :
              docs'[d].type = IF docs[d].type \in gone THEN Null ELSE docs[d].type
<1>1. DOMAIN docs' = DOMAIN docs /\ docs' = [d \in DOMAIN docs' |-> docs'[d]]
  BY DEF Untyped
<1>2. ASSUME NEW d \in DOMAIN docs
      PROVE  /\ docs'[d] \in ApplicationDocument
             /\ docs'[d].type = IF docs[d].type \in gone THEN Null ELSE docs[d].type
  <2>1. PICK old \in ApplicationDocument : old = docs[d]
    BY DEF DocTable
  <2>2. PICK row : row = [old EXCEPT !.type = Null]
    OBVIOUS
  <2>3. row \in ApplicationDocument /\ row.type = Null
    BY <2>2 DEF ApplicationDocument
  <2>4. docs'[d] = IF old.type \in gone THEN row ELSE old
    BY <2>1, <2>2 DEF Untyped
  <2> QED
    BY <2>1, <2>3, <2>4
<1> QED
  BY <1>1, <1>2 DEF DocTable

\* When document types go, the documents of those types are told.
LEMMA TypesGone ==
  ASSUME DocRows, NEW gone, docs' = Untyped(gone), TypesStay(gone)
  PROVE  DocRows' /\ DocsStay
<1>1. DocTable
  BY DEF DocRows
<1>2. /\ DocTable' /\ DOMAIN docs' = DOMAIN docs
      /\ \A d \in DOMAIN docs :
           docs'[d].type = IF docs[d].type \in gone THEN Null ELSE docs[d].type
  BY <1>1, UntypedRows
<1>3. ASSUME NEW d \in DOMAIN docs', docs'[d].type # Null
      PROVE  docs'[d].type[2] \in tmplTypes'[docs'[d].type[1]]
  <2>1. d \in DOMAIN docs /\ docs'[d].type = docs[d].type /\ docs[d].type \notin gone
    BY <1>2, <1>3
  <2>2. docs[d].type \in Templates \X Steps
    BY <1>1, <1>3, <2>1 DEF DocTable, ApplicationDocument
  <2>3. docs[d].type[2] \in tmplTypes[docs[d].type[1]]
    BY <1>3, <2>1 DEF DocRows, Typed
  <2>4. PICK t \in Templates, i \in Steps : docs[d].type = <<t, i>>
    BY <2>2
  <2> QED
    BY <2>1, <2>3, <2>4 DEF TypesStay
<1> QED
  BY <1>2, <1>3 DEF DocRows, Typed, DocsStay

\* While documents stay as they are, so must the types they have.
LEMMA TypesGrow ==
  ASSUME DocRows, UNCHANGED docs, TypesStay({})
  PROVE  DocRows' /\ DocsStay
<1>1. ASSUME NEW d \in DOMAIN docs, docs[d].type # Null
      PROVE  docs[d].type[2] \in tmplTypes'[docs[d].type[1]]
  <2>1. docs[d].type \in Templates \X Steps
    BY <1>1 DEF DocRows, DocTable, ApplicationDocument
  <2>2. docs[d].type[2] \in tmplTypes[docs[d].type[1]]
    BY <1>1 DEF DocRows, Typed
  <2> QED
    BY <2>1, <2>2 DEF TypesStay
<1> QED
  BY <1>1 DEF DocRows, DocTable, Typed, DocsStay

\* An upload, a review and a removal: the types are there, and stay.
LEMMA DocumentWrites ==
  ASSUME DocRows, NEW d \in Documents, ApplicationDocumentsController(d)
  PROVE  DocRows' /\ DocsStay
<1>1. UNCHANGED tmplTypes
  BY DEF ApplicationDocumentsController, CreateDocument, UpdateDocumentStatus,
     RemoveDocument, DocWrite
<1>2. ASSUME NEW p \in Programs, NEW type \in (Templates \X Steps) \cup {Null},
             NEW status \in DocStatuses, CreateDocument(d, p, type, status)
      PROVE  DocRows' /\ DocsStay
  <2>1. PICK row : row = [program |-> p, type |-> type, status |-> status]
    OBVIOUS
  <2>2. row \in ApplicationDocument /\ row.type = type
    BY <2>1 DEF ApplicationDocument
  <2>3. d \notin DOMAIN docs /\ docs' = With(docs, d, row)
    BY <1>2, <2>1 DEF CreateDocument
  <2>4. /\ DOMAIN docs' = DOMAIN docs \cup {d} /\ docs' = [e \in DOMAIN docs' |-> docs'[e]]
        /\ docs'[d] = row /\ \A e \in DOMAIN docs : docs'[e] = docs[e]
    BY <2>3 DEF With
  <2>5. type # Null => type[2] \in tmplTypes[type[1]]
    BY <1>2 DEF CreateDocument
  <2>6. DocTable'
    BY <2>2, <2>4 DEF DocRows, DocTable
  <2>7. DocsStay
    BY <2>4 DEF DocsStay
  <2>8. ASSUME NEW e \in DOMAIN docs' PROVE Typed(e)'
    BY <1>1, <2>2, <2>4, <2>5 DEF DocRows, Typed
  <2> QED
    BY <2>6, <2>7, <2>8 DEF DocRows
<1>3. ASSUME NEW status \in DocStatuses, UpdateDocumentStatus(d, status)
      PROVE  DocRows' /\ DocsStay
  <2>1. PICK old \in ApplicationDocument : old = docs[d]
    BY <1>3 DEF UpdateDocumentStatus, DocRows, DocTable
  <2>2. PICK row : row = [old EXCEPT !.status = status]
    OBVIOUS
  <2>3. row \in ApplicationDocument /\ row.type = old.type
    BY <2>2 DEF ApplicationDocument
  <2>4. docs' = [docs EXCEPT ![d] = row] /\ d \in DOMAIN docs
    BY <1>3, <2>1, <2>2 DEF UpdateDocumentStatus
  <2> QED
    BY <1>1, <2>1, <2>3, <2>4 DEF DocRows, DocTable, Typed, DocsStay
<1>4. CASE RemoveDocument(d)
  BY <1>1, <1>4 DEF RemoveDocument, Without, DocRows, DocTable, Typed, DocsStay
<1> QED
  BY <1>2, <1>3, <1>4 DEF ApplicationDocumentsController

\* Foreign keys of documents hold, whatever is deleted.
LEMMA DocRowsStep ==
  ASSUME DefaultInv, Tree, DocRows, \A r \in Reqs : CopyRequest(tmplReq[r]),
         [PTNext]_tmplVars
  PROVE  DocRows' /\ DocsStay
<1>1. CASE UNCHANGED <<tmplTypes, docs>>
  <2>1. TypesStay({})
    BY <1>1 DEF TypesStay
  <2> QED
    BY <1>1, <2>1, TypesGrow
<1>2. ASSUME NEW ids, Delete(ids) PROVE DocRows' /\ DocsStay
  <2>1. TypesStay(ids \X Steps)
    BY <1>2 DEF TypesStay, Delete
  <2> QED
    BY <1>2, <2>1, TypesGone DEF Delete
<1>3. ASSUME NEW r \in Reqs, CopyStep(r) \/ CopyTypes(r) PROVE DocRows' /\ DocsStay
  <2>1. PICK t \in Templates, i \in Steps :
          t = tmplReq[r].template /\ i = FirstLeft(tmplReq[r])
    BY <1>3, CopyWrites
  <2>2. UNCHANGED docs
    BY <1>3, CopyWrites
  <2>3. CASE tmplTypes' = [tmplTypes EXCEPT ![t] = @ \cup {i}]
    <3>1. TypesStay({})
      BY <2>3 DEF Tree, TypesStay
    <3> QED
      BY <2>2, <3>1, TypesGrow
  <2> QED
    BY <1>1, <1>3, <2>1, <2>2, <2>3, CopyWrites
<1>4. ASSUME NEW t \in Templates, NEW i \in Steps, Edits(t, i) PROVE DocRows' /\ DocsStay
  <2>1. PICK steps \in SUBSET Steps, types \in SUBSET Steps :
              /\ types \subseteq steps
              /\ tmplSteps' = [tmplSteps EXCEPT ![t] = steps]
              /\ tmplTypes' = [tmplTypes EXCEPT ![t] = types]
              /\ \/ docs' = docs /\ tmplTypes[t] \subseteq types
                 \/ docs' = Untyped({<<t, i>>}) /\ types = tmplTypes[t] \ {i}
    BY <1>4, EditWrites
  <2>2. \A u \in Templates : tmplTypes'[u] = IF u = t THEN types ELSE tmplTypes[u]
    BY <2>1 DEF Tree
  <2>3. CASE docs' = docs /\ tmplTypes[t] \subseteq types
    <3>1. TypesStay({})
      BY <2>2, <2>3 DEF TypesStay
    <3> QED
      BY <2>3, <3>1, TypesGrow
  <2>4. CASE docs' = Untyped({<<t, i>>}) /\ types = tmplTypes[t] \ {i}
    <3>1. TypesStay({<<t, i>>})
      BY <2>2, <2>4 DEF TypesStay
    <3> QED
      BY <2>4, <3>1, TypesGone
  <2> QED
    BY <2>1, <2>3, <2>4
<1>5. ASSUME NEW t, NEW row, Inserts(t, row) PROVE DocRows' /\ DocsStay
  BY <1>1, <1>5 DEF Inserts
<1>6. ASSUME NEW r \in Reqs, ClearDefault(r) \/ WriteTemplate(r) PROVE DocRows' /\ DocsStay
  BY <1>1, <1>6, FlagStep
<1>7. ASSUME NEW r \in Reqs, RequestStarts(r) \/ CheckProgram(r) \/ TmplReject(r)
      PROVE  DocRows' /\ DocsStay
  BY <1>1, <1>7, QuietTables DEF tmplTables
<1>8. CASE UNCHANGED tmplVars
  BY <1>1, <1>8 DEF tmplVars, tmplTables
<1> QED
  BY <1>1, <1>2, <1>3, <1>4, <1>5, <1>6, <1>7, <1>8, TemplateCases, InsertsStep,
     DocumentWrites DEF DeleteTemplate, DeleteProgram

-----------------------------------------------------------------------------
(* Clones *)

\* A clone comes to its end, whole if nobody touched it, or to its next query.
WholeClone(r) ==
    /\ EndRequest(r)
    /\ tmplReq[r].template \in DOMAIN templates \ edited =>
         /\ tmplSteps'[tmplReq[r].template] = tmplReq[r].copy.steps
         /\ tmplTypes'[tmplReq[r].template] = tmplReq[r].copy.types
Onward(r, n) ==
    /\ tmplReq' = Step(tmplReq, r, n) /\ UNCHANGED tmplGhosts
    /\ n.pc \in {"copyStep", "copyTypes"} /\ CopyRequest(n)
    /\ n.template = tmplReq[r].template
    /\ n.template \in DOMAIN templates \ edited =>
         /\ tmplSteps'[n.template] =
              n.copy.steps \ (IF n.pc = "copyTypes" THEN n.left \ {FirstLeft(n)} ELSE n.left)
         /\ tmplTypes'[n.template] = n.copy.types \ n.left

\* The first one left depends on what is left only.
LEMMA FirstSame ==
  ASSUME NEW q, NEW n, n.left = q.left
  PROVE  FirstLeft(n) = FirstLeft(q)
  BY DEF FirstLeft

\* After the last of the steps the clone is whole, else it goes on.
LEMMA NextCopy ==
  ASSUME NEW r \in Reqs, NEW q, NEW i \in q.left, q = tmplReq[r], TmplRequest(q),
         q.pc \in {"copyStep", "copyTypes"}, CopyRequest(q),
         CopyNext(r, [q EXCEPT !.left = @ \ {i}]),
         q.template \in DOMAIN templates \ edited =>
           /\ tmplSteps'[q.template] = q.copy.steps \ (q.left \ {i})
           /\ tmplTypes'[q.template] = q.copy.types \ (q.left \ {i})
  PROVE  WholeClone(r) \/ \E n : Onward(r, n)
<1>1. q = [pc |-> q.pc, template |-> q.template, row |-> q.row, copy |-> q.copy,
           left |-> q.left]
  BY DEF TmplRequest
<1>2. PICK m : m = [q EXCEPT !.left = @ \ {i}]
  OBVIOUS
<1>3. m = [pc |-> q.pc, template |-> q.template, row |-> q.row, copy |-> q.copy,
           left |-> q.left \ {i}]
  BY <1>1, <1>2
<1>4. CASE m.left = {}
  <2>1. EndRequest(r)
    BY <1>2, <1>4 DEF CopyNext
  <2>2. q.left \ {i} = {}
    BY <1>3, <1>4
  <2> QED
    BY <2>1, <2>2 DEF WholeClone
<1>5. CASE m.left # {}
  <2>1. PICK n : n = [m EXCEPT !.pc = "copyStep"]
    OBVIOUS
  <2>2. n = [pc |-> "copyStep", template |-> q.template, row |-> q.row, copy |-> q.copy,
             left |-> q.left \ {i}]
    BY <1>3, <2>1
  <2>3. tmplReq' = Step(tmplReq, r, n) /\ UNCHANGED tmplGhosts
    BY <1>2, <1>5, <2>1 DEF CopyNext, TmplGoto
  <2>4. CopyRequest(n)
    BY <1>3, <1>5, <2>2 DEF CopyRequest
  <2>5. /\ n.pc = "copyStep" /\ n.template = q.template /\ n.copy = q.copy
        /\ n.left = q.left \ {i}
    BY <2>2
  <2>6. Onward(r, n)
    BY <2>3, <2>4, <2>5 DEF Onward
  <2> QED
    BY <2>6
<1> QED
  BY <1>2, <1>4, <1>5

\* What a query of a clone leads to.
LEMMA CopyOutcome ==
  ASSUME DefaultInv, Tree, NEW r \in Reqs, CopyRequest(tmplReq[r]), Copied(r),
         CopyStep(r) \/ CopyTypes(r)
  PROVE  WholeClone(r) \/ \E n : Onward(r, n)
<1>1. PICK q : q = tmplReq[r]
  OBVIOUS
<1>2. PICK i : i = FirstLeft(q)
  OBVIOUS
<1>3. TmplRequest(q) /\ q.pc \in {"copyStep", "copyTypes"} /\ CopyRequest(q)
  BY <1>1 DEF DefaultInv, CopyStep, CopyTypes, TmplAt
<1>4. /\ q.template \in Templates /\ i \in q.left /\ i \in Steps
      /\ q.left \subseteq q.copy.steps
  BY <1>1, <1>2, CopyWrites DEF CopyRequest
<1>5. q.template \in DOMAIN templates \ edited =>
        /\ tmplSteps[q.template] =
             q.copy.steps \ (IF q.pc = "copyTypes" THEN q.left \ {i} ELSE q.left)
        /\ tmplTypes[q.template] = q.copy.types \ q.left
  BY <1>1, <1>2 DEF Copied
<1>6. CASE CopyStep(r)
  <2>1. q.pc = "copyStep" /\ UNCHANGED tmplTypes
    BY <1>1, <1>6 DEF CopyStep, TmplAt
  <2>2. CASE q.template \notin DOMAIN templates
    BY <1>1, <1>6, <2>2 DEF CopyStep, WholeClone
  <2>3. CASE q.template \in DOMAIN templates
    <3>1. tmplSteps' = [tmplSteps EXCEPT ![q.template] = @ \cup {i}]
      BY <1>1, <1>2, <1>6, <2>3 DEF CopyStep
    <3>2. q.template \in DOMAIN templates \ edited =>
            /\ tmplSteps'[q.template] = q.copy.steps \ (q.left \ {i})
            /\ tmplTypes'[q.template] = q.copy.types \ q.left
      BY <1>4, <1>5, <2>1, <3>1 DEF Tree
    <3>3. CASE i \in q.copy.types
      <4>1. PICK n : n = [q EXCEPT !.pc = "copyTypes"]
        OBVIOUS
      <4>2. /\ n = [pc |-> "copyTypes", template |-> q.template, row |-> q.row,
                    copy |-> q.copy, left |-> q.left]
        BY <1>3, <4>1 DEF TmplRequest
      <4>3. tmplReq' = Step(tmplReq, r, n) /\ UNCHANGED tmplGhosts
        BY <1>1, <1>2, <1>6, <2>3, <3>3, <4>1 DEF CopyStep, TypesFollow, TmplGoto
      <4>4. FirstLeft(n) = i
        <5>1. n.left = q.left
          BY <4>2
        <5> QED
          BY <1>2, <5>1, FirstSame
      <4>5. CopyRequest(n)
        BY <1>3, <1>4, <3>3, <4>2, <4>4 DEF CopyRequest
      <4>6. Onward(r, n)
        BY <1>1, <3>2, <4>2, <4>3, <4>4, <4>5 DEF Onward
      <4> QED
        BY <4>6
    <3>4. CASE i \notin q.copy.types
      <4>1. CopyNext(r, [q EXCEPT !.left = @ \ {i}])
        BY <1>1, <1>2, <1>6, <2>3, <3>4 DEF CopyStep, TypesFollow
      <4>2. q.copy.types \ q.left = q.copy.types \ (q.left \ {i})
        BY <3>4
      <4> QED
        BY <1>1, <1>3, <1>4, <3>2, <4>1, <4>2, NextCopy
    <3> QED
      BY <3>3, <3>4
  <2> QED
    BY <2>2, <2>3
<1>7. CASE CopyTypes(r)
  <2>1. q.pc = "copyTypes" /\ UNCHANGED tmplSteps
    BY <1>1, <1>7 DEF CopyTypes, TmplAt
  <2>2. CASE i \notin tmplSteps[q.template]
    <3>1. q.template \notin DOMAIN templates \ edited
      BY <1>4, <1>5, <2>1, <2>2
    <3>2. EndRequest(r)
      BY <1>1, <1>2, <1>7, <2>2 DEF CopyTypes
    <3> QED
      BY <1>1, <3>1, <3>2 DEF WholeClone
  <2>3. CASE i \in tmplSteps[q.template]
    <3>1. /\ tmplTypes' = [tmplTypes EXCEPT ![q.template] = @ \cup {i}]
          /\ CopyNext(r, [q EXCEPT !.left = @ \ {i}])
      BY <1>1, <1>2, <1>7, <2>3 DEF CopyTypes
    <3>2. i \in q.copy.types
      BY <1>2, <1>3, <2>1 DEF CopyRequest
    <3>3. q.template \in DOMAIN templates \ edited =>
            /\ tmplSteps'[q.template] = q.copy.steps \ (q.left \ {i})
            /\ tmplTypes'[q.template] = q.copy.types \ (q.left \ {i})
      BY <1>4, <1>5, <2>1, <3>1, <3>2 DEF Tree
    <3> QED
      BY <1>1, <1>3, <1>4, <3>1, <3>3, NextCopy
  <2> QED
    BY <2>2, <2>3
<1> QED
  BY <1>6, <1>7

-----------------------------------------------------------------------------
(* Clones beside other requests and edits *)

\* A template's contents, if it is still there, are what they were.
TableKeeps(t) ==
    t \in DOMAIN templates' =>
      t \in DOMAIN templates /\ tmplSteps'[t] = tmplSteps[t] /\ tmplTypes'[t] = tmplTypes[t]

\* So are those of the template that x copies into, unless they are edited now.
Keeps(x) ==
    tmplReq[x].template \in DOMAIN templates' \ edited' =>
      /\ tmplReq[x].template \notin edited
      /\ TableKeeps(tmplReq[x].template)

\* What is copied, and what is left to copy, stays so while nobody edits.
LEMMA CopiedKept ==
  ASSUME NEW x, Copied(x), tmplReq'[x] = tmplReq[x], Keeps(x)
  PROVE  Copied(x)'
<1>1. PICK q : q = tmplReq[x]
  OBVIOUS
<1>2. tmplReq'[x] = q
  BY <1>1
<1>3. q.template \in DOMAIN templates \ edited =>
        /\ tmplSteps[q.template] =
             q.copy.steps \ (IF q.pc = "copyTypes" THEN q.left \ {FirstLeft(q)} ELSE q.left)
        /\ tmplTypes[q.template] = q.copy.types \ q.left
  BY <1>1 DEF Copied
<1>4. q.template \in DOMAIN templates' \ edited' =>
        /\ q.template \in DOMAIN templates \ edited
        /\ tmplSteps'[q.template] = tmplSteps[q.template]
        /\ tmplTypes'[q.template] = tmplTypes[q.template]
  BY <1>1 DEF Keeps, TableKeeps
<1> QED
  BY <1>2, <1>3, <1>4 DEF Copied

\* A step of r, to q, beside the clones of others.
LEMMA CloneStep ==
  ASSUME DefaultInv, CloneInv, NEW r \in Reqs, NEW q, tmplReq' = Step(tmplReq, r, q),
         CopyRequest(q), \A x \in Cloning \ {r} : Keeps(x),
         q.pc \in {"copyStep", "copyTypes"} =>
           Copied(r)' /\ \A x \in Cloning \ {r} : tmplReq[x].template # q.template
  PROVE  CloneInv'
<1>1. \A x \in Reqs : tmplReq'[x] = IF x = r THEN q ELSE tmplReq[x]
  BY DEF DefaultInv, Step
<1>2. \A x \in Reqs : CopyRequest(tmplReq'[x])
  BY <1>1 DEF CloneInv
<1>3. \A x \in Reqs \ {r} : x \in Cloning' <=> x \in Cloning
  BY <1>1 DEF Cloning
<1>4. r \in Cloning' <=> q.pc \in {"copyStep", "copyTypes"}
  BY <1>1 DEF Cloning
<1>5. Apart'
  BY <1>1, <1>3, <1>4 DEF Apart, CloneInv, Cloning
<1>6. ASSUME NEW x \in Cloning' PROVE Copied(x)'
  <2>1. CASE x = r
    BY <1>4, <1>6, <2>1
  <2>2. CASE x # r
    <3>1. x \in Reqs
      BY DEF Cloning
    <3>2. x \in Cloning \ {r} /\ tmplReq'[x] = tmplReq[x]
      BY <1>1, <1>3, <2>2, <3>1
    <3>3. Copied(x) /\ Keeps(x)
      BY <3>2 DEF CloneInv
    <3> QED
      BY <3>2, <3>3, CopiedKept
  <2> QED
    BY <2>1, <2>2
<1> QED
  BY <1>2, <1>5, <1>6 DEF CloneInv

\* Requests stay where they are.
LEMMA CloneStays ==
  ASSUME CloneInv, UNCHANGED tmplReq, \A x \in Cloning : Keeps(x)
  PROVE  CloneInv'
<1>1. Cloning' = Cloning
  BY DEF Cloning
<1>2. \A x \in Cloning : Copied(x)'
  BY CopiedKept DEF CloneInv
<1> QED
  BY <1>1, <1>2 DEF CloneInv, Apart

LEMMA IdleCopies == CopyRequest(TmplIdle) /\ TmplIdle.pc = "idle"
  BY DEF CopyRequest, TmplIdle, NoContents, Contents

\* A request ends, and with it the record of edits to its clone.
LEMMA EndClone ==
  ASSUME DefaultInv, CloneInv, NEW r \in Reqs, EndRequest(r),
         \A x \in Cloning \ {r} : TableKeeps(tmplReq[x].template)
  PROVE  CloneInv'
<1>1. tmplReq' = Step(tmplReq, r, TmplIdle)
  BY DEF EndRequest, TmplGoto
<1>2. edited' = IF r \in Cloning THEN edited \ {tmplReq[r].template} ELSE edited
  BY DEF EndRequest
<1>3. ASSUME NEW x \in Cloning \ {r} PROVE Keeps(x)
  <2>1. r \in Cloning => tmplReq[x].template # tmplReq[r].template
    BY DEF CloneInv, Apart
  <2> QED
    BY <1>2, <2>1 DEF Keeps
<1> QED
  BY <1>1, <1>3, IdleCopies, CloneStep

\* A request that does not clone goes on, or ends.
LEMMA QuietClone ==
  ASSUME DefaultInv, CloneInv, NEW r \in Reqs, NEW q, tmplReq' = Step(tmplReq, r, q),
         CopyRequest(q), q.pc \notin {"copyStep", "copyTypes"}, UNCHANGED edited,
         \A x \in Cloning \ {r} : TableKeeps(tmplReq[x].template)
  PROVE  CloneInv'
<1>1. \A x \in Cloning \ {r} : Keeps(x)
  BY DEF Keeps
<1> QED
  BY <1>1, CloneStep

\* Templates inserted are new to everybody, flags are no contents, and what is
\* deleted is not looked at any more.
LEMMA TablesKeep ==
  /\ \A t, row : Inserts(t, row) => \A x \in Reqs : TableKeeps(tmplReq[x].template)
  /\ Reflags /\ UNCHANGED <<tmplSteps, tmplTypes>> =>
       \A x \in Reqs : TableKeeps(tmplReq[x].template)
  /\ \A ids : DefaultInv /\ Delete(ids) => \A x : TableKeeps(x)
<1>1. ASSUME NEW t, NEW row, Inserts(t, row), NEW x \in Reqs
      PROVE  TableKeeps(tmplReq[x].template)
  <2>1. DOMAIN templates' = DOMAIN templates \cup {t}
    BY <1>1 DEF Inserts, With
  <2>2. t # tmplReq[x].template
    BY <1>1 DEF Inserts, FreshTemplate
  <2> QED
    BY <1>1, <2>1, <2>2 DEF Inserts, TableKeeps
<1>2. ASSUME DefaultInv, NEW ids, Delete(ids), NEW x PROVE TableKeeps(x)
  <2>1. DOMAIN templates' = DOMAIN templates \ ids /\ DOMAIN templates \subseteq Templates
    BY <1>2 DEF Delete, Without, DefaultInv, TemplateRows
  <2> QED
    BY <1>2, <2>1 DEF TableKeeps, Delete
<1> QED
  BY <1>1, <1>2 DEF Reflags, TableKeeps

\* A request that starts is about to clone into no other's template.
LEMMA StartClones ==
  ASSUME DefaultInv, Tree, CloneInv, NEW r \in Reqs, RequestStarts(r)
  PROVE  CloneInv'
<1>1. UNCHANGED tmplTables
  BY QuietTables
<1>2. \A x \in Cloning \ {r} : TableKeeps(tmplReq[x].template)
  BY <1>1 DEF tmplTables, TableKeeps
<1>3. ASSUME NEW q, TmplStart(r, q), CopyRequest(q), q.pc \notin {"copyStep", "copyTypes"}
      PROVE  CloneInv'
  BY <1>2, <1>3, QuietClone DEF TmplStart, TmplGoto, tmplGhosts
<1>4. ASSUME NEW row \in Template, CreateTemplate(r, row) PROVE CloneInv'
  <2>1. PICK q : q = [TmplIdle EXCEPT !.row = row,
                                  !.pc = IF row.isDefault THEN "clear" ELSE "insert"]
    OBVIOUS
  <2>2. CopyRequest(q) /\ q.pc \notin {"copyStep", "copyTypes"}
    BY <2>1, IdleShape DEF CopyRequest, NoContents, Contents
  <2> QED
    BY <1>3, <1>4, <2>1, <2>2 DEF CreateTemplate
<1>5. ASSUME NEW t \in Templates, NEW isDefault \in BOOLEAN, UpdateTemplate(r, t, isDefault)
      PROVE  CloneInv'
  <2>1. PICK q : q = [TmplIdle EXCEPT !.template = t,
                                     !.row = [isDefault |-> isDefault, program |-> Null],
                                     !.pc = IF isDefault THEN "clear" ELSE "write"]
    OBVIOUS
  <2>2. CopyRequest(q) /\ q.pc \notin {"copyStep", "copyTypes"}
    BY <2>1, IdleShape DEF CopyRequest, NoContents, Contents, Template
  <2> QED
    BY <1>3, <1>5, <2>1, <2>2 DEF UpdateTemplate
<1>6. ASSUME NEW t \in Templates, FindToDelete(r, t) PROVE CloneInv'
  <2>1. PICK q : q = [TmplIdle EXCEPT !.pc = "delete", !.template = t]
    OBVIOUS
  <2>2. CopyRequest(q) /\ q.pc \notin {"copyStep", "copyTypes"}
    BY <2>1, IdleShape DEF CopyRequest, NoContents, Contents
  <2> QED
    BY <1>3, <1>6, <2>1, <2>2 DEF FindToDelete
<1>7. ASSUME NEW t \in Templates, NEW p \in Programs, StartClone(r, t, p) PROVE CloneInv'
  <2>1. PICK q : q = [TmplIdle EXCEPT !.pc = "checkProgram", !.copy = ContentsOf(t),
                                     !.row = [isDefault |-> FALSE, program |-> p]]
    OBVIOUS
  <2>2. PICK c \in Contents : c = ContentsOf(t) /\ c.types \subseteq c.steps
    <3>1. /\ tmplTypes[t] \subseteq tmplSteps[t] /\ tmplSteps[t] \in SUBSET Steps
          /\ tmplTypes[t] \in SUBSET Steps
      BY DEF Tree
    <3>2. PICK c : c = ContentsOf(t)
      OBVIOUS
    <3>3. c = [steps |-> tmplSteps[t], types |-> tmplTypes[t]]
      BY <3>2 DEF ContentsOf
    <3>4. c \in Contents /\ c.types \subseteq c.steps
      BY <3>1, <3>3 DEF Contents
    <3> QED
      BY <3>2, <3>4
  <2>3. q = [pc |-> "checkProgram", template |-> Null,
             row |-> [isDefault |-> FALSE, program |-> p], copy |-> c, left |-> {}]
    BY <2>1, <2>2, IdleShape
  <2>4. CopyRequest(q) /\ q.pc \notin {"copyStep", "copyTypes"}
    BY <2>2, <2>3 DEF CopyRequest, Template
  <2> QED
    BY <1>3, <1>7, <2>1, <2>4 DEF StartClone
<1> QED
  BY <1>4, <1>5, <1>6, <1>7 DEF RequestStarts

\* Requests about defaults, and the last check of a clone.
LEMMA DefaultClones ==
  ASSUME DefaultInv, CloneInv, NEW r \in Reqs,
         ClearDefault(r) \/ InsertTemplate(r) \/ WriteTemplate(r) \/ CheckProgram(r)
  PROVE  CloneInv'
<1>1. \A x \in Reqs : TableKeeps(tmplReq[x].template)
  <2>1. CASE ClearDefault(r) \/ WriteTemplate(r)
    BY <2>1, FlagStep, TablesKeep
  <2>2. CASE UNCHANGED <<templates, tmplSteps, tmplTypes, docs>>
    BY <2>2 DEF TableKeeps
  <2>3. CASE InsertTemplate(r)
    BY <2>2, <2>3, InsertsStep, TablesKeep
  <2>4. CASE CheckProgram(r)
    BY <2>2, <2>4 DEF CheckProgram, tmplTables
  <2> QED
    BY <2>1, <2>3, <2>4
<1>2. \A x \in Cloning \ {r} : TableKeeps(tmplReq[x].template)
  BY <1>1 DEF Cloning
<1>3. ASSUME NEW pc \in {"insert", "write", "insertClone"},
             TmplGoto(r, [tmplReq[r] EXCEPT !.pc = pc]), UNCHANGED edited
      PROVE  CloneInv'
  <2>1. PICK q : q = [tmplReq[r] EXCEPT !.pc = pc]
    OBVIOUS
  <2>2. PICK old : old = tmplReq[r] /\ TmplRequest(old) /\ CopyRequest(old)
    BY DEF DefaultInv, CloneInv
  <2>3. q = [pc |-> pc, template |-> old.template, row |-> old.row, copy |-> old.copy,
             left |-> old.left]
    BY <2>1, <2>2 DEF TmplRequest
  <2>4. CopyRequest(q) /\ q.pc = pc
    BY <2>2, <2>3 DEF CopyRequest
  <2> QED
    BY <1>2, <1>3, <2>1, <2>4, QuietClone DEF TmplGoto
<1>4. ASSUME TmplGoto(r, TmplIdle), UNCHANGED edited PROVE CloneInv'
  BY <1>2, <1>4, IdleCopies, QuietClone DEF TmplGoto
<1>5. ASSUME EndRequest(r) PROVE CloneInv'
  BY <1>2, <1>5, EndClone
<1>6. CASE ClearDefault(r)
  BY <1>3, <1>6 DEF ClearDefault, tmplGhosts
<1>7. CASE CheckProgram(r)
  BY <1>3, <1>4, <1>7 DEF CheckProgram, tmplGhosts
<1>8. CASE InsertTemplate(r) \/ WriteTemplate(r)
  BY <1>4, <1>5, <1>8 DEF InsertTemplate, WriteTemplate, TmplWrote
<1> QED
  BY <1>6, <1>7, <1>8

\* The queries of a clone: the template it inserts is new, and empty.
LEMMA InsertClones ==
  ASSUME DefaultInv, Tree, CloneInv, NEW r \in Reqs, InsertClone(r)
  PROVE  CloneInv'
<1>1. PICK old : old = tmplReq[r] /\ TmplRequest(old) /\ CopyRequest(old)
  BY DEF DefaultInv, CloneInv
<1>2. \A x \in Reqs : TableKeeps(tmplReq[x].template)
  <2>1. CASE UNCHANGED <<templates, tmplSteps, tmplTypes, docs>>
    BY <2>1 DEF TableKeeps
  <2> QED
    BY <2>1, InsertsStep, TablesKeep
<1>3. \A x \in Cloning \ {r} : TableKeeps(tmplReq[x].template)
  BY <1>2 DEF Cloning
<1>4. CASE EndRequest(r)
  BY <1>3, <1>4, EndClone
<1>5. ASSUME NEW t \in FreshTemplate, templates' = With(templates, t, old.row),
             CopyNext(r, [old EXCEPT !.template = t, !.left = old.copy.steps])
      PROVE  CloneInv'
  <2>1. PICK m : m = [old EXCEPT !.template = t, !.left = old.copy.steps]
    OBVIOUS
  <2>2. m = [pc |-> old.pc, template |-> t, row |-> old.row, copy |-> old.copy,
             left |-> old.copy.steps]
    BY <1>1, <2>1 DEF TmplRequest
  <2>3. CASE m.left = {}
    BY <1>4, <1>5, <2>1, <2>3 DEF CopyNext
  <2>4. CASE m.left # {}
    <3>1. PICK n : n = [m EXCEPT !.pc = "copyStep"]
      OBVIOUS
    <3>2. n = [pc |-> "copyStep", template |-> t, row |-> old.row, copy |-> old.copy,
               left |-> old.copy.steps]
      BY <2>2, <3>1
    <3>3. tmplReq' = Step(tmplReq, r, n) /\ UNCHANGED edited
      BY <1>5, <2>1, <2>4, <3>1 DEF CopyNext, TmplGoto, tmplGhosts
    <3>4. t \in Templates /\ t \notin DOMAIN templates /\ UNCHANGED <<tmplSteps, tmplTypes>>
      BY DEF FreshTemplate, InsertClone
    <3>5. CopyRequest(n)
      BY <1>1, <2>2, <2>4, <3>2, <3>4 DEF CopyRequest
    <3>6. \A x \in Cloning \ {r} : tmplReq[x].template # n.template
      BY <3>2 DEF FreshTemplate, Cloning
    <3>7. tmplSteps'[t] = {} /\ tmplTypes'[t] = {}
      BY <3>4 DEF Tree
    <3>8. Copied(r)'
      <4>1. tmplReq'[r] = n
        BY <3>3 DEF Step, DefaultInv
      <4>2. /\ n.pc = "copyStep" /\ n.template = t /\ n.left = n.copy.steps
            /\ n.copy.types \subseteq n.copy.steps
        BY <1>1, <3>2 DEF CopyRequest
      <4> QED
        BY <3>7, <4>1, <4>2 DEF Copied
    <3>9. \A x \in Cloning \ {r} : Keeps(x)
      BY <1>3, <3>3 DEF Keeps
    <3> QED
      BY <3>3, <3>5, <3>6, <3>8, <3>9, CloneStep
  <2> QED
    BY <2>3, <2>4
<1> QED
  BY <1>1, <1>4, <1>5 DEF InsertClone

\* What one clone copies is no business of another.
LEMMA CopyClones ==
  ASSUME DefaultInv, Tree, CloneInv, NEW r \in Reqs, CopyStep(r) \/ CopyTypes(r)
  PROVE  CloneInv'
<1>1. CopyRequest(tmplReq[r]) /\ r \in Cloning /\ Copied(r)
  BY DEF CloneInv, Cloning, CopyStep, CopyTypes, TmplAt
<1>2. PICK t : t = tmplReq[r].template
  OBVIOUS
<1>3. \A x \in Cloning \ {r} : tmplReq[x].template # t
  BY <1>1, <1>2 DEF CloneInv, Apart
<1>4. UNCHANGED templates /\ t \in Templates
  BY <1>1, <1>2, CopyWrites
<1>5. \/ \E i : tmplSteps' = [tmplSteps EXCEPT ![t] = @ \cup {i}] /\ UNCHANGED tmplTypes
      \/ \E i : tmplTypes' = [tmplTypes EXCEPT ![t] = @ \cup {i}] /\ UNCHANGED tmplSteps
      \/ UNCHANGED <<tmplSteps, tmplTypes>>
  BY <1>1, <1>2, CopyWrites
<1>6. DOMAIN templates \subseteq Templates
  BY DEF DefaultInv, TemplateRows
<1>7. \A x \in Cloning \ {r} : TableKeeps(tmplReq[x].template)
  BY <1>3, <1>4, <1>5, <1>6 DEF TableKeeps, Tree
<1>8. CASE WholeClone(r)
  BY <1>7, <1>8, EndClone DEF WholeClone
<1>9. ASSUME NEW n, Onward(r, n) PROVE CloneInv'
  <2>1. tmplReq' = Step(tmplReq, r, n) /\ CopyRequest(n) /\ n.template = t /\ UNCHANGED edited
    BY <1>2, <1>9 DEF Onward, tmplGhosts
  <2>2. tmplReq'[r] = n
    BY <2>1 DEF Step, DefaultInv
  <2>3. Copied(r)'
    BY <1>4, <1>9, <2>1, <2>2 DEF Onward, Copied
  <2>4. \A x \in Cloning \ {r} : Keeps(x)
    BY <1>7, <2>1 DEF Keeps
  <2> QED
    BY <1>3, <2>1, <2>3, <2>4, CloneStep
<1> QED
  BY <1>1, <1>8, <1>9, CopyOutcome

\* An edit of a template that is being copied into is recorded.
LEMMA EditClones ==
  ASSUME Tree, CloneInv, NEW t \in Templates, NEW i \in Steps, Edits(t, i)
  PROVE  CloneInv'
<1>1. /\ UNCHANGED <<templates, tmplReq>>
      /\ edited' = edited \cup ({t} \cap {tmplReq[r].template : r \in Cloning})
  BY EditWrites
<1>2. PICK steps, types : /\ tmplSteps' = [tmplSteps EXCEPT ![t] = steps]
                          /\ tmplTypes' = [tmplTypes EXCEPT ![t] = types]
  BY EditWrites
<1>3. ASSUME NEW x \in Cloning PROVE Keeps(x)
  <2>1. CASE tmplReq[x].template = t
    BY <1>1, <2>1 DEF Keeps
  <2>2. CASE tmplReq[x].template # t
    <3>1. tmplReq[x].template \in Templates
      BY DEF CloneInv, CopyRequest, Cloning
    <3>2. TableKeeps(tmplReq[x].template)
      BY <1>1, <1>2, <2>2, <3>1 DEF TableKeeps, Tree
    <3> QED
      BY <1>1, <3>2 DEF Keeps
  <2> QED
    BY <2>1, <2>2
<1> QED
  BY <1>1, <1>3, CloneStays

\* So every step leaves clones with what of their sources they should have.
LEMMA CloneInvStep ==
  ASSUME DefaultInv, Tree, CloneInv, [PTNext]_tmplVars
  PROVE  CloneInv'
<1>1. ASSUME UNCHANGED <<tmplReq, edited>>, \A x : TableKeeps(x) PROVE CloneInv'
  BY <1>1, CloneStays DEF Keeps
<1>2. ASSUME NEW p, DeleteProgram(p) PROVE CloneInv'
  BY <1>1, <1>2, TablesKeep DEF DeleteProgram, tmplGhosts
<1>3. ASSUME NEW d, ApplicationDocumentsController(d) PROVE CloneInv'
  <2>1. UNCHANGED <<templates, tmplSteps, tmplTypes, tmplReq, edited>>
    BY <1>3 DEF ApplicationDocumentsController, CreateDocument,
       UpdateDocumentStatus, RemoveDocument, DocWrite, tmplGhosts
  <2> QED
    BY <1>1, <2>1 DEF TableKeeps
<1>4. CASE UNCHANGED tmplVars
  BY <1>1, <1>4 DEF tmplVars, tmplTables, tmplGhosts, TableKeeps
<1>5. ASSUME NEW r \in Reqs, DeleteTemplate(r) PROVE CloneInv'
  BY <1>5, TablesKeep, EndClone DEF DeleteTemplate
<1>6. ASSUME NEW r \in Reqs, TmplReject(r) PROVE CloneInv'
  BY <1>6, EndClone DEF TmplReject, tmplTables, TableKeeps
<1> QED
  BY <1>2, <1>3, <1>4, <1>5, <1>6, TemplateCases, StartClones, DefaultClones,
     InsertClones, CopyClones, EditClones

\* Names stay within their sets.
LEMMA BoundsStep ==
  ASSUME DefaultInv, Tree, Bounds, \A r \in Reqs : CopyRequest(tmplReq[r]),
         [PTNext]_tmplVars
  PROVE  Bounds'
<1>1. CASE UNCHANGED <<programs, tmplGhosts>>
  BY <1>1 DEF Bounds, tmplGhosts
<1>2. ASSUME NEW r \in Reqs, UNCHANGED programs, EndRequest(r) PROVE Bounds'
  BY <1>2 DEF Bounds, EndRequest
<1>3. ASSUME NEW r \in Reqs, NEW isDefault, UNCHANGED programs, TmplWrote(r, isDefault)
      PROVE  Bounds'
  BY <1>3 DEF Bounds, TmplWrote
<1>4. ASSUME NEW r \in Reqs, RequestStarts(r) \/ CheckProgram(r) \/ ClearDefault(r) PROVE Bounds'
  BY <1>1, <1>4 DEF RequestStarts, CreateTemplate, UpdateTemplate, FindToDelete, StartClone,
     TmplStart, CheckProgram, ClearDefault, tmplTables
<1>5. ASSUME NEW r \in Reqs, InsertTemplate(r) \/ WriteTemplate(r) PROVE Bounds'
  BY <1>2, <1>3, <1>5 DEF InsertTemplate, WriteTemplate
<1>6. ASSUME NEW r \in Reqs, DeleteTemplate(r) \/ TmplReject(r) PROVE Bounds'
  BY <1>2, <1>6 DEF DeleteTemplate, TmplReject, tmplTables
<1>7. ASSUME NEW r \in Reqs, NEW q, CopyNext(r, q), UNCHANGED programs PROVE Bounds'
  BY <1>1, <1>2, <1>7 DEF CopyNext
<1>8. ASSUME NEW r \in Reqs, InsertClone(r) PROVE Bounds'
  BY <1>2, <1>7, <1>8 DEF InsertClone
<1>9. ASSUME NEW r \in Reqs, CopyStep(r) \/ CopyTypes(r) PROVE Bounds'
  BY <1>1, <1>2, <1>7, <1>9 DEF CopyStep, CopyTypes
<1>10. ASSUME NEW p, DeleteProgram(p) PROVE Bounds'
  BY <1>10 DEF DeleteProgram, Bounds, tmplGhosts
<1>11. ASSUME NEW t \in Templates, NEW i \in Steps, Edits(t, i) PROVE Bounds'
  BY <1>11, EditWrites DEF Bounds
<1>12. ASSUME NEW d, ApplicationDocumentsController(d) PROVE Bounds'
  BY <1>1, <1>12 DEF ApplicationDocumentsController, CreateDocument,
     UpdateDocumentStatus, RemoveDocument, DocWrite
<1>13. CASE UNCHANGED tmplVars
  BY <1>1, <1>13 DEF tmplVars, tmplTables
<1> QED
  BY <1>4, <1>5, <1>6, <1>8, <1>9, <1>10, <1>11, <1>12, <1>13, TemplateCases

-----------------------------------------------------------------------------

\* At first there is nothing to clone or to list.
LEMMA InitWhole == PTInit => WholeInv
<1> SUFFICES ASSUME PTInit PROVE WholeInv
  OBVIOUS
<1>1. Tree
  BY DEF PTInit, Tree
<1>2. OneEach /\ DocRows
  BY DEF PTInit, OneEach, DocRows, DocTable, NoRows
<1>3. Bounds
  BY DEF PTInit, Bounds
<1>4. \A r \in Reqs : tmplReq[r] = TmplIdle
  BY DEF PTInit
<1>5. Cloning = {}
  BY <1>4, IdleCopies DEF Cloning
<1>6. CloneInv
  BY <1>4, <1>5, IdleCopies DEF CloneInv, Apart
<1> QED
  BY <1>1, <1>2, <1>3, <1>6 DEF WholeInv

LEMMA NextWhole == DefaultInv /\ WholeInv /\ [PTNext]_tmplVars => WholeInv'
<1> SUFFICES ASSUME DefaultInv, WholeInv, [PTNext]_tmplVars PROVE WholeInv'
  OBVIOUS
<1>1. Tree /\ OneEach /\ DocRows /\ Bounds /\ CloneInv
  BY DEF WholeInv
<1>2. \A r \in Reqs : CopyRequest(tmplReq[r])
  BY <1>1 DEF CloneInv
<1>3. Tree' /\ DocRows'
  BY <1>1, <1>2, TreeStep, DocRowsStep
<1>4. OneEach' /\ Bounds' /\ CloneInv'
  BY <1>1, <1>2, OneEachStep, BoundsStep, CloneInvStep
<1> QED
  BY <1>3, <1>4 DEF WholeInv

\* Foreign keys hold and what a clone has copied is there: the second inductive
\* invariant holds of every reachable state.
THEOREM WholeInvHolds == PTSpec => []WholeInv
  BY DefaultInvHolds, InitWhole, NextWhole, PTL DEF PTSpec

\* Types and foreign keys: a program has one template, a step belongs to a
\* template, a document type to a step, a document to a type that exists.
THEOREM TemplatesTyped == PTSpec => []PTTypeOK
<1>1. DefaultInv /\ WholeInv => PTTypeOK
  <2> SUFFICES ASSUME DefaultInv, WholeInv PROVE PTTypeOK
    OBVIOUS
  <2>1. templates \in Table(Templates, Template)
    <3>1. PICK D \in SUBSET Templates : D = DOMAIN templates
      BY DEF DefaultInv, TemplateRows
    <3>2. templates \in [D -> Template]
      BY <3>1 DEF DefaultInv, TemplateRows
    <3> QED
      BY <3>2 DEF Table
  <2>2. docs \in Table(Documents, ApplicationDocument)
    <3>1. PICK D \in SUBSET Documents : D = DOMAIN docs
      BY DEF WholeInv, DocRows, DocTable
    <3>2. docs \in [D -> ApplicationDocument]
      BY <3>1 DEF WholeInv, DocRows, DocTable
    <3> QED
      BY <3>2 DEF Table
  <2>3. PICK R : R = [pc : {"clear", "insert", "write", "delete", "checkProgram",
                            "insertClone", "copyStep", "copyTypes"},
          template : Templates \cup {Null}, row : Template \cup {Null},
          copy : Contents, left : SUBSET Steps]
    OBVIOUS
  <2>4. ASSUME NEW r \in Reqs PROVE tmplReq[r] \in R \cup {TmplIdle}
    <3>1. PICK q : q = tmplReq[r]
      OBVIOUS
    <3>2. TmplRequest(q) /\ CopyRequest(q)
      BY <3>1 DEF DefaultInv, WholeInv, CloneInv
    <3>3. q.pc # "idle" => q.pc \in {"clear", "insert", "write", "delete", "checkProgram",
                                     "insertClone", "copyStep", "copyTypes"}
      BY <3>2 DEF TmplRequest, TmplPcs
    <3>4. q.left \in SUBSET Steps /\ q.copy \in Contents
      BY <3>2 DEF CopyRequest, Contents
    <3>5. q.pc # "idle" => q \in R
      BY <2>3, <3>2, <3>3, <3>4 DEF TmplRequest, CopyRequest
    <3>6. q.pc = "idle" => q = TmplIdle
      BY <3>2 DEF CopyRequest
    <3> QED
      BY <3>1, <3>5, <3>6
  <2>5. tmplReq \in [Reqs -> R \cup {TmplIdle}]
    BY <2>4 DEF DefaultInv
  <2> QED
    BY <2>1, <2>2, <2>3, <2>5
       DEF PTTypeOK, WholeInv, Tree, OneEach, DocRows, Typed, Bounds
<1> QED
  BY <1>1, DefaultInvHolds, WholeInvHolds, PTL

\* A clone's last query leaves it whole.
LEMMA ClonedWhole ==
  ASSUME DefaultInv, WholeInv, NEW r \in Reqs, CopyStep(r) \/ CopyTypes(r),
         tmplReq'[r] = TmplIdle, tmplReq[r].template \in DOMAIN templates \ edited
  PROVE  /\ tmplSteps'[tmplReq[r].template] = tmplReq[r].copy.steps
         /\ tmplTypes'[tmplReq[r].template] = tmplReq[r].copy.types
<1>1. Tree /\ CopyRequest(tmplReq[r]) /\ Copied(r)
  BY DEF WholeInv, CloneInv, Cloning, CopyStep, CopyTypes, TmplAt
<1>2. ASSUME NEW n, Onward(r, n) PROVE FALSE
  <2>1. tmplReq'[r] = n /\ n.pc # "idle"
    BY <1>2 DEF Onward, Step, DefaultInv
  <2> QED
    BY <2>1, IdleCopies
<1> QED
  BY <1>1, <1>2, CopyOutcome DEF WholeClone

\* A document that is shown stays shown.
LEMMA StaysListed ==
  ASSUME DefaultInv, WholeInv, [PTNext]_tmplVars, NEW d \in DOMAIN docs,
         NEW t \in Templates, d \in DOMAIN docs', Listed(d, t)
  PROVE  Listed(d, t)'
<1>1. DocRows' /\ DocsStay
  BY DocRowsStep DEF WholeInv, CloneInv
<1>2. docs'[d].type \in {docs[d].type, Null}
  BY <1>1 DEF DocsStay
<1>3. CASE docs'[d].type = Null
  BY <1>3 DEF Listed
<1>4. CASE docs'[d].type # Null
  <2>1. docs'[d].type = docs[d].type /\ docs[d].type \in {t} \X tmplTypes[t]
    BY <1>2, <1>4 DEF Listed
  <2>2. PICK i : docs'[d].type = <<t, i>>
    BY <2>1
  <2>3. docs'[d].type[2] \in tmplTypes'[docs'[d].type[1]]
    BY <1>1, <1>4 DEF DocRows, Typed
  <2>4. docs'[d].type \in {t} \X tmplTypes'[t]
    BY <2>2, <2>3
  <2> QED
    BY <2>4 DEF Listed
<1> QED
  BY <1>3, <1>4

\* A clone that gets to its end holds what its source held, and an upload the
\* checklist shows goes on being shown.
THEOREM ChecklistsHold == PTSpec => ChecklistsWhole
<1>1. DefaultInv /\ WholeInv /\ [PTNext]_tmplVars =>
        [\A r \in Reqs :
           LET q == tmplReq[r] IN
           /\ CopyStep(r) \/ CopyTypes(r)
           /\ tmplReq'[r] = TmplIdle
           /\ q.template \in DOMAIN templates \ edited
           => /\ tmplSteps'[q.template] = q.copy.steps
              /\ tmplTypes'[q.template] = q.copy.types]_tmplVars
  BY ClonedWhole
<1>2. DefaultInv /\ WholeInv /\ [PTNext]_tmplVars =>
        [\A d \in DOMAIN docs, t \in Templates :
           /\ d \in DOMAIN docs'
           /\ t \in TemplateFor(docs[d].program) /\ t \in TemplateFor(docs[d].program)'
           /\ Listed(d, t)
           => Listed(d, t)']_tmplVars
  BY StaysListed
<1> QED
  BY <1>1, <1>2, DefaultInvHolds, WholeInvHolds, PTL
     DEF PTSpec, ChecklistsWhole, ClonesWhole, ChecklistKept

-----------------------------------------------------------------------------
(* FileStore *)

SettingsPcs == {"readSettings", "removeOld", "writeSettings"}
DeletePcs == {"deleteObject", "deleteRow"}

\* What a request knows of the keys it has in hand: the one it is about to insert
\* is an object and of no row; those it has uploaded are no one's logo, neither
\* now nor as a logo that was replaced; the one whose row it is about to delete is
\* no object any more.
FileRequest(q, ob, fl, dr, tr, re, lg) ==
    /\ q = [pc |-> q.pc, left |-> q.left, keys |-> q.keys, key |-> q.key,
            for |-> q.for, doc |-> q.doc]
    /\ q.pc \in {"idle", "store", "insert", "sign", "cleanup", "deleteDocument", "findFile"}
                  \cup DeletePcs \cup SettingsPcs
    /\ q.left \in 0 .. MaxBatch /\ q.keys \subseteq dr /\ q.key \in dr \cup {Null}
    /\ q.for \in {"answer", "logo", "clear"} /\ q.doc \in Docs \cup {Null}
    /\ q.pc \in {"insert", "sign"} => q.key \in q.keys
    /\ q.pc = "insert" => q.key \in ob \ fl
    /\ q.pc = "cleanup" => q.keys \subseteq tr
    /\ q.pc \in DeletePcs => q.key \in dr
    /\ q.pc = "deleteRow" => q.key \notin ob
    /\ q.pc \in SettingsPcs => q.for = "clear" \/ q.keys # {}
    /\ q.pc \in {"removeOld", "writeSettings"} => q.key \notin q.keys
    /\ q.pc = "removeOld" => q.key \in dr
    /\ q.keys \cap re = {} /\ lg \notin q.keys

\* No one else uploads, deletes or takes for a logo what q uploads.
KeysApart(q, p) ==
    /\ q.keys \cap p.keys = {}
    /\ q.pc = "insert" /\ p.pc \in DeletePcs => p.key # q.key
    /\ p.pc \in {"removeOld", "writeSettings"} => p.key \notin q.keys

\* Between the bucket and the table: the key is in one of them.
Between(q, k) == q.pc \in {"insert", "deleteRow"} /\ q.key = k
\* The logo has been removed, and another is about to be written.
Replacing(q, lg) == q.pc = "writeSettings" /\ q.key = lg

FileTables ==
    /\ objects \subseteq drawn /\ files \subseteq drawn /\ drawn \subseteq ObjectKeys
    /\ docKeys = [d \in DOMAIN docKeys |-> docKeys[d]] /\ DOMAIN docKeys \subseteq Docs
    /\ \A d \in DOMAIN docKeys : docKeys[d] \in drawn
    /\ logo \in drawn \cup {Null}
    /\ troubled \subseteq drawn /\ retired \subseteq drawn

\* A key in only one of the bucket and the table is in the hands of a request.
Explained ==
    \A k \in ObjectKeys \ (troubled \cup retired) :
      (k \in files <=> k \in objects) \/ \E r \in Reqs : Between(fileReq[r], k)

LogoKept ==
    logo \in retired => logo \in troubled \/ \E r \in Reqs : Replacing(fileReq[r], logo)

\* The inductive invariant.
FilesInv ==
    /\ FileTables
    /\ fileReq = [r \in Reqs |-> fileReq[r]]
    /\ \A r \in Reqs :
         /\ FileRequest(fileReq[r], objects, files, drawn, troubled, retired, logo)
         /\ \A p \in Reqs \ {r} : KeysApart(fileReq[r], fileReq[p])
    /\ Explained /\ LogoKept

-----------------------------------------------------------------------------

\* It contains the types and the property.
LEMMA FilesTyped == FilesInv => FSTypeOK
<1> SUFFICES ASSUME FilesInv PROVE FSTypeOK
  OBVIOUS
<1>1. docKeys \in [DOMAIN docKeys -> drawn] /\ DOMAIN docKeys \in SUBSET Docs
  BY DEF FilesInv, FileTables
<1>2. docKeys \in Table(Docs, drawn)
  BY <1>1 DEF Table
<1>3. ASSUME NEW r \in Reqs
      PROVE  fileReq[r] \in
               [pc : {"idle", "store", "insert", "sign", "cleanup", "deleteObject",
                      "deleteRow", "deleteDocument", "findFile", "readSettings",
                      "removeOld", "writeSettings"},
                left : 0 .. MaxBatch, keys : SUBSET drawn, key : drawn \cup {Null},
                for : {"answer", "logo", "clear"}, doc : Docs \cup {Null}]
  <2>1. PICK q : q = fileReq[r]
    OBVIOUS
  <2>2. FileRequest(q, objects, files, drawn, troubled, retired, logo)
    BY <2>1 DEF FilesInv
  <2> QED
    BY <2>1, <2>2 DEF FileRequest, SettingsPcs, DeletePcs
<1>4. fileReq \in [Reqs ->
               [pc : {"idle", "store", "insert", "sign", "cleanup", "deleteObject",
                      "deleteRow", "deleteDocument", "findFile", "readSettings",
                      "removeOld", "writeSettings"},
                left : 0 .. MaxBatch, keys : SUBSET drawn, key : drawn \cup {Null},
                for : {"answer", "logo", "clear"}, doc : Docs \cup {Null}]]
  BY <1>3 DEF FilesInv
<1> QED
  BY <1>2, <1>4 DEF FilesInv, FileTables, FSTypeOK

\* Explained keys are those the property excepts.
LEMMA StoresAgreeOf == FilesInv => StoresAgree
<1> SUFFICES ASSUME FilesInv PROVE StoresAgree
  OBVIOUS
<1>1. ASSUME NEW k, ~InHand(k), NEW r \in Reqs PROVE ~Between(fileReq[r], k)
  BY <1>1 DEF InHand, Between
<1>2. ASSUME NEW k \in ObjectKeys \ (troubled \cup retired), ~InHand(k)
      PROVE  k \in files <=> k \in objects
  BY <1>1, <1>2 DEF FilesInv, Explained
<1>3. ASSUME logo \in files \ troubled, ~InHand(logo) PROVE logo \in objects
  <2>1. logo \notin retired
    BY <1>3 DEF FilesInv, LogoKept, Replacing, InHand
  <2>2. logo \in ObjectKeys
    BY <1>3 DEF FilesInv, FileTables
  <2> QED
    BY <1>2, <1>3, <2>1, <2>2
<1> QED
  BY <1>2, <1>3 DEF StoresAgree

LEMMA FilesInvInit == FSInit => FilesInv
<1> SUFFICES ASSUME FSInit PROVE FilesInv
  OBVIOUS
<1>1. /\ objects = {} /\ files = {} /\ docKeys = NoRows /\ logo = Null
      /\ fileReq = [r \in Reqs |-> FileIdle]
      /\ drawn = {} /\ troubled = {} /\ retired = {}
  BY DEF FSInit
<1>2. DOMAIN docKeys = {} /\ docKeys = [d \in DOMAIN docKeys |-> docKeys[d]]
  BY <1>1 DEF NoRows
<1>3. FileTables
  BY <1>1, <1>2 DEF FileTables
<1>4. FileIdle = [pc |-> "idle", left |-> 0, keys |-> {}, key |-> Null,
                  for |-> "answer", doc |-> Null]
  BY DEF FileIdle
<1>5. FileRequest(FileIdle, {}, {}, {}, {}, {}, Null)
  BY <1>4, FilesAssumption DEF FileRequest, SettingsPcs, DeletePcs
<1>6. KeysApart(FileIdle, FileIdle)
  BY <1>4 DEF KeysApart, DeletePcs
<1>7. Explained /\ LogoKept
  BY <1>1 DEF Explained, LogoKept
<1>8. \A r \in Reqs : fileReq[r] = FileIdle
  BY <1>1
<1>9. \A r \in Reqs : FileRequest(fileReq[r], objects, files, drawn, troubled, retired, logo)
  BY <1>1, <1>5, <1>8
<1>10. fileReq = [r \in Reqs |-> fileReq[r]]
  BY <1>1
<1> QED
  BY <1>3, <1>6, <1>7, <1>8, <1>9, <1>10 DEF FilesInv

\* A step of one request: what it knows holds, the others know nothing less, no
\* key it takes in hand is another's, and a key that it leaves in only one of
\* the bucket and the table was another's already.
LEMMA FileStep ==
  ASSUME FilesInv, NEW r \in Reqs, NEW q, FileGoto(r, q), FileTables',
         FileRequest(q, objects', files', drawn', troubled', retired', logo'),
         \A p \in Reqs \ {r} :
           /\ FileRequest(fileReq[p], objects', files', drawn', troubled', retired', logo')
           /\ KeysApart(q, fileReq[p]) /\ KeysApart(fileReq[p], q),
         \A k \in ObjectKeys \ (troubled' \cup retired') :
           \/ k \in files' <=> k \in objects'
           \/ Between(q, k)
           \/ /\ k \notin troubled \cup retired
              /\ ~(k \in files <=> k \in objects) /\ ~Between(fileReq[r], k),
         logo' \in retired' =>
           \/ logo' \in troubled' \/ Replacing(q, logo')
           \/ /\ logo' = logo /\ logo \in retired /\ logo \notin troubled
              /\ ~Replacing(fileReq[r], logo)
  PROVE  FilesInv'
<1>1. fileReq' = [p \in Reqs |-> IF p = r THEN q ELSE fileReq[p]]
  BY DEF FilesInv, FileGoto, Step
<1>2. fileReq' = [p \in Reqs |-> fileReq'[p]] /\ fileReq'[r] = q
  BY <1>1
<1>3. \A p \in Reqs \ {r} : fileReq'[p] = fileReq[p]
  BY <1>1
<1>4. \A p \in Reqs :
        FileRequest(fileReq'[p], objects', files', drawn', troubled', retired', logo')
  BY <1>2, <1>3
<1>5. ASSUME NEW p \in Reqs, NEW o \in Reqs \ {p} PROVE KeysApart(fileReq'[p], fileReq'[o])
  <2>1. CASE p = r
    BY <1>2, <1>3, <2>1
  <2>2. CASE p # r /\ o = r
    BY <1>2, <1>3, <2>2
  <2>3. CASE p # r /\ o # r
    BY <1>3, <2>3 DEF FilesInv
  <2> QED
    BY <2>1, <2>2, <2>3
<1>6. ASSUME NEW k \in ObjectKeys \ (troubled' \cup retired')
      PROVE  (k \in files' <=> k \in objects') \/ \E p \in Reqs : Between(fileReq'[p], k)
  <2>1. CASE (k \in files' <=> k \in objects') \/ Between(q, k)
    BY <1>2, <2>1
  <2>2. CASE /\ k \notin troubled \cup retired
             /\ ~(k \in files <=> k \in objects) /\ ~Between(fileReq[r], k)
    <3>1. PICK p \in Reqs : Between(fileReq[p], k)
      BY <2>2 DEF FilesInv, Explained
    <3>2. p # r
      BY <2>2, <3>1
    <3> QED
      BY <1>3, <3>1, <3>2
  <2> QED
    BY <2>1, <2>2
<1>7. Explained'
  BY <1>6 DEF Explained
<1>8. LogoKept'
  <2> SUFFICES ASSUME logo' \in retired'
               PROVE  logo' \in troubled' \/ \E p \in Reqs : Replacing(fileReq'[p], logo')
    BY DEF LogoKept
  <2>1. CASE logo' \in troubled' \/ Replacing(q, logo')
    BY <1>2, <2>1
  <2>2. CASE /\ logo' = logo /\ logo \in retired /\ logo \notin troubled
             /\ ~Replacing(fileReq[r], logo)
    <3>1. PICK p \in Reqs : Replacing(fileReq[p], logo)
      BY <2>2 DEF FilesInv, LogoKept
    <3>2. p # r
      BY <2>2, <3>1
    <3> QED
      BY <1>3, <2>2, <3>1, <3>2
  <2> QED
    BY <2>1, <2>2
<1> QED
  BY <1>2, <1>4, <1>5, <1>7, <1>8 DEF FilesInv

\* What another knows is left when r's keys come and go.
LEMMA OthersKnow ==
  ASSUME NEW p, NEW ob, NEW fl, NEW dr, NEW tr, NEW re, NEW lg,
         NEW ob2, NEW fl2, NEW dr2, NEW tr2, NEW re2, NEW lg2, NEW k,
         FileRequest(p, ob, fl, dr, tr, re, lg),
         ob2 \cap dr \subseteq ob, fl2 \subseteq fl \cup {k}, re2 \subseteq re \cup {k},
         p.pc = "insert" => p.key \in ob2 \ fl2,
         k \notin p.keys \/ re2 \subseteq re,
         dr \subseteq dr2, tr \subseteq tr2, lg2 \notin p.keys
  PROVE  FileRequest(p, ob2, fl2, dr2, tr2, re2, lg2)
BY DEF FileRequest, SettingsPcs, DeletePcs

\* A step that moves a request on and leaves the keys to whom they are.
LEMMA QuietFileStep ==
  ASSUME FilesInv, NEW r \in Reqs, NEW q, FileGoto(r, q),
         UNCHANGED <<objects, files, logo, drawn, retired>>, FileTables', troubled \subseteq troubled',
         FileRequest(q, objects, files, drawn, troubled', retired, logo),
         q.keys \subseteq fileReq[r].keys,
         q.pc = "insert" => fileReq[r].pc = "insert" /\ q.key = fileReq[r].key,
         q.pc \in DeletePcs => q.key \in files,
         q.pc \in {"removeOld", "writeSettings"} =>
           \/ fileReq[r].pc \in {"removeOld", "writeSettings"} /\ q.key = fileReq[r].key
           \/ q.key = logo,
         \A k : Between(fileReq[r], k) => k \in troubled',
         \A k \in drawn : Replacing(fileReq[r], k) => k \in troubled'
  PROVE  FilesInv'
<1>1. UNCHANGED <<objects, files, logo, drawn, retired>>
  OBVIOUS
<1>3. ASSUME NEW p \in Reqs \ {r}
      PROVE  /\ FileRequest(fileReq[p], objects', files', drawn', troubled', retired', logo')
             /\ KeysApart(q, fileReq[p]) /\ KeysApart(fileReq[p], q)
  <2>1. PICK o, s : o = fileReq[p] /\ s = fileReq[r]
    OBVIOUS
  <2>2. /\ FileRequest(o, objects, files, drawn, troubled, retired, logo)
        /\ KeysApart(s, o) /\ KeysApart(o, s)
    BY <2>1 DEF FilesInv
  <2>3. FileRequest(o, objects, files, drawn, troubled', retired, logo)
    BY <2>2 DEF FileRequest
  <2>4. KeysApart(q, o)
    BY <2>1, <2>2 DEF KeysApart
  <2>5. KeysApart(o, q)
    <3>1. o.keys \cap q.keys = {}
      BY <2>1, <2>2 DEF KeysApart
    <3>2. o.pc = "insert" /\ q.pc \in DeletePcs => q.key # o.key
      BY <2>2 DEF FileRequest
    <3>3. q.pc \in {"removeOld", "writeSettings"} => q.key \notin o.keys
      BY <2>1, <2>2 DEF FileRequest, KeysApart
    <3> QED
      BY <3>1, <3>2, <3>3 DEF KeysApart
  <2> QED
    BY <1>1, <2>1, <2>3, <2>4, <2>5
<1>4. \A k \in ObjectKeys \ (troubled' \cup retired') :
        \/ k \in files' <=> k \in objects'
        \/ /\ k \notin troubled \cup retired
           /\ ~(k \in files <=> k \in objects) /\ ~Between(fileReq[r], k)
  BY <1>1
<1>5. logo' \in retired' =>
        \/ logo' \in troubled'
        \/ /\ logo' = logo /\ logo \in retired /\ logo \notin troubled
           /\ ~Replacing(fileReq[r], logo)
  BY <1>1 DEF FilesInv, FileTables
<1>6. FileRequest(q, objects', files', drawn', troubled', retired', logo')
  BY <1>1
<1> QED
  BY <1>3, <1>4, <1>5, <1>6, FileStep

\* An idle request has nothing in hand.
LEMMA IdleFile ==
  FilesInv =>
    /\ FileIdle = [pc |-> "idle", left |-> 0, keys |-> {}, key |-> Null,
                   for |-> "answer", doc |-> Null]
    /\ FileRequest(FileIdle, objects, files, drawn, troubled, retired, logo)
BY FilesAssumption DEF FileIdle, FileRequest, SettingsPcs, DeletePcs

\* A request is begun, with the keys of none or that of a file.
LEMMA FileStartStep ==
  ASSUME FilesInv, NEW r \in Reqs, NEW q, FileStart(r, q),
         FileRequest(q, objects, files, drawn, troubled, retired, logo),
         q.keys = {}, q.pc \in {"store", "deleteObject", "deleteDocument", "readSettings"},
         q.pc = "deleteObject" => q.key \in files
  PROVE  FilesInv'
<1>1. /\ fileReq[r] = FileIdle /\ FileGoto(r, q)
      /\ UNCHANGED <<fsTables, drawn, troubled, retired>>
  BY DEF FileStart
<1>2. fileReq[r].pc = "idle"
  BY <1>1 DEF FileIdle
<1>3. FileTables'
  BY <1>1 DEF FilesInv, FileTables, fsTables
<1>4. UNCHANGED <<objects, files, logo, drawn, retired, troubled>>
  BY <1>1 DEF fsTables
<1>5. \A k : ~Between(fileReq[r], k) /\ ~Replacing(fileReq[r], k)
  BY <1>2 DEF Between, Replacing
<1>6. FileRequest(q, objects, files, drawn, troubled', retired, logo)
  BY <1>4
<1> QED
  BY <1>1, <1>3, <1>4, <1>5, <1>6, QuietFileStep DEF DeletePcs

\* Requests begin with keys that nobody has in hand.
LEMMA StartingStep ==
  ASSUME FilesInv, NEW r \in Reqs,
         \/ \E n \in 1 .. MaxBatch : Upload(r, n)
         \/ UploadLogo(r)
         \/ \E k \in ObjectKeys :
              DeleteFile(r, k) \/ \E isUrl \in BOOLEAN : DeleteFileByUrl(r, k, isUrl)
         \/ \E d \in Docs : FindDocument(r, d)
         \/ ClearLogo(r)
  PROVE  FilesInv'
<1>1. /\ FileIdle = [pc |-> "idle", left |-> 0, keys |-> {}, key |-> Null,
                     for |-> "answer", doc |-> Null]
      /\ FileTables
  BY IdleFile DEF FilesInv
<1>2. ASSUME NEW n \in 1 .. MaxBatch, NEW f \in {"answer", "logo"}, NEW q, FileStart(r, q),
             q = [pc |-> "store", left |-> n, keys |-> {}, key |-> Null,
                  for |-> f, doc |-> Null]
      PROVE  FilesInv'
  <2>1. FileRequest(q, objects, files, drawn, troubled, retired, logo)
    BY <1>2, FilesAssumption DEF FileRequest, SettingsPcs, DeletePcs
  <2> QED
    BY <1>2, <2>1, FileStartStep
<1>3. ASSUME NEW n \in 1 .. MaxBatch, Upload(r, n) PROVE FilesInv'
  <2>1. PICK q : q = [FileIdle EXCEPT !.pc = "store", !.left = n]
    OBVIOUS
  <2>2. FileStart(r, q)
    BY <1>3, <2>1 DEF Upload
  <2>3. q = [pc |-> "store", left |-> n, keys |-> {}, key |-> Null,
             for |-> "answer", doc |-> Null]
    BY <1>1, <2>1
  <2> QED
    BY <1>2, <2>2, <2>3
<1>4. CASE UploadLogo(r)
  <2>1. PICK q : q = [FileIdle EXCEPT !.pc = "store", !.left = 1, !.for = "logo"]
    OBVIOUS
  <2>2. FileStart(r, q)
    BY <1>4, <2>1 DEF UploadLogo
  <2>3. q = [pc |-> "store", left |-> 1, keys |-> {}, key |-> Null,
             for |-> "logo", doc |-> Null]
    BY <1>1, <2>1
  <2>4. 1 \in 1 .. MaxBatch
    BY FilesAssumption
  <2> QED
    BY <1>2, <2>2, <2>3, <2>4
<1>5. ASSUME NEW k \in files, FileStart(r, Deleting(FileIdle, k)) PROVE FilesInv'
  <2>1. PICK q : q = Deleting(FileIdle, k)
    OBVIOUS
  <2>2. q = [pc |-> "deleteObject", left |-> 0, keys |-> {}, key |-> k,
             for |-> "answer", doc |-> Null]
    BY <1>1, <2>1 DEF Deleting
  <2>3. FileRequest(q, objects, files, drawn, troubled, retired, logo)
    BY <1>1, <2>2, FilesAssumption DEF FileRequest, SettingsPcs, DeletePcs, FileTables
  <2> QED
    BY <1>5, <2>1, <2>2, <2>3, FileStartStep
<1>6. ASSUME NEW k \in ObjectKeys, DeleteFile(r, k) PROVE FilesInv'
  BY <1>5, <1>6 DEF DeleteFile
<1>7. ASSUME NEW k \in ObjectKeys, NEW isUrl \in BOOLEAN, DeleteFileByUrl(r, k, isUrl)
      PROVE  FilesInv'
  <2>1. KeyOf(k, isUrl) \in files /\ FileStart(r, Deleting(FileIdle, k))
    BY <1>7 DEF DeleteFileByUrl
  <2>2. k \in files
    BY <1>1, <2>1, FilesAssumption DEF KeyOf, FileTables
  <2> QED
    BY <1>5, <2>1, <2>2
<1>8. ASSUME NEW d \in Docs, FindDocument(r, d) PROVE FilesInv'
  <2>1. PICK q : q = [FileIdle EXCEPT !.pc = "deleteDocument", !.doc = d, !.key = docKeys[d]]
    OBVIOUS
  <2>2. d \in DOMAIN docKeys /\ FileStart(r, q)
    BY <1>8, <2>1 DEF FindDocument
  <2>3. q = [pc |-> "deleteDocument", left |-> 0, keys |-> {}, key |-> docKeys[d],
             for |-> "answer", doc |-> d] /\ docKeys[d] \in drawn
    BY <1>1, <2>1, <2>2 DEF FileTables
  <2>4. FileRequest(q, objects, files, drawn, troubled, retired, logo)
    BY <2>3, FilesAssumption DEF FileRequest, SettingsPcs, DeletePcs
  <2> QED
    BY <2>2, <2>3, <2>4, FileStartStep
<1>9. CASE ClearLogo(r)
  <2>1. PICK q : q = [FileIdle EXCEPT !.pc = "readSettings", !.for = "clear"]
    OBVIOUS
  <2>2. FileStart(r, q)
    BY <1>9, <2>1 DEF ClearLogo
  <2>3. q = [pc |-> "readSettings", left |-> 0, keys |-> {}, key |-> Null,
             for |-> "clear", doc |-> Null]
    BY <1>1, <2>1
  <2>4. FileRequest(q, objects, files, drawn, troubled, retired, logo)
    BY <2>3, FilesAssumption DEF FileRequest, SettingsPcs, DeletePcs
  <2> QED
    BY <2>2, <2>3, <2>4, FileStartStep
<1> QED
  BY <1>3, <1>4, <1>6, <1>7, <1>8, <1>9

\* Between its two writes a request has the key in hand.
LEMMA SignStep == ASSUME FilesInv, NEW r \in Reqs, Sign(r) PROVE FilesInv'
<1>1. PICK q : q = fileReq[r]
  OBVIOUS
<1>2. /\ q.pc = "sign" /\ UNCHANGED <<fsTables, drawn, troubled, retired>>
      /\ FileRequest(q, objects, files, drawn, troubled, retired, logo)
  BY <1>1 DEF FilesInv, Sign, FileAt
<1>3. PICK n : n = IF q.left > 1
                   THEN [q EXCEPT !.pc = "store", !.left = q.left - 1, !.key = Null]
                   ELSE IF q.for = "logo" THEN [q EXCEPT !.pc = "readSettings", !.left = 0]
                   ELSE FileIdle
  OBVIOUS
<1>4. FileGoto(r, n)
  BY <1>1, <1>3 DEF Sign
<1>5. UNCHANGED <<objects, files, docKeys, logo, drawn, troubled, retired>>
  BY <1>2 DEF fsTables
<1>6. FileTables'
  BY <1>5 DEF FilesInv, FileTables
<1>7. FileRequest(n, objects, files, drawn, troubled', retired, logo) /\ n.keys \subseteq q.keys
      /\ n.pc \in {"store", "readSettings", "idle"}
  <2>1. CASE q.left > 1
    <3>1. n = [pc |-> "store", left |-> q.left - 1, keys |-> q.keys, key |-> Null,
               for |-> q.for, doc |-> q.doc]
      BY <1>2, <1>3, <2>1 DEF FileRequest
    <3>2. q.left - 1 \in 0 .. MaxBatch
      BY <1>2, <2>1, FilesAssumption DEF FileRequest
    <3> QED
      BY <1>2, <1>5, <3>1, <3>2 DEF FileRequest, SettingsPcs, DeletePcs
  <2>2. CASE ~(q.left > 1) /\ q.for = "logo"
    <3>1. n = [pc |-> "readSettings", left |-> 0, keys |-> q.keys, key |-> q.key,
               for |-> "logo", doc |-> q.doc]
      BY <1>2, <1>3, <2>2 DEF FileRequest
    <3> QED
      BY <1>2, <1>5, <3>1, FilesAssumption DEF FileRequest, SettingsPcs, DeletePcs
  <2>3. CASE ~(q.left > 1) /\ q.for # "logo"
    <3>1. n = FileIdle
      BY <1>3, <2>3
    <3> QED
      BY <1>5, <3>1, IdleFile
  <2> QED
    BY <2>1, <2>2, <2>3
<1>8. \A k : ~Between(fileReq[r], k) /\ ~Replacing(fileReq[r], k)
  BY <1>1, <1>2 DEF Between, Replacing
<1> QED
  BY <1>1, <1>4, <1>5, <1>6, <1>7, <1>8, QuietFileStep DEF DeletePcs

LEMMA FailUploadStep == ASSUME FilesInv, NEW r \in Reqs, FailUpload(r) PROVE FilesInv'
<1>1. PICK q : q = fileReq[r]
  OBVIOUS
<1>2. PICK n : n = IF q.keys = {} THEN FileIdle ELSE [q EXCEPT !.pc = "cleanup", !.key = Null]
  OBVIOUS
<1>3. /\ q.pc \in {"store", "insert", "sign"} /\ troubled' = troubled \cup q.keys
      /\ FileGoto(r, n) /\ UNCHANGED <<fsTables, drawn, retired>>
      /\ FileRequest(q, objects, files, drawn, troubled, retired, logo)
  BY <1>1, <1>2 DEF FilesInv, FailUpload
<1>4. UNCHANGED <<objects, files, docKeys, logo, drawn, retired>>
  BY <1>3 DEF fsTables
<1>5. FileTables'
  BY <1>3, <1>4 DEF FilesInv, FileTables, FileRequest
<1>6. /\ FileRequest(n, objects, files, drawn, troubled', retired, logo)
      /\ n.keys \subseteq q.keys /\ n.pc \in {"idle", "cleanup"}
  <2>1. CASE q.keys = {}
    <3>1. troubled' = troubled
      BY <1>3, <2>1
    <3> QED
      BY <1>2, <2>1, <3>1, IdleFile
  <2>2. CASE q.keys # {}
    <3>1. n = [pc |-> "cleanup", left |-> q.left, keys |-> q.keys, key |-> Null,
               for |-> q.for, doc |-> q.doc]
      BY <1>2, <1>3, <2>2 DEF FileRequest
    <3> QED
      BY <1>3, <3>1 DEF FileRequest, SettingsPcs, DeletePcs
  <2> QED
    BY <2>1, <2>2
<1>7. \A k : Between(fileReq[r], k) => k \in troubled'
  BY <1>1, <1>3 DEF Between, FileRequest
<1>8. \A k : ~Replacing(fileReq[r], k)
  BY <1>1, <1>3 DEF Replacing
<1>9. troubled \subseteq troubled'
  BY <1>3
<1> QED
  BY <1>1, <1>3, <1>4, <1>5, <1>6, <1>7, <1>8, <1>9, QuietFileStep DEF DeletePcs

LEMMA FindFileStep == ASSUME FilesInv, NEW r \in Reqs, FindFile(r) PROVE FilesInv'
<1>1. PICK q : q = fileReq[r]
  OBVIOUS
<1>2. PICK m : m = Deleting(q, q.key)
  OBVIOUS
<1>3. PICK n : n = IF q.key \in files THEN m ELSE FileIdle
  OBVIOUS
<1>4. /\ q.pc = "findFile" /\ FileGoto(r, n)
      /\ UNCHANGED <<fsTables, drawn, troubled, retired>>
      /\ FileRequest(q, objects, files, drawn, troubled, retired, logo)
  BY <1>1, <1>2, <1>3 DEF FilesInv, FindFile, FileAt
<1>5. UNCHANGED <<objects, files, docKeys, logo, drawn, troubled, retired>>
  BY <1>4 DEF fsTables
<1>6. FileTables' /\ files \subseteq drawn
  BY <1>5 DEF FilesInv, FileTables
<1>7. m = [pc |-> "deleteObject", left |-> q.left, keys |-> q.keys, key |-> q.key,
           for |-> q.for, doc |-> q.doc]
  BY <1>2, <1>4 DEF FileRequest, Deleting
<1>8. q.key \in files => FileRequest(m, objects, files, drawn, troubled, retired, logo)
  BY <1>4, <1>6, <1>7 DEF FileRequest, SettingsPcs, DeletePcs
<1>9. /\ FileRequest(n, objects, files, drawn, troubled', retired, logo)
      /\ n.keys \subseteq q.keys /\ n.pc \in {"idle", "deleteObject"}
      /\ n.pc = "deleteObject" => n.key \in files
  BY <1>3, <1>5, <1>7, <1>8, IdleFile
<1>10. \A k : ~Between(fileReq[r], k) /\ ~Replacing(fileReq[r], k)
  BY <1>1, <1>4 DEF Between, Replacing
<1> QED
  BY <1>1, <1>4, <1>5, <1>6, <1>9, <1>10, QuietFileStep DEF DeletePcs

LEMMA DeleteDocumentStep ==
  ASSUME FilesInv, NEW r \in Reqs, DeleteDocument(r)
  PROVE  FilesInv'
<1>1. PICK q : q = fileReq[r]
  OBVIOUS
<1>2. PICK m : m = [q EXCEPT !.pc = "findFile"]
  OBVIOUS
<1>3. /\ q.pc = "deleteDocument" /\ docKeys' = Without(docKeys, {q.doc})
      /\ FileGoto(r, m) \/ FileGoto(r, FileIdle)
      /\ UNCHANGED <<objects, files, logo, drawn, troubled, retired>>
      /\ FileRequest(q, objects, files, drawn, troubled, retired, logo)
  BY <1>1, <1>2 DEF FilesInv, DeleteDocument, FileAt, FileAwait
<1>4. FileTables'
  BY <1>3 DEF FilesInv, FileTables, Without
<1>5. m = [pc |-> "findFile", left |-> q.left, keys |-> q.keys, key |-> q.key,
           for |-> q.for, doc |-> q.doc]
  BY <1>2, <1>3 DEF FileRequest
<1>6. FileRequest(m, objects, files, drawn, troubled, retired, logo)
  BY <1>3, <1>5 DEF FileRequest, SettingsPcs, DeletePcs
<1>7. PICK n : /\ FileGoto(r, n) /\ n.pc \in {"findFile", "idle"} /\ n.keys \subseteq q.keys
               /\ FileRequest(n, objects, files, drawn, troubled', retired, logo)
  BY <1>3, <1>5, <1>6, IdleFile
<1>8. \A k : ~Between(fileReq[r], k) /\ ~Replacing(fileReq[r], k)
  BY <1>1, <1>3 DEF Between, Replacing
<1> QED
  BY <1>1, <1>3, <1>4, <1>7, <1>8, QuietFileStep DEF DeletePcs

LEMMA ReadSettingsStep == ASSUME FilesInv, NEW r \in Reqs, ReadSettings(r) PROVE FilesInv'
<1>1. PICK q : q = fileReq[r]
  OBVIOUS
<1>2. PICK n : n = [q EXCEPT !.key = logo,
                             !.pc = IF logo = Null THEN "writeSettings" ELSE "removeOld"]
  OBVIOUS
<1>3. /\ q.pc = "readSettings" /\ FileGoto(r, n)
      /\ UNCHANGED <<fsTables, drawn, troubled, retired>>
      /\ FileRequest(q, objects, files, drawn, troubled, retired, logo)
  BY <1>1, <1>2 DEF FilesInv, ReadSettings, FileAt
<1>4. UNCHANGED <<objects, files, docKeys, logo, drawn, troubled, retired>>
  BY <1>3 DEF fsTables
<1>5. FileTables' /\ logo \in drawn \cup {Null}
  BY <1>4 DEF FilesInv, FileTables
<1>6. PICK pc \in {"writeSettings", "removeOld"} :
        pc = IF logo = Null THEN "writeSettings" ELSE "removeOld"
  OBVIOUS
<1>7. n = [pc |-> pc, left |-> q.left, keys |-> q.keys, key |-> logo,
           for |-> q.for, doc |-> q.doc]
  BY <1>2, <1>3, <1>6 DEF FileRequest
<1>8. FileRequest(n, objects, files, drawn, troubled', retired, logo)
  BY <1>3, <1>4, <1>5, <1>6, <1>7 DEF FileRequest, SettingsPcs, DeletePcs
<1>9. \A k : ~Between(fileReq[r], k) /\ ~Replacing(fileReq[r], k)
  BY <1>1, <1>3 DEF Between, Replacing
<1> QED
  BY <1>1, <1>3, <1>4, <1>5, <1>6, <1>7, <1>8, <1>9, QuietFileStep DEF DeletePcs

LEMMA FileRejectStep == ASSUME FilesInv, NEW r \in Reqs, FileReject(r) PROVE FilesInv'
<1>1. PICK q : q = fileReq[r]
  OBVIOUS
<1>2. PICK n : n = FileIdle
  OBVIOUS
<1>3. /\ q.pc \in {"deleteObject", "deleteRow", "deleteDocument", "findFile",
                   "readSettings", "writeSettings"}
      /\ troubled' = troubled \cup q.keys \cup ({q.key} \ {Null})
      /\ FileGoto(r, n) /\ UNCHANGED <<fsTables, drawn, retired>>
      /\ FileRequest(q, objects, files, drawn, troubled, retired, logo)
  BY <1>1, <1>2 DEF FilesInv, FileReject
<1>4. UNCHANGED <<objects, files, docKeys, logo, drawn, retired>>
  BY <1>3 DEF fsTables
<1>5. FileTables' /\ retired \subseteq drawn /\ drawn \subseteq ObjectKeys
  BY <1>3, <1>4 DEF FilesInv, FileTables, FileRequest
<1>6. FileRequest(n, objects, files, drawn, troubled', retired, logo)
      /\ n.keys = {} /\ n.pc = "idle"
  BY <1>2, FilesAssumption DEF FileIdle, FileRequest, SettingsPcs, DeletePcs
<1>7. \A k : Between(fileReq[r], k) => k \in troubled'
  BY <1>1, <1>3, <1>5, FilesAssumption DEF Between, FileRequest, DeletePcs
<1>8. troubled \subseteq troubled'
  BY <1>3
<1>9. ASSUME NEW k \in drawn, Replacing(fileReq[r], k) PROVE k \in troubled'
  BY <1>1, <1>3, <1>5, <1>9, FilesAssumption DEF Replacing
<1>10. n.keys \subseteq q.keys
  BY <1>6
<1> QED
  BY <1>1, <1>3, <1>4, <1>5, <1>6, <1>7, <1>8, <1>9, <1>10, QuietFileStep DEF DeletePcs

LEMMA AttachStep ==
  ASSUME FilesInv, NEW d \in Docs, NEW k \in ObjectKeys, AttachDocument(d, k)
  PROVE  FilesInv'
<1>1. /\ k \in drawn /\ docKeys' = With(docKeys, d, k)
      /\ UNCHANGED <<objects, files, logo, fileReq, drawn, troubled, retired>>
  BY DEF AttachDocument
<1>2. FileTables'
  BY <1>1 DEF FilesInv, FileTables, With
<1> QED
  BY <1>1, <1>2 DEF FilesInv, Explained, LogoKept


\* The writes to bucket and table, each of which leaves the key with the
\* request or nobody.
LEMMA StoreObjectStep == ASSUME FilesInv, NEW r \in Reqs, StoreObject(r) PROVE FilesInv'
<1>1. PICK q : q = fileReq[r]
  OBVIOUS
<1>2. PICK k \in ObjectKeys \ drawn :
        /\ objects' = objects \cup {k} /\ drawn' = drawn \cup {k}
        /\ FileGoto(r, [q EXCEPT !.pc = "insert", !.key = k, !.keys = @ \cup {k}])
  BY <1>1 DEF StoreObject
<1>3. PICK n : n = [q EXCEPT !.pc = "insert", !.key = k, !.keys = @ \cup {k}]
  OBVIOUS
<1>4. /\ FileGoto(r, n) /\ k \in ObjectKeys \ drawn /\ q.pc = "store"
      /\ objects' = objects \cup {k} /\ drawn' = drawn \cup {k}
      /\ UNCHANGED <<files, docKeys, logo, troubled, retired>>
      /\ FileRequest(q, objects, files, drawn, troubled, retired, logo)
  BY <1>1, <1>2, <1>3 DEF FilesInv, StoreObject, FileAt
<1>5. FileTables
  BY DEF FilesInv
<1>6. FileTables'
  BY <1>4, <1>5 DEF FileTables
<1>7. n = [pc |-> "insert", left |-> q.left, keys |-> q.keys \cup {k}, key |-> k,
           for |-> q.for, doc |-> q.doc]
  BY <1>3, <1>4 DEF FileRequest
<1>8. k \notin files \cup retired \cup {logo} /\ k \in objects'
  BY <1>4, <1>5, FilesAssumption DEF FileTables
<1>9. FileRequest(n, objects', files', drawn', troubled', retired', logo')
  BY <1>4, <1>7, <1>8 DEF FileRequest, SettingsPcs, DeletePcs
<1>10. ASSUME NEW p \in Reqs \ {r}
       PROVE  /\ FileRequest(fileReq[p], objects', files', drawn', troubled', retired', logo')
              /\ KeysApart(n, fileReq[p]) /\ KeysApart(fileReq[p], n)
  <2>1. PICK o : o = fileReq[p]
    OBVIOUS
  <2>2. FileRequest(o, objects, files, drawn, troubled, retired, logo)
        /\ KeysApart(q, o) /\ KeysApart(o, q)
    BY <1>1, <2>1 DEF FilesInv
  <2>3. k \notin o.keys /\ k # o.key
    BY <1>4, <2>2, FilesAssumption DEF FileRequest
  <2>4. FileRequest(o, objects', files', drawn', troubled', retired', logo')
    BY <1>4, <2>2, <2>3 DEF FileRequest
  <2> QED
    BY <1>7, <2>1, <2>2, <2>3, <2>4 DEF KeysApart, DeletePcs
<1>11. ASSUME NEW c \in ObjectKeys \ (troubled' \cup retired')
       PROVE  \/ c \in files' <=> c \in objects'
              \/ Between(n, c)
              \/ /\ c \notin troubled \cup retired
                 /\ ~(c \in files <=> c \in objects) /\ ~Between(fileReq[r], c)
  BY <1>1, <1>4, <1>7 DEF Between
<1>12. logo' \in retired' =>
         \/ logo' \in troubled'
         \/ /\ logo' = logo /\ logo \in retired /\ logo \notin troubled
            /\ ~Replacing(fileReq[r], logo)
  BY <1>1, <1>4 DEF Replacing
<1> QED
  BY <1>4, <1>6, <1>9, <1>10, <1>11, <1>12, FileStep

LEMMA InsertFileStep == ASSUME FilesInv, NEW r \in Reqs, InsertFile(r) PROVE FilesInv'
<1>1. PICK q : q = fileReq[r]
  OBVIOUS
<1>2. PICK n : n = [q EXCEPT !.pc = "sign"]
  OBVIOUS
<1>3. /\ FileGoto(r, n) /\ q.pc = "insert" /\ files' = files \cup {q.key}
      /\ UNCHANGED <<objects, docKeys, logo, drawn, troubled, retired>>
      /\ FileRequest(q, objects, files, drawn, troubled, retired, logo)
  BY <1>1, <1>2 DEF FilesInv, InsertFile, FileAt, FileAwait
<1>4. q.key \in objects \ files /\ q.key \in q.keys /\ q.key \in drawn
  BY <1>3 DEF FileRequest
<1>5. FileTables'
  BY <1>3, <1>4 DEF FilesInv, FileTables
<1>6. n = [pc |-> "sign", left |-> q.left, keys |-> q.keys, key |-> q.key,
           for |-> q.for, doc |-> q.doc]
  BY <1>2, <1>3 DEF FileRequest
<1>7. FileRequest(n, objects', files', drawn', troubled', retired', logo')
  BY <1>3, <1>4, <1>6 DEF FileRequest, SettingsPcs, DeletePcs
<1>8. ASSUME NEW p \in Reqs \ {r}
      PROVE  /\ FileRequest(fileReq[p], objects', files', drawn', troubled', retired', logo')
             /\ KeysApart(n, fileReq[p]) /\ KeysApart(fileReq[p], n)
  <2>1. PICK o : o = fileReq[p]
    OBVIOUS
  <2>2. FileRequest(o, objects, files, drawn, troubled, retired, logo)
        /\ KeysApart(q, o) /\ KeysApart(o, q)
    BY <1>1, <2>1 DEF FilesInv
  <2>3. o.pc = "insert" => o.key \in objects \ files /\ o.key # q.key
    BY <1>4, <2>2 DEF FileRequest, KeysApart
  <2>4. FileRequest(o, objects', files', drawn', troubled', retired', logo')
    BY <1>3, <2>2, <2>3 DEF FileRequest
  <2> QED
    BY <1>6, <2>1, <2>2, <2>4 DEF KeysApart, DeletePcs
<1>9. ASSUME NEW c \in ObjectKeys \ (troubled' \cup retired')
      PROVE  \/ c \in files' <=> c \in objects'
             \/ /\ c \notin troubled \cup retired
                /\ ~(c \in files <=> c \in objects) /\ ~Between(fileReq[r], c)
  BY <1>1, <1>3, <1>4 DEF Between
<1>10. logo' \in retired' =>
         \/ logo' \in troubled'
         \/ /\ logo' = logo /\ logo \in retired /\ logo \notin troubled
            /\ ~Replacing(fileReq[r], logo)
  BY <1>1, <1>3 DEF Replacing
<1> QED
  BY <1>3, <1>5, <1>7, <1>8, <1>9, <1>10, FileStep

LEMMA CleanupStep == ASSUME FilesInv, NEW r \in Reqs, Cleanup(r) PROVE FilesInv'
<1>1. PICK q : q = fileReq[r]
  OBVIOUS
<1>2. PICK k \in q.keys :
        /\ objects' = objects \ {k} \/ objects' = objects
        /\ FileGoto(r, IF q.keys = {k} THEN FileIdle ELSE [q EXCEPT !.keys = @ \ {k}])
  BY <1>1 DEF Cleanup
<1>3. PICK m : m = [q EXCEPT !.keys = @ \ {k}]
  OBVIOUS
<1>4. PICK n : n = IF q.keys = {k} THEN FileIdle ELSE m
  OBVIOUS
<1>5. /\ FileGoto(r, n) /\ q.pc = "cleanup" /\ k \in q.keys
      /\ objects' = objects \ {k} \/ objects' = objects
      /\ UNCHANGED <<files, docKeys, logo, drawn, troubled, retired>>
      /\ FileRequest(q, objects, files, drawn, troubled, retired, logo)
  BY <1>1, <1>2, <1>3, <1>4 DEF FilesInv, Cleanup, FileAt
<1>6. FileTables' /\ k \in troubled
  BY <1>5 DEF FilesInv, FileTables, FileRequest
<1>7. m = [pc |-> "cleanup", left |-> q.left, keys |-> q.keys \ {k}, key |-> q.key,
           for |-> q.for, doc |-> q.doc]
  BY <1>3, <1>5 DEF FileRequest
<1>8. FileRequest(m, objects', files', drawn', troubled', retired', logo')
  BY <1>5, <1>7 DEF FileRequest, SettingsPcs, DeletePcs
<1>9. FileRequest(FileIdle, objects', files', drawn', troubled', retired', logo')
  BY FilesAssumption DEF FileIdle, FileRequest, SettingsPcs, DeletePcs
<1>10. /\ FileRequest(n, objects', files', drawn', troubled', retired', logo')
       /\ n.keys \subseteq q.keys /\ n.pc \in {"cleanup", "idle"}
  BY <1>4, <1>7, <1>8, <1>9 DEF FileIdle
<1>11. ASSUME NEW p \in Reqs \ {r}
       PROVE  /\ FileRequest(fileReq[p], objects', files', drawn', troubled', retired', logo')
              /\ KeysApart(n, fileReq[p]) /\ KeysApart(fileReq[p], n)
  <2>1. PICK o : o = fileReq[p]
    OBVIOUS
  <2>2. FileRequest(o, objects, files, drawn, troubled, retired, logo)
        /\ KeysApart(q, o) /\ KeysApart(o, q)
    BY <1>1, <2>1 DEF FilesInv
  <2>3. o.pc = "insert" => o.key \in objects \ files /\ o.key # k
    BY <1>5, <2>2 DEF FileRequest, KeysApart
  <2>4. FileRequest(o, objects', files', drawn', troubled', retired', logo')
    BY <1>5, <2>2, <2>3 DEF FileRequest
  <2> QED
    BY <1>10, <2>1, <2>2, <2>4 DEF KeysApart, DeletePcs
<1>12. ASSUME NEW c \in ObjectKeys \ (troubled' \cup retired')
       PROVE  \/ c \in files' <=> c \in objects'
              \/ /\ c \notin troubled \cup retired
                 /\ ~(c \in files <=> c \in objects) /\ ~Between(fileReq[r], c)
  BY <1>1, <1>5, <1>6 DEF Between
<1>13. logo' \in retired' =>
         \/ logo' \in troubled'
         \/ /\ logo' = logo /\ logo \in retired /\ logo \notin troubled
            /\ ~Replacing(fileReq[r], logo)
  BY <1>1, <1>5 DEF Replacing
<1> QED
  BY <1>5, <1>6, <1>10, <1>11, <1>12, <1>13, FileStep

LEMMA DeleteObjectStep == ASSUME FilesInv, NEW r \in Reqs, DeleteObject(r) PROVE FilesInv'
<1>1. PICK q : q = fileReq[r]
  OBVIOUS
<1>2. PICK n : n = [q EXCEPT !.pc = "deleteRow"]
  OBVIOUS
<1>3. /\ FileGoto(r, n) /\ q.pc = "deleteObject" /\ objects' = objects \ {q.key}
      /\ UNCHANGED <<files, docKeys, logo, drawn, troubled, retired>>
      /\ FileRequest(q, objects, files, drawn, troubled, retired, logo)
  BY <1>1, <1>2 DEF FilesInv, DeleteObject, FileAt, FileAwait
<1>4. FileTables'
  BY <1>3 DEF FilesInv, FileTables
<1>5. n = [pc |-> "deleteRow", left |-> q.left, keys |-> q.keys, key |-> q.key,
           for |-> q.for, doc |-> q.doc]
  BY <1>2, <1>3 DEF FileRequest
<1>6. FileRequest(n, objects', files', drawn', troubled', retired', logo')
  BY <1>3, <1>5 DEF FileRequest, SettingsPcs, DeletePcs
<1>7. ASSUME NEW p \in Reqs \ {r}
      PROVE  /\ FileRequest(fileReq[p], objects', files', drawn', troubled', retired', logo')
             /\ KeysApart(n, fileReq[p]) /\ KeysApart(fileReq[p], n)
  <2>1. PICK o : o = fileReq[p]
    OBVIOUS
  <2>2. FileRequest(o, objects, files, drawn, troubled, retired, logo)
        /\ KeysApart(q, o) /\ KeysApart(o, q)
    BY <1>1, <2>1 DEF FilesInv
  <2>3. o.pc = "insert" => o.key \in objects \ files /\ o.key # q.key
    BY <1>3, <2>2 DEF FileRequest, KeysApart, DeletePcs
  <2>4. FileRequest(o, objects', files', drawn', troubled', retired', logo')
    BY <1>3, <2>2, <2>3 DEF FileRequest
  <2> QED
    BY <1>5, <2>1, <2>2, <2>3, <2>4 DEF KeysApart, DeletePcs
<1>8. ASSUME NEW c \in ObjectKeys \ (troubled' \cup retired')
      PROVE  \/ c \in files' <=> c \in objects'
             \/ Between(n, c)
             \/ /\ c \notin troubled \cup retired
                /\ ~(c \in files <=> c \in objects) /\ ~Between(fileReq[r], c)
  BY <1>1, <1>3, <1>5 DEF Between
<1>9. logo' \in retired' =>
        \/ logo' \in troubled'
        \/ /\ logo' = logo /\ logo \in retired /\ logo \notin troubled
           /\ ~Replacing(fileReq[r], logo)
  BY <1>1, <1>3 DEF Replacing
<1> QED
  BY <1>3, <1>4, <1>6, <1>7, <1>8, <1>9, FileStep

LEMMA DeleteRowStep == ASSUME FilesInv, NEW r \in Reqs, DeleteRow(r) PROVE FilesInv'
<1>1. PICK q : q = fileReq[r]
  OBVIOUS
<1>2. PICK n : n = FileIdle
  OBVIOUS
<1>3. /\ FileGoto(r, n) /\ q.pc = "deleteRow" /\ files' = files \ {q.key}
      /\ UNCHANGED <<objects, docKeys, logo, drawn, troubled, retired>>
      /\ FileRequest(q, objects, files, drawn, troubled, retired, logo)
  BY <1>1, <1>2 DEF FilesInv, DeleteRow, FileAt, AfterObject
<1>4. FileTables' /\ q.key \notin objects
  BY <1>3 DEF FilesInv, FileTables, FileRequest
<1>5. /\ FileRequest(n, objects', files', drawn', troubled', retired', logo')
      /\ n.keys = {} /\ n.pc = "idle"
  BY <1>2, FilesAssumption DEF FileIdle, FileRequest, SettingsPcs, DeletePcs
<1>6. ASSUME NEW p \in Reqs \ {r}
      PROVE  /\ FileRequest(fileReq[p], objects', files', drawn', troubled', retired', logo')
             /\ KeysApart(n, fileReq[p]) /\ KeysApart(fileReq[p], n)
  <2>1. PICK o : o = fileReq[p]
    OBVIOUS
  <2>2. FileRequest(o, objects, files, drawn, troubled, retired, logo)
    BY <2>1 DEF FilesInv
  <2>3. FileRequest(o, objects', files', drawn', troubled', retired', logo')
    BY <1>3, <2>2 DEF FileRequest
  <2> QED
    BY <1>5, <2>1, <2>3 DEF KeysApart, DeletePcs
<1>7. ASSUME NEW c \in ObjectKeys \ (troubled' \cup retired')
      PROVE  \/ c \in files' <=> c \in objects'
             \/ /\ c \notin troubled \cup retired
                /\ ~(c \in files <=> c \in objects) /\ ~Between(fileReq[r], c)
  BY <1>1, <1>3, <1>4 DEF Between
<1>8. logo' \in retired' =>
        \/ logo' \in troubled'
        \/ /\ logo' = logo /\ logo \in retired /\ logo \notin troubled
           /\ ~Replacing(fileReq[r], logo)
  BY <1>1, <1>3 DEF Replacing
<1> QED
  BY <1>3, <1>4, <1>5, <1>6, <1>7, <1>8, FileStep

LEMMA RemoveOldStep == ASSUME FilesInv, NEW r \in Reqs, RemoveOld(r) PROVE FilesInv'
<1>1. PICK q : q = fileReq[r]
  OBVIOUS
<1>2. PICK n : n = [q EXCEPT !.pc = "writeSettings"]
  OBVIOUS
<1>3. PICK k : k = KeyOf(q.key, TRUE)
  OBVIOUS
<1>4. /\ FileGoto(r, n) /\ q.pc = "removeOld"
      /\ \/ objects' = objects \ {k} /\ retired' = retired \cup ({k} \ {Null})
         \/ objects' = objects /\ retired' = retired
      /\ UNCHANGED <<files, docKeys, logo, drawn, troubled>>
      /\ FileRequest(q, objects, files, drawn, troubled, retired, logo)
  BY <1>1, <1>2, <1>3 DEF FilesInv, RemoveOld, FileAt, FileAwait
<1>5. FileTables /\ q.key \in drawn /\ q.key \notin q.keys /\ k \in {q.key, Null}
  BY <1>3, <1>4 DEF FilesInv, FileRequest, KeyOf
<1>6. /\ objects' \subseteq objects /\ objects \ {q.key} \subseteq objects'
      /\ retired \subseteq retired' /\ retired' \subseteq retired \cup {q.key}
  BY <1>4, <1>5, FilesAssumption DEF FileTables
<1>7. FileTables'
  BY <1>4, <1>5, <1>6 DEF FileTables
<1>8. n = [pc |-> "writeSettings", left |-> q.left, keys |-> q.keys, key |-> q.key,
           for |-> q.for, doc |-> q.doc]
  BY <1>2, <1>4 DEF FileRequest
<1>9. FileRequest(n, objects', files', drawn', troubled', retired', logo')
  BY <1>4, <1>5, <1>6, <1>8 DEF FileRequest, SettingsPcs, DeletePcs
<1>10. ASSUME NEW p \in Reqs \ {r}
       PROVE  /\ FileRequest(fileReq[p], objects', files', drawn', troubled', retired', logo')
              /\ KeysApart(n, fileReq[p]) /\ KeysApart(fileReq[p], n)
  <2>1. PICK o : o = fileReq[p]
    OBVIOUS
  <2>2. FileRequest(o, objects, files, drawn, troubled, retired, logo)
        /\ KeysApart(q, o) /\ KeysApart(o, q)
    BY <1>1, <2>1 DEF FilesInv
  <2>3. q.key \notin o.keys
    BY <1>4, <2>2 DEF KeysApart
  <2>4. o.pc = "insert" => o.key \in objects' \ files'
    BY <1>4, <1>6, <2>2, <2>3 DEF FileRequest
  <2>5. FileRequest(o, objects', files', drawn', troubled', retired', logo')
    BY <1>4, <1>6, <2>2, <2>3, <2>4 DEF FileRequest
  <2> QED
    BY <1>8, <2>1, <2>2, <2>3, <2>5 DEF KeysApart, DeletePcs
<1>11. ASSUME NEW c \in ObjectKeys \ (troubled' \cup retired')
       PROVE  \/ c \in files' <=> c \in objects'
              \/ /\ c \notin troubled \cup retired
                 /\ ~(c \in files <=> c \in objects) /\ ~Between(fileReq[r], c)
  <2>1. c \in objects' <=> c \in objects
    BY <1>4, <1>11, FilesAssumption
  <2> QED
    BY <1>1, <1>4, <1>6, <1>11, <2>1 DEF Between
<1>12. logo' \in retired' =>
         \/ logo' \in troubled' \/ Replacing(n, logo')
         \/ /\ logo' = logo /\ logo \in retired /\ logo \notin troubled
            /\ ~Replacing(fileReq[r], logo)
  BY <1>1, <1>4, <1>6, <1>8 DEF Replacing
<1> QED
  BY <1>4, <1>7, <1>9, <1>10, <1>11, <1>12, FileStep

\* The settings name the new logo; the old one's object is gone or replaced.
LEMMA WriteSettingsStep == ASSUME FilesInv, NEW r \in Reqs, WriteSettings(r) PROVE FilesInv'
<1>1. PICK q : q = fileReq[r]
  OBVIOUS
<1>2. PICK n : n = FileIdle
  OBVIOUS
<1>3. /\ FileGoto(r, n) /\ q.pc = "writeSettings" /\ logo' = NewLogo(q)
      /\ UNCHANGED <<objects, files, docKeys, drawn, troubled, retired>>
      /\ FileRequest(q, objects, files, drawn, troubled, retired, logo)
  BY <1>1, <1>2 DEF FilesInv, WriteSettings, FileAt
<1>4. FileTables /\ q.keys \subseteq drawn /\ q.keys \cap retired = {}
  BY <1>3 DEF FilesInv, FileRequest
<1>5. logo' \in q.keys \/ logo' = Null
  BY <1>3 DEF NewLogo, FileRequest, SettingsPcs
<1>6. FileTables' /\ logo' \notin retired
  BY <1>3, <1>4, <1>5, FilesAssumption DEF FileTables
<1>7. /\ FileRequest(n, objects', files', drawn', troubled', retired', logo')
      /\ n.keys = {} /\ n.pc = "idle"
  BY <1>2, FilesAssumption DEF FileIdle, FileRequest, SettingsPcs, DeletePcs
<1>8. ASSUME NEW p \in Reqs \ {r}
      PROVE  /\ FileRequest(fileReq[p], objects', files', drawn', troubled', retired', logo')
             /\ KeysApart(n, fileReq[p]) /\ KeysApart(fileReq[p], n)
  <2>1. PICK o : o = fileReq[p]
    OBVIOUS
  <2>2. FileRequest(o, objects, files, drawn, troubled, retired, logo)
        /\ KeysApart(q, o)
    BY <1>1, <2>1 DEF FilesInv
  <2>3. logo' \notin o.keys
    BY <1>4, <1>5, <2>2, FilesAssumption DEF KeysApart, FileRequest, FileTables
  <2>4. FileRequest(o, objects', files', drawn', troubled', retired', logo')
    BY <1>3, <2>2, <2>3 DEF FileRequest
  <2> QED
    BY <1>7, <2>1, <2>4 DEF KeysApart, DeletePcs
<1>9. ASSUME NEW c \in ObjectKeys \ (troubled' \cup retired')
      PROVE  \/ c \in files' <=> c \in objects'
             \/ /\ c \notin troubled \cup retired
                /\ ~(c \in files <=> c \in objects) /\ ~Between(fileReq[r], c)
  BY <1>1, <1>3 DEF Between
<1>10. logo' \notin retired'
  BY <1>3, <1>6
<1> QED
  BY <1>3, <1>6, <1>7, <1>8, <1>9, <1>10, FileStep

-----------------------------------------------------------------------------

LEMMA FilesInvNext == FilesInv /\ [FSNext]_fsVars => FilesInv'
<1> SUFFICES ASSUME FilesInv, [FSNext]_fsVars PROVE FilesInv'
  OBVIOUS
<1>1. CASE UNCHANGED fsVars
  BY <1>1 DEF fsVars, fsTables, FilesInv, FileTables, Explained, LogoKept
<1>2. CASE FSNext
  <2>1. ASSUME NEW r \in Reqs,
               \/ \E n \in 1 .. MaxBatch : Upload(r, n)
               \/ UploadLogo(r)
               \/ \E k \in ObjectKeys :
                    DeleteFile(r, k) \/ \E isUrl \in BOOLEAN : DeleteFileByUrl(r, k, isUrl)
               \/ \E d \in Docs : FindDocument(r, d)
               \/ ClearLogo(r)
        PROVE  FilesInv'
    BY <2>1, StartingStep
  <2>2. ASSUME NEW r \in Reqs,
               \/ StoreObject(r) \/ InsertFile(r) \/ Sign(r) \/ FailUpload(r) \/ Cleanup(r)
        PROVE  FilesInv'
    BY <2>2, StoreObjectStep, InsertFileStep, SignStep, FailUploadStep, CleanupStep
  <2>3. ASSUME NEW r \in Reqs,
               DeleteObject(r) \/ DeleteRow(r) \/ DeleteDocument(r) \/ FindFile(r)
        PROVE  FilesInv'
    BY <2>3, DeleteObjectStep, DeleteRowStep, DeleteDocumentStep, FindFileStep
  <2>4. ASSUME NEW r \in Reqs,
               ReadSettings(r) \/ RemoveOld(r) \/ WriteSettings(r) \/ FileReject(r)
        PROVE  FilesInv'
    BY <2>4, ReadSettingsStep, RemoveOldStep, WriteSettingsStep, FileRejectStep
  <2>5. ASSUME NEW d \in Docs, NEW k \in ObjectKeys, AttachDocument(d, k) PROVE FilesInv'
    BY <2>5, AttachStep
  <2> QED
    BY <1>2, <2>1, <2>2, <2>3, <2>4, <2>5 DEF FSNext
<1> QED
  BY <1>1, <1>2

\* Requests know what the bucket and the table hold of the keys they have in hand.
THEOREM FilesInvHolds == FSSpec => []FilesInv
BY FilesInvInit, FilesInvNext, PTL DEF FSSpec

\* The stores and the requests keep their types, and no key is in use that no
\* upload has drawn.
THEOREM FilesTypes == FSSpec => []FSTypeOK
BY FilesInvHolds, FilesTyped, PTL

\* FilesService, ApplicationDocumentsService, SiteSettingsService: whatever
\* uploads, deletions and changes of the logo overlap, a key that no request has
\* in hand is in the bucket if and only if it is in the table File, and the
\* logo is an object; but for keys that a failed request had in hand, and logos
\* that were replaced.
THEOREM StoresAgreeHolds == FSSpec => []StoresAgree
BY FilesInvHolds, StoresAgreeOf, PTL
=============================================================================
