----------------------------- MODULE MCServices -----------------------------
(***************************************************************************)
(* The services around the chat, for TLC.  They share no rows, so each is  *)
(* a part with an instance of its own, and a behavior is one of a part;    *)
(* where two requests at once and every kind of row are too many states,   *)
(* one component is two parts or three.                                    *)
(***************************************************************************)
EXTENDS ClientApplications, PartnerApplications, ProcessTemplates, FileStore,
        Reviews, ExchangeRates, Intakes, Catalogue, Scholarships, Accounts,
        Statistics, MCGrowth, TLC

VARIABLE part
servicesVars ==
    <<part, caVars, paVars, tmplVars, fsVars, rvVars, rateVars, intakeVars,
      catVars, scholarVars, acVars, stVars, gsVars>>

\* No two requests at once.
OneByOne(requests, idle) ==
    \A r, q \in Reqs : requests[r] # idle /\ requests[q] # idle => r = q

\* Every service begins as its module says; a part chooses which goes on.
MCInit ==
    /\ part \in {"applications", "partnerApplications", "templates", "clones",
                 "documents", "files", "reviews", "rates", "intakes", "catalogue",
                 "scholarships", "accounts", "batches", "statistics", "growth"}
    /\ CAInit /\ PAInit /\ PTInit /\ FSInit /\ RvInit /\ ERInit /\ ITInit
    /\ CTInit /\ SCInit /\ ACInit /\ STInit /\ GSInit
    /\ part # "growth" => endDate = CHOOSE d \in Today : TRUE

TemplatesNext ==
    /\ PTNext
    /\ CASE part = "templates" ->    \* two requests, templates of one step
              DOMAIN docs' = {} /\ \A t \in Templates : tmplSteps'[t] \subseteq {1}
         [] part = "clones" ->       \* templates of two steps
              DOMAIN docs' = {} /\ OneByOne(tmplReq', TmplIdle)
         [] part = "documents" ->    \* uploads
              /\ \A t \in Templates : tmplSteps'[t] \subseteq {1}
              /\ OneByOne(tmplReq', TmplIdle)

\* Requests about the one email, of a client.
AboutAnn(q) ==
    /\ q.dtos \in Table({"ann"}, [role : {"CLIENT"}, profile : BOOLEAN])
    /\ q.dto \in {Null} \cup [email : {"ann", Null}, role : {Null}, profile : BOOLEAN]

AccountsNext ==
    /\ ACNext
    /\ CASE part = "accounts" -> \A r \in Reqs : AboutAnn(userReq'[r])
         [] part = "batches" -> OneByOne(userReq', UserIdle)   \* batches of two

\* A deadline taken back closes an intake again, and the job takes its programs
\* on to a later year again: up to MaxYear.
CONSTANT MaxYear
CyclesNext ==
    /\ ITNext
    /\ OneByOne(intakeReq', Null)
    /\ \A i \in DOMAIN intakes' : intakes'[i].year <= MaxYear

\* All services but the part's stand still.
Only(p) ==
    /\ UNCHANGED part
    /\ IF p = "applications" THEN TRUE ELSE UNCHANGED caVars
    /\ IF p = "partnerApplications" THEN TRUE ELSE UNCHANGED paVars
    /\ IF p = "templates" THEN TRUE ELSE UNCHANGED tmplVars
    /\ IF p = "files" THEN TRUE ELSE UNCHANGED fsVars
    /\ IF p = "reviews" THEN TRUE ELSE UNCHANGED rvVars
    /\ IF p = "rates" THEN TRUE ELSE UNCHANGED rateVars
    /\ IF p = "intakes" THEN TRUE ELSE UNCHANGED intakeVars
    /\ IF p = "catalogue" THEN TRUE ELSE UNCHANGED catVars
    /\ IF p = "scholarships" THEN TRUE ELSE UNCHANGED scholarVars
    /\ IF p = "accounts" THEN TRUE ELSE UNCHANGED acVars
    /\ IF p = "statistics" THEN TRUE ELSE UNCHANGED stVars
    /\ IF p = "growth" THEN TRUE ELSE UNCHANGED gsVars

MCNext ==
    \/ part = "applications" /\ CANext /\ Only("applications")
    \/ part = "partnerApplications" /\ PANext /\ Only("partnerApplications")
    \/ part \in {"templates", "clones", "documents"}
         /\ TemplatesNext /\ Only("templates")
    \/ part = "files" /\ FSNext /\ Only("files")
    \/ part = "reviews" /\ RvNext /\ Only("reviews")
    \/ part = "rates" /\ ERNext /\ Only("rates")
    \/ part = "intakes" /\ CyclesNext /\ Only("intakes")
    \/ part = "catalogue" /\ CTNext /\ Only("catalogue")
    \/ part = "scholarships" /\ SCNext /\ Only("scholarships")
    \/ part \in {"accounts", "batches"} /\ AccountsNext /\ Only("accounts")
    \/ part = "statistics" /\ STNext /\ Only("statistics")
    \/ part = "growth" /\ GSNext /\ Only("growth")

MCSpec == MCInit /\ [][MCNext]_servicesVars

-----------------------------------------------------------------------------

\* Every service's types, with the constraints the database keeps: foreign
\* keys, unique columns, and ids that never come back.
TypeOK ==
    CASE part = "applications" -> CATypeOK
      [] part = "partnerApplications" -> PATypeOK
      [] part \in {"templates", "clones", "documents"} -> PTTypeOK
      [] part = "files" -> FSTypeOK
      [] part = "reviews" -> RvTypeOK
      [] part = "rates" -> ERTypeOK
      [] part = "intakes" -> ITTypeOK
      [] part = "catalogue" -> CTTypeOK
      [] part = "scholarships" -> SCTypeOK
      [] part \in {"accounts", "batches"} -> ACTypeOK
      [] part = "statistics" -> STTypeOK
      [] part = "growth" -> GSTypeOK

-----------------------------------------------------------------------------
(* What the instances are made of *)

CONSTANTS r1, r2, s1, a1, t1, t2, d1, k1, k2, i1, i2, v1, v2, v3, u1, u2

Catalog ==
    ("uz" :> "country") @@ ("kr" :> "country") @@ ("seoul" :> "city")
      @@ ("law" :> "program") @@ ("snu" :> "university") @@ ("snuLaw" :> "offer")
      @@ ("campus" :> "campus") @@ ("agency" :> "agencyService")
      @@ ("english" :> "studyLanguage") @@ ("bachelor" :> "admissionRequirement")
      @@ ("aacsb" :> "accreditation") @@ ("qs" :> "rankingOrganization")
      @@ ("snuQs" :> "universityRanking") @@ ("snuAacsb" :> "universityAccreditation")
CatalogRows == DOMAIN Catalog
References ==
    [x \in CatalogRows |->
       CASE x = "seoul" -> {"kr"}
         [] x = "snu" -> {"kr", "seoul"}
         [] x = "snuLaw" -> {"snu", "law"}
         [] x \in {"campus", "bachelor"} -> {"snu"}
         [] x = "snuQs" -> {"snu", "qs"}
         [] x = "snuAacsb" -> {"snu", "aacsb"}
         [] OTHER -> {}]
TwoReads == {FindOneUniversity, FindMainUniversities}

Symmetry == Permutations(Reqs)
=============================================================================
