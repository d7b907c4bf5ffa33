------------------------- MODULE MCServices_proofs -------------------------
(***************************************************************************)
(* The services put together implement each of them: what the theorems of  *)
(* a service promise holds of it among the others.                         *)
(***************************************************************************)
EXTENDS MCServices, Applications_proofs, ProcessTemplates_proofs,
        Catalogue_proofs, Services_proofs

PartNames == {"applications", "partnerApplications", "templates", "clones",
             "documents", "files", "reviews", "rates", "intakes", "catalogue",
             "scholarships", "accounts", "batches", "statistics", "growth"}

\* A behavior is one of a part.
LEMMA PartStays == MCSpec => [](part \in PartNames)
<1>1. MCInit => part \in PartNames
  BY DEF MCInit, PartNames
<1>2. part \in PartNames /\ [MCNext]_servicesVars => (part \in PartNames)'
  <2> SUFFICES ASSUME part \in PartNames, [MCNext]_servicesVars PROVE part' = part
    OBVIOUS
  <2> QED
    BY DEF MCNext, Only, servicesVars
<1> QED
  BY <1>1, <1>2, PTL DEF MCSpec

\* A step of a part is one of its service, and no step of the others.
LEMMA StepOfPart ==
  ASSUME [MCNext]_servicesVars
  PROVE  /\ [CANext]_caVars /\ [PANext]_paVars /\ [PTNext]_tmplVars /\ [FSNext]_fsVars
         /\ [RvNext]_rvVars /\ [ERNext]_rateVars /\ [ITNext]_intakeVars /\ [CTNext]_catVars
         /\ [SCNext]_scholarVars /\ [ACNext]_acVars /\ [STNext]_stVars /\ [GSNext]_gsVars
<1>1. CASE UNCHANGED servicesVars
  BY <1>1 DEF servicesVars
<1>2. CASE part = "applications" /\ CANext /\ Only("applications")
  BY <1>2 DEF Only
<1>3. CASE part = "partnerApplications" /\ PANext /\ Only("partnerApplications")
  BY <1>3 DEF Only
<1>4. CASE TemplatesNext /\ Only("templates")
  BY <1>4 DEF Only, TemplatesNext
<1>5. CASE part = "files" /\ FSNext /\ Only("files")
  BY <1>5 DEF Only
<1>6. CASE part = "reviews" /\ RvNext /\ Only("reviews")
  BY <1>6 DEF Only
<1>7. CASE part = "rates" /\ ERNext /\ Only("rates")
  BY <1>7 DEF Only
<1>8. CASE part = "intakes" /\ CyclesNext /\ Only("intakes")
  BY <1>8 DEF Only, CyclesNext
<1>9. CASE part = "catalogue" /\ CTNext /\ Only("catalogue")
  BY <1>9 DEF Only
<1>10. CASE part = "scholarships" /\ SCNext /\ Only("scholarships")
  BY <1>10 DEF Only
<1>11. CASE AccountsNext /\ Only("accounts")
  BY <1>11 DEF Only, AccountsNext
<1>12. CASE part = "statistics" /\ STNext /\ Only("statistics")
  BY <1>12 DEF Only
<1>13. CASE part = "growth" /\ GSNext /\ Only("growth")
  BY <1>13 DEF Only
<1> QED
  BY <1>1, <1>2, <1>3, <1>4, <1>5, <1>6, <1>7, <1>8, <1>9, <1>10, <1>11, <1>12, <1>13
  DEF MCNext

\* Each service goes through a behavior of its own: the parts of an instance
\* leave out nothing that the theorems of the service rely on.
THEOREM ServicesTogether ==
  MCSpec => /\ CASpec /\ PASpec /\ PTSpec /\ FSSpec /\ RvSpec /\ ERSpec
            /\ ITSpec /\ CTSpec /\ SCSpec /\ ACSpec /\ STSpec /\ GSSpec
<1>1. MCInit => /\ CAInit /\ PAInit /\ PTInit /\ FSInit /\ RvInit /\ ERInit
                /\ ITInit /\ CTInit /\ SCInit /\ ACInit /\ STInit /\ GSInit
  BY DEF MCInit
<1>2. [MCNext]_servicesVars =>
        /\ [CANext]_caVars /\ [PANext]_paVars /\ [PTNext]_tmplVars /\ [FSNext]_fsVars
        /\ [RvNext]_rvVars /\ [ERNext]_rateVars /\ [ITNext]_intakeVars /\ [CTNext]_catVars
        /\ [SCNext]_scholarVars /\ [ACNext]_acVars /\ [STNext]_stVars /\ [GSNext]_gsVars
  BY StepOfPart
<1> QED
  BY <1>1, <1>2, PTL
  DEF MCSpec, CASpec, PASpec, PTSpec, FSSpec, RvSpec, ERSpec, ITSpec, CTSpec, SCSpec,
      ACSpec, STSpec, GSSpec

\* Every service keeps its types, and the constraints the database keeps,
\* whatever the parts do.
THEOREM ServicesTypes == MCSpec => []TypeOK
<1>1. /\ part \in PartNames
      /\ CATypeOK /\ PATypeOK /\ PTTypeOK /\ FSTypeOK /\ RvTypeOK /\ ERTypeOK
      /\ ITTypeOK /\ CTTypeOK /\ SCTypeOK /\ ACTypeOK /\ STTypeOK /\ GSTypeOK
      => TypeOK
  <2> SUFFICES ASSUME part \in PartNames,
                 /\ CATypeOK /\ PATypeOK /\ PTTypeOK /\ FSTypeOK /\ RvTypeOK /\ ERTypeOK
                 /\ ITTypeOK /\ CTTypeOK /\ SCTypeOK /\ ACTypeOK /\ STTypeOK /\ GSTypeOK
               PROVE  TypeOK
    OBVIOUS
  <2> QED
    BY DEF TypeOK, PartNames
<1> QED
  BY <1>1, PartStays, ServicesTogether, ClientRowsTyped, PartnerTypes, TemplatesTyped,
     FilesTypes, ReviewsTypes, RatesTypes, IntakesTypes, CatalogueTypes, ScholarshipsTypes,
     AccountsTypes, StatisticsTypes, GrowthTypes, PTL
=============================================================================
