-------------------------- MODULE Catalogue_proofs --------------------------
(***************************************************************************)
(* What is cached is what the database answers once no write waits to      *)
(* clear the cache, and the main rows stay within their limit: for any     *)
(* rows that refer to each other as the schema's do, any requests, cached  *)
(* reads and limit.                                                        *)
(***************************************************************************)
EXTENDS Catalogue, FiniteSetTheorems, TLAPS

CatPcs == {"idle", "checkMain", "write", "sync", "clear", "set"}
Clearing == {"sync", "clear"}   \* where a request has yet to clear the cache

\* The fields of a request.
CatRequest(q) ==
    /\ q.pc \in CatPcs
    /\ q.pc \in {"checkMain", "write"} =>
         /\ q = [pc |-> q.pc, row |-> q.row, create |-> q.create, isMain |-> q.isMain,
                 offers |-> q.offers, others |-> q.others, recommends |-> q.recommends]
         /\ q.row \in Rows /\ q.offers \subseteq Rows
    /\ q.pc = "set" => q.key \in CachedKeys

CatShape ==
    /\ catReq = [r \in Reqs |-> catReq[r]]
    /\ cache = [k \in CachedKeys |-> cache[k]]
    /\ \A r \in Reqs : CatRequest(catReq[r])
    /\ DOMAIN db \subseteq Rows

\* An answer that is still right of what the services write that clear.
Fresh(answer, k) == About(answer, CachedKinds) = About(Answer(k), CachedKinds)
\* And altogether, if nothing marks who has it: a key, or a reader.
Current(answer, k, who) == Fresh(answer, k) /\ (who \notin outgrown => answer = Answer(k))

\* Some write has yet to clear the cache.
Waiting == \E r \in Reqs : catReq[r].pc \in Clearing

FreshCache ==
    \A k \in CachedKeys \ tainted : cache[k] # Null => Current(cache[k], k, k)
FreshReaders ==
    \A r \in Reqs \ tainted :
        catReq[r].pc = "set" => Current(catReq[r].answer, catReq[r].key, r)

\* The inductive invariant: unless a clear is yet to come, what is cached is
\* fresh, and so is what a reader that no clear ran past is to put there.
CacheInv == CatShape /\ (Waiting \/ (FreshCache /\ FreshReaders))

-----------------------------------------------------------------------------
(* Answers *)

\* Two answers are about the same if they have the same rows of these kinds.
LEMMA AboutSame ==
  ASSUME NEW a, NEW b, NEW both,
         {x \in DOMAIN a.rows : KindOf[x] \in CachedKinds} = both,
         {x \in DOMAIN b.rows : KindOf[x] \in CachedKinds} = both,
         \A x \in both : a.rows[x] = b.rows[x],
         a.main \cap both = b.main \cap both,
         a.recommended \cap both = b.recommended \cap both
  PROVE  About(a, CachedKinds) = About(b, CachedKinds)
<1>1. Restrict(a.rows, both) = Restrict(b.rows, both)
  BY DEF Restrict
<1>2. About(a, CachedKinds) = [rows |-> Restrict(a.rows, both), main |-> a.main \cap both,
                               recommended |-> a.recommended \cap both]
  BY DEF About
<1>3. About(b, CachedKinds) = [rows |-> Restrict(b.rows, both), main |-> b.main \cap both,
                               recommended |-> b.recommended \cap both]
  BY DEF About
<1> QED
  BY <1>1, <1>2, <1>3

CachedRows == {x \in DOMAIN db : KindOf[x] \in CachedKinds}

\* What the services that clear write is not touched.
Untouched ==
    /\ CachedRows' = CachedRows
    /\ \A x \in CachedRows :
         /\ db'[x] = db[x]
         /\ x \in main' <=> x \in main
         /\ x \in recommended' <=> x \in recommended

\* Then what was fresh stays so.
LEMMA FreshKept ==
  ASSUME Untouched, NEW answer, NEW k, Fresh(answer, k)
  PROVE  Fresh(answer, k)'
<1>1. PICK both : both = {x \in DOMAIN db : KindOf[x] \in k /\ KindOf[x] \in CachedKinds}
  OBVIOUS
<1>2. both = {x \in DOMAIN db' : KindOf[x] \in k /\ KindOf[x] \in CachedKinds}
      /\ both \subseteq CachedRows
  BY <1>1 DEF Untouched, CachedRows
<1>3. PICK a : a = Answer(k)
  OBVIOUS
<1>4. PICK b : b = Answer(k)'
  OBVIOUS
<1>5. PICK found : found = {x \in DOMAIN db : KindOf[x] \in k}
  OBVIOUS
<1>6. PICK left : left = {x \in DOMAIN db' : KindOf[x] \in k}
  OBVIOUS
<1>7. /\ a.rows = Restrict(db, found) /\ a.main = main \cap found
      /\ a.recommended = recommended \cap found
  BY <1>3, <1>5 DEF Answer
<1>8. /\ b.rows = Restrict(db', left) /\ b.main = main' \cap left
      /\ b.recommended = recommended' \cap left
  BY <1>4, <1>6 DEF Answer
<1>9. /\ DOMAIN a.rows = found /\ \A x \in both : a.rows[x] = db[x]
      /\ DOMAIN b.rows = left /\ \A x \in both : b.rows[x] = db'[x]
  BY <1>1, <1>2, <1>5, <1>6, <1>7, <1>8 DEF Restrict
<1>10. /\ {x \in DOMAIN a.rows : KindOf[x] \in CachedKinds} = both
       /\ {x \in DOMAIN b.rows : KindOf[x] \in CachedKinds} = both
  BY <1>1, <1>2, <1>5, <1>6, <1>9
<1>11. /\ \A x \in both : a.rows[x] = b.rows[x]
       /\ a.main \cap both = b.main \cap both
       /\ a.recommended \cap both = b.recommended \cap both
  BY <1>1, <1>2, <1>5, <1>6, <1>7, <1>8, <1>9 DEF Untouched
<1>12. About(a, CachedKinds) = About(b, CachedKinds)
  BY <1>10, <1>11, AboutSame
<1>13. About(Answer(k), CachedKinds)' = About(b, CachedKinds)
  BY <1>4 DEF About, CachedKinds
<1>14. About(answer, CachedKinds)' = About(answer, CachedKinds)
  BY DEF About
<1> QED
  BY <1>3, <1>12, <1>13, <1>14 DEF Fresh

\* Nor is what the others write, unless who has the answer is marked.
LEMMA CurrentKept ==
  ASSUME Untouched, NEW answer, NEW k, NEW who, Current(answer, k, who),
         who \notin outgrown' => who \notin outgrown /\ Answer(k)' = Answer(k)
  PROVE  Current(answer, k, who)'
<1>1. Fresh(answer, k)'
  BY FreshKept DEF Current
<1> QED
  BY <1>1 DEF Current

\* No table is touched.
LEMMA CurrentStill ==
  ASSUME UNCHANGED tables, NEW answer, NEW k, NEW who, Current(answer, k, who),
         who \notin outgrown' => who \notin outgrown
  PROVE  Current(answer, k, who)'
<1>1. Untouched /\ Answer(k)' = Answer(k)
  BY DEF Untouched, CachedRows, tables, Answer
<1> QED
  BY <1>1, CurrentKept

\* But for these rows, the tables are as they were.
SameBut(S) ==
    \A x : x \notin S =>
      /\ x \in DOMAIN db' <=> x \in DOMAIN db
      /\ x \in DOMAIN db => db'[x] = db[x]
      /\ x \in main' <=> x \in main
      /\ x \in recommended' <=> x \in recommended
      /\ x \in aside' <=> x \in aside

\* Who is not marked has the answer that the tables still give.
Unread ==
    /\ \A k \in CachedKeys : cache[k] # Null /\ k \notin outgrown' =>
         k \notin outgrown /\ Answer(k)' = Answer(k)
    /\ \A r \in Reqs : \A k :
         catReq[r].pc = "set" /\ catReq[r].key = k /\ r \notin outgrown'
         => r \notin outgrown /\ Answer(k)' = Answer(k)

LEMMA AnswerSame ==
  ASSUME NEW S, SameBut(S), NEW k, \A x \in S : KindOf[x] \notin k
  PROVE  Answer(k)' = Answer(k)
<1>1. PICK found : found = {x \in DOMAIN db : KindOf[x] \in k}
  OBVIOUS
<1>2. found \cap S = {} /\ found = {x \in DOMAIN db' : KindOf[x] \in k}
  BY <1>1 DEF SameBut
<1>3. Restrict(db', found) = Restrict(db, found)
  <2>1. \A x \in found : db'[x] = db[x]
    BY <1>1, <1>2 DEF SameBut
  <2> QED
    BY <2>1 DEF Restrict
<1>4. /\ main' \cap found = main \cap found /\ recommended' \cap found = recommended \cap found
      /\ aside' \cap found = aside \cap found
  BY <1>2 DEF SameBut
<1> QED
  BY <1>1, <1>2, <1>3, <1>4 DEF Answer

LEMMA OutgrowsUnread ==
  ASSUME NEW S, Outgrows(S), SameBut(S)
  PROVE  Unread
<1>1. ASSUME NEW k \in CachedKeys, cache[k] # Null, k \notin outgrown'
      PROVE  k \notin outgrown /\ Answer(k)' = Answer(k)
  <2>1. k \notin outgrown /\ \A x \in S : KindOf[x] \notin k
    BY <1>1 DEF Outgrows
  <2> QED
    BY <2>1, AnswerSame
<1>2. ASSUME NEW r \in Reqs, NEW k, catReq[r].pc = "set", catReq[r].key = k, r \notin outgrown'
      PROVE  r \notin outgrown /\ Answer(k)' = Answer(k)
  <2>1. r \notin outgrown /\ \A x \in S : KindOf[x] \notin k
    BY <1>2 DEF Outgrows, CatAt
  <2> QED
    BY <2>1, AnswerSame
<1> QED
  BY <1>1, <1>2 DEF Unread

-----------------------------------------------------------------------------
(* What the routes do *)

\* A write that clears the cache next, and may leave fewer main rows.
Writes(r) ==
    /\ \E op : ThenClear(r, op)
    /\ DOMAIN db' \subseteq Rows
    /\ UNCHANGED <<main, raced>> \/ \E gone : MainBecomes(r, main \ gone)

\* The first step of a creation or an update.
Begins(r) ==
    \E q : /\ CatRequest(q) /\ q.pc \in {"checkMain", "write"}
           /\ q.pc = "write" /\ q.isMain = TRUE => q.row \in main
           /\ catReq[r] = CatIdle /\ CatGoto(r, q)
           /\ UNCHANGED <<tables, cache, raced, tainted, outgrown>>

Routes(r) == \/ CountriesController(r) \/ CitiesController(r)
             \/ ProgramsController(r) \/ UniversitiesController(r) \/ ExpireIntakes(r)

\* The services that clear nothing.
Others == \/ CampusesService \/ AgencyServicesService \/ StudyLanguagesService
          \/ AdmissionRequirementsService \/ AccreditationsService
          \/ RankingOrganizationsService \/ RankingsOfUniversity

Flags == ScholarshipsService \/ IntakesService

\* The steps, grouped by what they have in common.
LEMMA CatalogueCases ==
  ASSUME [CTNext]_catVars
  PROVE  \/ \E r \in Reqs :
              \/ Routes(r) \/ CheckMain(r) \/ WriteRow(r) \/ SyncRecommended(r)
              \/ ClearCache(r) \/ (\E k \in CachedKeys : QueryDb(r, k))
              \/ SetCache(r) \/ CatReject(r)
         \/ Others \/ Flags \/ SetAccreditations
         \/ (\E k \in CachedKeys : Expire(k)) \/ Restart
         \/ UNCHANGED catVars
  BY DEF CTNext, Routes, Others, Flags

\* What becomes of the table when one row is created, updated or removed.
LEMMA RowWritten ==
  ASSUME DOMAIN db \subseteq Rows, NEW x \in Rows, NEW r,
         CreateRow(x) \/ UpdateRow(x) \/ RemoveRow(r, x)
  PROVE  /\ DOMAIN db' \subseteq Rows
         /\ UNCHANGED <<main, raced>> \/ \E gone : MainBecomes(r, main \ gone)
<1>1. CASE CreateRow(x)
  BY <1>1 DEF CreateRow, With
<1>2. CASE UpdateRow(x)
  BY <1>2 DEF UpdateRow
<1>3. CASE RemoveRow(r, x)
  BY <1>3 DEF RemoveRow, TakeOut, Without
<1> QED
  BY <1>1, <1>2, <1>3

\* A creation is checked if it is to be main, an update if it was not so.
LEMMA SaveBegins ==
  ASSUME NEW r \in Reqs, NEW x \in Rows, NEW isMain, NEW offers \in SUBSET Rows,
         NEW others, NEW recommends, Starts(r)
  PROVE  /\ Save(r, x, isMain, FALSE, offers, others, recommends) => Begins(r)
         /\ Save(r, x, isMain, x \in main, offers, others, recommends) => Begins(r)
<1>1. PICK create : create = (x \notin DOMAIN db)
  OBVIOUS
<1>2. ASSUME NEW pc \in {"checkMain", "write"}, pc = "write" /\ isMain = TRUE => x \in main,
             CatGoto(r, [pc |-> pc, row |-> x, create |-> x \notin DOMAIN db,
                   isMain |-> isMain, offers |-> offers, others |-> others,
                   recommends |-> recommends]),
             UNCHANGED <<tables, cache, raced, tainted, outgrown>>
      PROVE  Begins(r)
  <2>1. PICK q : q = [pc |-> pc, row |-> x, create |-> create,
                   isMain |-> isMain, offers |-> offers, others |-> others,
                   recommends |-> recommends]
    OBVIOUS
  <2>2. CatRequest(q)
    BY <2>1 DEF CatRequest, CatPcs
  <2>3. CatGoto(r, q)
    BY <1>1, <1>2, <2>1
  <2>4. q.pc = pc /\ q.isMain = isMain /\ q.row = x
    BY <2>1
  <2>5. catReq[r] = CatIdle
    BY DEF Starts
  <2> QED
    BY <1>2, <2>2, <2>3, <2>4, <2>5 DEF Begins
<1>3. ASSUME Save(r, x, isMain, FALSE, offers, others, recommends) PROVE Begins(r)
  <2>1. CASE isMain = TRUE
    BY <1>2, <1>3, <2>1 DEF Save
  <2>2. CASE isMain # TRUE
    BY <1>2, <1>3, <2>2 DEF Save
  <2> QED
    BY <2>1, <2>2
<1>4. ASSUME Save(r, x, isMain, x \in main, offers, others, recommends) PROVE Begins(r)
  <2>1. CASE isMain = TRUE /\ x \notin main
    BY <1>2, <1>4, <2>1 DEF Save
  <2>2. CASE isMain # TRUE \/ x \in main
    BY <1>2, <1>4, <2>2 DEF Save
  <2> QED
    BY <2>1, <2>2
<1> QED
  BY <1>3, <1>4

\* A route either writes and goes on to clear, or begins a creation or an
\* update.
LEMMA RouteCases ==
  ASSUME DOMAIN db \subseteq Rows, NEW r \in Reqs, Routes(r)
  PROVE  Writes(r) \/ Begins(r)
<1>1. ASSUME NEW op, ThenClear(r, op), NEW x \in Rows,
             CreateRow(x) \/ UpdateRow(x) \/ RemoveRow(r, x)
      PROVE  Writes(r)
  BY <1>1, RowWritten DEF Writes
<1>2. \A kind : OfKind(kind) \subseteq Rows
  BY DEF OfKind
<1>3. CASE CitiesController(r)
  BY <1>1, <1>2, <1>3 DEF CitiesController, CreateCity, UpdateCity, RemoveCity
<1>4. CASE ProgramsController(r)
  BY <1>1, <1>2, <1>4 DEF ProgramsController, CreateProgram, UpdateProgram, RemoveProgram
<1>5. CASE RemoveCountry(r) \/ RemoveUniversity(r) \/ RemoveUniversityProgram(r)
  BY <1>1, <1>2, <1>5 DEF RemoveCountry, RemoveUniversity, RemoveUniversityProgram
<1>6. \A x : OffersBy(x) \subseteq Rows
  BY <1>2 DEF OffersBy
<1>8. CASE CreateCountry(r)
  BY <1>2, SaveBegins, <1>8 DEF CreateCountry
<1>9. CASE UpdateCountry(r)
  BY <1>2, SaveBegins, <1>9 DEF UpdateCountry
<1>10. CASE CreateUniversity(r)
  BY <1>2, <1>6, SaveBegins, <1>10 DEF CreateUniversity
<1>11. CASE UpdateUniversity(r)
  BY <1>2, <1>6, SaveBegins, <1>11 DEF UpdateUniversity
<1>12. CASE ExpireIntakes(r)
  BY <1>12 DEF ExpireIntakes, Writes
<1> QED
  BY <1>3, <1>4, <1>5, <1>8, <1>9, <1>10, <1>11, <1>12
     DEF Routes, CountriesController, UniversitiesController

\* The other services write rows that the cache answers for only by embedding
\* them, and mark whoever has them embedded.
LEMMA OtherRows ==
  ASSUME CatShape, Others
  PROVE  /\ Untouched /\ Unread /\ DOMAIN db' \subseteq Rows
         /\ UNCHANGED <<cache, catReq, tainted>>
         /\ UNCHANGED <<main, raced>> \/ \E gone : MainBecomes(Null, main \ gone)
<1>1. PICK x \in Rows :
        /\ KindOf[x] \notin CachedKinds
        /\ \/ (CreateRow(x) \/ UpdateRow(x)) /\ Outgrows({x})
           \/ \E bared \in SUBSET OptionalTo(x) :
                /\ TakeOut(Null, x) /\ aside' = Turned(bared) \ Gone(x)
                /\ Outgrows({x} \cup Gone(x) \cup bared)
  BY DEF Others, CampusesService, AgencyServicesService, StudyLanguagesService,
     AdmissionRequirementsService, AccreditationsService, RankingOrganizationsService,
     RankingsOfUniversity, Quietly, OfKind, CachedKinds
<1>2. UNCHANGED <<cache, catReq, tainted>>
  BY DEF Others, CampusesService, AgencyServicesService, StudyLanguagesService,
     AdmissionRequirementsService, AccreditationsService, RankingOrganizationsService,
     RankingsOfUniversity, Quietly
<1>3. DOMAIN db \subseteq Rows
  BY DEF CatShape
<1>4. ASSUME CreateRow(x), Outgrows({x})
      PROVE  /\ Untouched /\ Unread /\ DOMAIN db' \subseteq Rows /\ UNCHANGED <<main, raced>>
  <2>1. /\ DOMAIN db' = DOMAIN db \cup {x} /\ \A y \in DOMAIN db : db'[y] = db[y]
        /\ UNCHANGED <<main, recommended, aside, raced>>
    BY <1>4 DEF CreateRow, With
  <2>2. CachedRows' = CachedRows /\ CachedRows \subseteq DOMAIN db
    BY <1>1, <2>1 DEF CachedRows
  <2>3. SameBut({x})
    BY <2>1 DEF SameBut
  <2> QED
    BY <1>3, <1>4, <2>1, <2>2, <2>3, OutgrowsUnread DEF Untouched
<1>5. ASSUME UpdateRow(x), Outgrows({x})
      PROVE  /\ Untouched /\ Unread /\ DOMAIN db' \subseteq Rows /\ UNCHANGED <<main, raced>>
  <2>1. /\ DOMAIN db' = DOMAIN db /\ \A y \in DOMAIN db \ {x} : db'[y] = db[y]
        /\ UNCHANGED <<main, recommended, aside, raced>>
    BY <1>5 DEF UpdateRow
  <2>2. CachedRows' = CachedRows /\ CachedRows \subseteq DOMAIN db \ {x}
    BY <1>1, <2>1 DEF CachedRows
  <2>3. SameBut({x})
    BY <2>1 DEF SameBut
  <2> QED
    BY <1>3, <1>5, <2>1, <2>2, <2>3, OutgrowsUnread DEF Untouched
<1>6. ASSUME NEW bared, TakeOut(Null, x), aside' = Turned(bared) \ Gone(x),
             Outgrows({x} \cup Gone(x) \cup bared)
      PROVE  /\ Untouched /\ Unread /\ DOMAIN db' \subseteq Rows
             /\ \E gone : MainBecomes(Null, main \ gone)
  <2>1. /\ DOMAIN db' = DOMAIN db \ Gone(x)
        /\ \A y \in DOMAIN db \ Gone(x) : db'[y] = db[y]
        /\ main' = main \ Gone(x) /\ recommended' = recommended \ Gone(x)
    BY <1>6 DEF TakeOut, Without, MainBecomes
  <2>2. ASSUME NEW y \in CachedRows PROVE y \notin Gone(x)
    <3>1. y \in Rows /\ KindOf[y] \in CachedKinds
      BY <1>3 DEF CachedRows
    <3>2. x \notin RefersTo[y]
      BY <1>1, <3>1, CatalogueAssumption
    <3> QED
      BY <1>1, <3>1, <3>2 DEF Gone, Referring
  <2>3. CachedRows' = CachedRows
    BY <2>1, <2>2 DEF CachedRows
  <2>4. CachedRows \subseteq DOMAIN db
    BY DEF CachedRows
  <2>5. Untouched
    BY <2>1, <2>2, <2>3, <2>4 DEF Untouched
  <2>6. PICK S : S = {x} \cup Gone(x) \cup bared
    OBVIOUS
  <2>7. SameBut(S)
    BY <1>6, <2>1, <2>6 DEF SameBut, Turned
  <2>8. Unread
    BY <1>6, <2>6, <2>7, OutgrowsUnread
  <2>9. \E gone : MainBecomes(Null, main \ gone)
    BY <1>6 DEF TakeOut
  <2> QED
    BY <1>3, <2>1, <2>5, <2>8, <2>9
<1> QED
  BY <1>1, <1>2, <1>4, <1>5, <1>6

\* So do those that write of the rows of the cached kinds what their own
\* services do not.
LEMMA FlagRows ==
  ASSUME CatShape, Flags
  PROVE  /\ Untouched /\ Unread
         /\ UNCHANGED <<db, main, recommended, raced, cache, catReq, tainted>>
<1>1. PICK S : aside' = Turned(S) /\ Outgrows(S)
  BY DEF Flags, ScholarshipsService, IntakesService, TurnsOver
<1>2. UNCHANGED <<db, main, recommended, raced, cache, catReq, tainted>>
  BY DEF Flags, ScholarshipsService, IntakesService
<1>3. SameBut(S)
  BY <1>1, <1>2 DEF SameBut, Turned
<1> QED
  BY <1>1, <1>2, <1>3, OutgrowsUnread DEF Untouched, CachedRows

\* Accreditations of universities are not of the rows that the cache answers
\* for, but by embedding them.
LEMMA AccreditationRows ==
  ASSUME CatShape, SetAccreditations
  PROVE  /\ Untouched /\ Unread /\ DOMAIN db' \subseteq Rows
         /\ UNCHANGED <<main, raced, cache, catReq, tainted>>
<1>1. PICK its, new :
        /\ new \subseteq its /\ its \subseteq OfKind("universityAccreditation")
        /\ db' = [x \in (DOMAIN db \ its) \cup new |->
                    IF x \in DOMAIN db THEN db[x] ELSE FALSE]
        /\ Outgrows(its)
        /\ UNCHANGED <<main, recommended, aside, raced, cache, catReq, tainted>>
  BY DEF SetAccreditations
<1>2. its \subseteq Rows /\ \A x \in its : KindOf[x] \notin CachedKinds
  BY <1>1 DEF OfKind, CachedKinds
<1>3. /\ DOMAIN db' = (DOMAIN db \ its) \cup new
      /\ \A x \in DOMAIN db \ its : db'[x] = db[x]
  BY <1>1
<1>4. SameBut(its)
  BY <1>1, <1>3 DEF SameBut
<1> QED
  BY <1>1, <1>2, <1>3, <1>4, OutgrowsUnread DEF CatShape, Untouched, CachedRows

-----------------------------------------------------------------------------
(* The cache *)

\* Shapes, after a step of one request or of none.
LEMMA ShapeStep ==
  ASSUME CatShape, NEW r \in Reqs, NEW q, CatRequest(q), catReq' = Step(catReq, r, q),
         DOMAIN db' \subseteq Rows, cache' = [k \in CachedKeys |-> cache'[k]]
  PROVE  /\ CatShape' /\ catReq'[r] = q
         /\ \A p \in Reqs \ {r} : catReq'[p] = catReq[p]
<1>1. \A p \in Reqs : catReq'[p] = IF p = r THEN q ELSE catReq[p]
  BY DEF CatShape, Step
<1>2. (catReq = [p \in Reqs |-> catReq[p]])'
  BY DEF CatShape, Step
<1> QED
  BY <1>1, <1>2 DEF CatShape

\* A write that has yet to clear the cache: nothing is claimed until it does.
LEMMA ClearingStep ==
  ASSUME CacheInv, NEW r \in Reqs, NEW q, CatRequest(q), q.pc \in Clearing,
         catReq' = Step(catReq, r, q), DOMAIN db' \subseteq Rows, UNCHANGED cache
  PROVE  CacheInv'
<1>1. CatShape' /\ catReq'[r] = q
  BY ShapeStep DEF CacheInv, CatShape
<1>2. Waiting'
  BY <1>1 DEF Waiting
<1> QED
  BY <1>1, <1>2 DEF CacheInv

\* A request that touches no row and reads nothing.
LEMMA QuietCacheStep ==
  ASSUME CacheInv, NEW r \in Reqs, NEW q, CatRequest(q), catReq' = Step(catReq, r, q),
         q.pc \notin Clearing \cup {"set"}, catReq[r].pc \notin Clearing,
         UNCHANGED <<tables, cache>>, tainted' \in {tainted, tainted \ {r}},
         outgrown' \in {outgrown, outgrown \ {r}}
  PROVE  CacheInv'
<1>1. /\ CatShape' /\ catReq'[r] = q
      /\ \A p \in Reqs \ {r} : catReq'[p] = catReq[p]
  BY ShapeStep DEF CacheInv, CatShape, tables
<1>2. Waiting' <=> Waiting
  BY <1>1 DEF Waiting
<1>3. ASSUME NEW a, NEW k, NEW who, who # r, Current(a, k, who) PROVE Current(a, k, who)'
  BY <1>3, CurrentStill
<1>4. FreshCache => FreshCache'
  <2> SUFFICES ASSUME FreshCache, NEW k \in CachedKeys \ tainted', cache'[k] # Null
               PROVE  Current(cache[k], k, k)'
    BY DEF FreshCache
  <2>1. k # r
    BY CatalogueAssumption
  <2>2. k \notin tainted /\ cache'[k] = cache[k]
    BY <2>1
  <2>3. PICK a : a = cache[k]
    OBVIOUS
  <2>4. Current(a, k, k)
    BY <2>2, <2>3 DEF FreshCache
  <2>5. Current(a, k, k)'
    BY <1>3, <2>1, <2>4
  <2> QED
    BY <2>2, <2>3, <2>5 DEF Current, Fresh
<1>5. FreshReaders => FreshReaders'
  <2> SUFFICES ASSUME FreshReaders, NEW p \in Reqs \ tainted', catReq'[p].pc = "set"
               PROVE  Current(catReq[p].answer, catReq[p].key, p)'
    BY DEF FreshReaders
  <2>1. p # r
    BY <1>1
  <2>2. p \notin tainted /\ catReq'[p] = catReq[p]
    BY <1>1, <2>1
  <2>3. PICK a, k : a = catReq[p].answer /\ k = catReq[p].key
    OBVIOUS
  <2>4. Current(a, k, p)
    BY <2>2, <2>3 DEF FreshReaders
  <2>5. Current(a, k, p)'
    BY <1>3, <2>1, <2>4
  <2> QED
    BY <2>2, <2>3, <2>5 DEF Current, Fresh
<1> QED
  BY <1>1, <1>2, <1>4, <1>5 DEF CacheInv

\* Nothing that the cache answers for has changed, and nobody has moved.
LEMMA WorldCacheStep ==
  ASSUME CacheInv, Untouched, Unread, DOMAIN db' \subseteq Rows,
         UNCHANGED <<catReq, cache, tainted>>
  PROVE  CacheInv'
<1>1. CatShape'
  BY DEF CacheInv, CatShape
<1>2. Waiting' <=> Waiting
  BY DEF Waiting
<1>4. FreshCache => FreshCache'
  <2> SUFFICES ASSUME FreshCache, NEW k \in CachedKeys \ tainted', cache'[k] # Null
               PROVE  Current(cache[k], k, k)'
    BY DEF FreshCache
  <2>1. PICK a : a = cache[k]
    OBVIOUS
  <2>2. Current(a, k, k) /\ (k \notin outgrown' => k \notin outgrown /\ Answer(k)' = Answer(k))
    BY <2>1 DEF FreshCache, Unread
  <2>3. Current(a, k, k)'
    BY <2>2, CurrentKept
  <2> QED
    BY <2>1, <2>3 DEF Current, Fresh
<1>5. FreshReaders => FreshReaders'
  <2> SUFFICES ASSUME FreshReaders, NEW p \in Reqs \ tainted', catReq'[p].pc = "set"
               PROVE  Current(catReq[p].answer, catReq[p].key, p)'
    BY DEF FreshReaders
  <2>1. PICK a, k : a = catReq[p].answer /\ k = catReq[p].key
    OBVIOUS
  <2>2. Current(a, k, p) /\ (p \notin outgrown' => p \notin outgrown /\ Answer(k)' = Answer(k))
    BY <2>1 DEF FreshReaders, Unread
  <2>3. Current(a, k, p)'
    BY <2>2, CurrentKept
  <2> QED
    BY <2>1, <2>3 DEF Current, Fresh
<1> QED
  BY <1>1, <1>2, <1>4, <1>5 DEF CacheInv

\* The records that requests end and go on with are of their shape.
LEMMA IdleRequest == CatRequest(CatIdle) /\ CatIdle.pc = "idle"
  BY DEF CatRequest, CatIdle, CatPcs

LEMMA ClearRequest == \A op : CatRequest(Afterwards(op)) /\ Afterwards(op).pc = "clear"
  BY DEF CatRequest, Afterwards, CatPcs

\* Until the write nothing is disturbed; after it the clear is awaited.
LEMMA CheckCache ==
  ASSUME CacheInv, NEW r \in Reqs, CheckMain(r)
  PROVE  CacheInv'
<1>1. PICK old : old = catReq[r] /\ CatRequest(old) /\ old.pc = "checkMain"
  BY DEF CacheInv, CatShape, CheckMain, CatAt
<1>2. PICK n : n = [old EXCEPT !.pc = "write"]
  OBVIOUS
<1>3. n = [pc |-> "write", row |-> old.row, create |-> old.create, isMain |-> old.isMain,
           offers |-> old.offers, others |-> old.others, recommends |-> old.recommends]
  BY <1>1, <1>2 DEF CatRequest
<1>4. CatRequest(n) /\ n.pc = "write"
  BY <1>1, <1>3 DEF CatRequest, CatPcs
<1>5. catReq' = Step(catReq, r, n) \/ catReq' = Step(catReq, r, CatIdle)
  BY <1>1, <1>2 DEF CheckMain, CatAwait, CatGoto, Step
<1>6. UNCHANGED <<tables, cache, tainted, outgrown>>
  BY DEF CheckMain
<1> QED
  BY <1>1, <1>4, <1>5, <1>6, IdleRequest, QuietCacheStep DEF Clearing

\* A write goes on to clear the cache, or has written nothing.
LEMMA WriteCache ==
  ASSUME CacheInv, NEW r \in Reqs, WriteRow(r)
  PROVE  CacheInv'
<1>1. PICK old : /\ old = catReq[r] /\ CatRequest(old) /\ old.pc = "write"
                 /\ old.row \in Rows /\ old.offers \subseteq Rows
  BY DEF CacheInv, CatShape, WriteRow, CatAt, CatRequest
<1>2. UNCHANGED <<recommended, cache, tainted, outgrown>>
  BY DEF WriteRow
<1>3. CASE UNCHANGED <<db, main, aside>> /\ CatGoto(r, CatIdle)
  BY <1>1, <1>2, <1>3, IdleRequest, QuietCacheStep DEF CatGoto, Clearing, tables
<1>4. CASE /\ DOMAIN db' = DOMAIN Without(db, old.others) \cup {old.row} \cup old.offers
           /\ CatGoto(r, IF old.recommends = Null THEN Afterwards("update")
                         ELSE [pc |-> "sync", row |-> old.row, recommends |-> old.recommends])
  <2>1. DOMAIN db' \subseteq Rows
    BY <1>1, <1>4 DEF Without, CacheInv, CatShape
  <2>2. CASE old.recommends = Null
    BY <1>2, <1>4, <2>1, <2>2, ClearRequest, ClearingStep DEF CatGoto, Clearing
  <2>3. CASE old.recommends # Null
    <3>1. PICK q : q = [pc |-> "sync", row |-> old.row, recommends |-> old.recommends]
      OBVIOUS
    <3>2. CatRequest(q) /\ q.pc \in Clearing
      BY <3>1 DEF CatRequest, CatPcs, Clearing
    <3> QED
      BY <1>2, <1>4, <2>1, <2>3, <3>1, <3>2, ClearingStep DEF CatGoto
  <2> QED
    BY <2>2, <2>3
<1> QED
  BY <1>1, <1>3, <1>4 DEF WriteRow

LEMMA SyncCache ==
  ASSUME CacheInv, NEW r \in Reqs, SyncRecommended(r)
  PROVE  CacheInv'
<1>1. /\ catReq' = Step(catReq, r, Afterwards("update"))
      /\ UNCHANGED <<db, cache>>
  BY DEF SyncRecommended, CatGoto
<1>2. DOMAIN db' \subseteq Rows
  BY <1>1 DEF CacheInv, CatShape
<1> QED
  BY <1>1, <1>2, ClearRequest, ClearingStep DEF Clearing

\* Nothing is cached, and every reader that has its answer is marked.
LEMMA ClearCacheStep ==
  ASSUME CacheInv, NEW r \in Reqs, ClearCache(r)
  PROVE  CacheInv'
<1>1. /\ catReq' = Step(catReq, r, CatIdle) /\ DOMAIN db' \subseteq Rows
      /\ cache' = [k \in CachedKeys |-> Null]
      /\ tainted' = {q \in Reqs : catReq[q].pc = "set"}
  BY DEF ClearCache, CatGoto, CatAt, tables, CacheInv, CatShape
<1>2. /\ CatShape' /\ catReq'[r] = CatIdle
      /\ \A p \in Reqs \ {r} : catReq'[p] = catReq[p]
  BY <1>1, IdleRequest, ShapeStep DEF CacheInv
<1>3. FreshCache'
  BY <1>1 DEF FreshCache
<1>4. FreshReaders'
  <2>1. \A p \in Reqs \ tainted' : catReq'[p].pc # "set"
    BY <1>1, <1>2, IdleRequest
  <2> QED
    BY <2>1 DEF FreshReaders
<1> QED
  BY <1>2, <1>3, <1>4 DEF CacheInv

\* A query is answered as the rows are now.
LEMMA QueryCache ==
  ASSUME CacheInv, NEW r \in Reqs, NEW k \in CachedKeys, QueryDb(r, k)
  PROVE  CacheInv'
<1>1. PICK q : q = [pc |-> "set", key |-> k, answer |-> Answer(k)]
  OBVIOUS
<1>2. CatRequest(q) /\ q.pc = "set" /\ q.key = k /\ q.answer = Answer(k)
  BY <1>1 DEF CatRequest, CatPcs
<1>3. /\ catReq' = Step(catReq, r, q) /\ catReq[r].pc = "idle"
      /\ UNCHANGED <<tables, cache, tainted, outgrown>>
  BY <1>1 DEF QueryDb, CatGoto, CatIdle
<1>4. /\ CatShape' /\ catReq'[r] = q
      /\ \A p \in Reqs \ {r} : catReq'[p] = catReq[p]
  BY <1>2, <1>3, ShapeStep DEF CacheInv, CatShape, tables
<1>5. Waiting' <=> Waiting
  BY <1>2, <1>3, <1>4 DEF Waiting, Clearing
<1>7. ASSUME NEW a, NEW key, NEW who, Current(a, key, who) PROVE Current(a, key, who)'
  BY <1>3, <1>7, CurrentStill
<1>8. FreshCache => FreshCache'
  <2> SUFFICES ASSUME FreshCache, NEW key \in CachedKeys \ tainted', cache'[key] # Null
               PROVE  Current(cache[key], key, key)'
    BY DEF FreshCache
  <2>1. PICK a : a = cache[key]
    OBVIOUS
  <2>2. Current(a, key, key)'
    BY <1>3, <1>7, <2>1 DEF FreshCache
  <2> QED
    BY <1>3, <2>1, <2>2 DEF Current, Fresh
<1>9. FreshReaders => FreshReaders'
  <2> SUFFICES ASSUME FreshReaders, NEW p \in Reqs \ tainted', catReq'[p].pc = "set"
               PROVE  Current(catReq[p].answer, catReq[p].key, p)'
    BY DEF FreshReaders
  <2>1. PICK a, key : a = catReq'[p].answer /\ key = catReq'[p].key
    OBVIOUS
  <2>2. Current(a, key, p)
    <3>1. CASE p = r
      BY <1>2, <1>4, <2>1, <3>1 DEF Current, Fresh
    <3>2. CASE p # r
      BY <1>3, <1>4, <2>1, <3>2 DEF FreshReaders
    <3> QED
      BY <3>1, <3>2
  <2>3. Current(a, key, p)'
    BY <1>7, <2>2
  <2> QED
    BY <2>1, <2>3 DEF Current, Fresh
<1> QED
  BY <1>4, <1>5, <1>8, <1>9 DEF CacheInv

\* What was read is cached, as fresh as it was, or marked.
LEMMA SetCacheStep ==
  ASSUME CacheInv, NEW r \in Reqs, SetCache(r)
  PROVE  CacheInv'
<1>1. PICK old : /\ old = catReq[r] /\ CatRequest(old) /\ old.pc = "set"
                 /\ old.key \in CachedKeys
  BY DEF CacheInv, CatShape, SetCache, CatAt, CatRequest
<1>2. /\ catReq' = Step(catReq, r, CatIdle)
      /\ cache' = [cache EXCEPT ![old.key] = old.answer]
      /\ tainted' = (tainted \ {r, old.key}) \cup (IF r \in tainted THEN {old.key} ELSE {})
      /\ outgrown' = (outgrown \ {r, old.key}) \cup (IF r \in outgrown THEN {old.key} ELSE {})
      /\ UNCHANGED tables
  BY <1>1 DEF SetCache, CatGoto
<1>3. /\ cache' = [k \in CachedKeys |-> cache'[k]]
      /\ \A k \in CachedKeys : cache'[k] = IF k = old.key THEN old.answer ELSE cache[k]
  BY <1>2 DEF CacheInv, CatShape
<1>4. /\ CatShape' /\ catReq'[r] = CatIdle
      /\ \A p \in Reqs \ {r} : catReq'[p] = catReq[p]
  BY <1>2, <1>3, IdleRequest, ShapeStep DEF CacheInv, CatShape, tables
<1>5. Waiting' <=> Waiting
  BY <1>1, <1>4, IdleRequest DEF Waiting, Clearing
<1>6. ASSUME NEW a, NEW k, NEW who, NEW p, Current(a, k, who),
             who \in outgrown => p \in outgrown' PROVE Current(a, k, p)'
  <2>1. Untouched /\ Answer(k)' = Answer(k)
    BY <1>2 DEF Untouched, CachedRows, tables, Answer
  <2>2. Fresh(a, k)'
    BY <1>6, <2>1, FreshKept DEF Current
  <2> QED
    BY <1>6, <2>1, <2>2 DEF Current
<1>7. /\ r \in outgrown => old.key \in outgrown'
      /\ \A p : p \notin {r, old.key} /\ p \in outgrown => p \in outgrown'
  BY <1>2
<1>8. \A p \in Reqs : p # r => (p \in tainted' <=> p \in tainted) /\ p # old.key
  BY <1>1, <1>2, CatalogueAssumption
<1>9. FreshCache /\ FreshReaders => FreshCache'
  <2> SUFFICES ASSUME FreshCache, FreshReaders, NEW k \in CachedKeys \ tainted',
                      cache'[k] # Null
               PROVE  Current(cache[k], k, k)'
    BY DEF FreshCache
  <2>1. PICK a : a = cache'[k]
    OBVIOUS
  <2>2. Current(a, k, k)'
    <3>1. CASE k = old.key
      <4>1. r \notin tainted
        BY <1>2, <3>1
      <4>2. Current(a, k, r)
        BY <1>1, <1>3, <2>1, <3>1, <4>1 DEF FreshReaders
      <4> QED
        BY <1>6, <1>7, <3>1, <4>2
    <3>2. CASE k # old.key
      <4>1. k # r
        BY CatalogueAssumption
      <4>2. k \notin tainted /\ a = cache[k]
        BY <1>2, <1>3, <2>1, <3>2, <4>1
      <4>3. Current(a, k, k)
        BY <2>1, <4>2 DEF FreshCache
      <4> QED
        BY <1>6, <1>7, <3>2, <4>1, <4>3
    <3> QED
      BY <3>1, <3>2
  <2> QED
    BY <2>1, <2>2 DEF Current, Fresh
<1>10. FreshReaders => FreshReaders'
  <2> SUFFICES ASSUME FreshReaders, NEW p \in Reqs \ tainted', catReq'[p].pc = "set"
               PROVE  Current(catReq[p].answer, catReq[p].key, p)'
    BY DEF FreshReaders
  <2>1. p # r
    BY <1>4, IdleRequest
  <2>2. p \notin tainted /\ catReq'[p] = catReq[p]
    BY <1>4, <1>8, <2>1
  <2>3. PICK a, k : a = catReq[p].answer /\ k = catReq[p].key
    OBVIOUS
  <2>4. Current(a, k, p)
    BY <2>2, <2>3 DEF FreshReaders
  <2>5. Current(a, k, p)'
    BY <1>6, <1>7, <1>8, <2>1, <2>4
  <2> QED
    BY <2>2, <2>3, <2>5 DEF Current, Fresh
<1> QED
  BY <1>4, <1>5, <1>9, <1>10 DEF CacheInv

\* What expires, or is lost with the process, was at most stale.
LEMMA ExpireCache ==
  ASSUME CacheInv, NEW e \in CachedKeys, Expire(e)
  PROVE  CacheInv'
<1>1. /\ cache' = [cache EXCEPT ![e] = Null] /\ tainted' = tainted \ {e}
      /\ outgrown' = outgrown \ {e} /\ UNCHANGED <<tables, catReq>>
  BY DEF Expire
<1>2. CatShape' /\ (Waiting' <=> Waiting)
  BY <1>1 DEF CacheInv, CatShape, Waiting, tables
<1>4. ASSUME NEW a, NEW k, NEW who, who # e, Current(a, k, who) PROVE Current(a, k, who)'
  BY <1>1, <1>4, CurrentStill
<1>5. FreshCache => FreshCache'
  <2> SUFFICES ASSUME FreshCache, NEW k \in CachedKeys \ tainted', cache'[k] # Null
               PROVE  Current(cache[k], k, k)'
    BY DEF FreshCache
  <2>1. k # e /\ k \notin tainted /\ cache'[k] = cache[k]
    BY <1>1 DEF CacheInv, CatShape
  <2>2. PICK a : a = cache[k]
    OBVIOUS
  <2>3. Current(a, k, k)'
    BY <1>4, <2>1, <2>2 DEF FreshCache
  <2> QED
    BY <2>1, <2>2, <2>3 DEF Current, Fresh
<1>6. FreshReaders => FreshReaders'
  <2> SUFFICES ASSUME FreshReaders, NEW p \in Reqs \ tainted', catReq'[p].pc = "set"
               PROVE  Current(catReq[p].answer, catReq[p].key, p)'
    BY DEF FreshReaders
  <2>1. p \notin tainted /\ catReq'[p] = catReq[p] /\ p # e
    BY <1>1, CatalogueAssumption
  <2>2. PICK a, k : a = catReq[p].answer /\ k = catReq[p].key
    OBVIOUS
  <2>3. Current(a, k, p)'
    BY <1>4, <2>1, <2>2 DEF FreshReaders
  <2> QED
    BY <2>1, <2>2, <2>3 DEF Current, Fresh
<1> QED
  BY <1>2, <1>5, <1>6 DEF CacheInv

\* A failed synchronisation marks whatever is cached and read.
LEMMA RejectCache ==
  ASSUME CacheInv, NEW r \in Reqs, CatReject(r)
  PROVE  CacheInv'
<1>1. /\ catReq' = Step(catReq, r, CatIdle) /\ catReq[r].pc \in CatPcs \ {"clear"}
      /\ UNCHANGED <<tables, cache>> /\ outgrown' = outgrown \ {r}
  BY DEF CatReject, CatGoto, CatPcs
<1>2. CASE catReq[r].pc # "sync"
  <2>1. tainted' = tainted \ {r}
    BY <1>2 DEF CatReject, CatAt
  <2> QED
    BY <1>1, <1>2, <2>1, IdleRequest, QuietCacheStep DEF Clearing
<1>3. CASE catReq[r].pc = "sync"
  <2>1. tainted' = tainted \cup CachedKeys \cup {q \in Reqs : catReq[q].pc = "set"}
    BY <1>3 DEF CatReject, CatAt
  <2>2. /\ CatShape' /\ catReq'[r] = CatIdle
        /\ \A p \in Reqs \ {r} : catReq'[p] = catReq[p]
    BY <1>1, IdleRequest, ShapeStep DEF CacheInv, CatShape, tables
  <2>3. FreshCache'
    BY <2>1 DEF FreshCache
  <2>4. \A p \in Reqs \ tainted' : catReq'[p].pc # "set"
    BY <2>1, <2>2, IdleRequest
  <2> QED
    BY <2>2, <2>3, <2>4 DEF CacheInv, FreshReaders
<1> QED
  BY <1>2, <1>3

LEMMA RestartCache ==
  ASSUME CacheInv, Restart
  PROVE  CacheInv'
<1>1. /\ cache' = [k \in CachedKeys |-> Null] /\ catReq' = [r \in Reqs |-> CatIdle]
      /\ UNCHANGED db
  BY DEF Restart, tables
<1>2. CatShape'
  BY <1>1, IdleRequest DEF CatShape, CacheInv
<1>3. FreshCache' /\ FreshReaders'
  BY <1>1, IdleRequest DEF FreshCache, FreshReaders
<1> QED
  BY <1>2, <1>3 DEF CacheInv

LEMMA RouteCache ==
  ASSUME CacheInv, NEW r \in Reqs, Routes(r)
  PROVE  CacheInv'
<1>1. DOMAIN db \subseteq Rows
  BY DEF CacheInv, CatShape
<1>2. CASE Writes(r)
  <2>1. PICK op : ThenClear(r, op)
    BY <1>2 DEF Writes
  <2>2. DOMAIN db' \subseteq Rows
    BY <1>2 DEF Writes
  <2> QED
    BY <2>1, <2>2, ClearRequest, ClearingStep DEF ThenClear, CatGoto, Clearing
<1>3. CASE Begins(r)
  <2>1. PICK q : /\ CatRequest(q) /\ q.pc \in {"checkMain", "write"}
                 /\ catReq[r] = CatIdle /\ catReq' = Step(catReq, r, q)
                 /\ UNCHANGED <<tables, cache, tainted, outgrown>>
    BY <1>3 DEF Begins, CatGoto
  <2> QED
    BY <2>1, IdleRequest, QuietCacheStep DEF Clearing
<1> QED
  BY <1>1, <1>2, <1>3, RouteCases

\* The cache is empty at first, and no step makes it stale unnoticed.
LEMMA InitCache == CTInit => CacheInv
<1> SUFFICES ASSUME CTInit PROVE CacheInv
  OBVIOUS
<1>1. /\ catReq = [r \in Reqs |-> CatIdle] /\ cache = [k \in CachedKeys |-> Null]
      /\ DOMAIN db \subseteq Rows
  BY CatalogueAssumption DEF CTInit
<1>2. CatShape
  BY <1>1, IdleRequest DEF CatShape
<1>3. FreshCache /\ FreshReaders
  BY <1>1, IdleRequest DEF FreshCache, FreshReaders
<1> QED
  BY <1>2, <1>3 DEF CacheInv

LEMMA NextCache == CacheInv /\ [CTNext]_catVars => CacheInv'
<1> SUFFICES ASSUME CacheInv, [CTNext]_catVars PROVE CacheInv'
  OBVIOUS
<1>1. CatShape /\ DOMAIN db \subseteq Rows
  BY DEF CacheInv, CatShape
<1>2. CASE Others
  BY <1>1, <1>2, OtherRows, WorldCacheStep
<1>3. CASE SetAccreditations
  BY <1>1, <1>3, AccreditationRows, WorldCacheStep
<1>5. CASE Flags
  BY <1>1, <1>5, FlagRows, WorldCacheStep
<1>4. CASE UNCHANGED catVars
  <2>1. Untouched /\ Unread
    BY <1>4 DEF Untouched, Unread, Answer, CachedRows, catVars, tables
  <2> QED
    BY <1>1, <1>4, <2>1, WorldCacheStep DEF catVars, tables
<1> QED
  BY <1>2, <1>3, <1>4, <1>5, CatalogueCases, RouteCache, CheckCache, WriteCache, SyncCache,
     ClearCacheStep, QueryCache, SetCacheStep, RejectCache, ExpireCache, RestartCache

\* Unless a clear is yet to come, what is cached is right, and what readers are
\* about to cache: the inductive invariant holds of every reachable state.
THEOREM CacheInvHolds == CTSpec => []CacheInv
  BY InitCache, NextCache, PTL DEF CTSpec

\* Once no write waits to clear the cache, an answer in it is what the database
\* answers, unless the clear ran past the reader that set it.
THEOREM CacheFreshHolds == CTSpec => []CacheFresh
<1>1. CacheInv => CacheFresh
  BY DEF CacheInv, Waiting, Clearing, FreshCache, Current, Fresh, CacheFresh, CatAt
<1> QED
  BY <1>1, CacheInvHolds, PTL

-----------------------------------------------------------------------------
(* The main rows *)

MainOf(q) == main \cap OfKind(KindOf[q.row])

\* What a request that is to write a main row has checked: that it is main
\* already, or that there is room.
Room(q) ==
    q.pc = "write" /\ q.isMain = TRUE =>
      q.row \in main \/ Cardinality(MainOf(q)) < MaxMain

\* The inductive invariant: this is so until another makes rows main.
MainInv ==
    /\ IsFiniteSet(main)
    /\ \A r \in Reqs \ raced : Room(catReq[r])

\* The main rows are what they were, or become others, by a step of r.
MainMoves(r) ==
    \/ main' = main /\ raced' \in {raced, raced \ {r}}
    \/ \E now : MainBecomes(r, now) /\ IsFiniteSet(now)

\* Whoever is not outraced still has the room there was.
LEMMA RoomKept ==
  ASSUME MainInv, NEW r, MainMoves(r), NEW p \in Reqs \ raced', p # r,
         NEW q, q = catReq[p]
  PROVE  Room(q)'
<1>1. CASE main' = main /\ raced' \in {raced, raced \ {r}}
  <2>1. Room(q)
    BY <1>1 DEF MainInv
  <2> QED
    BY <1>1, <2>1 DEF Room, MainOf
<1>2. ASSUME NEW now, MainBecomes(r, now), IsFiniteSet(now) PROVE Room(q)'
  <2> SUFFICES ASSUME q.pc = "write", q.isMain = TRUE
               PROVE  q.row \in main' \/ Cardinality(main' \cap OfKind(KindOf[q.row])) < MaxMain
    BY DEF Room, MainOf
  <2>1. main' = now /\ p \notin raced
    BY <1>2 DEF MainBecomes
  <2>2. /\ \A x \in now \ main : KindOf[x] # KindOf[q.row]
        /\ q.row \notin main \ now
    BY <1>2 DEF MainBecomes, CatAt
  <2>3. q.row \in main \/ Cardinality(main \cap OfKind(KindOf[q.row])) < MaxMain
    BY <2>1 DEF MainInv, Room, MainOf
  <2>4. CASE q.row \in main
    BY <2>1, <2>2, <2>4
  <2>5. CASE Cardinality(main \cap OfKind(KindOf[q.row])) < MaxMain
    <3>1. PICK its : its = main \cap OfKind(KindOf[q.row])
      OBVIOUS
    <3>2. PICK left : left = now \cap OfKind(KindOf[q.row])
      OBVIOUS
    <3>3. left \subseteq its
      BY <2>2, <3>1, <3>2 DEF OfKind
    <3>4. IsFiniteSet(its)
      BY <3>1, FS_Subset DEF MainInv
    <3>5. /\ IsFiniteSet(left) /\ Cardinality(left) <= Cardinality(its)
      BY <3>3, <3>4, FS_Subset
    <3>6. Cardinality(left) \in Nat /\ Cardinality(its) \in Nat
      BY <3>4, <3>5, FS_CardinalityType
    <3>7. Cardinality(left) < MaxMain
      BY <2>5, <3>1, <3>5, <3>6, CatalogueAssumption
    <3> QED
      BY <2>1, <3>2, <3>7
  <2> QED
    BY <2>3, <2>4, <2>5
<1> QED
  BY <1>1, <1>2 DEF MainMoves

\* The main rows stay finitely many.
LEMMA FiniteMain ==
  ASSUME MainInv, NEW r, MainMoves(r)
  PROVE  IsFiniteSet(main')
  BY DEF MainInv, MainMoves, MainBecomes

\* A step of r to q, which is not to write, or has room.
LEMMA MainStep ==
  ASSUME CatShape, MainInv, NEW r \in Reqs, NEW q, catReq' = Step(catReq, r, q),
         MainMoves(r), q.pc # "write" \/ (Room(q) /\ UNCHANGED main)
  PROVE  MainInv'
<1>1. /\ catReq'[r] = q /\ \A p \in Reqs \ {r} : catReq'[p] = catReq[p]
  BY DEF CatShape, Step
<1>2. ASSUME NEW p \in Reqs \ raced' PROVE Room(catReq[p])'
  <2>1. CASE p = r
    <3>1. Room(q)'
      BY DEF Room, MainOf
    <3> QED
      BY <1>1, <2>1, <3>1 DEF Room, MainOf
  <2>2. CASE p # r
    <3>1. PICK old : old = catReq[p]
      OBVIOUS
    <3>2. Room(old)'
      BY <2>2, <3>1, RoomKept
    <3> QED
      BY <1>1, <2>2, <3>1, <3>2 DEF Room, MainOf
  <2> QED
    BY <2>1, <2>2
<1> QED
  BY <1>2, FiniteMain DEF MainInv

\* A step of none: of a service that clears nothing, or of the cache.
LEMMA MainWorldStep ==
  ASSUME MainInv, UNCHANGED catReq, MainMoves(Null)
  PROVE  MainInv'
<1>1. ASSUME NEW p \in Reqs \ raced' PROVE Room(catReq[p])'
  <2>1. p # Null
    BY CatalogueAssumption
  <2>2. PICK old : old = catReq[p]
    OBVIOUS
  <2>3. Room(old)'
    BY <2>1, <2>2, RoomKept
  <2> QED
    BY <2>2, <2>3 DEF Room, MainOf
<1> QED
  BY <1>1, FiniteMain DEF MainInv

LEMMA LessMain ==
  ASSUME MainInv, NEW gone
  PROVE  IsFiniteSet(main \ gone)
  BY FS_Subset DEF MainInv

LEMMA RouteMain ==
  ASSUME CatShape, MainInv, NEW r \in Reqs, Routes(r)
  PROVE  MainInv'
<1>1. CASE Writes(r)
  <2>1. PICK op : ThenClear(r, op)
    BY <1>1 DEF Writes
  <2>2. catReq' = Step(catReq, r, Afterwards(op)) /\ Afterwards(op).pc # "write"
    BY <2>1, ClearRequest DEF ThenClear, CatGoto
  <2>3. MainMoves(r)
    BY <1>1, LessMain DEF Writes, MainMoves
  <2> QED
    BY <2>2, <2>3, MainStep
<1>2. CASE Begins(r)
  <2>1. PICK q : /\ q.pc = "write" /\ q.isMain = TRUE => q.row \in main
                 /\ catReq' = Step(catReq, r, q) /\ UNCHANGED <<main, raced>>
    BY <1>2 DEF Begins, CatGoto, tables
  <2>2. Room(q) /\ MainMoves(r)
    BY <2>1 DEF Room, MainMoves
  <2> QED
    BY <2>1, <2>2, MainStep
<1> QED
  BY <1>1, <1>2, RouteCases DEF CatShape

\* validateIsMainLimit finds room, or the request ends.
LEMMA CheckMainStep ==
  ASSUME CatShape, MainInv, NEW r \in Reqs, CheckMain(r)
  PROVE  MainInv'
<1>1. PICK old : old = catReq[r] /\ CatRequest(old) /\ old.pc = "checkMain"
  BY DEF CatShape, CheckMain, CatAt
<1>2. UNCHANGED <<main, raced>> /\ MainMoves(r)
  BY DEF CheckMain, tables, MainMoves
<1>3. CASE ValidateIsMainLimit(KindOf[old.row]) /\ CatAwait(r, "write")
  <2>1. PICK n : n = [old EXCEPT !.pc = "write"]
    OBVIOUS
  <2>2. n.row = old.row
    BY <1>1, <2>1 DEF CatRequest
  <2>3. catReq' = Step(catReq, r, n)
    BY <1>1, <1>3, <2>1 DEF CatAwait, Step
  <2>4. Room(n)
    BY <1>3, <2>2 DEF Room, MainOf, ValidateIsMainLimit
  <2> QED
    BY <1>2, <2>3, <2>4, MainStep
<1>4. CASE CatGoto(r, CatIdle)
  BY <1>2, <1>4, IdleRequest, MainStep DEF CatGoto
<1> QED
  BY <1>1, <1>3, <1>4 DEF CheckMain

\* What WriteRow makes of the main rows.
MainAfter(q) == IF q.isMain = TRUE THEN main \cup {q.row}
                ELSE IF q.isMain = FALSE THEN main \ {q.row} ELSE main

\* A write makes its row main, or no longer so, or leaves it; or it is
\* refused.
LEMMA WriteMainCases ==
  ASSUME NEW r \in Reqs, WriteRow(r)
  PROVE  /\ catReq[r].pc = "write"
         /\ \/ MainBecomes(r, MainAfter(catReq[r]))
            \/ UNCHANGED main /\ raced' = raced \ {r}
         /\ \E q : catReq' = Step(catReq, r, q) /\ q.pc \in {"idle", "clear", "sync"}
<1>1. PICK old : old = catReq[r]
  OBVIOUS
<1>2. PICK sync : sync = [pc |-> "sync", row |-> old.row, recommends |-> old.recommends]
  OBVIOUS
<1>3. \/ catReq' = Step(catReq, r, Afterwards("update"))
      \/ catReq' = Step(catReq, r, sync)
      \/ catReq' = Step(catReq, r, CatIdle)
  BY <1>1, <1>2 DEF WriteRow, CatGoto
<1>4. \E q : catReq' = Step(catReq, r, q) /\ q.pc \in {"idle", "clear", "sync"}
  BY <1>2, <1>3, IdleRequest, ClearRequest
<1>5. \/ MainBecomes(r, MainAfter(old))
      \/ UNCHANGED main /\ raced' = raced \ {r}
  BY <1>1 DEF WriteRow, MainAfter
<1>6. old.pc = "write"
  BY <1>1 DEF WriteRow, CatAt
<1> QED
  BY <1>1, <1>4, <1>5, <1>6

LEMMA WriteMain ==
  ASSUME CatShape, MainInv, NEW r \in Reqs, WriteRow(r)
  PROVE  MainInv'
<1>1. PICK old : old = catReq[r]
  OBVIOUS
<1>2. IsFiniteSet(MainAfter(old))
  <2>1. IsFiniteSet(main \cup {old.row}) /\ IsFiniteSet(main \ {old.row})
    BY FS_AddElement, FS_Subset DEF MainInv
  <2> QED
    BY <2>1 DEF MainAfter, MainInv
<1>3. MainMoves(r)
  BY <1>1, <1>2, WriteMainCases DEF MainMoves
<1>4. PICK q : catReq' = Step(catReq, r, q) /\ q.pc \in {"idle", "clear", "sync"}
  BY WriteMainCases
<1> QED
  BY <1>3, <1>4, MainStep

\* No row is main at first, and a request past its count still has room.
LEMMA InitMain == CTInit => MainInv
<1> SUFFICES ASSUME CTInit PROVE MainInv
  OBVIOUS
<1>1. main = {} /\ catReq = [r \in Reqs |-> CatIdle]
  BY DEF CTInit
<1> QED
  BY <1>1, IdleRequest, FS_EmptySet DEF MainInv, Room

LEMMA NextMain == CacheInv /\ MainInv /\ [CTNext]_catVars => MainInv'
<1> SUFFICES ASSUME CacheInv, MainInv, [CTNext]_catVars PROVE MainInv'
  OBVIOUS
<1>1. CatShape
  BY DEF CacheInv
<1>2. ASSUME NEW r \in Reqs, NEW q, CatGoto(r, q), q.pc # "write", UNCHANGED <<main, raced>>
      PROVE  MainInv'
  BY <1>1, <1>2, MainStep DEF CatGoto, MainMoves
<1>3. ASSUME NEW r \in Reqs, SyncRecommended(r) \/ ClearCache(r) \/ SetCache(r)
      PROVE  MainInv'
  BY <1>2, <1>3, IdleRequest, ClearRequest DEF SyncRecommended, ClearCache, SetCache, tables
<1>4. ASSUME NEW r \in Reqs, NEW k, QueryDb(r, k) PROVE MainInv'
  <2>1. PICK q : q = [pc |-> "set", key |-> k, answer |-> Answer(k)]
    OBVIOUS
  <2>2. q.pc # "write"
    BY <2>1
  <2> QED
    BY <1>2, <1>4, <2>1, <2>2 DEF QueryDb, tables
<1>5. ASSUME NEW r \in Reqs, CatReject(r) PROVE MainInv'
  <2>1. catReq' = Step(catReq, r, CatIdle) /\ MainMoves(r)
    BY <1>5 DEF CatReject, CatGoto, tables, MainMoves
  <2> QED
    BY <1>1, <2>1, IdleRequest, MainStep
<1>6. CASE Others
  BY <1>1, <1>6, OtherRows, LessMain, MainWorldStep DEF MainMoves
<1>7. CASE SetAccreditations
  BY <1>1, <1>7, AccreditationRows, MainWorldStep DEF MainMoves
<1>11. CASE Flags
  BY <1>1, <1>11, FlagRows, MainWorldStep DEF MainMoves
<1>8. ASSUME NEW k, Expire(k) PROVE MainInv'
  BY <1>8, MainWorldStep DEF Expire, MainMoves, tables
<1>9. CASE Restart
  BY <1>9, IdleRequest DEF Restart, MainInv, Room, tables
<1>10. CASE UNCHANGED catVars
  BY <1>10, MainWorldStep DEF catVars, tables, MainMoves
<1> QED
  BY <1>1, <1>3, <1>4, <1>5, <1>6, <1>7, <1>8, <1>9, <1>10, <1>11, CatalogueCases, RouteMain,
     CheckMainStep, WriteMain

\* A request that found room still has it when it writes, unless another made a
\* row main meanwhile: the inductive invariant holds of every reachable state.
THEOREM MainInvHolds == CTSpec => []MainInv
  BY InitMain, NextMain, CacheInvHolds, PTL DEF CTSpec

\* A write leaves the main rows of its kind within the limit, or no more.
LEMMA WithinMain ==
  ASSUME CacheInv, MainInv, NEW r \in Reqs \ raced, WriteRow(r),
         NEW its, its = OfKind(KindOf[catReq[r].row])
  PROVE  \/ Cardinality(main' \cap its) <= MaxMain
         \/ Cardinality(main' \cap its) <= Cardinality(main \cap its)
<1>1. PICK old : old = catReq[r] /\ old.pc = "write"
  BY WriteMainCases
<1>2. IsFiniteSet(main \cap its) /\ Cardinality(main \cap its) \in Nat
  BY FS_Subset, FS_CardinalityType DEF MainInv
<1>3. CASE main' \subseteq main
  <2>1. main' \cap its \subseteq main \cap its
    BY <1>3
  <2> QED
    BY <1>2, <2>1, FS_Subset
<1>4. CASE old.isMain = TRUE /\ main' = main \cup {old.row} /\ old.row \notin main
  <2>1. Cardinality(main \cap its) < MaxMain
    BY <1>1, <1>4 DEF MainInv, Room, MainOf
  <2>2. main' \cap its \subseteq (main \cap its) \cup {old.row}
    BY <1>4
  <2>3. /\ IsFiniteSet((main \cap its) \cup {old.row})
        /\ Cardinality((main \cap its) \cup {old.row}) <= Cardinality(main \cap its) + 1
        /\ Cardinality((main \cap its) \cup {old.row}) \in Nat
    <3>1. PICK A : A = main \cap its
      OBVIOUS
    <3>2. PICK B : B = A \cup {old.row}
      OBVIOUS
    <3>3. IsFiniteSet(A) /\ Cardinality(A) \in Nat
      BY <1>2, <3>1
    <3>4. /\ IsFiniteSet(B)
          /\ Cardinality(B) = IF old.row \in A THEN Cardinality(A) ELSE Cardinality(A) + 1
      BY <3>2, <3>3, FS_AddElement
    <3>5. IsFiniteSet(B) /\ Cardinality(B) <= Cardinality(A) + 1 /\ Cardinality(B) \in Nat
      BY <3>3, <3>4
    <3> QED
      BY <3>1, <3>2, <3>5
  <2>4. /\ Cardinality(main' \cap its) <= Cardinality((main \cap its) \cup {old.row})
        /\ Cardinality(main' \cap its) \in Nat
    BY <2>2, <2>3, FS_Subset, FS_CardinalityType
  <2>5. MaxMain \in Nat
    BY CatalogueAssumption
  <2> QED
    BY <1>2, <2>1, <2>3, <2>4, <2>5
<1>5. main' = MainAfter(old) \/ main' = main
  BY <1>1, WriteMainCases DEF MainBecomes
<1> QED
  BY <1>3, <1>4, <1>5 DEF MainAfter

\* No request takes the main countries, or universities, over their limit or
\* further over it, unless another one made a row main after its count.
THEOREM MainCapHolds == CTSpec => MainCap
<1>1. CacheInv /\ MainInv =>
        [\A r \in Reqs \ raced : WriteRow(r) =>
           LET its == OfKind(KindOf[catReq[r].row]) IN
           \/ Cardinality(main' \cap its) <= MaxMain
           \/ Cardinality(main' \cap its) <= Cardinality(main \cap its)]_catVars
  BY WithinMain
<1> QED
  BY <1>1, CacheInvHolds, MainInvHolds, PTL DEF CTSpec, MainCap

-----------------------------------------------------------------------------
(* References *)

\* Main and recommended rows are of kinds that are never deleted along.
Lasting == {"country", "university"}

\* Rows have what they refer to, and the flags are of rows that are there.
Tabled ==
    /\ DOMAIN db \subseteq Rows
    /\ \A x \in DOMAIN db : db[x] \in BOOLEAN /\ ReferencesHold(x)
    /\ main \subseteq DOMAIN db /\ recommended \subseteq DOMAIN db
    /\ \A x \in main \cup recommended : KindOf[x] \in Lasting
Sound ==
    /\ Tabled
    /\ aside \subseteq DOMAIN db /\ \A x \in aside : KindOf[x] \in {"university", "offer"}

\* What a request is to write: a country, or a university with its offers.
Wanted(q) ==
    q.pc \in {"checkMain", "write"} =>
      /\ q.row \in Rows /\ KindOf[q.row] \in Lasting
      /\ q.offers \cup q.others \subseteq OffersBy(q.row)
      /\ q.offers \cup q.others # {} => KindOf[q.row] = "university"

\* The inductive invariant.
SoundInv ==
    /\ Sound
    /\ \A r \in Reqs : Wanted(catReq[r])
    /\ writes \in 0..MaxWrites /\ raced \subseteq Reqs
    /\ tainted \subseteq CachedKeys \cup Reqs /\ outgrown \subseteq CachedKeys \cup Reqs

\* A deletion takes along whatever refers to the row.
LEMMA TakeOutSound ==
  ASSUME Sound, raced \subseteq Reqs, NEW x \in Rows, NEW r, TakeOut(r, x)
  PROVE  Tabled' /\ raced' \subseteq Reqs
<1>1. PICK gone : gone = Gone(x)
  OBVIOUS
<1>2. /\ db' = Without(db, gone) /\ main' = main \ gone /\ recommended' = recommended \ gone
      /\ raced' \subseteq Reqs /\ gone # {}
  BY <1>1 DEF TakeOut, MainBecomes
<1>3. x \in DOMAIN db /\ ~Restricted(x) /\ gone = {x} \cup Referring(x)
  BY <1>1, <1>2 DEF Gone
<1>4. ASSUME NEW z \in DOMAIN db \ gone, NEW y \in RefersTo[z] \cap gone PROVE FALSE
  <2>1. y # x
    BY <1>3, <1>4 DEF Referring
  <2>2. y \in Rows /\ x \in RefersTo[y] /\ z \in Rows
    BY <1>3, <2>1 DEF Referring, Sound, Tabled
  <2>3. KindOf[x] \in Cascades
    BY <1>3, <2>1 DEF Restricted
  <2> QED
    BY <2>2, <2>3, CatalogueAssumption
<1>5. DOMAIN db' = DOMAIN db \ gone /\ \A y \in DOMAIN db' : db'[y] = db[y]
  BY <1>2 DEF Without
<1>6. ASSUME NEW y \in DOMAIN db' PROVE RefersTo[y] \subseteq DOMAIN db'
  BY <1>4, <1>5 DEF Sound, Tabled, ReferencesHold
<1> QED
  BY <1>2, <1>5, <1>6 DEF Sound, Tabled, ReferencesHold

\* One row is created, updated, or removed with those that refer to it.
LEMMA RowSound ==
  ASSUME Sound, raced \subseteq Reqs, NEW x \in Rows, NEW r,
         CreateRow(x) \/ UpdateRow(x) \/ RemoveRow(r, x)
  PROVE  Sound' /\ raced' \subseteq Reqs
<1>1. CASE CreateRow(x)
  <2>1. DOMAIN db' = DOMAIN db \cup {x} /\ db'[x] = FALSE /\ \A y \in DOMAIN db : db'[y] = db[y]
    BY <1>1 DEF CreateRow, With
  <2> QED
    BY <1>1, <2>1 DEF CreateRow, Sound, Tabled, ReferencesHold
<1>2. CASE UpdateRow(x)
  <2>1. DOMAIN db' = DOMAIN db /\ \A y \in DOMAIN db : db'[y] \in BOOLEAN
    BY <1>2 DEF UpdateRow, Sound, Tabled
  <2> QED
    BY <1>2, <2>1 DEF UpdateRow, Sound, Tabled, ReferencesHold
<1>3. CASE RemoveRow(r, x)
  <2>1. Tabled' /\ raced' \subseteq Reqs
    BY <1>3, TakeOutSound DEF RemoveRow
  <2>2. aside' = aside \ Gone(x) /\ DOMAIN db' = DOMAIN db \ Gone(x)
    BY <1>3 DEF RemoveRow, TakeOut, Without
  <2> QED
    BY <2>1, <2>2 DEF Sound
<1> QED
  BY <1>1, <1>2, <1>3

\* The step leaves the tables sound and gives r something to do that is no
\* write of a country or university, or one that is well-formed.
LEMMA SoundStep ==
  ASSUME SoundInv, NEW r \in Reqs, NEW q, Wanted(q),
         catReq = [p \in Reqs |-> catReq[p]], CatGoto(r, q),
         Sound', writes' \in 0..MaxWrites, raced' \subseteq Reqs,
         tainted' \subseteq CachedKeys \cup Reqs, outgrown' \subseteq CachedKeys \cup Reqs
  PROVE  SoundInv'
<1>1. catReq' = [p \in Reqs |-> IF p = r THEN q ELSE catReq[p]]
  BY DEF CatGoto, Step
<1>2. ASSUME NEW p \in Reqs PROVE Wanted(catReq[p])'
  BY <1>1 DEF SoundInv, Wanted, OffersBy
<1> QED
  BY <1>2 DEF SoundInv

\* A request that begins is counted.
LEMMA StartsCount ==
  ASSUME SoundInv, Counting
  PROVE  writes' \in 0..MaxWrites
BY CatalogueAssumption DEF SoundInv, Counting

\* A row is written and the cache to be cleared.
LEMMA ThenClearSound ==
  ASSUME CacheInv, SoundInv, NEW r \in Reqs, NEW op, ThenClear(r, op), NEW x \in Rows,
         CreateRow(x) \/ UpdateRow(x) \/ RemoveRow(r, x)
  PROVE  SoundInv'
<1>1. Sound' /\ raced' \subseteq Reqs
  BY RowSound DEF SoundInv
<1>2. Wanted(Afterwards(op))
  BY DEF Wanted, Afterwards
<1>3. writes' \in 0..MaxWrites
  BY StartsCount DEF ThenClear, Starts
<1>4. /\ CatGoto(r, Afterwards(op)) /\ tainted' \subseteq CachedKeys \cup Reqs
      /\ outgrown' \subseteq CachedKeys \cup Reqs
  BY DEF ThenClear, SoundInv
<1> QED
  BY <1>1, <1>2, <1>3, <1>4, SoundStep DEF CacheInv, CatShape

\* A creation or an update of a country or a university begins.
LEMMA SaveSound ==
  ASSUME CacheInv, SoundInv, NEW r \in Reqs, Starts(r),
         NEW x \in Rows, KindOf[x] \in Lasting, NEW isMain, NEW unchecked, NEW recommends,
         NEW offers, NEW others, offers \cup others \subseteq OffersBy(x),
         offers \cup others # {} => KindOf[x] = "university",
         Save(r, x, isMain, unchecked, offers, others, recommends)
  PROVE  SoundInv'
<1>1. PICK q : /\ CatGoto(r, q)
               /\ q.row = x /\ q.offers = offers /\ q.others = others
  BY DEF Save
<1>2. Wanted(q)
  BY <1>1 DEF Wanted
<1>3. /\ UNCHANGED <<db, main, recommended, aside>>
      /\ raced' \subseteq Reqs /\ tainted' \subseteq CachedKeys \cup Reqs
      /\ outgrown' \subseteq CachedKeys \cup Reqs
  BY DEF Save, tables, SoundInv
<1>4. Sound'
  BY <1>3 DEF SoundInv, Sound, Tabled, ReferencesHold
<1>5. writes' \in 0..MaxWrites
  BY StartsCount DEF Starts
<1> QED
  BY <1>1, <1>2, <1>3, <1>4, <1>5, SoundStep DEF CacheInv, CatShape

\* The routes that write, up to their first await.
LEMMA RouteSound ==
  ASSUME CacheInv, SoundInv, NEW r \in Reqs, Routes(r)
  PROVE  SoundInv'
<1>1. \A kind : OfKind(kind) \subseteq Rows /\ \A x \in OfKind(kind) : KindOf[x] = kind
  BY DEF OfKind
<1>2. CASE CitiesController(r)
  BY <1>1, <1>2, ThenClearSound DEF CitiesController, CreateCity, UpdateCity, RemoveCity
<1>3. CASE ProgramsController(r)
  BY <1>1, <1>3, ThenClearSound DEF ProgramsController, CreateProgram, UpdateProgram, RemoveProgram
<1>4. CASE RemoveCountry(r) \/ RemoveUniversity(r) \/ RemoveUniversityProgram(r)
  BY <1>1, <1>4, ThenClearSound DEF RemoveCountry, RemoveUniversity, RemoveUniversityProgram
<1>5. CASE CreateCountry(r)
  <2>1. PICK x \in OfKind("country"), isMain \in BOOLEAN \cup {Null},
             recommends \in Lists :
          Starts(r) /\ Save(r, x, isMain, FALSE, {}, {}, recommends)
    BY <1>5 DEF CreateCountry
  <2>2. x \in Rows /\ KindOf[x] \in Lasting /\ {} \cup {} = {}
    BY <1>1 DEF Lasting
  <2>3. {} \cup {} \subseteq OffersBy(x) /\ ({} \cup {} # {} => KindOf[x] = "university")
    OBVIOUS
  <2> QED
    BY <2>1, <2>2, <2>3, SaveSound
<1>6. CASE UpdateCountry(r)
  <2>1. PICK x \in OfKind("country"), isMain \in BOOLEAN \cup {Null},
             recommends \in Lists :
          Starts(r) /\ Save(r, x, isMain, x \in main, {}, {}, recommends)
    BY <1>6 DEF UpdateCountry
  <2> QED
    BY <1>1, <2>1, SaveSound DEF Lasting
<1>7. CASE CreateUniversity(r)
  <2>1. PICK x \in OfKind("university"), isMain \in BOOLEAN :
          /\ Starts(r)
          /\ \E offers \in SUBSET OffersBy(x) : Save(r, x, isMain, FALSE, offers, {}, Null)
    BY <1>7 DEF CreateUniversity
  <2>2. PICK offers \in SUBSET OffersBy(x) : Save(r, x, isMain, FALSE, offers, {}, Null)
    BY <2>1
  <2>3. /\ x \in Rows /\ KindOf[x] = "university" /\ KindOf[x] \in Lasting
        /\ offers \cup {} \subseteq OffersBy(x)
    BY <1>1 DEF Lasting
  <2> QED
    BY <2>1, <2>2, <2>3, SaveSound
<1>8. CASE UpdateUniversity(r)
  <2>1. PICK x \in OfKind("university"), isMain \in BOOLEAN \cup {Null} :
          /\ Starts(r)
          /\ \E offers, others \in SUBSET OffersBy(x) :
               Save(r, x, isMain, x \in main, offers, others, Null)
    BY <1>8 DEF UpdateUniversity
  <2>2. PICK offers \in SUBSET OffersBy(x), others \in SUBSET OffersBy(x) :
          Save(r, x, isMain, x \in main, offers, others, Null)
    BY <2>1
  <2>3. /\ x \in Rows /\ KindOf[x] = "university" /\ KindOf[x] \in Lasting
        /\ offers \cup others \subseteq OffersBy(x)
    BY <1>1 DEF Lasting
  <2> QED
    BY <2>1, <2>2, <2>3, SaveSound
<1>9. CASE ExpireIntakes(r)
  <2>1. PICK S \in SUBSET OfKind("offer") : aside' = Turned(S \cap DOMAIN db)
    BY <1>9 DEF ExpireIntakes
  <2>2. ThenClear(r, "expire") /\ UNCHANGED <<db, main, recommended, raced>>
    BY <1>9 DEF ExpireIntakes
  <2>3. Sound' /\ raced' \subseteq Reqs
    BY <2>1, <2>2 DEF SoundInv, Sound, Tabled, ReferencesHold, Turned, OfKind
  <2>4. Wanted(Afterwards("expire"))
    BY DEF Wanted, Afterwards
  <2>5. writes' \in 0..MaxWrites
    BY <2>2, StartsCount DEF ThenClear, Starts
  <2>6. /\ CatGoto(r, Afterwards("expire")) /\ tainted' \subseteq CachedKeys \cup Reqs
        /\ outgrown' \subseteq CachedKeys \cup Reqs
    BY <2>2 DEF ThenClear, SoundInv
  <2> QED
    BY <2>3, <2>4, <2>5, <2>6, SoundStep DEF CacheInv, CatShape
<1> QED
  BY <1>2, <1>3, <1>4, <1>5, <1>6, <1>7, <1>8, <1>9
     DEF Routes, CountriesController, UniversitiesController

\* A write leaves every row with what it refers to: the offers it deletes are
\* referred to by none, and those it inserts join the university to programs
\* that are there.
LEMMA WriteSound ==
  ASSUME CacheInv, SoundInv, NEW r \in Reqs, WriteRow(r)
  PROVE  SoundInv'
<1>1. PICK q : q = catReq[r]
  OBVIOUS
<1>2. PICK x : x = q.row
  OBVIOUS
<1>3. /\ q.pc = "write" /\ Wanted(q)
      /\ UNCHANGED <<recommended, cache, writes, tainted, outgrown>>
  BY <1>1 DEF WriteRow, CatAt, SoundInv
<1>4. /\ x \in Rows /\ KindOf[x] \in Lasting
      /\ q.offers \cup q.others \subseteq OffersBy(x)
      /\ q.offers \cup q.others # {} => KindOf[x] = "university"
  BY <1>2, <1>3 DEF Wanted
<1>5. catReq = [p \in Reqs |-> catReq[p]]
  BY DEF CacheInv, CatShape
<1>6. CASE UNCHANGED <<db, main, aside>> /\ CatGoto(r, CatIdle) /\ raced' = raced \ {r}
  <2>1. Sound' /\ Wanted(CatIdle)
    BY <1>3, <1>6 DEF SoundInv, Sound, Tabled, ReferencesHold, Wanted, CatIdle
  <2> QED
    BY <1>3, <1>5, <1>6, <2>1, SoundStep DEF SoundInv
<1>7. CASE /\ q.create = (x \notin DOMAIN db) /\ ReferencesHold(x)
           /\ \A o \in q.offers : Offerable(o)
           /\ db' = [y \in DOMAIN Without(db, q.others) \cup {x} \cup q.offers |->
                       IF y # x /\ y \in DOMAIN Without(db, q.others)
                       THEN Without(db, q.others)[y]
                       ELSE IF y = x /\ ~q.create THEN ~db[x] ELSE FALSE]
           /\ \E now \in {main, main \cup {x}, main \ {x}} : MainBecomes(r, now)
           /\ \E n : CatGoto(r, n) /\ n.pc \in {"sync", "clear"}
           /\ aside' = aside \ q.others
  <2>1. DOMAIN db' = (DOMAIN db \ q.others) \cup {x} \cup q.offers
    BY <1>7 DEF Without
  <2>2. \A y \in DOMAIN db' : db'[y] \in BOOLEAN
    BY <1>7, <2>1 DEF Without, SoundInv, Sound, Tabled
  <2>3. \A o \in q.offers \cup q.others : o \in Rows /\ KindOf[o] = "offer" /\ x \in RefersTo[o]
    BY <1>4 DEF OffersBy, OfKind
  <2>4. DOMAIN db' \subseteq Rows
    BY <1>4, <2>1, <2>3 DEF SoundInv, Sound, Tabled
  <2>5. ASSUME NEW o \in q.others, NEW z \in Rows PROVE o \notin RefersTo[z]
    BY <1>4, <2>3, <2>5, CatalogueAssumption DEF Cascades
  <2>6. ASSUME NEW y \in DOMAIN db' PROVE RefersTo[y] \subseteq DOMAIN db'
    <3>1. CASE y \in DOMAIN db \ q.others \/ y = x
      <4>1. RefersTo[y] \subseteq DOMAIN db /\ y \in Rows
        BY <1>4, <1>7, <3>1 DEF SoundInv, Sound, Tabled, ReferencesHold
      <4> QED
        BY <2>1, <2>5, <4>1
    <3>2. CASE y \in q.offers
      <4>1. KindOf[x] = "university" /\ KindOf[y] = "offer" /\ x \in RefersTo[y] /\ y \in Rows
        BY <1>4, <2>3, <3>2
      <4>2. ASSUME NEW z \in RefersTo[y] \ {x} PROVE z \in DOMAIN db \ q.others
        <5>1. z \in Rows
          BY <4>1, CatalogueAssumption
        <5>2. KindOf[z] = "program"
          BY <1>4, <4>1, <4>2, <5>1, CatalogueAssumption
        <5>3. z \in DOMAIN db
          BY <1>7, <3>2, <5>1, <5>2 DEF Offerable, OfKind
        <5> QED
          BY <2>3, <5>2, <5>3
      <4> QED
        BY <2>1, <4>2
    <3> QED
      BY <2>1, <3>1, <3>2
  <2>7. PICK now \in {main, main \cup {x}, main \ {x}} : MainBecomes(r, now)
    BY <1>7
  <2>8. main' = now /\ raced' \subseteq Reqs
    BY <2>7 DEF MainBecomes, SoundInv
  <2>9. \A y \in main \cup recommended : y \in DOMAIN db \ q.others /\ KindOf[y] \in Lasting
    BY <2>3 DEF SoundInv, Sound, Tabled, Lasting
  <2>13. aside' \subseteq DOMAIN db' /\ \A y \in aside' : KindOf[y] \in {"university", "offer"}
    BY <1>7, <2>1 DEF SoundInv, Sound, Tabled
  <2>10. Sound'
    BY <1>3, <1>4, <2>1, <2>2, <2>4, <2>6, <2>7, <2>8, <2>9, <2>13 DEF Sound, Tabled, ReferencesHold
  <2>11. PICK n : CatGoto(r, n) /\ n.pc \in {"sync", "clear"}
    BY <1>7
  <2>12. Wanted(n)
    BY <2>11 DEF Wanted
  <2> QED
    BY <1>3, <1>5, <2>8, <2>10, <2>11, <2>12, SoundStep DEF SoundInv
<1>8. PICK kept : kept = Without(db, q.others)
  OBVIOUS
<1>9. \/ UNCHANGED <<db, main, aside>> /\ CatGoto(r, CatIdle) /\ raced' = raced \ {r}
      \/ /\ q.create = (x \notin DOMAIN db) /\ ReferencesHold(x)
         /\ \A o \in q.offers : Offerable(o)
         /\ db' = [y \in DOMAIN kept \cup {x} \cup q.offers |->
                     IF y # x /\ y \in DOMAIN kept THEN kept[y]
                     ELSE IF y = x /\ ~q.create THEN ~db[x] ELSE FALSE]
         /\ MainBecomes(r, IF q.isMain = TRUE THEN main \cup {x}
                           ELSE IF q.isMain = FALSE THEN main \ {x} ELSE main)
         /\ CatGoto(r, IF q.recommends = Null THEN Afterwards("update")
                       ELSE [pc |-> "sync", row |-> x, recommends |-> q.recommends])
         /\ aside' = aside \ q.others
  BY <1>1, <1>2, <1>8, Zenon DEF WriteRow
<1>10. PICK n : n = IF q.recommends = Null THEN Afterwards("update")
                    ELSE [pc |-> "sync", row |-> x, recommends |-> q.recommends]
  OBVIOUS
<1>11. n.pc \in {"sync", "clear"}
  BY <1>10 DEF Afterwards
<1>12. PICK now : now = IF q.isMain = TRUE THEN main \cup {x}
                        ELSE IF q.isMain = FALSE THEN main \ {x} ELSE main
  OBVIOUS
<1>13. now \in {main, main \cup {x}, main \ {x}}
  BY <1>12
<1> QED
  BY <1>6, <1>7, <1>8, <1>9, <1>10, <1>11, <1>12, <1>13

\* The accreditations of a university are replaced.
LEMMA AccreditationSound ==
  ASSUME SoundInv, SetAccreditations
  PROVE  SoundInv'
<1>1. PICK u \in OfKind("university") \cap DOMAIN db, its \in SUBSET Rows,
           new \in SUBSET Rows :
        /\ its = {x \in OfKind("universityAccreditation") : u \in RefersTo[x]}
        /\ new \subseteq its /\ \A x \in new : ReferencesHold(x)
        /\ db' = [x \in (DOMAIN db \ its) \cup new |->
                    IF x \in DOMAIN db THEN db[x] ELSE FALSE]
        /\ Outgrows(its)
        /\ UNCHANGED <<main, recommended, aside, cache, catReq, raced, tainted>>
  BY DEF SetAccreditations, OfKind
<1>2. DOMAIN db' = (DOMAIN db \ its) \cup new /\ \A x \in DOMAIN db' : db'[x] \in BOOLEAN
  BY <1>1 DEF SoundInv, Sound, Tabled
<1>3. /\ u \in Rows /\ KindOf[u] = "university"
      /\ \A x \in its : x \in Rows /\ KindOf[x] = "universityAccreditation" /\ u \in RefersTo[x]
  BY <1>1 DEF OfKind
<1>4. ASSUME NEW x \in its, NEW z \in Rows PROVE x \notin RefersTo[z]
  BY <1>3, <1>4, CatalogueAssumption DEF Cascades
<1>5. ASSUME NEW y \in DOMAIN db' PROVE y \in Rows /\ RefersTo[y] \subseteq DOMAIN db'
  <2>1. RefersTo[y] \subseteq DOMAIN db /\ y \in Rows
    BY <1>1, <1>2, <1>3 DEF SoundInv, Sound, Tabled, ReferencesHold
  <2> QED
    BY <1>2, <1>4, <2>1
<1>6. /\ \A y \in main \cup recommended : y \in DOMAIN db \ its /\ KindOf[y] \in Lasting
      /\ \A y \in aside : y \in DOMAIN db \ its /\ KindOf[y] \in {"university", "offer"}
  BY <1>3 DEF SoundInv, Sound, Tabled, Lasting
<1>7. Sound'
  BY <1>1, <1>2, <1>5, <1>6 DEF Sound, Tabled, ReferencesHold
<1>8. writes' \in 0..MaxWrites
  BY StartsCount DEF SetAccreditations
<1>9. outgrown' \subseteq CachedKeys \cup Reqs
  BY <1>1 DEF Outgrows, SoundInv
<1> QED
  BY <1>1, <1>7, <1>8, <1>9 DEF SoundInv, Wanted, OffersBy

\* The services that clear nothing write a row of theirs, or of another's.
LEMMA OtherSound ==
  ASSUME SoundInv, Others \/ Flags
  PROVE  SoundInv'
<1>1. Counting /\ UNCHANGED <<cache, catReq, tainted>>
  BY DEF Others, CampusesService, AgencyServicesService, StudyLanguagesService,
     AdmissionRequirementsService, AccreditationsService, RankingOrganizationsService,
     RankingsOfUniversity, Quietly, Flags, ScholarshipsService, IntakesService
<1>2. writes' \in 0..MaxWrites
  BY <1>1, StartsCount
<1>3. ASSUME NEW S, Outgrows(S), Sound', raced' \subseteq Reqs PROVE SoundInv'
  <2>1. outgrown' \subseteq CachedKeys \cup Reqs
    BY <1>3 DEF Outgrows, SoundInv
  <2> QED
    BY <1>1, <1>2, <1>3, <2>1 DEF SoundInv, Wanted, OffersBy
<1>4. CASE Flags
  <2>1. PICK S : /\ S \subseteq {x \in DOMAIN db : KindOf[x] \in {"university", "offer"}}
                 /\ aside' = Turned(S) /\ Outgrows(S)
    BY <1>4 DEF Flags, ScholarshipsService, IntakesService, TurnsOver
  <2>2. UNCHANGED <<db, main, recommended, raced>>
    BY <1>4 DEF Flags, ScholarshipsService, IntakesService
  <2>3. Sound' /\ raced' \subseteq Reqs
    BY <2>1, <2>2 DEF SoundInv, Sound, Tabled, ReferencesHold, Turned
  <2> QED
    BY <1>3, <2>1, <2>3
<1>5. CASE Others
  <2>1. PICK x \in Rows :
          \/ (CreateRow(x) \/ UpdateRow(x)) /\ Outgrows({x})
          \/ \E bared \in SUBSET OptionalTo(x) :
               /\ TakeOut(Null, x) /\ aside' = Turned(bared) \ Gone(x)
               /\ Outgrows({x} \cup Gone(x) \cup bared)
    BY <1>5 DEF Others, CampusesService, AgencyServicesService, StudyLanguagesService,
       AdmissionRequirementsService, AccreditationsService, RankingOrganizationsService,
       RankingsOfUniversity, Quietly, OfKind
  <2>2. CASE (CreateRow(x) \/ UpdateRow(x)) /\ Outgrows({x})
    BY <1>3, <2>2, RowSound DEF SoundInv
  <2>3. ASSUME NEW bared \in SUBSET OptionalTo(x), TakeOut(Null, x),
               aside' = Turned(bared) \ Gone(x), Outgrows({x} \cup Gone(x) \cup bared)
        PROVE  SoundInv'
    <3>1. Tabled' /\ raced' \subseteq Reqs
      BY <2>3, TakeOutSound DEF SoundInv
    <3>2. bared \subseteq DOMAIN db /\ \A y \in bared : KindOf[y] \in {"university", "offer"}
      BY DEF OptionalTo, Optional
    <3>3. DOMAIN db' = DOMAIN db \ Gone(x)
      BY <2>3 DEF TakeOut, Without
    <3>4. aside' \subseteq DOMAIN db' /\ \A y \in aside' : KindOf[y] \in {"university", "offer"}
      BY <2>3, <3>2, <3>3 DEF Turned, SoundInv, Sound, Tabled
    <3>5. Sound'
      BY <3>1, <3>4 DEF Sound, Tabled
    <3> QED
      BY <1>3, <2>3, <3>1, <3>5
  <2> QED
    BY <2>1, <2>2, <2>3
<1> QED
  BY <1>4, <1>5

\* What neither begins a request nor writes a row of the catalogue.
LEMMA LocalSound ==
  ASSUME CacheInv, SoundInv, NEW r \in Reqs,
         \/ CheckMain(r) \/ SyncRecommended(r) \/ ClearCache(r)
         \/ (\E k \in CachedKeys : QueryDb(r, k)) \/ SetCache(r) \/ CatReject(r)
  PROVE  SoundInv'
<1>1. catReq = [p \in Reqs |-> catReq[p]] /\ CatRequest(catReq[r]) /\ Wanted(catReq[r])
  BY DEF CacheInv, CatShape, SoundInv
<1>2. UNCHANGED <<db, main, aside>> => (recommended' = recommended => Sound')
  BY DEF SoundInv, Sound, Tabled, ReferencesHold
<1>3. \A q : q.pc \notin {"checkMain", "write"} => Wanted(q)
  BY DEF Wanted
<1>4. CatIdle.pc = "idle" /\ \A op : Afterwards(op).pc = "clear"
  BY DEF CatIdle, Afterwards
<1>5. CASE CheckMain(r)
  <2>1. PICK q : q = [catReq[r] EXCEPT !.pc = "write"]
    OBVIOUS
  <2>2. catReq[r].pc = "checkMain"
    BY <1>5 DEF CheckMain, CatAt
  <2>3. /\ q.row = catReq[r].row /\ q.offers = catReq[r].offers /\ q.others = catReq[r].others
    BY <1>1, <2>1, <2>2 DEF CatRequest
  <2>4. Wanted(q)
    BY <1>1, <2>2, <2>3 DEF Wanted
  <2>5. CatGoto(r, q) \/ CatGoto(r, CatIdle)
    BY <1>1, <1>5, <2>1 DEF CheckMain, CatAwait, CatGoto, Step
  <2>6. UNCHANGED <<tables, writes, raced, tainted, outgrown>>
    BY <1>5 DEF CheckMain
  <2> QED
    BY <1>1, <1>2, <1>3, <1>4, <2>4, <2>5, <2>6, SoundStep DEF SoundInv, tables
<1>6. CASE SyncRecommended(r)
  <2>1. PICK its : /\ its \subseteq OfKind("university") \cap DOMAIN db
                   /\ recommended' \subseteq recommended \cup its
    BY <1>6 DEF SyncRecommended
  <2>2. /\ CatGoto(r, Afterwards("update"))
        /\ UNCHANGED <<db, main, aside, cache, writes, raced, tainted, outgrown>>
    BY <1>6 DEF SyncRecommended
  <2>3. Sound'
    BY <2>1, <2>2 DEF SoundInv, Sound, Tabled, ReferencesHold, OfKind, Lasting
  <2> QED
    BY <1>1, <1>3, <1>4, <2>2, <2>3, SoundStep DEF SoundInv
<1>7. CASE ClearCache(r)
  BY <1>1, <1>2, <1>3, <1>4, <1>7, SoundStep DEF ClearCache, SoundInv, tables
<1>8. CASE \E k \in CachedKeys : QueryDb(r, k)
  <2>1. PICK q : /\ q.pc = "set" /\ CatGoto(r, q)
                 /\ UNCHANGED <<tables, cache, writes, raced, tainted, outgrown>>
    BY <1>8 DEF QueryDb
  <2> QED
    BY <1>1, <1>2, <1>3, <2>1, SoundStep DEF SoundInv, tables
<1>9. CASE SetCache(r)
  <2>1. catReq[r].key \in CachedKeys
    BY <1>1, <1>9 DEF SetCache, CatAt, CatRequest
  <2>2. tainted' \subseteq CachedKeys \cup Reqs /\ outgrown' \subseteq CachedKeys \cup Reqs
    BY <1>9, <2>1 DEF SetCache, SoundInv
  <2> QED
    BY <1>1, <1>2, <1>3, <1>4, <1>9, <2>2, SoundStep DEF SetCache, SoundInv, tables
<1>10. CASE CatReject(r)
  <2>1. /\ raced' \subseteq Reqs /\ tainted' \subseteq CachedKeys \cup Reqs
        /\ outgrown' \subseteq CachedKeys \cup Reqs
    BY <1>10 DEF CatReject, SoundInv
  <2> QED
    BY <1>1, <1>2, <1>3, <1>4, <1>10, <2>1, SoundStep DEF CatReject, SoundInv, tables
<1> QED
  BY <1>5, <1>6, <1>7, <1>8, <1>9, <1>10

\* The rows there are at first have what they refer to.
LEMMA InitSound == CTInit => SoundInv
<1> SUFFICES ASSUME CTInit PROVE SoundInv
  OBVIOUS
<1>1. DOMAIN db = Seeded /\ \A x \in Seeded : db[x] = FALSE
  BY DEF CTInit
<1>2. Sound
  BY <1>1, CatalogueAssumption DEF CTInit, Sound, Tabled, ReferencesHold
<1>3. \A r \in Reqs : Wanted(catReq[r])
  BY DEF CTInit, CatIdle, Wanted
<1> QED
  BY <1>2, <1>3, CatalogueAssumption DEF CTInit, SoundInv

\* Every step keeps them so.
LEMMA NextSound == CacheInv /\ SoundInv /\ [CTNext]_catVars => SoundInv'
<1> SUFFICES ASSUME CacheInv, SoundInv, [CTNext]_catVars PROVE SoundInv'
  OBVIOUS
<1>1. CASE UNCHANGED catVars
  BY <1>1 DEF catVars, tables, SoundInv, Sound, Tabled, ReferencesHold, Wanted, OffersBy
<1>2. CASE \E k \in CachedKeys : Expire(k)
  BY <1>2 DEF Expire, tables, SoundInv, Sound, Tabled, ReferencesHold, Wanted, OffersBy
<1>3. CASE Restart
  BY <1>3 DEF Restart, tables, SoundInv, Sound, Tabled, ReferencesHold, Wanted, OffersBy, CatIdle
<1> QED
  BY <1>1, <1>2, <1>3, CatalogueCases, RouteSound, WriteSound, LocalSound, OtherSound,
     AccreditationSound

\* What a row refers to is there, whatever is deleted between a check and the
\* write it was made for, and what is main or recommended is there.
THEOREM SoundInvHolds == CTSpec => []SoundInv
  BY InitSound, NextSound, CacheInvHolds, PTL DEF CTSpec

\* With the types of the cache and of requests: the type invariant.
THEOREM CatalogueTypes == CTSpec => []CTTypeOK
<1>1. CacheInv /\ SoundInv => CTTypeOK
  BY DEF CacheInv, CatShape, CatRequest, CatPcs, SoundInv, Sound, Tabled, CTTypeOK
<1> QED
  BY <1>1, CacheInvHolds, SoundInvHolds, PTL
=============================================================================
