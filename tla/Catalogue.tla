----------------------------- MODULE Catalogue -----------------------------
(***************************************************************************)
(* The catalogue: countries, cities, programs and universities with what   *)
(* they offer, and the smaller tables that hang on them, each with its     *)
(* service under src/.  The four services of the former keep what they     *)
(* read in one cache in memory, for ten minutes, and clear all of it after *)
(* each write of theirs.  The services of the latter, and those of         *)
(* scholarships and intakes, write what is part of the cached answers and  *)
(* clear nothing.                                                          *)
(*                                                                         *)
(* A row is of a kind and refers to the rows it needs.  Of its contents    *)
(* the model keeps isMain, isRecommended and two bits: one for what its    *)
(* own service writes, and one for what others write of it and beside it.  *)
(* A createMany is so many creates; a query by id that finds no row, or is *)
(* refused by a foreign key, leaves no trace and is one step with the read *)
(* before it.                                                              *)
(***************************************************************************)
EXTENDS Backend

CONSTANTS
    Rows,        \* the ids that rows can have
    KindOf,      \* of each row
    RefersTo,    \* of each row: the rows it must refer to
    Seeded,      \* the rows there are at first
    CachedKeys,        \* the cached reads that are made, named by what they embed
    MaxMain,     \* how many of a kind may be main: 3
    MaxWrites    \* bound on the requests that write

VARIABLES
    db,           \* the rows there are, with their contents
    main,         \* those with isMain
    recommended,  \* universities with isRecommended
    aside,        \* universities and offers whose other bit is set: the flags,
                  \* the scholarships, the intakes, the optional references
    cache,        \* of each key: Null, or what a query answered
    catReq,
    writes,       \* so many requests have written
    raced,        \* requests that made room for a main row, before another's
    tainted,      \* readers that a clear ran past, and keys they then set
    outgrown      \* kept keys, and readers about to keep theirs, of what a
                  \* service has written since that clears nothing
tables == <<db, main, recommended, aside>>
catVars == <<tables, cache, catReq, writes, raced, tainted, outgrown>>

\* onDelete: Cascade; without it a reference restricts.
Cascades == {"university", "accreditation", "rankingOrganization"}
\* Optional references, from the former kind to the latter: onDelete SetNull.
Optional == {<<"university", "agencyService">>, <<"offer", "studyLanguage">>}
CachedKinds == {"country", "city", "program", "university", "offer"}

\* What the answers of the cached reads are made of.
FindAllCountries == {"country"}
FindOneCountry == {"country", "city", "university"}
FindMainCountries == {"country", "university"}
FindCities == {"city", "country"}
FindPrograms == {"program"}
FindAllUniversities == {"university", "country", "city", "offer"}
FindOneUniversity ==
    {"university", "country", "city", "offer", "program", "studyLanguage",
     "admissionRequirement", "campus", "agencyService"}
FindMainUniversities == {"university", "country", "city", "offer", "program"}
FindUniversitiesByPrograms ==
    {"offer", "university", "country", "city", "program", "campus"}
FindProgramsByUniversity == {"university", "offer", "program"}
FindAllUniversityPrograms == {"offer", "program"}
Reads == {FindAllCountries, FindOneCountry, FindMainCountries, FindCities,
          FindPrograms, FindAllUniversities, FindOneUniversity,
          FindMainUniversities, FindUniversitiesByPrograms,
          FindProgramsByUniversity, FindAllUniversityPrograms}

ASSUME CatalogueAssumption ==
    /\ KindOf \in [Rows -> STRING] /\ RefersTo \in [Rows -> SUBSET Rows]
    /\ Seeded \subseteq Rows /\ CachedKeys \subseteq Reads
    /\ {MaxMain, MaxWrites} \subseteq Nat
    \* What the cached kinds refer to is of these kinds.
    /\ \A x \in Rows : KindOf[x] \in CachedKinds =>
         {KindOf[y] : y \in RefersTo[x]} \subseteq CachedKinds
    /\ Reqs \cap CachedKeys = {} /\ Null \notin Reqs
    \* What is deleted along with a row nothing refers to; an offer joins one
    \* university to programs.
    /\ \A x \in Seeded : RefersTo[x] \subseteq Seeded
    /\ \A x, y, z \in Rows : KindOf[x] \in Cascades /\ x \in RefersTo[y] => y \notin RefersTo[z]
    /\ \A x, y, z \in Rows :
         KindOf[x] = "university" /\ KindOf[y] = "offer" /\ {x, z} \subseteq RefersTo[y]
           => z = x \/ KindOf[z] = "program"

\* What a query answers that reads the rows of these kinds.
Answer(kinds) ==
    LET found == {x \in DOMAIN db : KindOf[x] \in kinds}
    IN  [rows |-> Restrict(db, found), main |-> main \cap found,
         recommended |-> recommended \cap found, aside |-> aside \cap found]
\* Of an answer, what the services that clear the cache write of those kinds.
About(answer, kinds) ==
    LET S == {x \in DOMAIN answer.rows : KindOf[x] \in kinds}
    IN  [rows |-> Restrict(answer.rows, S), main |-> answer.main \cap S,
         recommended |-> answer.recommended \cap S]

CatIdle == [pc |-> "idle"]
CatAt(r, pc) == catReq[r].pc = pc
CatGoto(r, q) == catReq' = Step(catReq, r, q)
CatAwait(r, pc) == catReq' = [catReq EXCEPT ![r].pc = pc]

CTInit ==
    /\ db = [x \in Seeded |-> FALSE]
    /\ main = {} /\ recommended = {}
    /\ cache = [k \in CachedKeys |-> Null]
    /\ catReq = [r \in Reqs |-> CatIdle]
    /\ aside = {} /\ writes = 0 /\ raced = {} /\ tainted = {} /\ outgrown = {}

-----------------------------------------------------------------------------
(* Rows *)

ReferencesHold(x) == RefersTo[x] \subseteq DOMAIN db
Referring(x) == {y \in DOMAIN db : x \in RefersTo[y]}
Restricted(x) == KindOf[x] \notin Cascades /\ Referring(x) # {}

\* A university takes its offers along, which remove deletes itself.
Gone(x) == IF x \in DOMAIN db /\ ~Restricted(x) THEN {x} \cup Referring(x) ELSE {}

\* The main rows become `now`: who relied on others being so was too early.
MainBecomes(r, now) ==
    /\ main' = now
    /\ raced' = (raced \cup
         {q \in Reqs : /\ CatAt(q, "write") /\ catReq[q].isMain = TRUE
                       /\ \/ \E x \in now \ main : KindOf[x] = KindOf[catReq[q].row]
                          \/ catReq[q].row \in main \ now}) \ {r}

CreateRow(x) ==
    /\ x \notin DOMAIN db /\ ReferencesHold(x)
    /\ db' = With(db, x, FALSE) /\ UNCHANGED <<main, recommended, aside, raced>>
UpdateRow(x) ==
    /\ x \in DOMAIN db
    /\ db' = [db EXCEPT ![x] = ~@] /\ UNCHANGED <<main, recommended, aside, raced>>
TakeOut(r, x) ==
    /\ Gone(x) # {}
    /\ db' = Without(db, Gone(x))
    /\ MainBecomes(r, main \ Gone(x))
    /\ recommended' = recommended \ Gone(x)
RemoveRow(r, x) == TakeOut(r, x) /\ aside' = aside \ Gone(x)

\* The other bit of these rows is turned over.
Turned(S) == (aside \ S) \cup (S \ aside)

\* A request that writes begins.
Counting == writes < MaxWrites /\ writes' = writes + 1
Starts(r) == Counting /\ catReq[r] = CatIdle

\* A write of a service that clears the cache when its query has answered.
Afterwards_KeepOnRemove(op) == IF op = "remove" THEN CatIdle ELSE [pc |-> "clear"]
Afterwards(op) == [pc |-> "clear"]
ThenClear(r, op) ==
    /\ Starts(r)
    /\ CatGoto(r, Afterwards(op))
    /\ UNCHANGED <<cache, tainted, outgrown>>

\* clearCache: everything, whoever's it is.
ClearCache(r) ==
    /\ CatAt(r, "clear")
    /\ cache' = [k \in CachedKeys |-> Null]
    /\ tainted' = {q \in Reqs : CatAt(q, "set")}
    /\ outgrown' = outgrown \cap Reqs
    /\ CatGoto(r, CatIdle)
    /\ UNCHANGED <<tables, writes, raced>>

-----------------------------------------------------------------------------
(* CitiesService, ProgramsService, removeUniversityProgram *)

OfKind(kind) == {x \in Rows : KindOf[x] = kind}

CreateCity(r) == ThenClear(r, "create") /\ \E x \in OfKind("city") : CreateRow(x)
UpdateCity(r) == ThenClear(r, "update") /\ \E x \in OfKind("city") : UpdateRow(x)
RemoveCity(r) == ThenClear(r, "remove") /\ \E x \in OfKind("city") : RemoveRow(r, x)

CreateProgram(r) == ThenClear(r, "create") /\ \E x \in OfKind("program") : CreateRow(x)
UpdateProgram(r) == ThenClear(r, "update") /\ \E x \in OfKind("program") : UpdateRow(x)
\* A program that a university offers is refused as the foreign key would.
RemoveProgram(r) == ThenClear(r, "remove") /\ \E x \in OfKind("program") : RemoveRow(r, x)

RemoveUniversityProgram(r) ==
    ThenClear(r, "remove") /\ \E x \in OfKind("offer") : RemoveRow(r, x)

RemoveUniversity(r) ==
    ThenClear(r, "remove") /\ \E x \in OfKind("university") : RemoveRow(r, x)
RemoveCountry(r) == ThenClear(r, "remove") /\ \E x \in OfKind("country") : RemoveRow(r, x)

-----------------------------------------------------------------------------
(* CountriesService and UniversitiesService: what they create and update     *)

\* `offers` are those to be there and `others` those to be deleted;
\* `recommends` is a list of universities, or Null.  What else hangs on a
\* university, intakes and admission requirements, is left out.
Save(r, x, isMain, unchecked, offers, others, recommends) ==
    /\ CatGoto(r, [pc |-> IF isMain = TRUE /\ ~unchecked THEN "checkMain" ELSE "write",
                   row |-> x, create |-> x \notin DOMAIN db, isMain |-> isMain,
                   offers |-> offers, others |-> others, recommends |-> recommends])
    /\ UNCHANGED <<tables, cache, raced, tainted, outgrown>>

OffersBy(x) == {o \in OfKind("offer") : x \in RefersTo[o]}
Lists == {Null} \cup SUBSET OfKind("university")

\* validateProgramIds: the programs exist, when they are read.
Offerable(o) == RefersTo[o] \cap OfKind("program") \subseteq DOMAIN db

CreateUniversity(r) ==
    /\ Starts(r)
    /\ \E x \in OfKind("university") \ DOMAIN db, isMain \in BOOLEAN :
       \E offers \in SUBSET {o \in OffersBy(x) : Offerable(o)} :
         Save(r, x, isMain, FALSE, offers, {}, Null)

\* The offers there are now are compared with the DTO's, here and not in the
\* transaction; an offer that is in neither is left alone.
UpdateUniversity(r) ==
    /\ Starts(r)
    /\ \E x \in OfKind("university") \cap DOMAIN db, isMain \in BOOLEAN \cup {Null} :
         \/ Save(r, x, isMain, x \in main, {}, {}, Null)
         \/ \E offers \in SUBSET {o \in OffersBy(x) : Offerable(o)} :
              Save(r, x, isMain, x \in main, offers,
                   (OffersBy(x) \cap DOMAIN db) \ offers, Null)

CreateCountry(r) ==
    /\ Starts(r)
    /\ \E x \in OfKind("country") \ DOMAIN db, isMain \in BOOLEAN, recommends \in Lists :
         Save(r, x, isMain, FALSE, {}, {}, recommends)
UpdateCountry(r) ==
    /\ Starts(r)
    /\ \E x \in OfKind("country") \cap DOMAIN db, isMain \in BOOLEAN \cup {Null},
          recommends \in Lists :
         Save(r, x, isMain, x \in main, {}, {}, recommends)

\* validateIsMainLimit
ValidateIsMainLimit_OffByOne(kind) == Cardinality(main \cap OfKind(kind)) <= MaxMain
ValidateIsMainLimit(kind) == Cardinality(main \cap OfKind(kind)) < MaxMain

CheckMain(r) ==
    /\ CatAt(r, "checkMain")
    /\ IF ValidateIsMainLimit(KindOf[catReq[r].row]) THEN CatAwait(r, "write")
       ELSE CatGoto(r, CatIdle)
    /\ UNCHANGED <<tables, cache, writes, raced, tainted, outgrown>>

\* The insert, or the transaction of the update with updateUniversityPrograms.
WriteRow(r) ==
    LET q == catReq[r]
        x == q.row
        writable == q.create = (x \notin DOMAIN db) /\ ReferencesHold(x)
                      /\ \A o \in q.offers : Offerable(o)
        kept == Without(db, q.others)
    IN
    /\ CatAt(r, "write")
    /\ IF writable
       THEN /\ db' = [y \in DOMAIN kept \cup {x} \cup q.offers |->
                        IF y # x /\ y \in DOMAIN kept THEN kept[y]
                        ELSE IF y = x /\ ~q.create THEN ~db[x] ELSE FALSE]
            /\ MainBecomes(r, IF q.isMain = TRUE THEN main \cup {x}
                              ELSE IF q.isMain = FALSE THEN main \ {x} ELSE main)
            /\ CatGoto(r, IF q.recommends = Null THEN Afterwards("update")
                          ELSE [pc |-> "sync", row |-> x, recommends |-> q.recommends])
            /\ aside' = aside \ q.others
       ELSE UNCHANGED <<db, main, aside>> /\ CatGoto(r, CatIdle) /\ raced' = raced \ {r}
    /\ UNCHANGED <<recommended, cache, writes, tainted, outgrown>>

\* syncRecommendedUniversities
SyncRecommended(r) ==
    LET its == {u \in OfKind("university") \cap DOMAIN db : catReq[r].row \in RefersTo[u]}
    IN  /\ CatAt(r, "sync")
        /\ recommended' = (recommended \ its) \cup (its \cap catReq[r].recommends)
        /\ CatGoto(r, Afterwards("update"))
        /\ UNCHANGED <<db, main, aside, cache, writes, raced, tainted, outgrown>>

-----------------------------------------------------------------------------
(* The services that clear nothing *)

\* These rows are written: who has them in an answer has them as they were.
Outgrows(S) ==
    LET Embeds(k) == \E x \in S : KindOf[x] \in k
    IN  outgrown' = outgrown
          \cup {k \in CachedKeys : cache[k] # Null /\ Embeds(k)}
          \cup {r \in Reqs : CatAt(r, "set") /\ Embeds(catReq[r].key)}

OptionalTo(x) == {y \in DOMAIN db : <<KindOf[y], KindOf[x]>> \in Optional}

\* Of the rows that may refer to x optionally, some do.
Quietly(kind) ==
    /\ Counting
    /\ \E x \in OfKind(kind) :
         \/ (CreateRow(x) \/ UpdateRow(x)) /\ Outgrows({x})
         \/ \E bared \in SUBSET OptionalTo(x) :
              /\ TakeOut(Null, x) /\ aside' = Turned(bared) \ Gone(x)
              /\ Outgrows({x} \cup Gone(x) \cup bared)
    /\ UNCHANGED <<cache, catReq, tainted>>

CampusesService == Quietly("campus")
AgencyServicesService == Quietly("agencyService")
StudyLanguagesService == Quietly("studyLanguage")
AdmissionRequirementsService == Quietly("admissionRequirement")
AccreditationsService == Quietly("accreditation")
RankingOrganizationsService == Quietly("rankingOrganization")
RankingsOfUniversity == Quietly("universityRanking")

\* What is written of rows of another service, or beside them: the flags of
\* universities and the scholarships and intakes of offers.
TurnsOver(kinds) ==
    \E S \in SUBSET {x \in DOMAIN db : KindOf[x] \in kinds} :
      S # {} /\ aside' = Turned(S) /\ Outgrows(S)

ScholarshipsService ==
    /\ Counting /\ TurnsOver({"university", "offer"})
    /\ UNCHANGED <<db, main, recommended, cache, catReq, raced, tainted>>
IntakesService ==
    /\ Counting /\ TurnsOver({"offer"})
    /\ UNCHANGED <<db, main, recommended, cache, catReq, raced, tainted>>

\* The daily job writes links of offers to intakes in one transaction, and is
\* the one of that service's writers that clears the cache, if it wrote.
ExpireIntakes(r) ==
    /\ ThenClear(r, "expire")
    /\ \E S \in SUBSET OfKind("offer") : S \cap DOMAIN db # {} /\ aside' = Turned(S \cap DOMAIN db)
    /\ UNCHANGED <<db, main, recommended, raced>>

\* The accreditations of a university become those of the DTO.
SetAccreditations ==
    /\ Counting
    /\ \E u \in OfKind("university") \cap DOMAIN db :
      LET its == {x \in OfKind("universityAccreditation") : u \in RefersTo[x]} IN
      \E new \in SUBSET {x \in its : ReferencesHold(x)} :
        /\ db' = [x \in (DOMAIN db \ its) \cup new |->
                    IF x \in DOMAIN db THEN db[x] ELSE FALSE]
        /\ Outgrows(its)
    /\ UNCHANGED <<main, recommended, aside, cache, catReq, raced, tainted>>

-----------------------------------------------------------------------------
(* The cached reads *)

\* The cache has no answer: the database is asked.
QueryDb(r, k) ==
    /\ catReq[r] = CatIdle
    /\ cache[k] = Null
    /\ CatGoto(r, [pc |-> "set", key |-> k, answer |-> Answer(k)])
    /\ UNCHANGED <<tables, cache, writes, raced, tainted, outgrown>>

SetCache(r) ==
    LET k == catReq[r].key IN
    /\ CatAt(r, "set")
    /\ cache' = [cache EXCEPT ![k] = catReq[r].answer]
    /\ tainted' = (tainted \ {r, k}) \cup IF r \in tainted THEN {k} ELSE {}
    /\ outgrown' = (outgrown \ {r, k}) \cup IF r \in outgrown THEN {k} ELSE {}
    /\ CatGoto(r, CatIdle)
    /\ UNCHANGED <<tables, writes, raced>>

\* CacheModule: an answer is kept for so long, however often it is read.
Expire(k) ==
    /\ cache[k] # Null
    /\ cache' = [cache EXCEPT ![k] = Null]
    /\ tainted' = tainted \ {k} /\ outgrown' = outgrown \ {k}
    /\ UNCHANGED <<tables, catReq, writes, raced>>

\* A request fails: after the update of a country, what was read stays cached.
CatReject(r) ==
    /\ Faults /\ catReq[r].pc \in {"checkMain", "write", "sync", "set"}
    /\ CatGoto(r, CatIdle)
    /\ raced' = raced \ {r}
    /\ tainted' = IF CatAt(r, "sync") THEN tainted \cup CachedKeys \cup {q \in Reqs : CatAt(q, "set")}
                  ELSE tainted \ {r}
    /\ outgrown' = outgrown \ {r}
    /\ UNCHANGED <<tables, cache, writes>>

\* The process starts again: what was in memory is gone, cache and requests.
Restart ==
    /\ Faults
    /\ cache' = [k \in CachedKeys |-> Null] /\ catReq' = [r \in Reqs |-> CatIdle]
    /\ raced' = {} /\ tainted' = {} /\ outgrown' = {}
    /\ UNCHANGED <<tables, writes>>

\* The routes that write.
CountriesController(r) == CreateCountry(r) \/ UpdateCountry(r) \/ RemoveCountry(r)
CitiesController(r) == CreateCity(r) \/ UpdateCity(r) \/ RemoveCity(r)
ProgramsController(r) == CreateProgram(r) \/ UpdateProgram(r) \/ RemoveProgram(r)
UniversitiesController(r) ==
    \/ CreateUniversity(r) \/ UpdateUniversity(r)
    \/ RemoveUniversity(r) \/ RemoveUniversityProgram(r)

CTNext ==
    \/ \E r \in Reqs :
         \/ CountriesController(r) \/ CitiesController(r)
         \/ ProgramsController(r) \/ UniversitiesController(r) \/ ExpireIntakes(r)
         \/ CheckMain(r) \/ WriteRow(r) \/ SyncRecommended(r) \/ ClearCache(r)
         \/ (\E k \in CachedKeys : QueryDb(r, k))
         \/ SetCache(r) \/ CatReject(r)
    \/ CampusesService \/ AgencyServicesService \/ StudyLanguagesService
    \/ AdmissionRequirementsService \/ AccreditationsService
    \/ RankingOrganizationsService \/ RankingsOfUniversity \/ SetAccreditations
    \/ ScholarshipsService \/ IntakesService
    \/ (\E k \in CachedKeys : Expire(k)) \/ Restart

CTSpec == CTInit /\ [][CTNext]_catVars

-----------------------------------------------------------------------------

\* Types, and the foreign keys, whatever is deleted.
CTTypeOK ==
    /\ DOMAIN db \subseteq Rows
    /\ \A x \in DOMAIN db : db[x] \in BOOLEAN /\ ReferencesHold(x)
    /\ main \subseteq DOMAIN db /\ recommended \subseteq DOMAIN db /\ aside \subseteq DOMAIN db
    /\ {catReq[r].pc : r \in Reqs} \subseteq
         {"idle", "checkMain", "write", "sync", "clear", "set"}
    /\ writes \in 0..MaxWrites /\ raced \subseteq Reqs
    /\ tainted \subseteq CachedKeys \cup Reqs /\ outgrown \subseteq CachedKeys \cup Reqs

\* No request takes the main countries, or universities, over their limit or
\* further over it, unless another one made a row main after its count.
MainCap ==
    [][\A r \in Reqs \ raced : WriteRow(r) =>
         LET its == OfKind(KindOf[catReq[r].row]) IN
         \/ Cardinality(main' \cap its) <= MaxMain
         \/ Cardinality(main' \cap its) <= Cardinality(main \cap its)]_catVars

\* Once no write waits to clear the cache, an answer in it is what the database
\* answers, of what the services that clear it write: the rows of countries,
\* cities, programs, universities and offers, which of them are main, and which
\* recommended.  Of what other services write - the scholarship flags, the
\* scholarships and intakes of offers, the campuses and other rows embedded -
\* it is so unless one of them has written since the query, to a kind that the
\* answer holds: no clear was missed but theirs.  Excepted are the keys set by a
\* reader that a clear ran past between its query and its set, and, when the
\* recommendations of a country fail after the country is written and so end
\* the request before its clear, all keys until they are set or expire.
CacheFresh ==
    (\A r \in Reqs : ~CatAt(r, "clear") /\ ~CatAt(r, "sync")) =>
      \A k \in CachedKeys \ tainted : cache[k] # Null =>
        /\ About(cache[k], CachedKinds) = About(Answer(k), CachedKinds)
        /\ k \notin outgrown => cache[k] = Answer(k)
=============================================================================
