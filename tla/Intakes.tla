------------------------------ MODULE Intakes ------------------------------
(***************************************************************************)
(* src/intakes: the intakes of programs, and the daily job that takes each *)
(* program whose intake has closed on to the next cycle, over the tables   *)
(* Intake and UniversityProgramIntake.  The job reads the closed intakes   *)
(* with their programs once, at the start of its transaction, and works    *)
(* from that list on tables other requests may change in between.          *)
(*                                                                         *)
(* A date is the number of its month, 12 * year + month - 1; the season of *)
(* an intake and the name of its month follow from startMonth.             *)
(***************************************************************************)
EXTENDS Backend, SequencesExt

CONSTANTS
    IntakeIds,     \* the uuids of intakes
    Offers,        \* programs of universities: UniversityProgram
    StartMonths,   \* of 1..12
    Years,
    Deadlines,     \* the deadlines that requests ask for
    Months         \* the months the model looks at

ASSUME IntakesAssumption ==
    /\ StartMonths \subseteq 1..12 /\ Years \cup Deadlines \cup Months \subseteq Int
    /\ Null \notin Deadlines \cup IntakeIds

VARIABLES
    intakes,       \* Intake
    links,         \* UniversityProgramIntake
    month,         \* now
    intakeReq,     \* updates: the row they read, with what they change
    expiry         \* the run of the job, and the rows it read
intakeVars == <<intakes, links, month, intakeReq, expiry>>

Intake == [startMonth : StartMonths, year : Years,
           deadline : Deadlines \cup Int]

-----------------------------------------------------------------------------
(* intake.util.ts *)

DEADLINE_MONTHS_BEFORE_START == 2
MAX_SHIFT == 50

IntakeStartDate(startMonth, year) == 12 * year + startMonth - 1
DefaultDeadline(startMonth, year) ==
    IntakeStartDate(startMonth, year) - DEADLINE_MONTHS_BEFORE_START
IsDeadlineBeforeStart(i) == i.deadline < IntakeStartDate(i.startMonth, i.year)
IsIntakeFullyExpired(i, now) ==
    i.deadline < now /\ IntakeStartDate(i.startMonth, i.year) < now
ShiftedByYears(i, years) ==
    [i EXCEPT !.year = @ + years, !.deadline = @ + 12 * years]

NextFutureCycle_NextYear(i, now) == ShiftedByYears(i, 1)
NextFutureCycle(i, now) ==
    LET future == {n \in 1..MAX_SHIFT : ShiftedByYears(i, n).deadline >= now}
    IN  ShiftedByYears(i, IF future = {} THEN MAX_SHIFT
                          ELSE CHOOSE n \in future : \A m \in future : n <= m)

-----------------------------------------------------------------------------

\* @@unique([season, startMonth, year])
SameCycle(i, j) == i.startMonth = j.startMonth /\ i.year = j.year
RowsOf(table, cycle) == {i \in DOMAIN table : SameCycle(table[i], cycle)}

\* No uuid is drawn twice: one the job still holds is not free.  Null where the
\* bound on ids allows no more.
Free(table) == IntakeIds \ (DOMAIN table \cup DOMAIN intakes \cup DOMAIN expiry)
FreshIntake(table) ==
    IF Free(table) = {} THEN Null ELSE CHOOSE i \in Free(table) : TRUE

\* findOrCreate: the row of the cycle, with whatever deadline it has, or a new
\* one.  A row inserted in between makes the insert fail, and is read again.
FoundOrCreated(table, cycle) ==
    IF RowsOf(table, cycle) # {}
    THEN [table |-> table, id |-> CHOOSE i \in RowsOf(table, cycle) : TRUE]
    ELSE [table |-> With(table, FreshIntake(table), cycle), id |-> FreshIntake(table)]

\* resolveFields: the deadline, where there is none, is two months before.
Resolve(startMonth, year, deadline) ==
    [startMonth |-> startMonth, year |-> year,
     deadline |-> IF deadline = Null THEN DefaultDeadline(startMonth, year) ELSE deadline]
ResolvedDtos == {i \in {Resolve(m, y, d) : m \in StartMonths, y \in Years,
                                      d \in Deadlines \cup {Null}} :
               IsDeadlineBeforeStart(i)}

ITInit ==
    /\ intakes = NoRows /\ links = {} /\ expiry = NoRows
    /\ month \in Months /\ \A m \in Months : month <= m
    /\ intakeReq = [r \in Reqs |-> Null]

Time == month' \in {m \in Months : m > month} /\ UNCHANGED <<intakes, links, intakeReq, expiry>>

CreateIntake(i) ==
    /\ RowsOf(intakes, i) = {} /\ Free(intakes) # {}
    /\ intakes' = With(intakes, FreshIntake(intakes), i)
    /\ UNCHANGED <<links, month, intakeReq, expiry>>

\* update reads the row and writes all of it, merged, in a second query: what the
\* DTO leaves out stays as it was read, an emptied deadline is the default again.
FindIntake(r, i, startMonth) ==
    /\ intakeReq[r] = Null /\ i \in DOMAIN intakes
    /\ \E year \in Years \cup {intakes[i].year},
          deadline \in Deadlines \cup {Null, intakes[i].deadline} :
         LET merged == Resolve(startMonth, year, deadline) IN
         /\ IsDeadlineBeforeStart(merged)
         /\ intakeReq' = [intakeReq EXCEPT ![r] = [id |-> i, row |-> merged]]
    /\ UNCHANGED <<intakes, links, month, expiry>>

\* A row that is gone, and a cycle that has one, reject the query.
UpdateIntake(r) ==
    LET q == intakeReq[r] IN
    /\ q # Null
    /\ intakes' = IF q.id \in DOMAIN intakes /\ RowsOf(intakes, q.row) \subseteq {q.id}
                  THEN With(intakes, q.id, q.row) ELSE intakes
    /\ intakeReq' = [intakeReq EXCEPT ![r] = Null]
    /\ UNCHANGED <<links, month, expiry>>

RemoveIntake(i) ==
    /\ i \in DOMAIN intakes
    /\ intakes' = Without(intakes, {i})
    /\ links' = {l \in links : l[2] # i}
    /\ UNCHANGED <<month, intakeReq, expiry>>

\* The intakes of a program, of a university's request: by id or by cycle.
LinkOffer(p, i) ==
    /\ i \in DOMAIN intakes /\ <<p, i>> \notin links
    /\ links' = links \cup {<<p, i>>}
    /\ UNCHANGED <<intakes, month, intakeReq, expiry>>

LinkCycle(p, cycle) ==
    LET found == FoundOrCreated(intakes, cycle) IN
    /\ found.id # Null
    /\ intakes' = found.table
    /\ links' = links \cup {<<p, found.id>>}
    /\ UNCHANGED <<month, intakeReq, expiry>>

UnlinkOffer(p, i) ==
    /\ links' = links \ {<<p, i>>}
    /\ UNCHANGED <<intakes, month, intakeReq, expiry>>

-----------------------------------------------------------------------------
(* runExpiryAndRollover *)

Expired(table) == {i \in DOMAIN table : table[i].deadline < month}
OffersOf(i) == {p \in Offers : <<p, i>> \in links}

\* The closed intakes, and their programs.
StartExpiry ==
    /\ expiry = NoRows /\ Expired(intakes) # {}
    /\ expiry' = [i \in Expired(intakes) |->
                    [row |-> intakes[i], offers |-> OffersOf(i), now |-> month]]
    /\ UNCHANGED <<intakes, links, month, intakeReq>>

CycleAfter(i) == NextFutureCycle(expiry[i].row, expiry[i].now)

\* One closed intake: its programs are linked to the next cycle, the links it
\* has by now are deleted, and then itself, if it has started and has none.
RolledOver(db, i) ==
    LET read == expiry[i]
        found == IF read.offers = {} THEN [table |-> db.intakes]
                 ELSE FoundOrCreated(db.intakes, CycleAfter(i))
        linked == IF read.offers = {} THEN db.links
                  ELSE {l \in db.links \cup (read.offers \X {found.id}) : l[2] # i}
        delete == IsIntakeFullyExpired(read.row, read.now)
                    /\ \A l \in linked : l[2] # i
    IN  [intakes |-> IF delete THEN Without(found.table, {i}) ELSE found.table,
         links |-> linked]

\* The tables after each of the closed intakes, in the order the rows came.
Rollover(order) ==
    LET db[n \in 0..Len(order)] ==
          IF n = 0 THEN [intakes |-> intakes, links |-> links]
          ELSE RolledOver(db[n - 1], order[n])
    IN  db

\* The rest of the transaction.  Deleting a row that is gone fails, and with it
\* the transaction.
FinishExpiry ==
    /\ expiry # NoRows
    /\ expiry' = NoRows
    /\ \/ \E order \in SetToSeqs(DOMAIN expiry) :
            LET db == Rollover(order)[Len(order)]
            IN  /\ \A i \in DOMAIN expiry :
                     IsIntakeFullyExpired(expiry[i].row, expiry[i].now)
                       => i \in DOMAIN intakes
                /\ Null \notin DOMAIN db.intakes
                /\ intakes' = db.intakes /\ links' = db.links
       \/ Faults /\ UNCHANGED <<intakes, links>>
    /\ UNCHANGED <<month, intakeReq>>

ITNext ==
    \/ Time \/ StartExpiry \/ FinishExpiry
    \/ \E i \in ResolvedDtos : CreateIntake(i) \/ \E p \in Offers : LinkCycle(p, i)
    \/ \E i \in IntakeIds :
         \/ RemoveIntake(i)
         \/ \E r \in Reqs, m \in StartMonths : FindIntake(r, i, m)
         \/ \E p \in Offers : LinkOffer(p, i) \/ UnlinkOffer(p, i)
    \/ \E r \in Reqs : UpdateIntake(r)

ITSpec == ITInit /\ [][ITNext]_intakeVars

-----------------------------------------------------------------------------

\* Types; a cycle has one intake, whose applications close before it starts.
ITTypeOK ==
    /\ DOMAIN intakes \subseteq IntakeIds
    /\ \A i \in DOMAIN intakes : /\ IsDeadlineBeforeStart(intakes[i])
                                 /\ RowsOf(intakes, intakes[i]) = {i}
    /\ links \subseteq Offers \X DOMAIN intakes
    /\ month \in Months /\ DOMAIN expiry \subseteq IntakeIds

\* A run that ends takes every program it found linked to a closed intake on
\* to a later intake of the same month that is still open, unless that cycle
\* had an intake already, closed too; and no link to an open intake is lost.
\* Nobody may have edited one of the closed intakes since the run read them.
NoProgramDropped ==
    [][/\ FinishExpiry /\ links' # links
       /\ \A j \in DOMAIN expiry \cap DOMAIN intakes : intakes[j] = expiry[j].row
       =>
         /\ \A i \in DOMAIN expiry : \A p \in expiry[i].offers :
              LET read == expiry[i]
                  cycle == CycleAfter(i) IN
              \/ \E j \in DOMAIN intakes' :
                   /\ <<p, j>> \in links' /\ intakes'[j].deadline >= read.now
                   /\ intakes'[j].startMonth = read.row.startMonth
                   /\ intakes'[j].year > read.row.year
              \/ \E j \in RowsOf(intakes, cycle) : intakes[j].deadline < read.now
         /\ \A l \in links : l[2] \notin DOMAIN expiry => l \in links']_intakeVars
=============================================================================
