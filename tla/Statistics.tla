----------------------------- MODULE Statistics -----------------------------
(***************************************************************************)
(* src/statistics: counts over the tables of other services, each kept in  *)
(* the one cache in memory for STATS_CACHE_TTL.  The dashboard and the     *)
(* detailed statistics put such answers together and are kept themselves.  *)
(*                                                                         *)
(* Of a table the model has the time it was last written, and an answer is *)
(* what that was for the tables it counts.                                 *)
(***************************************************************************)
EXTENDS Backend

CONSTANTS
    Written,           \* the tables that are written meanwhile
    Asked,             \* the statistics that are asked for
    STATS_CACHE_TTL,   \* in units of the time a request may take: the model's
    MaxTime            \* bound on the time that passes

VARIABLES
    time,
    wrote,        \* of each table: when it was last written
    statsCache,   \* of each key: Null, or the answer and until when it holds
    statReq
stVars == <<time, wrote, statsCache, statReq>>

-----------------------------------------------------------------------------
(* What the queries of each function count *)

GetTotalCounts ==
    {"university", "program", "application", "profile", "country", "city", "message"}
GetApplicationStatsByStatus == {"application"}
GetGeographicDistribution == {"country", "university", "application"}
GetPopularPrograms == {"program", "application", "universityProgram"}
GetTopUniversities ==
    {"university", "country", "city", "application", "universityProgram"}
GetGrowth == {"profile", "application", "message"}
GetActivitySummary == {"user", "profile", "application"}
GetUserEngagementStats == {"user", "profile", "application", "message"}
GetApplicationTrends == {"application"}
GetApplicationsByCountry == {"application", "country"}
GetApplicationsByIntakeSeason == {"application"}
GetApplicationsByIntakeYear == {"application"}

Counts ==
    [totalCounts |-> GetTotalCounts, status |-> GetApplicationStatsByStatus,
     geographic |-> GetGeographicDistribution, popularPrograms |-> GetPopularPrograms,
     topUniversities |-> GetTopUniversities, growth |-> GetGrowth,
     activitySummary |-> GetActivitySummary, engagement |-> GetUserEngagementStats,
     trends |-> GetApplicationTrends, byCountry |-> GetApplicationsByCountry,
     season |-> GetApplicationsByIntakeSeason, year |-> GetApplicationsByIntakeYear]

\* What is put together, of what; and which answers are kept.
GetDashboardStats ==
    {"totalCounts", "status", "geographic", "popularPrograms", "topUniversities",
     "growth", "activitySummary"}
GetDetailedApplicationStats == {"status", "byCountry", "season", "year", "trends"}
Parts == [dashboard |-> GetDashboardStats, detailed |-> GetDetailedApplicationStats]
Uncached == {"status", "byCountry", "season", "year"}

ASSUME StatisticsAssumption ==
    /\ Asked \subseteq DOMAIN Counts \cup DOMAIN Parts
    /\ STATS_CACHE_TTL \in Nat /\ MaxTime \in Nat

-----------------------------------------------------------------------------

Tables == UNION {Counts[k] : k \in DOMAIN Counts}
Kept == Asked \ Uncached
CountNow(k) == [t \in Counts[k] |-> wrote[t]]

\* A request for `key`: `need` are the answers it waits for, `held` those a
\* query gave and that are not stored, `got` the others.
StatIdle == [key |-> Null, since |-> 0, need |-> {}, held |-> NoRows, got |-> NoRows]
Hit(k) == k \in Kept /\ statsCache[k] # Null /\ statsCache[k].until > time

Until_Default(k) == IF k \in DOMAIN Parts THEN time + 2 * STATS_CACHE_TTL
                    ELSE time + STATS_CACHE_TTL
Until(k) == time + STATS_CACHE_TTL
Keep(k, answer) ==
    statsCache' = IF k \in Kept
                  THEN [statsCache EXCEPT ![k] = [answer |-> answer, until |-> Until(k)]]
                  ELSE statsCache

STInit ==
    /\ time = 0
    /\ wrote = [t \in Tables |-> 0]
    /\ statsCache = [k \in Kept |-> Null]
    /\ statReq = [r \in Reqs |-> StatIdle]

\* A request takes less than a unit of time.
Pass ==
    /\ time < MaxTime /\ \A r \in Reqs : statReq[r] # StatIdle => statReq[r].since = time
    /\ time' = time + 1 /\ UNCHANGED <<wrote, statsCache, statReq>>

WriteTable(t) ==
    /\ wrote' = [wrote EXCEPT ![t] = time]
    /\ UNCHANGED <<time, statsCache, statReq>>

\* A service of the catalogue clears the cache, that it shares.
CatalogueClears ==
    /\ statsCache' = [k \in Kept |-> Null]
    /\ UNCHANGED <<time, wrote, statReq>>

Ask(r, k) ==
    /\ statReq[r] = StatIdle /\ ~Hit(k)
    /\ statReq' = Step(statReq, r,
         [StatIdle EXCEPT !.key = k, !.since = time,
            !.need = IF k \in DOMAIN Parts THEN Parts[k] \cap Asked ELSE {k}])
    /\ UNCHANGED <<time, wrote, statsCache>>

\* Promise.all: the parts answer in any order, out of the cache or of queries.
TakePart(r, k) ==
    LET q == statReq[r] IN
    /\ k \in q.need /\ k # q.key
    /\ Hit(k)
    /\ statReq' = Step(statReq, r, [q EXCEPT !.need = @ \ {k},
                                     !.got = With(@, k, statsCache[k].answer)])
    /\ UNCHANGED <<time, wrote, statsCache>>

QueryPart(r, k) ==
    LET q == statReq[r] IN
    /\ k \in q.need
    /\ k = q.key \/ ~Hit(k)
    /\ statReq' = Step(statReq, r, [q EXCEPT !.need = @ \ {k}, !.held = With(@, k, CountNow(k))])
    /\ UNCHANGED <<time, wrote, statsCache>>

KeepPart(r, k) ==
    LET q == statReq[r] IN
    /\ k \in DOMAIN q.held
    /\ Keep(k, q.held[k])
    /\ statReq' = Step(statReq, r,
         IF k = q.key THEN StatIdle
         ELSE [q EXCEPT !.held = Without(@, {k}), !.got = With(@, k, q.held[k])])
    /\ UNCHANGED <<time, wrote>>

KeepWhole(r) ==
    LET q == statReq[r] IN
    /\ q # StatIdle /\ q.need = {} /\ q.held = NoRows
    /\ Keep(q.key, q.got)
    /\ statReq' = Step(statReq, r, StatIdle)
    /\ UNCHANGED <<time, wrote>>

\* A query fails, and with it the request; its other parts go on by themselves.
StatReject(r, k) ==
    LET q == statReq[r] IN
    /\ Faults /\ k \in q.need
    /\ statReq' = Step(statReq, r, IF k = q.key THEN StatIdle
                                   ELSE [q EXCEPT !.need = @ \ {k}, !.key = "failed"])
    /\ UNCHANGED <<time, wrote, statsCache>>

STNext ==
    \/ Pass \/ CatalogueClears
    \/ \E t \in Written : WriteTable(t)
    \/ \E r \in Reqs :
         \/ \E k \in Asked :
              \/ k \in Kept /\ Ask(r, k)
              \/ TakePart(r, k) \/ QueryPart(r, k) \/ KeepPart(r, k) \/ StatReject(r, k)
         \/ KeepWhole(r)

STSpec == STInit /\ [][STNext]_stVars

-----------------------------------------------------------------------------

AnswersOf(k) == IF k \in DOMAIN Parts THEN [p \in Parts[k] \cap Asked |-> CountNow(p)]
                ELSE CountNow(k)

STTypeOK ==
    /\ time \in 0..MaxTime /\ wrote \in [Tables -> 0..time]
    /\ \A k \in Kept : statsCache[k] # Null =>
         /\ statsCache[k].until \in Nat
         /\ DOMAIN statsCache[k].answer = DOMAIN AnswersOf(k)
    /\ \A r \in Reqs : statReq[r].need \cup DOMAIN statReq[r].held \subseteq Asked

\* Whatever requests, queries and the parts of dashboards overlap, a count that
\* is served was true no longer ago than STATS_CACHE_TTL, and as part of a
\* dashboard, which keeps what may have been kept before, twice that: a write
\* before shows.
Shows(answer, age) == \A t \in DOMAIN answer : wrote[t] < time - age => answer[t] = wrote[t]
FiguresAge ==
    \A k \in Kept : Hit(k) =>
      LET answer == statsCache[k].answer IN
      IF k \in DOMAIN Parts
      THEN \A p \in DOMAIN answer : Shows(answer[p], 2 * STATS_CACHE_TTL)
      ELSE Shows(answer, STATS_CACHE_TTL)
=============================================================================
