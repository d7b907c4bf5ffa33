--------------------------- MODULE ExchangeRates ---------------------------
(***************************************************************************)
(* src/currencies: the exchange rates of a provider, kept in one row of    *)
(* ExchangeRateSnapshot.  A start of the server, the cron job every 12     *)
(* hours, an administrator and the first reader may all refresh them, and  *)
(* nothing keeps two refreshes apart.  The rates a day has are named by    *)
(* its number: they are fetchedAt that day and due for an update the next. *)
(***************************************************************************)
EXTENDS Backend

CONSTANTS
    RateRows,   \* the uuids of snapshots
    MaxDay      \* bound on the days that pass

ASSUME DayAssumption == MaxDay \in Nat

VARIABLES
    rates,      \* ExchangeRateSnapshot: the day of each row's rates
    today,
    published,  \* the day of the rates the provider answers with
    rateReq,
    overtaken   \* requests whose answer came before another's was stored
rateVars == <<rates, today, published, rateReq, overtaken>>

\* `rates` is the answer of the provider, `seen` what deleteMany deletes.
RateIdle == [pc |-> "idle", rates |-> Null, seen |-> {}]
RateAt(r, pc) == rateReq[r].pc = pc
RateGoto(r, q) == rateReq' = Step(rateReq, r, q)

Days == {rates[s] : s \in DOMAIN rates}
Latest(days) == CHOOSE d \in days : \A e \in days : e <= d

ERInit ==
    /\ rates = NoRows /\ today = 0 /\ published = 0
    /\ rateReq = [r \in Reqs |-> RateIdle] /\ overtaken = {}

Midnight ==
    /\ today < MaxDay /\ today' = today + 1
    /\ UNCHANGED <<rates, published, rateReq, overtaken>>

\* The provider is late, perhaps by days.
Publish ==
    /\ published' = today
    /\ UNCHANGED <<rates, today, rateReq, overtaken>>

-----------------------------------------------------------------------------

StartFetch(r) ==
    /\ rateReq[r] = RateIdle
    /\ RateGoto(r, [RateIdle EXCEPT !.pc = "fetch"])
    /\ UNCHANGED <<rates, today, published, overtaken>>

\* onModuleInit and scheduledRefresh: unless the latest rates are not yet due.
RefreshIfStale(r) == (\A d \in Days : d < today) /\ StartFetch(r)
GetRates(r) == Days = {} /\ StartFetch(r)
ForceRefresh(r) == StartFetch(r)

FetchAnswers(r) ==
    /\ RateAt(r, "fetch")
    /\ RateGoto(r, [pc |-> "replace", rates |-> published, seen |-> {}])
    /\ UNCHANGED <<rates, today, published, overtaken>>

\* The transaction: deleteMany deletes the rows committed when it starts, and
\* nobody sees it before the new row is committed with it.
ToDelete_None == {}
ToDelete == DOMAIN rates

DeleteMany(r) ==
    /\ RateAt(r, "replace")
    /\ RateGoto(r, [rateReq[r] EXCEPT !.pc = "commit", !.seen = ToDelete])
    /\ UNCHANGED <<rates, today, published, overtaken>>

Stored == {q \in Reqs : rateReq[q].pc \in {"replace", "commit"}}

CommitRates(r) ==
    LET q == rateReq[r] IN
    /\ RateAt(r, "commit")
    /\ \E s \in RateRows \ DOMAIN rates :
         rates' = With(Without(rates, q.seen), s, q.rates)
    /\ RateGoto(r, RateIdle)
    /\ overtaken' = Stored \ {r}
    /\ UNCHANGED <<today, published>>

\* The provider, or the database: the rates there are go on being used.
RefreshFails(r) ==
    /\ Faults /\ rateReq[r] # RateIdle
    /\ RateGoto(r, RateIdle)
    /\ overtaken' = overtaken \ {r}
    /\ UNCHANGED <<rates, today, published>>

ERNext ==
    \/ Midnight \/ Publish
    \/ \E r \in Reqs :
         \/ RefreshIfStale(r) \/ GetRates(r) \/ ForceRefresh(r)
         \/ FetchAnswers(r) \/ DeleteMany(r) \/ CommitRates(r) \/ RefreshFails(r)

ERSpec == ERInit /\ [][ERNext]_rateVars

-----------------------------------------------------------------------------

ERTypeOK ==
    /\ rates \in Table(RateRows, 0..MaxDay)
    /\ published <= today /\ today \in 0..MaxDay
    /\ rateReq \in [Reqs -> [pc : {"fetch", "replace", "commit"},
                             rates : 0..MaxDay \cup {Null},
                             seen : SUBSET RateRows] \cup {RateIdle}]
    /\ overtaken \subseteq Stored

\* Readers are never without rates again, and a refresh makes its row the only
\* one, whatever rows it found, and no older than what was served before,
\* unless another refresh was stored after this one's answer.
LatestRates ==
    [][/\ Days # {} => Days' # {}
       /\ \A r \in Reqs \ overtaken :
            CommitRates(r) => /\ Cardinality(DOMAIN rates') = 1
                              /\ \A d \in Days : Latest(Days') >= d]_rateVars
=============================================================================
