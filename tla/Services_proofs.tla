-------------------------- MODULE Services_proofs ---------------------------
(***************************************************************************)
(* What the smaller services promise, each about its own module, for any   *)
(* values of its constants: the rates of ExchangeRates, the home page of   *)
(* Reviews, the flags of Scholarships, the age of Statistics' figures and  *)
(* the months of GrowthSeries.                                             *)
(***************************************************************************)
EXTENDS ExchangeRates, Reviews, Scholarships, Statistics, GrowthSeries,
        FiniteSetTheorems, TLAPS

-----------------------------------------------------------------------------
(* ExchangeRates *)

RateRequest == [pc : {"fetch", "replace", "commit"}, rates : 0..MaxDay \cup {Null},
                seen : SUBSET RateRows]

\* Nothing is newer than what the provider has published, and that is not of
\* the future.
Published ==
    /\ today \in 0..MaxDay /\ published \in 0..today
    /\ DOMAIN rates \subseteq RateRows
    /\ rates = [s \in DOMAIN rates |-> rates[s]]
    /\ \A s \in DOMAIN rates : rates[s] \in 0..published

\* What a request has: an answer of the provider, and, unless another was stored
\* since, one no older than the rates there are, all of which it will delete.
Answered(r) ==
    LET q == rateReq[r] IN
    /\ q.pc \in {"replace", "commit"} => q.rates \in 0..published
    /\ q.pc \in {"replace", "commit"} /\ r \notin overtaken =>
         \A s \in DOMAIN rates : rates[s] <= q.rates
    /\ q.pc = "commit" /\ r \notin overtaken => q.seen = DOMAIN rates

\* The inductive invariant.
ERInv ==
    /\ Published
    /\ rateReq \in [Reqs -> RateRequest \cup {RateIdle}]
    /\ overtaken \subseteq Stored
    /\ \A r \in Reqs : Answered(r)

\* It contains the types.
LEMMA RatesTyped == ERInv => ERTypeOK
<1> SUFFICES ASSUME ERInv PROVE ERTypeOK
  OBVIOUS
<1>1. rates \in [DOMAIN rates -> 0..MaxDay]
  BY DayAssumption DEF ERInv, Published
<1>2. rates \in Table(RateRows, 0..MaxDay)
  BY <1>1 DEF ERInv, Published, Table
<1> QED
  BY <1>2, DayAssumption DEF ERInv, Published, ERTypeOK, RateRequest

\* A step of one request that leaves the rates alone.
LEMMA RequestStep ==
  ASSUME ERInv, NEW r \in Reqs, NEW q \in RateRequest \cup {RateIdle}, RateGoto(r, q),
         UNCHANGED <<rates, today, published>>,
         \/ q.pc \in {"idle", "fetch"} /\ overtaken' = overtaken \ {r}
         \/ q.pc \in {"replace", "commit"} /\ overtaken' = overtaken,
         q.pc \in {"replace", "commit"} => q.rates \in 0..published,
         q.pc \in {"replace", "commit"} /\ r \notin overtaken =>
           \A s \in DOMAIN rates : rates[s] <= q.rates,
         q.pc = "commit" /\ r \notin overtaken => q.seen = DOMAIN rates
  PROVE  ERInv'
<1>1. \A x \in Reqs : rateReq'[x] = IF x = r THEN q ELSE rateReq[x]
  BY DEF ERInv, RateGoto, Step
<1>2. rateReq' \in [Reqs -> RateRequest \cup {RateIdle}]
  BY DEF ERInv, RateGoto, Step
<1>3. Published'
  BY DEF ERInv, Published
<1>4. overtaken' \subseteq Stored'
  BY <1>1 DEF ERInv, Stored
<1>5. \A x \in Reqs : Answered(x)'
  <2> TAKE x \in Reqs
  <2>1. CASE x = r
    BY <1>1, <2>1 DEF Answered
  <2>2. CASE x # r
    <3>1. rateReq'[x] = rateReq[x] /\ (x \in overtaken' <=> x \in overtaken)
      BY <1>1, <2>2
    <3> QED BY <3>1 DEF ERInv, Answered
  <2> QED BY <2>1, <2>2
<1> QED
  BY <1>2, <1>3, <1>4, <1>5 DEF ERInv

\* Time and the provider: what was published before stays in the past.
LEMMA WorldStep == ERInv /\ (Midnight \/ Publish) => ERInv'
<1> SUFFICES ASSUME ERInv, Midnight \/ Publish PROVE ERInv'
  OBVIOUS
<1>1. UNCHANGED <<rates, rateReq, overtaken>>
  BY DEF Midnight, Publish
<1>2. /\ today' \in 0..MaxDay /\ published' \in 0..today'
      /\ published <= published'
  BY DayAssumption DEF ERInv, Published, Midnight, Publish
<1>3. 0..published \subseteq 0..published'
  BY <1>2 DEF ERInv, Published
<1>4. Published'
  BY <1>1, <1>2, <1>3 DEF ERInv, Published
<1>5. \A x \in Reqs : Answered(x)'
  BY <1>1, <1>3 DEF ERInv, Answered
<1> QED
  BY <1>1, <1>4, <1>5 DEF ERInv, Stored

\* What a commit makes of the rates.
LEMMA Committed ==
  ASSUME ERInv, NEW r \in Reqs, CommitRates(r)
  PROVE  \E s \in RateRows \ DOMAIN rates :
           /\ DOMAIN rates' = (DOMAIN rates \ rateReq[r].seen) \cup {s}
           /\ rates' = [x \in DOMAIN rates' |-> rates'[x]]
           /\ rates'[s] = rateReq[r].rates /\ rateReq[r].rates \in 0..published
           /\ \A x \in DOMAIN rates' \ {s} : x \in DOMAIN rates /\ rates'[x] = rates[x]
<1>1. PICK s \in RateRows \ DOMAIN rates :
        rates' = With(Without(rates, rateReq[r].seen), s, rateReq[r].rates)
  BY DEF CommitRates
<1>2. rateReq[r].rates \in 0..published
  BY DEF ERInv, Answered, CommitRates, RateAt
<1> QED
  BY <1>1, <1>2 DEF With, Without

\* A commit: whoever else has an answer is overtaken by it.
LEMMA CommitStep ==
  ASSUME ERInv, NEW r \in Reqs, CommitRates(r)
  PROVE  ERInv'
<1>1. /\ rateReq' = Step(rateReq, r, RateIdle) /\ overtaken' = Stored \ {r}
      /\ UNCHANGED <<today, published>>
  BY DEF CommitRates, RateGoto
<1>2. \A x \in Reqs : rateReq'[x] = IF x = r THEN RateIdle ELSE rateReq[x]
  BY <1>1 DEF ERInv, Step
<1>3. rateReq' \in [Reqs -> RateRequest \cup {RateIdle}]
  BY <1>1 DEF ERInv, Step
<1>4. Published'
  BY <1>1, Committed DEF ERInv, Published
<1>5. overtaken' \subseteq Stored'
  BY <1>1, <1>2 DEF Stored
<1>6. ASSUME NEW x \in Reqs
      PROVE  Answered(x)'
  <2>1. CASE x = r
    BY <1>2, <2>1 DEF Answered, RateIdle
  <2>2. CASE x # r
    <3>1. rateReq'[x] = rateReq[x]
      BY <1>2, <2>2
    <3>2. rateReq[x].pc \in {"replace", "commit"} => x \in overtaken'
      BY <1>1, <2>2 DEF Stored
    <3> QED BY <1>1, <3>1, <3>2 DEF ERInv, Answered
  <2> QED BY <2>1, <2>2
<1> QED
  BY <1>3, <1>4, <1>5, <1>6 DEF ERInv

\* The steps before the commit, and its failure.
LEMMA RatesStart ==
  ASSUME ERInv, NEW r \in Reqs, StartFetch(r)
  PROVE  ERInv'
<1>1. PICK q : q = [RateIdle EXCEPT !.pc = "fetch"]
  OBVIOUS
<1>2. q \in RateRequest /\ q.pc = "fetch"
  BY <1>1 DEF RateIdle, RateRequest
<1>3. RateGoto(r, q) /\ UNCHANGED <<rates, today, published>> /\ overtaken' = overtaken
  BY <1>1 DEF StartFetch
<1>4. overtaken' = overtaken \ {r}
  BY <1>3 DEF StartFetch, RateIdle, ERInv, Stored
<1> QED
  BY <1>2, <1>3, <1>4, RequestStep

\* The provider's answer is the newest there is.
LEMMA FetchStep ==
  ASSUME ERInv, NEW r \in Reqs, FetchAnswers(r)
  PROVE  ERInv'
<1>1. PICK q : q = [pc |-> "replace", rates |-> published, seen |-> {}]
  OBVIOUS
<1>2. 0..published \subseteq 0..MaxDay /\ published \in 0..published
  BY DayAssumption DEF ERInv, Published
<1>3. q \in RateRequest /\ q.pc = "replace" /\ q.rates = published
  BY <1>1, <1>2 DEF RateRequest
<1>4. \A s \in DOMAIN rates : rates[s] <= q.rates
  BY <1>3 DEF ERInv, Published
<1>5. RateGoto(r, q) /\ UNCHANGED <<rates, today, published>> /\ overtaken' = overtaken
  BY <1>1 DEF FetchAnswers
<1> QED
  BY <1>2, <1>3, <1>4, <1>5, RequestStep

\* All rows are seen, and will be deleted.
LEMMA DeleteManyStep ==
  ASSUME ERInv, NEW r \in Reqs, DeleteMany(r)
  PROVE  ERInv'
<1>1. PICK q : q = [rateReq[r] EXCEPT !.pc = "commit", !.seen = ToDelete]
  OBVIOUS
<1>2. rateReq[r] \in RateRequest /\ rateReq[r].pc = "replace"
  BY DEF ERInv, DeleteMany, RateAt, RateIdle
<1>3. /\ q \in RateRequest /\ q.pc = "commit"
      /\ q.rates = rateReq[r].rates /\ q.seen = DOMAIN rates
  BY <1>1, <1>2 DEF RateRequest, ToDelete, ERInv, Published
<1>4. /\ q.rates \in 0..published
      /\ r \notin overtaken => \A s \in DOMAIN rates : rates[s] <= q.rates
  BY <1>2, <1>3 DEF ERInv, Answered
<1>5. RateGoto(r, q) /\ UNCHANGED <<rates, today, published>> /\ overtaken' = overtaken
  BY <1>1 DEF DeleteMany
<1> QED
  BY <1>3, <1>4, <1>5, RequestStep

\* A failed refresh leaves the rates as they are.
LEMMA FailStep ==
  ASSUME ERInv, NEW r \in Reqs, RefreshFails(r)
  PROVE  ERInv'
<1>1. PICK q : q = RateIdle
  OBVIOUS
<1>2. q \in RateRequest \cup {RateIdle} /\ q.pc = "idle"
  BY <1>1 DEF RateIdle
<1>3. /\ RateGoto(r, q) /\ UNCHANGED <<rates, today, published>>
      /\ overtaken' = overtaken \ {r}
  BY <1>1 DEF RefreshFails
<1> QED
  BY <1>2, <1>3, RequestStep

-----------------------------------------------------------------------------

\* The inductive invariant is preserved, action by action.
LEMMA InitERInv == ERInit => ERInv
  BY DayAssumption DEF ERInit, ERInv, Published, Answered, Stored, RateIdle, NoRows

LEMMA NextERInv == ERInv /\ [ERNext]_rateVars => ERInv'
<1> SUFFICES ASSUME ERInv, [ERNext]_rateVars PROVE ERInv'
  OBVIOUS
<1>1. CASE Midnight \/ Publish
  BY <1>1, WorldStep
<1>2. ASSUME NEW r \in Reqs, RefreshIfStale(r) \/ GetRates(r) \/ ForceRefresh(r)
      PROVE  ERInv'
  BY <1>2, RatesStart DEF RefreshIfStale, GetRates, ForceRefresh
<1>3. ASSUME NEW r \in Reqs, FetchAnswers(r) PROVE ERInv'
  BY <1>3, FetchStep
<1>4. ASSUME NEW r \in Reqs, DeleteMany(r) PROVE ERInv'
  BY <1>4, DeleteManyStep
<1>5. ASSUME NEW r \in Reqs, CommitRates(r) PROVE ERInv'
  BY <1>5, CommitStep
<1>6. ASSUME NEW r \in Reqs, RefreshFails(r) PROVE ERInv'
  BY <1>6, FailStep
<1>7. CASE UNCHANGED rateVars
  BY <1>7 DEF ERInv, Published, Answered, Stored, rateVars
<1> QED
  BY <1>1, <1>2, <1>3, <1>4, <1>5, <1>6, <1>7 DEF ERNext

\* The inductive invariant holds of every reachable state.
THEOREM RatesInvHolds == ERSpec => []ERInv
  BY InitERInv, NextERInv, PTL DEF ERSpec

\* The row, the days and what each refresh has keep their types.
THEOREM RatesTypes == ERSpec => []ERTypeOK
  BY RatesInvHolds, RatesTyped, PTL

-----------------------------------------------------------------------------

\* A commit leaves rates, and the latest of one day is that day.
LEMMA SoleRow ==
  ASSUME ERInv, NEW r \in Reqs \ overtaken, CommitRates(r)
  PROVE  /\ Cardinality(DOMAIN rates') = 1
         /\ \A d \in Days : Latest(Days') >= d
<1>1. rateReq[r].pc = "commit" /\ r \in Reqs /\ r \notin overtaken
  BY DEF CommitRates, RateAt
<1>2. PICK s \in RateRows \ DOMAIN rates :
        /\ DOMAIN rates' = (DOMAIN rates \ rateReq[r].seen) \cup {s}
        /\ rates'[s] = rateReq[r].rates /\ rateReq[r].rates \in 0..published
  BY <1>1, Committed
<1>3. /\ rateReq[r].seen = DOMAIN rates
      /\ \A x \in DOMAIN rates : rates[x] <= rateReq[r].rates
  BY <1>1 DEF ERInv, Answered
<1>4. DOMAIN rates' = {s}
  BY <1>2, <1>3
<1>5. Days' = {rateReq[r].rates}
  BY <1>2, <1>4 DEF Days
<1>6. Latest(Days') = rateReq[r].rates
  <2>1. PICK d : d = rateReq[r].rates
    OBVIOUS
  <2>2. d \in Nat
    BY <1>2, <2>1 DEF ERInv, Published
  <2>3. (CHOOSE x \in {d} : \A e \in {d} : e <= x) = d
    BY <2>2
  <2> QED BY <1>5, <2>1, <2>3 DEF Latest
<1>7. \A d \in Days : d \in Nat /\ d <= rateReq[r].rates
  BY <1>3 DEF Days, ERInv, Published
<1>8. Cardinality(DOMAIN rates') = 1
  BY <1>4, FS_Singleton
<1>9. \A d \in Days : Latest(Days') >= d
  <2> TAKE d \in Days
  <2>1. d \in Nat /\ rateReq[r].rates \in Nat /\ d <= rateReq[r].rates
    BY <1>2, <1>7 DEF ERInv, Published
  <2>2. rateReq[r].rates >= d
    BY <2>1
  <2> QED BY <1>6, <2>2
<1> QED
  BY <1>8, <1>9

\* Readers are never without rates again, and an answer that no other store
\* came after replaces the row with one that is no older.
THEOREM LatestRatesHolds == ERSpec => LatestRates
<1>1. ASSUME ERInv, [ERNext]_rateVars, Days # {} PROVE Days' # {}
  <2>1. CASE \E r \in Reqs : CommitRates(r)
    <3>1. PICK r \in Reqs : CommitRates(r)
      BY <2>1
    <3>2. \E s : s \in DOMAIN rates'
      BY <1>1, <3>1, Committed
    <3> QED BY <3>2 DEF Days
  <2>2. CASE UNCHANGED rates
    BY <1>1, <2>2 DEF Days
  <2> QED
    BY <1>1, <2>1, <2>2 DEF ERNext, rateVars, Midnight, Publish, RefreshIfStale, GetRates,
       ForceRefresh, StartFetch, FetchAnswers, DeleteMany, RefreshFails
<1>2. ERInv /\ [ERNext]_rateVars =>
        [/\ Days # {} => Days' # {}
         /\ \A r \in Reqs \ overtaken :
              CommitRates(r) => /\ Cardinality(DOMAIN rates') = 1
                                /\ \A d \in Days : Latest(Days') >= d]_rateVars
  BY <1>1, SoleRow
<1> QED
  BY <1>2, RatesInvHolds, PTL DEF ERSpec, LatestRates

-----------------------------------------------------------------------------
(* Reviews *)

ReviewRequest ==
    [pc : {"checkCap", "count", "update", "findReplaced", "swap", "delete"},
     review : ReviewIds, show : BOOLEAN \cup {Null},
     replace : ReviewIds \cup {Null}]

\* What the count of a request that nothing outpaced still says when it writes.
ReviewRoom(q) ==
    /\ q.pc = "update" /\ q.show = TRUE =>
         Cardinality(shown) < MaxHomepage \/ q.review \in shown
    /\ q.pc = "swap" => q.replace \in shown

\* The inductive invariant.
RvInv == RvTypeOK /\ \A r \in Reqs \ outpaced : ReviewRoom(reviewReq[r])

\* A smaller home page has fewer reviews, and both are finite.
LEMMA Fewer ==
  ASSUME RvTypeOK, NEW S, S \subseteq shown
  PROVE  /\ IsFiniteSet(shown) /\ Cardinality(shown) \in Nat
         /\ Cardinality(S) \in Nat /\ Cardinality(S) <= Cardinality(shown)
<1>1. IsFiniteSet(shown)
  BY HomepageAssumption, FS_Subset DEF RvTypeOK
<1>2. IsFiniteSet(S)
  BY <1>1, FS_Subset
<1> QED
  BY <1>1, <1>2, FS_Subset, FS_CardinalityType

\* One review more is at most one more.
LEMMA OneMore ==
  ASSUME RvTypeOK, NEW x
  PROVE  Cardinality(shown \cup {x}) \in Nat /\ Cardinality(shown \cup {x}) <= Cardinality(shown) + 1
<1>1. IsFiniteSet(shown) /\ Cardinality(shown) \in Nat
  BY Fewer
<1> QED
  BY <1>1, FS_AddElement, FS_CardinalityType

\* One for another is no more.
LEMMA Exchange ==
  ASSUME RvTypeOK, NEW y \in shown, NEW x
  PROVE  Cardinality((shown \ {y}) \cup {x}) <= Cardinality(shown)
<1>1. IsFiniteSet(shown) /\ Cardinality(shown) \in Nat
  BY Fewer
<1>2. IsFiniteSet(shown \ {y}) /\ Cardinality(shown \ {y}) = Cardinality(shown) - 1
  BY <1>1, FS_RemoveElement
<1>3. Cardinality((shown \ {y}) \cup {x}) \in {Cardinality(shown \ {y}), Cardinality(shown \ {y}) + 1}
  BY <1>2, FS_AddElement
<1> QED
  BY <1>1, <1>2, <1>3

-----------------------------------------------------------------------------

\* A step of one request that pins and hides nothing.
LEMMA ReviewQuiet ==
  ASSUME RvInv, NEW r \in Reqs, NEW q \in ReviewRequest \cup {ReviewIdle},
         reviewReq' = Step(reviewReq, r, q), UNCHANGED rvTables,
         \/ outpaced' = outpaced \ {r}
         \/ outpaced' = outpaced /\ (r \notin outpaced \/ q.pc \in {"update", "findReplaced", "swap"}),
         r \notin outpaced' => ReviewRoom(q)
  PROVE  RvInv'
<1>1. \A x \in Reqs : reviewReq'[x] = IF x = r THEN q ELSE reviewReq[x]
  BY DEF RvInv, RvTypeOK, Step
<1>2. RvTypeOK'
  <2>1. reviewReq' \in [Reqs -> ReviewRequest \cup {ReviewIdle}]
    BY DEF RvInv, RvTypeOK, ReviewRequest, Step
  <2>2. outpaced' \subseteq Counted'
    BY <1>1 DEF RvInv, RvTypeOK, Counted
  <2> QED BY <2>1, <2>2 DEF RvInv, RvTypeOK, ReviewRequest, rvTables
<1>3. ASSUME NEW x \in Reqs \ outpaced' PROVE ReviewRoom(reviewReq[x])' 
  <2>1. CASE x = r
    BY <1>1, <1>3, <2>1 DEF ReviewRoom, rvTables
  <2>2. CASE x # r
    BY <1>1, <1>3, <2>2 DEF RvInv, ReviewRoom, rvTables
  <2> QED BY <2>1, <2>2
<1> QED
  BY <1>2, <1>3 DEF RvInv

\* A step that makes the home page what `pinned` is; r is the request that did,
\* which is over, or none.
LEMMA RepinStep ==
  ASSUME RvInv, NEW r \in Reqs \cup {Null}, NEW pinned, Repin(r, pinned),
         reviews' \subseteq ReviewIds, pinned \subseteq reviews',
         IF r = Null THEN UNCHANGED reviewReq ELSE ReviewLeave(r)
  PROVE  RvInv'
<1> USE HomepageAssumption
<1>1. \A x \in Reqs : reviewReq'[x] = IF x = r THEN ReviewIdle ELSE reviewReq[x]
  BY DEF RvInv, RvTypeOK, ReviewLeave, Step
<1>2. reviewReq' \in [Reqs -> ReviewRequest \cup {ReviewIdle}]
  BY DEF RvInv, RvTypeOK, ReviewRequest, ReviewLeave, Step
<1>3. outpaced' \subseteq Counted'
  BY <1>1 DEF RvInv, RvTypeOK, Repin, Counted
<1>4. RvTypeOK'
  BY <1>2, <1>3 DEF RvTypeOK, Repin, ReviewRequest
<1>5. ASSUME NEW x \in Reqs \ outpaced' PROVE ReviewRoom(reviewReq[x])'
  <2>1. CASE x = r
    BY <1>1, <2>1 DEF ReviewRoom, ReviewIdle
  <2>2. CASE x # r
    <3>1. x \notin outpaced /\ reviewReq'[x] = reviewReq[x] /\ ReviewRoom(reviewReq[x])
      BY <1>1, <1>5, <2>2 DEF Repin, RvInv
    <3>2. CASE x \notin Counted
      BY <3>1, <3>2 DEF ReviewRoom, Counted
    <3>3. CASE x \in Counted
      <4>1. pinned \subseteq shown /\ {reviewReq[x].review, reviewReq[x].replace}
                                        \cap (shown \ pinned) = {}
        BY <1>5, <2>2, <3>3 DEF Repin
      <4>2. Cardinality(pinned) \in Nat /\ Cardinality(shown) \in Nat
            /\ Cardinality(pinned) <= Cardinality(shown)
        BY <4>1, Fewer DEF RvInv
      <4>3. shown' = pinned
        BY DEF Repin
      <4>4. Cardinality(shown) < MaxHomepage => Cardinality(shown') < MaxHomepage
        BY <4>2, <4>3
      <4> QED BY <3>1, <4>1, <4>3, <4>4 DEF ReviewRoom
    <3> QED BY <3>2, <3>3
  <2> QED BY <2>1, <2>2
<1> QED
  BY <1>4, <1>5 DEF RvInv

-----------------------------------------------------------------------------

\* A request starts: if it goes to its write at once, it hides, says nothing,
\* or keeps a review that is shown.
LEMMA ReviewFound ==
  ASSUME RvInv, NEW r \in Reqs, NEW x \in ReviewIds,
         NEW pc \in {"checkCap", "count", "update", "delete"},
         NEW show \in BOOLEAN \cup {Null}, NEW replace \in ReviewIds \cup {Null},
         FindReview(r, x, pc, show, replace),
         pc = "update" /\ show = TRUE => x \in shown
  PROVE  RvInv'
<1>1. PICK q : q = [pc |-> pc, review |-> x, show |-> show, replace |-> replace]
  OBVIOUS
<1>2. q \in ReviewRequest /\ ReviewRoom(q)
  BY <1>1 DEF ReviewRequest, ReviewRoom
<1>3. reviewReq' = Step(reviewReq, r, q) /\ UNCHANGED rvTables /\ outpaced' = outpaced
  BY <1>1 DEF FindReview
<1>4. r \notin outpaced
  BY DEF FindReview, ReviewIdle, RvInv, RvTypeOK, Counted
<1> QED
  BY <1>2, <1>3, <1>4, ReviewQuiet

\* The five ways to start.
LEMMA ReviewStarts ==
  ASSUME RvInv, NEW r \in Reqs, NEW x \in ReviewIds
  PROVE  /\ \A show \in BOOLEAN \cup {Null} : UpdateReview(r, x, show) => RvInv'
         /\ Hide(r, x) => RvInv'
         /\ \A replace \in ReviewIds \cup {Null} : Show(r, x, replace) => RvInv'
         /\ RemoveReview(r, x) => RvInv'
<1>1. ASSUME NEW show \in BOOLEAN \cup {Null}, UpdateReview(r, x, show) PROVE RvInv'
  <2>1. CASE show = TRUE /\ x \notin shown
    <3>1. FindReview(r, x, "checkCap", show, Null)
      BY <1>1, <2>1 DEF UpdateReview
    <3> QED BY <3>1, ReviewFound
  <2>2. CASE ~(show = TRUE /\ x \notin shown)
    <3>1. FindReview(r, x, "update", show, Null)
      BY <1>1, <2>2 DEF UpdateReview
    <3> QED BY <2>2, <3>1, ReviewFound
  <2> QED BY <2>1, <2>2
<1>2. Hide(r, x) => RvInv'
  BY ReviewFound DEF Hide
<1>3. ASSUME NEW replace \in ReviewIds \cup {Null}, Show(r, x, replace) PROVE RvInv'
  BY <1>3, ReviewFound DEF Show
<1>4. RemoveReview(r, x) => RvInv'
  BY ReviewFound DEF RemoveReview
<1> QED
  BY <1>1, <1>2, <1>3, <1>4

\* A request goes on to its next query.
LEMMA ReviewAwaits ==
  ASSUME RvInv, NEW r \in Reqs, reviewReq[r] # ReviewIdle,
         NEW pc \in {"update", "findReplaced", "swap"}, ReviewAwait(r, pc),
         UNCHANGED rvTables,
         pc = "update" => Cardinality(shown) < MaxHomepage,
         pc = "swap" => reviewReq[r].replace \in shown
  PROVE  RvInv'
<1>1. reviewReq[r] \in ReviewRequest
  BY DEF RvInv, RvTypeOK, ReviewRequest
<1>2. PICK q : q = [reviewReq[r] EXCEPT !.pc = pc]
  OBVIOUS
<1>3. q \in ReviewRequest /\ q.pc = pc /\ q.replace = reviewReq[r].replace
  BY <1>1, <1>2 DEF ReviewRequest
<1>4. reviewReq' = Step(reviewReq, r, q) /\ outpaced' = outpaced
  BY <1>2 DEF ReviewAwait, Step
<1>5. ReviewRoom(q)
  BY <1>3 DEF ReviewRoom
<1> QED
  BY <1>3, <1>4, <1>5, ReviewQuiet

\* A request ends without writing.
LEMMA ReviewEnds ==
  ASSUME RvInv, NEW r \in Reqs, ReviewEnd(r), UNCHANGED rvTables
  PROVE  RvInv'
<1>1. reviewReq' = Step(reviewReq, r, ReviewIdle) /\ outpaced' = outpaced \ {r}
  BY DEF ReviewEnd, ReviewLeave
<1>2. ReviewRoom(ReviewIdle)
  BY DEF ReviewRoom, ReviewIdle
<1> QED
  BY <1>1, <1>2, ReviewQuiet

\* The counts, which let a request go on only below the limit.
LEMMA CountSteps ==
  ASSUME RvInv, NEW r \in Reqs, CheckCap(r) \/ CountShown(r) \/ FindReplaced(r)
  PROVE  RvInv'
<1>1. reviewReq[r] # ReviewIdle /\ UNCHANGED rvTables
  BY DEF CheckCap, CountShown, FindReplaced, ReviewAt, ReviewIdle
<1>2. \/ BelowCap /\ ReviewAwait(r, "update")
      \/ ReviewAwait(r, "findReplaced")
      \/ reviewReq[r].replace \in shown /\ ReviewAwait(r, "swap")
      \/ ReviewEnd(r)
  BY DEF CheckCap, CountShown, FindReplaced
<1> QED
  BY <1>1, <1>2, ReviewAwaits, ReviewEnds DEF BelowCap

\* The steps that write.
LEMMA WriteSteps ==
  ASSUME RvInv, NEW r \in Reqs, WriteReview(r) \/ Swap(r) \/ DeleteReview(r)
  PROVE  RvInv'
<1> USE HomepageAssumption
<1>1. /\ reviews \subseteq ReviewIds /\ shown \subseteq reviews
  BY DEF RvInv, RvTypeOK
<1>2. /\ ReviewLeave(r)
      /\ \E pinned : /\ Repin(r, pinned) /\ pinned \subseteq reviews'
                     /\ reviews' \subseteq reviews
  <2>1. CASE WriteReview(r)
    <3>1. PICK pinned : pinned = (CASE reviewReq[r].show = TRUE ->
                                         shown \cup ({reviewReq[r].review} \cap reviews)
                                    [] reviewReq[r].show = FALSE -> shown \ {reviewReq[r].review}
                                    [] OTHER -> shown)
      OBVIOUS
    <3>2. pinned \subseteq reviews
      BY <1>1, <3>1
    <3>3. Repin(r, pinned) /\ ReviewLeave(r) /\ UNCHANGED reviews
      BY <2>1, <3>1 DEF WriteReview
    <3> QED BY <3>2, <3>3
  <2>2. CASE Swap(r)
    <3>1. PICK pinned : pinned = (IF {reviewReq[r].review, reviewReq[r].replace} \subseteq reviews
                THEN (shown \ {reviewReq[r].replace}) \cup {reviewReq[r].review} ELSE shown)
      OBVIOUS
    <3>2. pinned \subseteq reviews
      BY <1>1, <3>1
    <3>3. Repin(r, pinned) /\ ReviewLeave(r) /\ UNCHANGED reviews
      BY <2>2, <3>1 DEF Swap
    <3> QED BY <3>2, <3>3
  <2>3. CASE DeleteReview(r)
    BY <1>1, <2>3 DEF DeleteReview
  <2> QED BY <2>1, <2>2, <2>3
<1> QED
  BY <1>1, <1>2, RepinStep

\* A new review, which counts nothing.
LEMMA ReviewCreated ==
  ASSUME RvInv, NEW x \in ReviewIds, NEW show \in BOOLEAN, CreateReview(x, show)
  PROVE  RvInv'
<1>1. PICK pinned : pinned = IF show THEN shown \cup {x} ELSE shown
  OBVIOUS
<1>2. /\ Repin(Null, pinned) /\ UNCHANGED reviewReq
      /\ reviews' \subseteq ReviewIds /\ pinned \subseteq reviews'
  BY <1>1 DEF CreateReview, RvInv, RvTypeOK
<1> QED
  BY <1>2, RepinStep

-----------------------------------------------------------------------------

\* The inductive invariant is preserved, action by action.
LEMMA InitRvInv == RvInit => RvInv
<1> SUFFICES ASSUME RvInit PROVE RvInv
  OBVIOUS
<1>1. \A r \in Reqs : reviewReq[r] = ReviewIdle
  BY DEF RvInit
<1> QED
  BY <1>1 DEF RvInit, RvInv, RvTypeOK, ReviewRoom, Counted, ReviewIdle

LEMMA NextRvInv == RvInv /\ [RvNext]_rvVars => RvInv'
<1> SUFFICES ASSUME RvInv, [RvNext]_rvVars PROVE RvInv'
  OBVIOUS
<1>1. ASSUME NEW r \in Reqs, ReviewReject(r) PROVE RvInv'
  BY <1>1, ReviewEnds DEF ReviewReject
<1>2. CASE UNCHANGED rvVars
  BY <1>2 DEF rvVars, rvTables, RvInv, RvTypeOK, ReviewRoom, Counted
<1> QED
  BY <1>1, <1>2, ReviewCreated, ReviewStarts, CountSteps, WriteSteps DEF RvNext

\* What a request that is not outpaced counted is still so when it writes: the
\* inductive invariant holds of every reachable state.
THEOREM ReviewsInvHolds == RvSpec => []RvInv
  BY InitRvInv, NextRvInv, PTL DEF RvSpec

\* Reviews, the home page and requests keep their types.
THEOREM ReviewsTypes == RvSpec => []RvTypeOK
  BY ReviewsInvHolds, PTL DEF RvInv

\* A write that nothing outpaced.
LEMMA WithinCap ==
  ASSUME RvInv, NEW r \in Reqs \ outpaced, WriteReview(r) \/ Swap(r)
  PROVE  \/ Cardinality(shown') <= MaxHomepage
         \/ Cardinality(shown') <= Cardinality(shown)
<1> USE HomepageAssumption
<1>1. RvTypeOK /\ ReviewRoom(reviewReq[r]) /\ Cardinality(shown) \in Nat
  BY Fewer DEF RvInv
<1>2. CASE WriteReview(r)
  <2>1. \/ shown' \subseteq shown
        \/ /\ reviewReq[r].show = TRUE
           /\ shown' = shown \cup {reviewReq[r].review}
    BY <1>2 DEF WriteReview, Repin
  <2>2. reviewReq[r].pc = "update"
    BY <1>2 DEF WriteReview, ReviewAt
  <2>3. CASE shown' \subseteq shown
    BY <1>1, <2>3, Fewer
  <2>4. CASE shown' = shown \cup {reviewReq[r].review} /\ Cardinality(shown) < MaxHomepage
    <3>1. /\ Cardinality(shown') \in Nat
          /\ Cardinality(shown') <= Cardinality(shown) + 1
      BY <1>1, <2>4, OneMore, Zenon
    <3> QED BY <1>1, <2>4, <3>1
  <2> QED BY <1>1, <2>1, <2>2, <2>3, <2>4 DEF ReviewRoom
<1>3. CASE Swap(r)
  <2>1. \/ shown' = shown
        \/ shown' = (shown \ {reviewReq[r].replace}) \cup {reviewReq[r].review}
    BY <1>3 DEF Swap, Repin
  <2>2. reviewReq[r].replace \in shown
    BY <1>1, <1>3 DEF Swap, ReviewAt, ReviewRoom
  <2> QED BY <1>1, <2>1, <2>2, Exchange
<1> QED
  BY <1>2, <1>3

\* A pin or a swap that no other outpaced leaves the home page within its limit,
\* or no further over it.
THEOREM HomepageCapHolds == RvSpec => HomepageCap
<1>1. RvInv /\ [RvNext]_rvVars =>
        [\A r \in Reqs \ outpaced :
           WriteReview(r) \/ Swap(r) =>
             Cardinality(shown') <= MaxHomepage
               \/ Cardinality(shown') <= Cardinality(shown)]_rvVars
  BY WithinCap
<1> QED
  BY <1>1, ReviewsInvHolds, PTL DEF RvSpec, HomepageCap

-----------------------------------------------------------------------------
(* Scholarships *)

AnyOf(u) == ScholarshipsOf(u) # {}
AnyFullOf(u) == FullOf(u) # {}

PendingOf(q) == {q.recount[i] : i \in DOMAIN q.recount}

\* What a request is to write, and which universities it is to recount after.
ScholarRequest(q) ==
    /\ q = [pc |-> q.pc, id |-> q.id, from |-> q.from, row |-> q.row,
            recount |-> q.recount, any |-> q.any, full |-> q.full]
    /\ q.pc \in {"idle", "insert", "write", "delete", "count"}
    /\ q.pc \in {"insert", "delete"} => q.row \in Scholarship /\ q.from = q.row.university
    /\ q.pc = "insert" => q.id \in ScholarshipIds
    /\ q.pc = "write" => q.row \in UpdateScholarshipDto /\ q.from \in Universities
    /\ q.pc # "count" => q.recount = <<>>
    /\ q.pc = "count" => \/ \E u \in Universities : q.recount = <<u>>
                         \/ \E u, v \in Universities : q.recount = <<u, v>>

\* The id a creation brings is nobody else's.
OwnId(r) ==
    scholarReq[r].pc = "insert" =>
      /\ scholarReq[r].id \notin DOMAIN scholarships
      /\ scholarReq[r].id # Null
      /\ \A p \in Reqs \ {r} : scholarReq[p].id # scholarReq[r].id

\* What has been counted of the first university, if no write overtook it.
Tallied(r) ==
    LET q == scholarReq[r] IN
    q.pc = "count" /\ r \notin moved =>
      /\ q.any # Null => q.any = AnyOf(Head(q.recount))
      /\ q.full # Null => q.full = AnyFullOf(Head(q.recount))

ScholarRows ==
    /\ DOMAIN scholarships \subseteq ScholarshipIds
    /\ \A s \in DOMAIN scholarships : scholarships[s] \in Scholarship

\* The property, in these terms.
Agreement ==
    \A u \in Universities \ outdated :
      (\A r \in Reqs : u \notin PendingOf(scholarReq[r])) =>
        flags[u] = [any |-> AnyOf(u), full |-> AnyFullOf(u)]

\* The inductive invariant.
ScholarInv ==
    /\ ScholarRows
    /\ flags = [u \in Universities |-> flags[u]]
    /\ scholarReq = [r \in Reqs |-> scholarReq[r]]
    /\ \A r \in Reqs : ScholarRequest(scholarReq[r]) /\ OwnId(r) /\ Tallied(r)
    /\ moved \subseteq Reqs /\ outdated \subseteq Universities
    /\ Agreement

-----------------------------------------------------------------------------

\* Sequences of one university or two.
LEMMA RecountShapes ==
  /\ \A q : q.recount = <<>> => PendingOf(q) = {}
  /\ \A q, u : q.recount = <<u>> =>
       /\ PendingOf(q) = {u} /\ Head(q.recount) = u /\ Tail(q.recount) = <<>>
  /\ \A q, u, v : q.recount = <<u, v>> =>
       /\ PendingOf(q) = {u, v} /\ Head(q.recount) = u /\ Tail(q.recount) = <<v>>
       /\ Tail(q.recount) # <<>>
<1>1. \A q : q.recount = <<>> => PendingOf(q) = {}
  BY DEF PendingOf
<1>2. ASSUME NEW q, NEW u, q.recount = <<u>>
      PROVE  PendingOf(q) = {u} /\ Head(q.recount) = u /\ Tail(q.recount) = <<>>
  <2>1. PICK s : s = q.recount
    OBVIOUS
  <2>2. s = <<u>> /\ DOMAIN s = 1..1 /\ s[1] = u
    BY <1>2, <2>1
  <2>3. {s[i] : i \in DOMAIN s} = {u}
    BY <2>2
  <2>4. Head(s) = u /\ Tail(s) = <<>>
    BY <2>2
  <2> QED
    BY <2>1, <2>3, <2>4 DEF PendingOf
<1>3. ASSUME NEW q, NEW u, NEW v, q.recount = <<u, v>>
      PROVE  /\ PendingOf(q) = {u, v} /\ Head(q.recount) = u /\ Tail(q.recount) = <<v>>
             /\ Tail(q.recount) # <<>>
  <2>1. PICK s : s = q.recount
    OBVIOUS
  <2>2. s = <<u, v>> /\ DOMAIN s = 1..2 /\ s[1] = u /\ s[2] = v
    BY <1>3, <2>1
  <2>3. {s[i] : i \in DOMAIN s} = {u, v}
    BY <2>2
  <2>4. Head(s) = u /\ Tail(s) = <<v>> /\ Tail(s) # <<>>
    BY <2>2
  <2> QED
    BY <2>1, <2>3, <2>4 DEF PendingOf
<1> QED
  BY <1>1, <1>2, <1>3

\* What a university has is a matter of the scholarships alone.
LEMMA SameScholarships ==
  ASSUME UNCHANGED scholarships, NEW u
  PROVE  AnyOf(u)' = AnyOf(u) /\ AnyFullOf(u)' = AnyFullOf(u)
BY DEF AnyOf, AnyFullOf, FullOf, ScholarshipsOf

\* A request's pending universities are those of its record.
LEMMA PendingIsOf == \A r : Pending(r) = PendingOf(scholarReq[r])
BY DEF Pending, PendingOf

\* Agreement is the property in terms of the request records.
LEMMA AgreementIs == Agreement <=> FlagsAgree
BY PendingIsOf, Zenon DEF FlagsAgree, Agreement, AnyOf, AnyFullOf

\* At first nobody has any.
LEMMA ScholarInvInit == SCInit => ScholarInv
<1> SUFFICES ASSUME SCInit PROVE ScholarInv
  OBVIOUS
<1>1. DOMAIN scholarships = {}
  BY DEF SCInit, NoRows
<1>2. ScholarRows
  BY <1>1 DEF ScholarRows
<1>3. ASSUME NEW r \in Reqs PROVE ScholarRequest(scholarReq[r]) /\ OwnId(r) /\ Tallied(r)
  <2>1. scholarReq[r] = ScholarIdle
    BY DEF SCInit
  <2> QED
    BY <2>1 DEF ScholarRequest, OwnId, Tallied, ScholarIdle
<1>4. ASSUME NEW u \in Universities
      PROVE  flags[u] = [any |-> ScholarshipsOf(u) # {}, full |-> FullOf(u) # {}]
  <2>1. ScholarshipsOf(u) = {} /\ FullOf(u) = {}
    BY <1>1 DEF ScholarshipsOf, FullOf
  <2>2. flags[u] = [any |-> FALSE, full |-> FALSE]
    BY DEF SCInit
  <2>3. (ScholarshipsOf(u) # {}) = FALSE /\ (FullOf(u) # {}) = FALSE
    BY <2>1
  <2> QED
    BY <2>2, <2>3
<1>5. Agreement
  <2>1. FlagsAgree
    BY <1>4 DEF FlagsAgree
  <2> QED
    BY <2>1, AgreementIs
<1>6. /\ flags = [u \in Universities |-> flags[u]]
      /\ scholarReq = [r \in Reqs |-> scholarReq[r]]
      /\ moved = {} /\ outdated = {}
  BY DEF SCInit
<1> QED
  BY <1>2, <1>3, <1>5, <1>6 DEF ScholarInv

\* A step of one request that leaves the scholarships alone.
LEMMA ScholarStep ==
  ASSUME ScholarInv, NEW r \in Reqs, NEW q, ScholarRequest(q), ScholarGoto(r, q),
         UNCHANGED scholarships,
         q.pc = "insert" => /\ q.id \notin DOMAIN scholarships /\ q.id # Null
                            /\ \A p \in Reqs \ {r} : scholarReq[p].id # q.id,
         \A p \in Reqs \ {r} : scholarReq[p].pc = "insert" => scholarReq[p].id # q.id,
         moved' \subseteq Reqs, moved' \ {r} = moved \ {r},
         q.pc = "count" /\ r \notin moved' =>
           /\ q.any # Null => q.any = AnyOf(Head(q.recount))
           /\ q.full # Null => q.full = AnyFullOf(Head(q.recount)),
         outdated' \subseteq Universities, flags' = [u \in Universities |-> flags'[u]],
         \A v \in Universities \ outdated' : v \notin PendingOf(q) =>
           \/ v \notin outdated /\ v \notin Pending(r) /\ flags'[v] = flags[v]
           \/ flags'[v] = [any |-> AnyOf(v), full |-> AnyFullOf(v)]
  PROVE  ScholarInv'
<1>1. /\ scholarReq' = [p \in Reqs |-> IF p = r THEN q ELSE scholarReq[p]]
  BY DEF ScholarInv, ScholarGoto, Step
<1>2. scholarReq'[r] = q /\ \A p \in Reqs \ {r} : scholarReq'[p] = scholarReq[p]
  BY <1>1
<1>3. scholarReq' = [p \in Reqs |-> scholarReq'[p]]
  BY <1>1
<1>4. ScholarRows'
  BY DEF ScholarInv, ScholarRows
<1>5. ASSUME NEW p \in Reqs PROVE ScholarRequest(scholarReq'[p])
  BY <1>2 DEF ScholarInv
<1>6. ASSUME NEW p \in Reqs PROVE OwnId(p)'
  <2>1. CASE p = r
    BY <1>2, <2>1 DEF OwnId
  <2>2. CASE p # r
    <3>1. OwnId(p) /\ scholarReq'[p] = scholarReq[p]
      BY <1>2, <2>2 DEF ScholarInv
    <3>2. \A o \in Reqs \ {p} :
            scholarReq'[p].pc = "insert" => scholarReq'[o].id # scholarReq'[p].id
      BY <1>2, <2>2, <3>1 DEF OwnId
    <3> QED
      BY <3>1, <3>2 DEF OwnId
  <2> QED
    BY <2>1, <2>2
<1>7. ASSUME NEW p \in Reqs PROVE Tallied(p)'
  <2>1. CASE p = r
    BY <1>2, <2>1, SameScholarships DEF Tallied
  <2>2. CASE p # r
    <3>1. Tallied(p) /\ scholarReq'[p] = scholarReq[p] /\ (p \in moved' <=> p \in moved)
      BY <1>2, <2>2 DEF ScholarInv
    <3> QED
      BY <3>1, SameScholarships DEF Tallied
  <2> QED
    BY <2>1, <2>2
<1>8. ASSUME NEW v \in Universities \ outdated',
             \A p \in Reqs : v \notin PendingOf(scholarReq'[p])
      PROVE  flags'[v] = [any |-> AnyOf(v)', full |-> AnyFullOf(v)']
  <2>1. v \notin PendingOf(q) /\ \A p \in Reqs \ {r} : v \notin PendingOf(scholarReq[p])
    BY <1>2, <1>8
  <2>2. CASE v \notin outdated /\ v \notin Pending(r) /\ flags'[v] = flags[v]
    <3>1. \A p \in Reqs : v \notin PendingOf(scholarReq[p])
      BY <2>1, <2>2, PendingIsOf
    <3>2. flags[v] = [any |-> AnyOf(v), full |-> AnyFullOf(v)]
      BY <2>2, <3>1 DEF ScholarInv, Agreement
    <3> QED
      BY <2>2, <3>2, SameScholarships
  <2>3. CASE flags'[v] = [any |-> AnyOf(v), full |-> AnyFullOf(v)]
    BY <2>3, SameScholarships
  <2> QED
    BY <2>1, <2>2, <2>3
<1>9. Agreement'
  BY <1>8 DEF Agreement
<1> QED
  BY <1>3, <1>4, <1>5, <1>6, <1>7, <1>9 DEF ScholarInv

\* What the request that changed scholarships has left to do.
Recounting(us) == [ScholarIdle EXCEPT !.pc = "count", !.recount = us]

\* A request that counts has a university to count.
LEMMA CountsOne ==
  ASSUME NEW q, ScholarRequest(q), q.pc = "count"
  PROVE  \E u \in Universities :
           /\ Head(q.recount) = u /\ u \in PendingOf(q)
           /\ \/ Tail(q.recount) = <<>> /\ PendingOf(q) = {u}
              \/ \E v \in Universities : /\ PendingOf(q) = {u, v} /\ Tail(q.recount) = <<v>>
                                        /\ Tail(q.recount) # <<>>
<1>1. CASE \E u \in Universities : q.recount = <<u>>
  <2>1. PICK u \in Universities : q.recount = <<u>>
    BY <1>1
  <2>2. PendingOf(q) = {u} /\ Head(q.recount) = u /\ Tail(q.recount) = <<>>
    BY <2>1, RecountShapes
  <2> QED
    BY <2>2
<1>2. CASE \E u, v \in Universities : q.recount = <<u, v>>
  <2>1. PICK u \in Universities, v \in Universities : q.recount = <<u, v>>
    BY <1>2
  <2>2. /\ PendingOf(q) = {u, v} /\ Head(q.recount) = u /\ Tail(q.recount) = <<v>>
        /\ Tail(q.recount) # <<>>
    BY <2>1, RecountShapes
  <2> QED
    BY <2>2
<1> QED
  BY <1>1, <1>2 DEF ScholarRequest

\* A write: whoever counts a university it changes is overtaken, and those it
\* does not recount are outdated.
LEMMA ChangesStep ==
  ASSUME ScholarInv, NEW r \in Reqs, NEW U \in SUBSET Universities, NEW us,
         scholarReq[r].pc \in {"insert", "write", "delete"},
         Changes(r, U, us), ScholarRows',
         \/ \E u \in Universities : us = <<u>>
         \/ \E u, v \in Universities : us = <<u, v>>,
         U \cap {scholarReq[r].from, scholarReq[r].row.university} \subseteq
           PendingOf(Recounting(us)),
         \A v \in Universities \ U : AnyOf(v)' = AnyOf(v) /\ AnyFullOf(v)' = AnyFullOf(v),
         \A p \in Reqs \ {r} : scholarReq[p].pc = "insert" =>
           scholarReq[p].id \notin DOMAIN scholarships'
  PROVE  ScholarInv'
<1>1. PICK q : q = Recounting(us)
  OBVIOUS
<1>2. /\ q = [pc |-> "count", id |-> Null, from |-> Null, row |-> Null,
              recount |-> us, any |-> Null, full |-> Null]
  BY <1>1 DEF Recounting, ScholarIdle
<1>3. ScholarRequest(q)
  BY <1>2 DEF ScholarRequest
<1>4. scholarReq' = [p \in Reqs |-> IF p = r THEN q ELSE scholarReq[p]]
  BY <1>1 DEF ScholarInv, Changes, ScholarGoto, Step, Recounting
<1>5. /\ scholarReq' = [p \in Reqs |-> scholarReq'[p]]
      /\ scholarReq'[r] = q /\ \A p \in Reqs \ {r} : scholarReq'[p] = scholarReq[p]
  BY <1>4
<1>6. /\ flags' = flags
      /\ outdated' = outdated \cup (U \ {scholarReq[r].from, scholarReq[r].row.university})
      /\ moved' = moved \cup
           {p \in Reqs \ {r} : /\ {scholarReq[p].any, scholarReq[p].full} # {Null}
                               /\ Head(scholarReq[p].recount) \in U}
  BY Zenon DEF Changes
<1>7. ASSUME NEW p \in Reqs PROVE ScholarRequest(scholarReq'[p])
  BY <1>3, <1>5 DEF ScholarInv
<1>8. ASSUME NEW p \in Reqs PROVE OwnId(p)'
  <2>1. CASE p = r
    BY <1>2, <1>5, <2>1 DEF OwnId
  <2>2. CASE p # r
    <3>1. OwnId(p) /\ scholarReq'[p] = scholarReq[p]
      BY <1>5, <2>2 DEF ScholarInv
    <3>2. \A o \in Reqs \ {p} :
            scholarReq'[p].pc = "insert" => scholarReq'[o].id # scholarReq'[p].id
      BY <1>2, <1>5, <2>2, <3>1 DEF OwnId
    <3>3. scholarReq'[p].pc = "insert" => scholarReq'[p].id \notin DOMAIN scholarships'
      BY <2>2, <3>1
    <3> QED
      BY <3>1, <3>2, <3>3 DEF OwnId
  <2> QED
    BY <2>1, <2>2
<1>9. ASSUME NEW p \in Reqs PROVE Tallied(p)'
  <2>1. CASE p = r
    BY <1>2, <1>5, <2>1 DEF Tallied
  <2>2. CASE p # r
    <3>1. ScholarRequest(scholarReq[p]) /\ Tallied(p) /\ scholarReq'[p] = scholarReq[p]
      BY <1>5, <2>2 DEF ScholarInv
    <3> SUFFICES ASSUME scholarReq[p].pc = "count", p \notin moved',
                        {scholarReq[p].any, scholarReq[p].full} # {Null}
                 PROVE  Tallied(p)'
      BY <3>1 DEF Tallied
    <3>2. PICK u \in Universities :
            Head(scholarReq[p].recount) = u /\ u \in PendingOf(scholarReq[p])
      BY <3>1, CountsOne
    <3>4. p \notin moved /\ u \notin U
      BY <1>6, <2>2, <3>2
    <3>5. /\ scholarReq'[p].any # Null => scholarReq'[p].any = AnyOf(u)
          /\ scholarReq'[p].full # Null => scholarReq'[p].full = AnyFullOf(u)
      BY <3>1, <3>2, <3>4 DEF Tallied
    <3>6. AnyOf(u)' = AnyOf(u) /\ AnyFullOf(u)' = AnyFullOf(u)
      BY <3>4
    <3>7. Head(scholarReq'[p].recount) = u
      BY <3>1, <3>2
    <3>8. /\ AnyOf(Head(scholarReq[p].recount))' = AnyOf(u)'
          /\ AnyFullOf(Head(scholarReq[p].recount))' = AnyFullOf(u)'
      BY <3>7 DEF AnyOf, AnyFullOf, FullOf, ScholarshipsOf
    <3> QED
      BY <3>5, <3>6, <3>8 DEF Tallied
  <2> QED
    BY <2>1, <2>2
<1>10. ASSUME NEW v \in Universities \ outdated',
              \A p \in Reqs : v \notin PendingOf(scholarReq'[p])
       PROVE  flags'[v] = [any |-> AnyOf(v)', full |-> AnyFullOf(v)']
  <2>1. v \notin PendingOf(q) /\ \A p \in Reqs \ {r} : v \notin PendingOf(scholarReq[p])
    BY <1>5, <1>10
  <2>2. v \notin U /\ v \notin outdated
    BY <1>1, <1>6, <2>1
  <2>3. PendingOf(scholarReq[r]) = {}
    BY RecountShapes DEF ScholarInv, ScholarRequest
  <2>4. flags[v] = [any |-> AnyOf(v), full |-> AnyFullOf(v)]
    BY <2>1, <2>2, <2>3 DEF ScholarInv, Agreement
  <2> QED
    BY <1>6, <2>2, <2>4
<1>11. Agreement'
  BY <1>10 DEF Agreement
<1>12. /\ flags' = [u \in Universities |-> flags'[u]]
       /\ moved' \subseteq Reqs /\ outdated' \subseteq Universities
  BY <1>6 DEF ScholarInv
<1> QED
  BY <1>5, <1>7, <1>8, <1>9, <1>11, <1>12 DEF ScholarInv

\* A row that is written is of no other university than it was and is now.
LEMMA OthersKept ==
  ASSUME NEW id, NEW row, scholarships' = With(scholarships, id, row),
         NEW v, v # row.university,
         id \in DOMAIN scholarships => v # scholarships[id].university
  PROVE  AnyOf(v)' = AnyOf(v) /\ AnyFullOf(v)' = AnyFullOf(v)
<1>1. /\ DOMAIN scholarships' = DOMAIN scholarships \cup {id}
      /\ scholarships'[id] = row
      /\ \A s \in DOMAIN scholarships \ {id} : scholarships'[s] = scholarships[s]
  BY DEF With
<1>2. ScholarshipsOf(v)' = ScholarshipsOf(v)
  BY <1>1 DEF ScholarshipsOf
<1>3. \A s \in ScholarshipsOf(v) : scholarships'[s] = scholarships[s]
  BY <1>1 DEF ScholarshipsOf
<1>4. FullOf(v)' = FullOf(v)
  BY <1>2, <1>3 DEF FullOf
<1> QED
  BY <1>2, <1>4 DEF AnyOf, AnyFullOf

\* A university keeps what it has when another's scholarship goes.
LEMMA OthersLeft ==
  ASSUME NEW id \in DOMAIN scholarships, scholarships' = Without(scholarships, {id}),
         NEW v, v # scholarships[id].university
  PROVE  AnyOf(v)' = AnyOf(v) /\ AnyFullOf(v)' = AnyFullOf(v)
<1>1. /\ DOMAIN scholarships' = DOMAIN scholarships \ {id}
      /\ \A s \in DOMAIN scholarships \ {id} : scholarships'[s] = scholarships[s]
  BY DEF Without
<1>2. ScholarshipsOf(v)' = ScholarshipsOf(v)
  BY <1>1 DEF ScholarshipsOf
<1>3. \A s \in ScholarshipsOf(v) : scholarships'[s] = scholarships[s]
  BY <1>1 DEF ScholarshipsOf
<1>4. FullOf(v)' = FullOf(v)
  BY <1>2, <1>3 DEF FullOf
<1> QED
  BY <1>2, <1>4 DEF AnyOf, AnyFullOf

\* The universities a write is to recount.
LEMMA RecountingAll ==
  ASSUME NEW u, NEW v
  PROVE  PendingOf(Recounting(<<u>>)) = {u} /\ PendingOf(Recounting(<<u, v>>)) = {u, v}
<1>1. PICK q : q = Recounting(<<u>>)
  OBVIOUS
<1>2. PICK p : p = Recounting(<<u, v>>)
  OBVIOUS
<1>3. q.recount = <<u>> /\ p.recount = <<u, v>>
  BY <1>1, <1>2 DEF Recounting, ScholarIdle
<1>4. PendingOf(q) = {u} /\ PendingOf(p) = {u, v}
  BY <1>3, RecountShapes
<1> QED
  BY <1>1, <1>2, <1>4

\* A write of a scholarship leaves those it concerns to be recounted, or
\* outdated.
LEMMA ScholarshipInserted ==
  ASSUME ScholarInv, NEW r \in Reqs, InsertScholarship(r)
  PROVE  ScholarInv'
<1>1. PICK q : q = scholarReq[r]
  OBVIOUS
<1>2. /\ q.pc = "insert" /\ scholarships' = With(scholarships, q.id, q.row)
      /\ Changes(r, {q.row.university}, <<q.row.university>>)
  BY <1>1 DEF InsertScholarship, ScholarAt
<1>3. q.id \in ScholarshipIds /\ q.row \in Scholarship /\ q.id \notin DOMAIN scholarships
  BY <1>1, <1>2 DEF ScholarInv, ScholarRequest, OwnId
<1>4. q.row.university \in Universities
  BY <1>3 DEF Scholarship
<1>5. /\ DOMAIN scholarships' = DOMAIN scholarships \cup {q.id}
      /\ \A s \in DOMAIN scholarships' :
           scholarships'[s] = IF s = q.id THEN q.row ELSE scholarships[s]
  BY <1>2 DEF With
<1>6. ScholarRows'
  BY <1>3, <1>5 DEF ScholarInv, ScholarRows
<1>7. \A v \in Universities \ {q.row.university} :
        AnyOf(v)' = AnyOf(v) /\ AnyFullOf(v)' = AnyFullOf(v)
  BY <1>2, <1>3, OthersKept
<1>8. \A p \in Reqs \ {r} : scholarReq[p].pc = "insert" =>
        scholarReq[p].id \notin DOMAIN scholarships'
  BY <1>1, <1>2, <1>5 DEF ScholarInv, OwnId
<1>9. {q.row.university} \cap {q.from, q.row.university} \subseteq
        PendingOf(Recounting(<<q.row.university>>))
  BY RecountingAll
<1>10. \E u \in Universities : <<q.row.university>> = <<u>>
  BY <1>4
<1>11. {q.row.university} \in SUBSET Universities
  BY <1>4
<1> QED
  BY <1>1, <1>2, <1>6, <1>7, <1>8, <1>9, <1>10, <1>11, ChangesStep

LEMMA ScholarshipWritten ==
  ASSUME ScholarInv, NEW r \in Reqs, WriteScholarship(r)
  PROVE  ScholarInv'
<1>1. PICK q : q = scholarReq[r]
  OBVIOUS
<1>2. PICK row : row = Updated(scholarships[q.id], q.row)
  OBVIOUS
<1>3. PICK us : us = IF q.row.university = Null THEN <<row.university>>
                     ELSE ToRecount(q.from, row.university)
  OBVIOUS
<1>4. PICK old : old = scholarships[q.id].university
  OBVIOUS
<1>5. /\ q.pc = "write" /\ q.id \in DOMAIN scholarships
      /\ scholarships' = With(scholarships, q.id, row)
      /\ Changes(r, {old, row.university}, us)
  BY <1>1, <1>2, <1>3, <1>4 DEF WriteScholarship, ScholarAt
<1>6. q.row \in UpdateScholarshipDto /\ q.from \in Universities
  BY <1>1, <1>5 DEF ScholarInv, ScholarRequest
<1>7. scholarships[q.id] \in Scholarship /\ old \in Universities
  BY <1>4, <1>5 DEF ScholarInv, ScholarRows, Scholarship
<1>8. /\ row \in Scholarship /\ row.university \in Universities
      /\ row.university = IF q.row.university = Null THEN old ELSE q.row.university
  BY <1>2, <1>4, <1>6, <1>7 DEF Updated, Scholarship, UpdateScholarshipDto
<1>9. /\ DOMAIN scholarships' = DOMAIN scholarships
      /\ \A s \in DOMAIN scholarships' :
           scholarships'[s] = IF s = q.id THEN row ELSE scholarships[s]
  BY <1>5 DEF With
<1>10. ScholarRows'
  BY <1>8, <1>9 DEF ScholarInv, ScholarRows
<1>11. \A v \in Universities \ {old, row.university} :
        AnyOf(v)' = AnyOf(v) /\ AnyFullOf(v)' = AnyFullOf(v)
  BY <1>4, <1>5, OthersKept
<1>12. \A p \in Reqs \ {r} : scholarReq[p].pc = "insert" =>
        scholarReq[p].id \notin DOMAIN scholarships'
  BY <1>9 DEF ScholarInv, OwnId
<1>13. us = <<row.university>> \/ us = <<q.from, row.university>>
  BY <1>3 DEF ToRecount
<1>14. \/ \E u \in Universities : us = <<u>>
       \/ \E u, v \in Universities : us = <<u, v>>
  BY <1>6, <1>8, <1>13
<1>15. {old, row.university} \cap {q.from, q.row.university} \subseteq
         PendingOf(Recounting(us))
  <2>1. CASE q.row.university = Null
    <3>1. us = <<row.university>> /\ old = row.university
      BY <1>3, <1>8, <2>1
    <3> QED
      BY <3>1, RecountingAll
  <2>2. CASE q.row.university # Null /\ q.from = row.university
    <3>1. us = <<row.university>> /\ q.row.university = row.university
      BY <1>3, <1>8, <2>2 DEF ToRecount
    <3> QED
      BY <2>2, <3>1, RecountingAll
  <2>3. CASE q.row.university # Null /\ q.from # row.university
    <3>1. us = <<q.from, row.university>> /\ q.row.university = row.university
      BY <1>3, <1>8, <2>3 DEF ToRecount
    <3>2. PendingOf(Recounting(us)) = {q.from, row.university}
      BY <3>1, RecountingAll
    <3> QED
      BY <3>1, <3>2
  <2> QED
    BY <2>1, <2>2, <2>3
<1>16. PICK U : U = {old, row.university}
  OBVIOUS
<1>17. /\ U \in SUBSET Universities /\ Changes(r, U, us)
       /\ U \cap {scholarReq[r].from, scholarReq[r].row.university} \subseteq
            PendingOf(Recounting(us))
       /\ scholarReq[r].pc \in {"insert", "write", "delete"}
       /\ \A v \in Universities \ U : AnyOf(v)' = AnyOf(v) /\ AnyFullOf(v)' = AnyFullOf(v)
  BY <1>1, <1>5, <1>7, <1>8, <1>11, <1>15, <1>16
<1> QED
  BY <1>10, <1>12, <1>14, <1>17, ChangesStep

LEMMA ScholarshipDeleted ==
  ASSUME ScholarInv, NEW r \in Reqs, DeleteScholarship(r)
  PROVE  ScholarInv'
<1>1. PICK q : q = scholarReq[r]
  OBVIOUS
<1>2. PICK old : old = scholarships[q.id].university
  OBVIOUS
<1>3. /\ q.pc = "delete" /\ q.id \in DOMAIN scholarships
      /\ scholarships' = Without(scholarships, {q.id})
      /\ Changes(r, {old}, <<q.from>>)
  BY <1>1, <1>2 DEF DeleteScholarship, ScholarAt
<1>4. q.row \in Scholarship /\ q.from = q.row.university /\ q.from \in Universities
  BY <1>1, <1>3 DEF ScholarInv, ScholarRequest, Scholarship
<1>5. old \in Universities
  BY <1>2, <1>3 DEF ScholarInv, ScholarRows, Scholarship
<1>6. /\ DOMAIN scholarships' = DOMAIN scholarships \ {q.id}
      /\ \A s \in DOMAIN scholarships' : scholarships'[s] = scholarships[s]
  BY <1>3 DEF Without
<1>7. ScholarRows'
  BY <1>6 DEF ScholarInv, ScholarRows
<1>8. \A v \in Universities \ {old} :
        AnyOf(v)' = AnyOf(v) /\ AnyFullOf(v)' = AnyFullOf(v)
  BY <1>2, <1>3, OthersLeft
<1>9. \A p \in Reqs \ {r} : scholarReq[p].pc = "insert" =>
        scholarReq[p].id \notin DOMAIN scholarships'
  BY <1>6 DEF ScholarInv, OwnId
<1>10. {old} \cap {q.from, q.row.university} \subseteq PendingOf(Recounting(<<q.from>>))
  BY <1>4, RecountingAll
<1>11. \E u \in Universities : <<q.from>> = <<u>>
  BY <1>4
<1>12. PICK U, us : U = {old} /\ us = <<q.from>>
  OBVIOUS
<1>13. /\ U \in SUBSET Universities /\ Changes(r, U, us)
       /\ U \cap {scholarReq[r].from, scholarReq[r].row.university} \subseteq
            PendingOf(Recounting(us))
       /\ scholarReq[r].pc \in {"insert", "write", "delete"}
       /\ \A v \in Universities \ U : AnyOf(v)' = AnyOf(v) /\ AnyFullOf(v)' = AnyFullOf(v)
       /\ \E u \in Universities : us = <<u>>
  BY <1>1, <1>3, <1>5, <1>8, <1>10, <1>11, <1>12
<1> QED
  BY <1>7, <1>9, <1>13, ChangesStep

\* A request that begins has not counted.
LEMMA StartScholarshipStep ==
  ASSUME ScholarInv, NEW r \in Reqs, NEW pc \in {"insert", "write", "delete"},
         NEW s \in ScholarshipIds, NEW row, StartScholarship(r, pc, s, row),
         pc = "insert" => /\ s \notin DOMAIN scholarships /\ row \in Scholarship
                          /\ \A p \in Reqs : scholarReq[p].id # s,
         pc # "insert" => s \in DOMAIN scholarships,
         pc = "write" => row \in UpdateScholarshipDto,
         pc = "delete" => row = scholarships[s]
  PROVE  ScholarInv'
<1>1. PICK from : from = IF s \in DOMAIN scholarships THEN scholarships[s].university
                         ELSE row.university
  OBVIOUS
<1>2. PICK q : q = [ScholarIdle EXCEPT !.pc = pc, !.id = s, !.row = row, !.from = from]
  OBVIOUS
<1>3. q = [pc |-> pc, id |-> s, from |-> from, row |-> row, recount |-> <<>>,
           any |-> Null, full |-> Null]
  BY <1>2 DEF ScholarIdle
<1>4. /\ scholarReq[r] = ScholarIdle /\ ScholarGoto(r, q)
      /\ UNCHANGED <<scholarships, flags, moved, outdated>>
  BY <1>1, <1>2 DEF StartScholarship
<1>5. scholarReq[r].id = Null /\ scholarReq[r].pc = "idle" /\ scholarReq[r].recount = <<>>
  BY <1>4 DEF ScholarIdle
<1>6. pc = "insert" => from = row.university
  BY <1>1
<1>7. pc # "insert" => from \in Universities /\ scholarships[s] \in Scholarship
  BY <1>1 DEF ScholarInv, ScholarRows, Scholarship
<1>8. pc = "delete" => row \in Scholarship /\ from = row.university
  BY <1>1, <1>7
<1>9. ScholarRequest(q)
  BY <1>3, <1>6, <1>7, <1>8 DEF ScholarRequest
<1>10. q.pc = "insert" => /\ q.id \notin DOMAIN scholarships /\ q.id # Null
                          /\ \A p \in Reqs \ {r} : scholarReq[p].id # q.id
  BY <1>3, <1>5
<1>11. \A p \in Reqs \ {r} : scholarReq[p].pc = "insert" => scholarReq[p].id # q.id
  BY <1>3 DEF ScholarInv, OwnId
<1>12. q.pc # "count"
  BY <1>3
<1>13. /\ moved' \subseteq Reqs /\ moved' \ {r} = moved \ {r}
       /\ outdated' \subseteq Universities /\ flags' = [u \in Universities |-> flags'[u]]
  BY <1>4 DEF ScholarInv
<1>14. Pending(r) = {}
  BY <1>5, RecountShapes, PendingIsOf
<1>15. \A v \in Universities \ outdated' :
         v \notin outdated /\ v \notin Pending(r) /\ flags'[v] = flags[v]
  BY <1>4, <1>14
<1> QED
  BY <1>4, <1>9, <1>10, <1>11, <1>12, <1>13, <1>15, ScholarStep

\* What is counted is right when it is counted.
LEMMA CountStep ==
  ASSUME ScholarInv, NEW r \in Reqs, CountScholarships(r)
  PROVE  ScholarInv'
<1>1. PICK q : q = scholarReq[r]
  OBVIOUS
<1>2. PICK any, full :
        /\ ScholarGoto(r, [q EXCEPT !.any = any, !.full = full])
        /\ any = q.any \/ any = AnyOf(Head(q.recount))
        /\ full = q.full \/ full = AnyFullOf(Head(q.recount))
  <2>1. ScholarRequest(q)
    BY <1>1 DEF ScholarInv
  <2>2. PICK u : u = Head(q.recount)
    OBVIOUS
  <2>3. PICK a, f : a = AnyOf(u) /\ f = AnyFullOf(u)
    OBVIOUS
  <2>4. \/ ScholarGoto(r, [q EXCEPT !.any = a])
        \/ ScholarGoto(r, [q EXCEPT !.full = f])
    BY <1>1, <2>2, <2>3 DEF CountScholarships, AnyOf, AnyFullOf
  <2>5. [q EXCEPT !.any = a] = [q EXCEPT !.any = a, !.full = q.full]
    BY <2>1 DEF ScholarRequest
  <2>6. [q EXCEPT !.full = f] = [q EXCEPT !.any = q.any, !.full = f]
    BY <2>1 DEF ScholarRequest
  <2>7. \/ ScholarGoto(r, [q EXCEPT !.any = a, !.full = q.full])
        \/ ScholarGoto(r, [q EXCEPT !.any = q.any, !.full = f])
    BY <2>4, <2>5, <2>6
  <2>8. CASE ScholarGoto(r, [q EXCEPT !.any = a, !.full = q.full])
    BY <2>2, <2>3, <2>8
  <2>9. CASE ScholarGoto(r, [q EXCEPT !.any = q.any, !.full = f])
    BY <2>2, <2>3, <2>9
  <2> QED
    BY <2>7, <2>8, <2>9
<1>3. PICK n : n = [q EXCEPT !.any = any, !.full = full]
  OBVIOUS
<1>4. /\ ScholarRequest(q) /\ Tallied(r) /\ q.pc = "count"
      /\ UNCHANGED <<scholarships, flags, moved, outdated>>
  BY <1>1 DEF ScholarInv, CountScholarships, ScholarAt
<1>5. n = [pc |-> "count", id |-> q.id, from |-> q.from, row |-> q.row,
           recount |-> q.recount, any |-> any, full |-> full]
  BY <1>3, <1>4 DEF ScholarRequest
<1>6. ScholarRequest(n) /\ n.pc = "count" /\ n.recount = q.recount /\ n.id = q.id
  BY <1>4, <1>5 DEF ScholarRequest
<1>7. \A p \in Reqs \ {r} : scholarReq[p].pc = "insert" => scholarReq[p].id # n.id
  BY <1>1, <1>6 DEF ScholarInv, OwnId
<1>8. r \notin moved' => /\ n.any # Null => n.any = AnyOf(Head(n.recount))
                         /\ n.full # Null => n.full = AnyFullOf(Head(n.recount))
  BY <1>1, <1>2, <1>4, <1>5, <1>6 DEF Tallied
<1>9. /\ moved' \subseteq Reqs /\ moved' \ {r} = moved \ {r}
      /\ outdated' \subseteq Universities /\ flags' = [u \in Universities |-> flags'[u]]
  BY <1>4 DEF ScholarInv
<1>10. PendingOf(n) = Pending(r)
  BY <1>1, <1>6, PendingIsOf DEF PendingOf
<1>11. \A v \in Universities \ outdated' : v \notin PendingOf(n) =>
         v \notin outdated /\ v \notin Pending(r) /\ flags'[v] = flags[v]
  BY <1>4, <1>10
<1>12. ScholarGoto(r, n) /\ UNCHANGED scholarships /\ n.pc # "insert"
  BY <1>2, <1>3, <1>4, <1>6
<1> QED
  BY <1>6, <1>7, <1>8, <1>9, <1>11, <1>12, ScholarStep

\* Counts that no write has overtaken make right flags.
LEMMA WriteFlagsStep ==
  ASSUME ScholarInv, NEW r \in Reqs, WriteFlags(r)
  PROVE  ScholarInv'
<1>1. PICK q : q = scholarReq[r]
  OBVIOUS
<1>2. PICK n : n = IF Tail(q.recount) = <<>> THEN ScholarIdle
                   ELSE [q EXCEPT !.recount = Tail(q.recount), !.any = Null, !.full = Null]
  OBVIOUS
<1>3. PICK a, f : a = q.any /\ f = q.full
  OBVIOUS
<1>4. ScholarRequest(q) /\ Tallied(r) /\ q.pc = "count" /\ a # Null /\ f # Null
  BY <1>1, <1>3 DEF ScholarInv, WriteFlags, ScholarAt
<1>5. PICK u \in Universities :
        /\ Head(q.recount) = u /\ u \in PendingOf(q)
        /\ \/ Tail(q.recount) = <<>> /\ PendingOf(q) = {u}
           \/ \E v \in Universities : /\ PendingOf(q) = {u, v} /\ Tail(q.recount) = <<v>>
                                     /\ Tail(q.recount) # <<>>
  BY <1>4, CountsOne
<1>6. /\ flags' = [flags EXCEPT ![u] = [any |-> a, full |-> f]]
      /\ outdated' = IF r \in moved THEN outdated \cup {u} ELSE outdated \ {u}
      /\ moved' = moved \ {r} /\ UNCHANGED scholarships
      /\ ScholarGoto(r, n)
  BY <1>1, <1>2, <1>3, <1>5 DEF WriteFlags
<1>7. r \notin moved => a = AnyOf(u) /\ f = AnyFullOf(u)
  BY <1>1, <1>3, <1>4, <1>5 DEF Tallied
<1>8. /\ ScholarRequest(n) /\ n.any = Null /\ n.full = Null
      /\ n.pc # "insert" /\ n.id \in {Null, q.id}
      /\ PendingOf(q) \ {u} \subseteq PendingOf(n)
  <2>1. CASE Tail(q.recount) = <<>>
    <3>1. n = [pc |-> "idle", id |-> Null, from |-> Null, row |-> Null,
               recount |-> <<>>, any |-> Null, full |-> Null]
      BY <1>2, <2>1 DEF ScholarIdle
    <3>2. PendingOf(q) = {u}
      BY <1>5, <2>1
    <3> QED
      BY <3>1, <3>2 DEF ScholarRequest
  <2>2. CASE Tail(q.recount) # <<>>
    <3>1. PICK v \in Universities : PendingOf(q) = {u, v} /\ Tail(q.recount) = <<v>>
      BY <1>5, <2>2
    <3>2. PICK t : t = Tail(q.recount)
      OBVIOUS
    <3>3. n = [q EXCEPT !.recount = t, !.any = Null, !.full = Null]
      BY <1>2, <2>2, <3>2
    <3>4. n = [pc |-> "count", id |-> q.id, from |-> q.from, row |-> q.row,
               recount |-> t, any |-> Null, full |-> Null]
      BY <1>4, <3>3 DEF ScholarRequest
    <3>5. ScholarRequest(n)
      BY <3>1, <3>2, <3>4 DEF ScholarRequest
    <3>6. n.recount = <<v>>
      BY <3>1, <3>2, <3>4
    <3>7. PendingOf(n) = {v}
      BY <3>6, RecountShapes
    <3> QED
      BY <3>1, <3>4, <3>5, <3>7
  <2> QED
    BY <2>1, <2>2
<1>9. \A p \in Reqs \ {r} : scholarReq[p].pc = "insert" => scholarReq[p].id # n.id
  BY <1>1, <1>8 DEF ScholarInv, OwnId
<1>10. /\ flags = [x \in Universities |-> flags[x]]
       /\ moved \subseteq Reqs /\ outdated \subseteq Universities
  BY DEF ScholarInv
<1>11. /\ flags'[u] = [any |-> a, full |-> f]
       /\ \A v \in Universities \ {u} : flags'[v] = flags[v]
       /\ flags' = [x \in Universities |-> flags'[x]]
  BY <1>6, <1>10
<1>12. moved' \subseteq Reqs /\ moved' \ {r} = moved \ {r} /\ outdated' \subseteq Universities
  BY <1>6, <1>10
<1>13. ASSUME NEW v \in Universities \ outdated', v \notin PendingOf(n)
       PROVE  \/ v \notin outdated /\ v \notin Pending(r) /\ flags'[v] = flags[v]
              \/ flags'[v] = [any |-> AnyOf(v), full |-> AnyFullOf(v)]
  <2>1. CASE v = u
    <3>1. a = AnyOf(v) /\ f = AnyFullOf(v)
      BY <1>6, <1>7, <2>1
    <3> QED
      BY <1>11, <2>1, <3>1
  <2>2. CASE v # u
    <3>1. v \notin PendingOf(q)
      BY <1>8, <1>13, <2>2
    <3> QED
      BY <1>1, <1>6, <1>11, <2>2, <3>1, PendingIsOf
  <2> QED
    BY <2>1, <2>2
<1> QED
  BY <1>6, <1>8, <1>9, <1>11, <1>12, <1>13, ScholarStep

\* A failure leaves outdated what was to be recounted.
LEMMA ScholarRejectStep ==
  ASSUME ScholarInv, NEW r \in Reqs, ScholarReject(r)
  PROVE  ScholarInv'
<1>1. PICK n : n = ScholarIdle
  OBVIOUS
<1>2. n = [pc |-> "idle", id |-> Null, from |-> Null, row |-> Null,
           recount |-> <<>>, any |-> Null, full |-> Null]
  BY <1>1 DEF ScholarIdle
<1>3. /\ ScholarGoto(r, n) /\ UNCHANGED <<scholarships, flags>>
      /\ moved' = moved \ {r} /\ outdated' = outdated \cup Pending(r)
  BY <1>1 DEF ScholarReject
<1>4. ScholarRequest(n) /\ n.pc = "idle" /\ n.id = Null
  BY <1>2 DEF ScholarRequest
<1>5. \A p \in Reqs \ {r} : scholarReq[p].pc = "insert" => scholarReq[p].id # n.id
  BY <1>4 DEF ScholarInv, OwnId
<1>6. PendingOf(scholarReq[r]) \subseteq Universities
  <2>1. ScholarRequest(scholarReq[r])
    BY DEF ScholarInv
  <2>2. CASE scholarReq[r].pc = "count"
    BY <2>1, <2>2, CountsOne
  <2>3. CASE scholarReq[r].pc # "count"
    BY <2>1, <2>3, RecountShapes DEF ScholarRequest
  <2> QED
    BY <2>2, <2>3
<1>7. /\ moved' \subseteq Reqs /\ moved' \ {r} = moved \ {r}
      /\ outdated' \subseteq Universities /\ flags' = [x \in Universities |-> flags'[x]]
  BY <1>3, <1>6, PendingIsOf DEF ScholarInv
<1>8. \A v \in Universities \ outdated' :
         v \notin outdated /\ v \notin Pending(r) /\ flags'[v] = flags[v]
  BY <1>3
<1> QED
  BY <1>3, <1>4, <1>5, <1>7, <1>8, ScholarStep

\* Flags written by hand are outdated.
LEMMA SetFlagsStep ==
  ASSUME ScholarInv, NEW u \in Universities, NEW any \in BOOLEAN, NEW full \in BOOLEAN,
         SetFlags(u, any, full)
  PROVE  ScholarInv'
<1>1. PICK row : row = [any |-> any, full |-> full]
  OBVIOUS
<1>2. /\ flags' = [flags EXCEPT ![u] = row]
      /\ outdated' = outdated \cup {u} /\ UNCHANGED <<scholarships, scholarReq, moved>>
  BY <1>1 DEF SetFlags
<1>3. /\ flags = [x \in Universities |-> flags[x]]
      /\ moved \subseteq Reqs /\ outdated \subseteq Universities
  BY DEF ScholarInv
<1>4. /\ \A v \in Universities \ {u} : flags'[v] = flags[v]
      /\ flags' = [x \in Universities |-> flags'[x]]
  BY <1>2, <1>3
<1>5. ScholarRows'
  BY <1>2 DEF ScholarInv, ScholarRows
<1>6. ASSUME NEW r \in Reqs
      PROVE  ScholarRequest(scholarReq'[r]) /\ OwnId(r)' /\ Tallied(r)'
  <2>1. ScholarRequest(scholarReq[r]) /\ OwnId(r) /\ Tallied(r)
    BY DEF ScholarInv
  <2> QED
    BY <1>2, <2>1, SameScholarships DEF OwnId, Tallied
<1>7. ASSUME NEW v \in Universities \ outdated',
             \A r \in Reqs : v \notin PendingOf(scholarReq'[r])
      PROVE  flags'[v] = [any |-> AnyOf(v)', full |-> AnyFullOf(v)']
  <2>1. flags[v] = [any |-> AnyOf(v), full |-> AnyFullOf(v)]
    BY <1>2, <1>7 DEF ScholarInv, Agreement
  <2> QED
    BY <1>2, <1>4, <2>1, SameScholarships
<1>8. Agreement'
  BY <1>7 DEF Agreement
<1> QED
  BY <1>2, <1>3, <1>4, <1>5, <1>6, <1>8 DEF ScholarInv

LEMMA ScholarInvNext == ScholarInv /\ [SCNext]_scholarVars => ScholarInv'
<1> SUFFICES ASSUME ScholarInv, [SCNext]_scholarVars PROVE ScholarInv'
  OBVIOUS
<1>1. CASE UNCHANGED scholarVars
  <2>1. ASSUME NEW r \in Reqs
        PROVE  ScholarRequest(scholarReq'[r]) /\ OwnId(r)' /\ Tallied(r)'
    BY <1>1, SameScholarships DEF ScholarInv, scholarVars, OwnId, Tallied
  <2>2. Agreement'
    BY <1>1, SameScholarships DEF ScholarInv, scholarVars, Agreement
  <2> QED
    BY <1>1, <2>1, <2>2 DEF ScholarInv, ScholarRows, scholarVars
<1>2. ASSUME NEW r \in Reqs, NEW s \in ScholarshipIds, NEW row \in Scholarship,
             CreateScholarship(r, s, row)
      PROVE  ScholarInv'
  BY <1>2, StartScholarshipStep DEF CreateScholarship
<1>3. ASSUME NEW r \in Reqs, NEW s \in ScholarshipIds, NEW dto \in UpdateScholarshipDto,
             UpdateScholarship(r, s, dto)
      PROVE  ScholarInv'
  BY <1>3, StartScholarshipStep DEF UpdateScholarship
<1>4. ASSUME NEW r \in Reqs, NEW s \in ScholarshipIds, RemoveScholarship(r, s)
      PROVE  ScholarInv'
  BY <1>4, StartScholarshipStep DEF RemoveScholarship
<1>5. ASSUME NEW r \in Reqs, InsertScholarship(r) PROVE ScholarInv'
  BY <1>5, ScholarshipInserted
<1>6. ASSUME NEW r \in Reqs, WriteScholarship(r) PROVE ScholarInv'
  BY <1>6, ScholarshipWritten
<1>7. ASSUME NEW r \in Reqs, DeleteScholarship(r) PROVE ScholarInv'
  BY <1>7, ScholarshipDeleted
<1>8. ASSUME NEW r \in Reqs, CountScholarships(r) PROVE ScholarInv'
  BY <1>8, CountStep
<1>9. ASSUME NEW r \in Reqs, WriteFlags(r) PROVE ScholarInv'
  BY <1>9, WriteFlagsStep
<1>10. ASSUME NEW r \in Reqs, ScholarReject(r) PROVE ScholarInv'
  BY <1>10, ScholarRejectStep
<1>11. ASSUME NEW u \in Universities, NEW any \in BOOLEAN, NEW full \in BOOLEAN,
              SetFlags(u, any, full)
       PROVE  ScholarInv'
  BY <1>11, SetFlagsStep
<1> QED
  BY <1>1, <1>2, <1>3, <1>4, <1>5, <1>6, <1>7, <1>8, <1>9, <1>10, <1>11 DEF SCNext

\* What requests have counted is right unless they are known to be overtaken.
THEOREM ScholarInvHolds == SCSpec => []ScholarInv
BY ScholarInvInit, ScholarInvNext, PTL DEF SCSpec

\* The flags of a university say what scholarships it has when no request is to
\* recount it, however writes, moves between universities, counts and deletions
\* overlap, but for those last written by a request that another overtook, by
\* hand, or left out by one that failed.
THEOREM FlagsAgreeHolds == SCSpec => []FlagsAgree
<1>1. ScholarInv => FlagsAgree
  BY AgreementIs DEF ScholarInv
<1> QED
  BY <1>1, ScholarInvHolds, PTL

\* Flags and counts are Booleans, and what a write can overtake is a request
\* that counts.
FlagTypes ==
    /\ \A u \in Universities : flags[u] \in [any : BOOLEAN, full : BOOLEAN]
    /\ \A r \in Reqs :
         /\ {scholarReq[r].any, scholarReq[r].full} \subseteq BOOLEAN \cup {Null}
         /\ \/ scholarReq[r].pc = "count"
            \/ scholarReq[r].any = Null /\ scholarReq[r].full = Null
    /\ \A r \in moved : scholarReq[r].pc = "count"

\* A step of r keeps this, if what r goes on with is of its types.
LEMMA FlagTypesStep ==
  ASSUME ScholarInv, FlagTypes, NEW r \in Reqs, NEW q, ScholarGoto(r, q),
         {q.any, q.full} \subseteq BOOLEAN \cup {Null},
         q.pc = "count" \/ (q.any = Null /\ q.full = Null),
         \A u \in Universities : flags'[u] \in [any : BOOLEAN, full : BOOLEAN],
         \A p \in moved' : IF p = r THEN q.pc = "count"
                           ELSE p \in Reqs /\ scholarReq[p].pc = "count"
  PROVE  FlagTypes'
<1>1. scholarReq' = [p \in Reqs |-> IF p = r THEN q ELSE scholarReq[p]]
  BY DEF ScholarInv, ScholarGoto, Step
<1> QED
  BY <1>1 DEF FlagTypes

\* A write of a scholarship overtakes only requests that count.
LEMMA ChangesTypes ==
  ASSUME ScholarInv, FlagTypes, NEW r \in Reqs, NEW universities, NEW us,
         Changes(r, universities, us)
  PROVE  FlagTypes'
<1>1. PICK q : q = [ScholarIdle EXCEPT !.pc = "count", !.recount = us]
  OBVIOUS
<1>2. q.pc = "count" /\ q.any = Null /\ q.full = Null
  BY <1>1 DEF ScholarIdle
<1>3. /\ ScholarGoto(r, q) /\ UNCHANGED flags
      /\ \A p \in moved' :
           p \in moved \/ (p \in Reqs /\ {scholarReq[p].any, scholarReq[p].full} # {Null})
  BY <1>1 DEF Changes
<1>4. ASSUME NEW p \in Reqs, {scholarReq[p].any, scholarReq[p].full} # {Null}
      PROVE  scholarReq[p].pc = "count"
  BY <1>4 DEF FlagTypes
<1>5. \A p \in moved' : p \in Reqs /\ scholarReq[p].pc = "count"
  BY <1>3, <1>4 DEF FlagTypes, ScholarInv
<1> QED
  BY <1>2, <1>3, <1>5, FlagTypesStep DEF FlagTypes

\* A request that begins has counted nothing.
LEMMA StartTypes ==
  ASSUME ScholarInv, FlagTypes, NEW r \in Reqs, NEW pc, NEW s, NEW row,
         StartScholarship(r, pc, s, row)
  PROVE  FlagTypes'
<1>1. PICK from : from = IF s \in DOMAIN scholarships
                         THEN scholarships[s].university ELSE row.university
  OBVIOUS
<1>2. PICK q : q = [ScholarIdle EXCEPT !.pc = pc, !.id = s, !.row = row, !.from = from]
  OBVIOUS
<1>3. q.any = Null /\ q.full = Null
  BY <1>2 DEF ScholarIdle
<1>4. /\ ScholarGoto(r, q) /\ UNCHANGED <<flags, moved>>
      /\ scholarReq[r] = ScholarIdle
  BY <1>1, <1>2 DEF StartScholarship
<1>5. r \notin moved
  BY <1>4 DEF FlagTypes, ScholarIdle
<1> QED
  BY <1>3, <1>4, <1>5, FlagTypesStep DEF FlagTypes, ScholarInv

\* At first all is idle, and no step changes a type.
LEMMA FlagTypesInit == SCInit => FlagTypes
BY DEF SCInit, FlagTypes, ScholarIdle

\* No step changes a type.
LEMMA FlagTypesNext == ScholarInv /\ FlagTypes /\ [SCNext]_scholarVars => FlagTypes'
<1> SUFFICES ASSUME ScholarInv, FlagTypes, [SCNext]_scholarVars PROVE FlagTypes'
  OBVIOUS
<1>1. CASE UNCHANGED scholarVars
  BY <1>1 DEF scholarVars, FlagTypes
<1>2. ASSUME NEW u \in Universities, NEW any \in BOOLEAN, NEW full \in BOOLEAN,
             SetFlags(u, any, full)
      PROVE  FlagTypes'
  BY <1>2 DEF SetFlags, FlagTypes, ScholarInv
<1>3. ASSUME NEW r \in Reqs, NEW s \in ScholarshipIds,
             \/ \E row \in Scholarship : CreateScholarship(r, s, row)
             \/ \E dto \in UpdateScholarshipDto : UpdateScholarship(r, s, dto)
             \/ RemoveScholarship(r, s)
      PROVE  FlagTypes'
  BY <1>3, StartTypes DEF CreateScholarship, UpdateScholarship, RemoveScholarship
<1>4. ASSUME NEW r \in Reqs,
             InsertScholarship(r) \/ WriteScholarship(r) \/ DeleteScholarship(r)
      PROVE  FlagTypes'
  <2>1. PICK universities, us : Changes(r, universities, us)
    BY <1>4 DEF InsertScholarship, WriteScholarship, DeleteScholarship
  <2> QED
    BY <2>1, ChangesTypes
<1>5. ASSUME NEW r \in Reqs, CountScholarships(r) PROVE FlagTypes'
  <2>1. PICK u : u = Head(scholarReq[r].recount)
    OBVIOUS
  <2>2. PICK a, f : a = AnyOf(u) /\ f = AnyFullOf(u)
    OBVIOUS
  <2>3. a \in BOOLEAN /\ f \in BOOLEAN
    BY <2>2 DEF AnyOf, AnyFullOf
  <2>4. /\ scholarReq[r].pc = "count" /\ UNCHANGED <<flags, moved>>
        /\ \/ ScholarGoto(r, [scholarReq[r] EXCEPT !.any = a])
           \/ ScholarGoto(r, [scholarReq[r] EXCEPT !.full = f])
    BY <1>5, <2>1, <2>2 DEF CountScholarships, ScholarAt, AnyOf, AnyFullOf
  <2>5. PICK q : /\ ScholarGoto(r, q) /\ q.pc = "count"
                 /\ q.any \in {scholarReq[r].any, a} /\ q.full \in {scholarReq[r].full, f}
    <3>1. ScholarRequest(scholarReq[r])
      BY DEF ScholarInv
    <3>2. CASE ScholarGoto(r, [scholarReq[r] EXCEPT !.any = a])
      <4>1. PICK q : q = [scholarReq[r] EXCEPT !.any = a]
        OBVIOUS
      <4> QED
        BY <2>4, <3>1, <3>2, <4>1 DEF ScholarRequest
    <3>3. CASE ScholarGoto(r, [scholarReq[r] EXCEPT !.full = f])
      <4>1. PICK q : q = [scholarReq[r] EXCEPT !.full = f]
        OBVIOUS
      <4> QED
        BY <2>4, <3>1, <3>3, <4>1 DEF ScholarRequest
    <3> QED
      BY <2>4, <3>2, <3>3
  <2>6. {scholarReq[r].any, scholarReq[r].full} \subseteq BOOLEAN \cup {Null}
    BY DEF FlagTypes
  <2>7. {q.any, q.full} \subseteq BOOLEAN \cup {Null}
    BY <2>3, <2>5, <2>6
  <2>8. \A p \in moved' : p \in Reqs /\ scholarReq[p].pc = "count"
    BY <2>4 DEF FlagTypes, ScholarInv
  <2>9. \A v \in Universities : flags'[v] \in [any : BOOLEAN, full : BOOLEAN]
    BY <2>4 DEF FlagTypes
  <2> QED
    BY <2>5, <2>7, <2>8, <2>9, FlagTypesStep
<1>6. ASSUME NEW r \in Reqs, WriteFlags(r) PROVE FlagTypes'
  <2>1. PICK q : q = scholarReq[r]
    OBVIOUS
  <2>2. /\ q.pc = "count" /\ q.any # Null /\ q.full # Null
        /\ flags' = [flags EXCEPT ![Head(q.recount)] = [any |-> q.any, full |-> q.full]]
        /\ moved' = moved \ {r}
        /\ \E n : n.any = Null /\ n.full = Null /\ ScholarGoto(r, n)
    <3>1. ScholarRequest(q)
      BY <2>1 DEF ScholarInv
    <3>2. PICK n : n = IF Tail(q.recount) = <<>> THEN ScholarIdle
                       ELSE [q EXCEPT !.recount = Tail(@), !.any = Null, !.full = Null]
      OBVIOUS
    <3>3. n.any = Null /\ n.full = Null
      BY <3>1, <3>2 DEF ScholarIdle, ScholarRequest
    <3> QED
      BY <1>6, <2>1, <3>2, <3>3 DEF WriteFlags, ScholarAt
  <2>3. q.any \in BOOLEAN /\ q.full \in BOOLEAN
    BY <2>1, <2>2 DEF FlagTypes
  <2>4. \A u \in Universities : flags'[u] \in [any : BOOLEAN, full : BOOLEAN]
    BY <2>2, <2>3 DEF FlagTypes, ScholarInv
  <2>5. PICK n : n.any = Null /\ n.full = Null /\ ScholarGoto(r, n)
    BY <2>2
  <2> QED
    BY <2>2, <2>4, <2>5, FlagTypesStep DEF FlagTypes, ScholarInv
<1>7. ASSUME NEW r \in Reqs, ScholarReject(r) PROVE FlagTypes'
  <2>1. ScholarGoto(r, ScholarIdle) /\ moved' = moved \ {r} /\ UNCHANGED flags
    BY <1>7 DEF ScholarReject
  <2>2. ScholarIdle.any = Null /\ ScholarIdle.full = Null
    BY DEF ScholarIdle
  <2> QED
    BY <2>1, <2>2, FlagTypesStep DEF FlagTypes, ScholarInv
<1> QED
  BY <1>1, <1>2, <1>3, <1>4, <1>5, <1>6, <1>7 DEF SCNext

\* Rows, flags and requests keep their types; a request has universities to
\* recount while it counts, and no longer.
THEOREM ScholarshipsTypes == SCSpec => []SCTypeOK
<1>1. ScholarInv /\ FlagTypes => SCTypeOK
  <2> SUFFICES ASSUME ScholarInv, FlagTypes PROVE SCTypeOK
    OBVIOUS
  <2>1. ASSUME NEW r \in Reqs
        PROVE  /\ scholarReq[r].pc \in {"idle", "insert", "write", "delete", "count"}
               /\ Pending(r) # {} <=> ScholarAt(r, "count")
    <3>1. ScholarRequest(scholarReq[r])
      BY DEF ScholarInv
    <3>2. Pending(r) = PendingOf(scholarReq[r])
      BY PendingIsOf
    <3>3. CASE scholarReq[r].pc = "count"
      <4>1. PICK u, v : scholarReq[r].recount = <<u>> \/ scholarReq[r].recount = <<u, v>>
        BY <3>1, <3>3 DEF ScholarRequest
      <4>2. u \in PendingOf(scholarReq[r])
        BY <4>1, RecountShapes
      <4> QED
        BY <3>2, <3>3, <4>2 DEF ScholarAt
    <3>4. CASE scholarReq[r].pc # "count"
      BY <3>1, <3>2, <3>4, RecountShapes DEF ScholarRequest, ScholarAt
    <3> QED
      BY <3>3, <3>4
  <2>2. moved \subseteq {r \in Reqs : Pending(r) # {}}
    BY <2>1 DEF FlagTypes, ScholarInv, ScholarAt
  <2>3. flags \in [Universities -> [any : BOOLEAN, full : BOOLEAN]]
    BY DEF FlagTypes, ScholarInv
  <2> QED
    BY <2>1, <2>2, <2>3 DEF ScholarInv, ScholarRows, SCTypeOK
<1> QED
  BY <1>1, FlagTypesInit, FlagTypesNext, ScholarInvHolds, PTL DEF SCSpec

-----------------------------------------------------------------------------
(* Statistics *)

\* The answer is what was in the tables w at time s, or later.
TakenBy(w, answer, s) ==
    \A t \in DOMAIN answer : t \in Tables /\ (w[t] < s => answer[t] = w[t])

\* What is kept under k until `until`, put together of answers that may have
\* been kept before.
EntryFresh(w, now, k, e) ==
    /\ e.until \in Int /\ e.until <= now + STATS_CACHE_TTL
    /\ IF k \in DOMAIN Parts
       THEN \A p \in DOMAIN e.answer :
              TakenBy(w, e.answer[p], e.until - 2 * STATS_CACHE_TTL - 1)
       ELSE TakenBy(w, e.answer, e.until - STATS_CACHE_TTL - 1)

\* A request began less than a unit of time ago; it waits for answers of
\* queries, that are not put together, and of one that is not it is the only.
RequestFresh(w, now, q) ==
    /\ q = [key |-> q.key, since |-> q.since, need |-> q.need, held |-> q.held,
            got |-> q.got]
    /\ q.since \in Nat /\ q.since <= now /\ now <= q.since + 1
    /\ q.need \cup DOMAIN q.held \subseteq DOMAIN Counts
    /\ q.key \notin DOMAIN Parts \cup {"failed"} => q.need \cup DOMAIN q.held = {q.key}
    /\ \A k \in DOMAIN q.held : TakenBy(w, q.held[k], q.since)
    /\ \A k \in DOMAIN q.got : TakenBy(w, q.got[k], q.since - STATS_CACHE_TTL)

\* The inductive invariant.
StatInv ==
    /\ time \in Nat /\ wrote \in [Tables -> 0..time]
    /\ statsCache = [k \in Kept |-> statsCache[k]]
    /\ \A k \in Kept : statsCache[k] # Null => EntryFresh(wrote, time, k, statsCache[k])
    /\ statReq = [r \in Reqs |-> statReq[r]]
    /\ \A r \in Reqs : statReq[r] # StatIdle => RequestFresh(wrote, time, statReq[r])

-----------------------------------------------------------------------------

\* Which statistics are put together, and of which.
LEMMA PartsAreCounts ==
  /\ DOMAIN Counts \cap DOMAIN Parts = {}
  /\ "failed" \notin DOMAIN Counts \cup DOMAIN Parts
  /\ \A w \in DOMAIN Parts : Parts[w] \subseteq DOMAIN Counts
<1>1. DOMAIN Parts = {"dashboard", "detailed"}
  BY DEF Parts
<1>2. DOMAIN Counts =
        {"totalCounts", "status", "geographic", "popularPrograms", "topUniversities",
         "growth", "activitySummary", "engagement", "trends", "byCountry", "season", "year"}
  BY DEF Counts
<1>3. Parts["dashboard"] = GetDashboardStats /\ Parts["detailed"] = GetDetailedApplicationStats
  BY DEF Parts
<1>4. \A w \in DOMAIN Parts : Parts[w] \subseteq DOMAIN Counts
  BY <1>1, <1>2, <1>3 DEF GetDashboardStats, GetDetailedApplicationStats
<1>5. DOMAIN Counts \cap DOMAIN Parts = {} /\ "failed" \notin DOMAIN Counts \cup DOMAIN Parts
  BY <1>1, <1>2
<1> QED
  BY <1>4, <1>5

\* An answer stays true for earlier times, and when a table is written now.
LEMMA TakenEarlier ==
  ASSUME NEW w \in [Tables -> Nat], NEW answer, NEW s \in Int, NEW e \in Int,
         TakenBy(w, answer, s), e <= s
  PROVE  TakenBy(w, answer, e)
BY DEF TakenBy

\* A write now does not touch what was so before.
LEMMA TakenStays ==
  ASSUME NEW now \in Nat, NEW w \in [Tables -> Nat], NEW answer, NEW s \in Int,
         TakenBy(w, answer, s), s <= now, NEW t
  PROVE  TakenBy([w EXCEPT ![t] = now], answer, s)
BY DEF TakenBy

\* What a query counts is true now.
LEMMA TakenNow ==
  ASSUME NEW k \in DOMAIN Counts, wrote \in [Tables -> Nat], NEW s
  PROVE  TakenBy(wrote, CountNow(k), s)
<1>1. Counts[k] \subseteq Tables
  BY DEF Tables
<1>2. PICK c : c = CountNow(k)
  OBVIOUS
<1>3. PICK T : T = Counts[k]
  OBVIOUS
<1>4. c = [t \in T |-> wrote[t]] /\ T \subseteq Tables
  BY <1>1, <1>2, <1>3 DEF CountNow
<1> QED
  BY <1>2, <1>4 DEF TakenBy

\* The times and the tables, as numbers.
LEMMA StatNumbers ==
  ASSUME StatInv
  PROVE  wrote \in [Tables -> Nat] /\ STATS_CACHE_TTL \in Nat
BY StatisticsAssumption DEF StatInv

\* A step of one request that keeps its answers fresh, and stores fresh ones.
LEMMA StatStep ==
  ASSUME StatInv, UNCHANGED <<time, wrote>>, NEW r \in Reqs, NEW q,
         statReq' = Step(statReq, r, q),
         q # StatIdle => RequestFresh(wrote, time, q),
         \/ UNCHANGED statsCache
         \/ \E k \in Kept : \E e : /\ statsCache' = [statsCache EXCEPT ![k] = e]
                               /\ EntryFresh(wrote, time, k, e)
  PROVE  StatInv'
<1>1. statReq' = [p \in Reqs |-> IF p = r THEN q ELSE statReq[p]]
  BY DEF StatInv, Step
<1>2. statReq' = [p \in Reqs |-> statReq'[p]]
  BY <1>1
<1>3. ASSUME NEW p \in Reqs, statReq'[p] # StatIdle
      PROVE  RequestFresh(wrote', time', statReq'[p])
  BY <1>1, <1>3 DEF StatInv
<1>4. /\ statsCache' = [k \in Kept |-> statsCache'[k]]
      /\ \A k \in Kept : statsCache'[k] # Null =>
           EntryFresh(wrote', time', k, statsCache'[k])
  <2>1. CASE UNCHANGED statsCache
    BY <2>1 DEF StatInv
  <2>2. CASE \E k \in Kept : \E e : /\ statsCache' = [statsCache EXCEPT ![k] = e]
                                /\ EntryFresh(wrote, time, k, e)
    <3>1. PICK k \in Kept : \E e : /\ statsCache' = [statsCache EXCEPT ![k] = e]
                                   /\ EntryFresh(wrote, time, k, e)
      BY <2>2
    <3>2. PICK e : /\ statsCache' = [statsCache EXCEPT ![k] = e]
                   /\ EntryFresh(wrote, time, k, e)
      BY <3>1
    <3>3. statsCache' = [x \in Kept |-> IF x = k THEN e ELSE statsCache[x]]
      BY <3>2 DEF StatInv
    <3> QED
      BY <3>2, <3>3 DEF StatInv
  <2> QED
    BY <2>1, <2>2
<1> QED
  BY <1>2, <1>3, <1>4 DEF StatInv

LEMMA StatInvInit == STInit => StatInv
<1> SUFFICES ASSUME STInit PROVE StatInv
  OBVIOUS
<1>1. /\ time = 0 /\ wrote = [t \in Tables |-> 0]
      /\ statsCache = [k \in Kept |-> Null] /\ statReq = [r \in Reqs |-> StatIdle]
  BY DEF STInit
<1>2. wrote \in [Tables -> 0..time]
  BY <1>1
<1> QED
  BY <1>1, <1>2 DEF StatInv

\* With time what is kept comes nearer to its end, by as much.
LEMMA PassStep == ASSUME StatInv, Pass PROVE StatInv'
<1>1. /\ time' = time + 1 /\ UNCHANGED <<wrote, statsCache, statReq>>
      /\ \A r \in Reqs : statReq[r] # StatIdle => statReq[r].since = time
  BY DEF Pass
<1>2. time' \in Nat /\ wrote' \in [Tables -> 0..time']
  BY <1>1 DEF StatInv
<1>3. ASSUME NEW k \in Kept, statsCache'[k] # Null
      PROVE  EntryFresh(wrote', time', k, statsCache'[k])
  <2>1. EntryFresh(wrote, time, k, statsCache[k])
    BY <1>1, <1>3 DEF StatInv
  <2> QED
    BY <1>1, <2>1, StatNumbers DEF EntryFresh, StatInv
<1>4. ASSUME NEW r \in Reqs, statReq'[r] # StatIdle
      PROVE  RequestFresh(wrote', time', statReq'[r])
  <2>1. RequestFresh(wrote, time, statReq[r]) /\ statReq[r].since = time
    BY <1>1, <1>4 DEF StatInv
  <2> QED
    BY <1>1, <2>1 DEF RequestFresh, StatInv
<1> QED
  BY <1>1, <1>2, <1>3, <1>4 DEF StatInv

LEMMA WriteTableStep == ASSUME StatInv, NEW t, WriteTable(t) PROVE StatInv'
<1>1. PICK w : w = [wrote EXCEPT ![t] = time]
  OBVIOUS
<1>2. wrote' = w /\ UNCHANGED <<time, statsCache, statReq>>
  BY <1>1 DEF WriteTable
<1>3. time \in Nat /\ wrote \in [Tables -> Nat] /\ STATS_CACHE_TTL \in Nat
  BY StatNumbers DEF StatInv
<1>4. w \in [Tables -> 0..time]
  <2>1. wrote \in [Tables -> 0..time] /\ time \in 0..time
    BY DEF StatInv
  <2> QED
    BY <1>1, <2>1
<1>5. ASSUME NEW answer, NEW s \in Int, TakenBy(wrote, answer, s), s <= time
      PROVE  TakenBy(w, answer, s)
  BY <1>1, <1>3, <1>5, TakenStays
<1>6. ASSUME NEW k \in Kept, statsCache[k] # Null
      PROVE  EntryFresh(w, time, k, statsCache[k])
  <2>1. PICK e : e = statsCache[k]
    OBVIOUS
  <2>2. EntryFresh(wrote, time, k, e)
    BY <1>6, <2>1 DEF StatInv
  <2>3. /\ e.until \in Int /\ e.until <= time + STATS_CACHE_TTL
    BY <2>2 DEF EntryFresh
  <2>4. PICK s \in Int, s2 \in Int :
          /\ s = e.until - STATS_CACHE_TTL - 1 /\ s2 = e.until - 2 * STATS_CACHE_TTL - 1
          /\ s <= time /\ s2 <= time
    BY <1>3, <2>3
  <2>5. CASE k \in DOMAIN Parts
    <3>1. \A p \in DOMAIN e.answer : TakenBy(wrote, e.answer[p], s2)
      BY <2>2, <2>4, <2>5 DEF EntryFresh
    <3>2. \A p \in DOMAIN e.answer : TakenBy(w, e.answer[p], s2)
      BY <1>5, <2>4, <3>1
    <3> QED
      BY <2>1, <2>3, <2>4, <2>5, <3>2 DEF EntryFresh
  <2>6. CASE k \notin DOMAIN Parts
    <3>1. TakenBy(wrote, e.answer, s)
      BY <2>2, <2>4, <2>6 DEF EntryFresh
    <3>2. TakenBy(w, e.answer, s)
      BY <1>5, <2>4, <3>1
    <3> QED
      BY <2>1, <2>3, <2>4, <2>6, <3>2 DEF EntryFresh
  <2> QED
    BY <2>5, <2>6
<1>7. ASSUME NEW r \in Reqs, statReq[r] # StatIdle
      PROVE  RequestFresh(w, time, statReq[r])
  <2>1. PICK q : q = statReq[r]
    OBVIOUS
  <2>2. RequestFresh(wrote, time, q)
    BY <1>7, <2>1 DEF StatInv
  <2>3. PICK s \in Int, s2 \in Int :
          s = q.since /\ s2 = q.since - STATS_CACHE_TTL /\ s <= time /\ s2 <= time
    BY <1>3, <2>2 DEF RequestFresh
  <2>4. /\ \A k \in DOMAIN q.held : TakenBy(wrote, q.held[k], s)
        /\ \A k \in DOMAIN q.got : TakenBy(wrote, q.got[k], s2)
    BY <2>2, <2>3 DEF RequestFresh
  <2>5. /\ \A k \in DOMAIN q.held : TakenBy(w, q.held[k], s)
        /\ \A k \in DOMAIN q.got : TakenBy(w, q.got[k], s2)
    BY <1>5, <2>3, <2>4
  <2> QED
    BY <2>1, <2>2, <2>3, <2>5 DEF RequestFresh
<1>8. /\ time' \in Nat /\ wrote' \in [Tables -> 0..time']
  BY <1>2, <1>3, <1>4
<1>9. /\ statsCache' = [k \in Kept |-> statsCache'[k]]
      /\ statReq' = [r \in Reqs |-> statReq'[r]]
  BY <1>2 DEF StatInv
<1>10. \A k \in Kept : statsCache'[k] # Null =>
         EntryFresh(wrote', time', k, statsCache'[k])
  BY <1>2, <1>6
<1>11. \A r \in Reqs : statReq'[r] # StatIdle => RequestFresh(wrote', time', statReq'[r])
  BY <1>2, <1>7
<1> QED
  BY <1>8, <1>9, <1>10, <1>11 DEF StatInv

LEMMA ClearsStep == ASSUME StatInv, CatalogueClears PROVE StatInv'
BY DEF StatInv, CatalogueClears

\* A request begins with nothing, and collects parts no older than may be
\* kept.
LEMMA AskStep ==
  ASSUME StatInv, NEW r \in Reqs, NEW k \in Kept, Ask(r, k)
  PROVE  StatInv'
<1>1. PICK n : n = IF k \in DOMAIN Parts THEN Parts[k] \cap Asked ELSE {k}
  OBVIOUS
<1>2. PICK q : q = [StatIdle EXCEPT !.key = k, !.since = time, !.need = n]
  OBVIOUS
<1>3. statReq' = Step(statReq, r, q) /\ UNCHANGED <<time, wrote, statsCache>>
  BY <1>1, <1>2 DEF Ask
<1>4. /\ q = [key |-> k, since |-> time, need |-> n, held |-> NoRows, got |-> NoRows]
      /\ DOMAIN NoRows = {}
  BY <1>2 DEF StatIdle, NoRows
<1>5. n \subseteq DOMAIN Counts /\ (k \notin DOMAIN Parts => n = {k})
  BY <1>1, PartsAreCounts, StatisticsAssumption DEF Kept
<1>6. time \in Nat
  BY DEF StatInv
<1>7. RequestFresh(wrote, time, q)
  BY <1>4, <1>5, <1>6 DEF RequestFresh
<1> QED
  BY <1>3, <1>7, StatStep

\* An answer of the cache was true no longer ago than it is kept.
LEMMA TakePartStep ==
  ASSUME StatInv, NEW r \in Reqs, NEW k, TakePart(r, k)
  PROVE  StatInv'
<1>1. PICK q : q = statReq[r]
  OBVIOUS
<1>2. PICK e : e = statsCache[k]
  OBVIOUS
<1>3. PICK a : a = e.answer
  OBVIOUS
<1>4. PICK n : n = [q EXCEPT !.need = q.need \ {k}, !.got = With(q.got, k, a)]
  OBVIOUS
<1>5. /\ k \in q.need /\ k # q.key /\ Hit(k)
      /\ statReq' = Step(statReq, r, n) /\ UNCHANGED <<time, wrote, statsCache>>
  BY <1>1, <1>2, <1>3, <1>4 DEF TakePart
<1>6. RequestFresh(wrote, time, q)
  BY <1>1, <1>5 DEF StatInv, StatIdle
<1>7. k \in DOMAIN Counts /\ k \notin DOMAIN Parts
  BY <1>5, <1>6, PartsAreCounts DEF RequestFresh
<1>8. k \in Kept /\ EntryFresh(wrote, time, k, e) /\ e.until > time
  BY <1>2, <1>5 DEF Hit, StatInv
<1>9. /\ time \in Nat /\ STATS_CACHE_TTL \in Nat /\ wrote \in [Tables -> Nat]
      /\ q.since \in Nat /\ q.since <= time
  BY <1>6, StatNumbers DEF StatInv, RequestFresh
<1>10. PICK s \in Int, s2 \in Int :
         s = e.until - STATS_CACHE_TTL - 1 /\ s2 = q.since - STATS_CACHE_TTL /\ s2 <= s
  BY <1>8, <1>9 DEF EntryFresh
<1>11. TakenBy(wrote, a, s)
  BY <1>3, <1>7, <1>8, <1>10 DEF EntryFresh
<1>12. TakenBy(wrote, a, s2)
  BY <1>9, <1>10, <1>11, TakenEarlier
<1>13. PICK g : g = With(q.got, k, a)
  OBVIOUS
<1>14. \A p \in DOMAIN g : TakenBy(wrote, g[p], s2)
  BY <1>6, <1>10, <1>12, <1>13 DEF With, RequestFresh
<1>15. n = [key |-> q.key, since |-> q.since, need |-> q.need \ {k}, held |-> q.held,
            got |-> g]
  BY <1>4, <1>6, <1>13 DEF RequestFresh
<1>16. q.key \in DOMAIN Parts \cup {"failed"}
  BY <1>5, <1>6 DEF RequestFresh
<1>17. RequestFresh(wrote, time, n)
  BY <1>6, <1>10, <1>14, <1>15, <1>16 DEF RequestFresh
<1> QED
  BY <1>5, <1>17, StatStep

LEMMA QueryPartStep ==
  ASSUME StatInv, NEW r \in Reqs, NEW k, QueryPart(r, k)
  PROVE  StatInv'
<1>1. PICK q : q = statReq[r]
  OBVIOUS
<1>2. PICK a : a = CountNow(k)
  OBVIOUS
<1>3. PICK h : h = With(q.held, k, a)
  OBVIOUS
<1>4. PICK n : n = [q EXCEPT !.need = q.need \ {k}, !.held = h]
  OBVIOUS
<1>5. /\ k \in q.need
      /\ statReq' = Step(statReq, r, n) /\ UNCHANGED <<time, wrote, statsCache>>
  BY <1>1, <1>2, <1>3, <1>4 DEF QueryPart
<1>6. RequestFresh(wrote, time, q)
  BY <1>1, <1>5 DEF StatInv, StatIdle
<1>7. k \in DOMAIN Counts
  BY <1>5, <1>6 DEF RequestFresh
<1>8. \A s : TakenBy(wrote, a, s)
  BY <1>2, <1>7, TakenNow, StatNumbers
<1>9. \A p \in DOMAIN h : TakenBy(wrote, h[p], q.since)
  BY <1>3, <1>6, <1>8 DEF With, RequestFresh
<1>10. DOMAIN h = DOMAIN q.held \cup {k}
  BY <1>3 DEF With
<1>11. n = [key |-> q.key, since |-> q.since, need |-> q.need \ {k}, held |-> h,
            got |-> q.got]
  BY <1>4, <1>6 DEF RequestFresh
<1>12. (q.need \ {k}) \cup DOMAIN h = q.need \cup DOMAIN q.held
  BY <1>5, <1>10
<1>13. RequestFresh(wrote, time, n)
  BY <1>6, <1>9, <1>11, <1>12 DEF RequestFresh
<1> QED
  BY <1>5, <1>13, StatStep

\* An answer that is stored was counted when the request began, or since.
LEMMA KeepPartStep ==
  ASSUME StatInv, NEW r \in Reqs, NEW k, KeepPart(r, k)
  PROVE  StatInv'
<1>1. PICK q : q = statReq[r]
  OBVIOUS
<1>2. PICK a : a = q.held[k]
  OBVIOUS
<1>3. PICK h, g : h = Without(q.held, {k}) /\ g = With(q.got, k, a)
  OBVIOUS
<1>4. PICK m : m = [q EXCEPT !.held = h, !.got = g]
  OBVIOUS
<1>5. PICK n : n = IF k = q.key THEN StatIdle ELSE m
  OBVIOUS
<1>6. /\ k \in DOMAIN q.held /\ Keep(k, a)
      /\ statReq' = Step(statReq, r, n) /\ UNCHANGED <<time, wrote>>
  BY <1>1, <1>2, <1>3, <1>4, <1>5 DEF KeepPart
<1>7. RequestFresh(wrote, time, q)
  BY <1>1, <1>6 DEF StatInv, StatIdle, NoRows
<1>8. k \in DOMAIN Counts /\ k \notin DOMAIN Parts
  BY <1>6, <1>7, PartsAreCounts DEF RequestFresh
<1>9. /\ time \in Nat /\ STATS_CACHE_TTL \in Nat /\ wrote \in [Tables -> Nat]
      /\ q.since \in Nat /\ q.since <= time /\ time <= q.since + 1
  BY <1>7, StatNumbers DEF StatInv, RequestFresh
<1>10. TakenBy(wrote, a, q.since)
  BY <1>2, <1>6, <1>7 DEF RequestFresh
<1>11. PICK e : e = [answer |-> a, until |-> time + STATS_CACHE_TTL]
  OBVIOUS
<1>12. statsCache' = IF k \in Kept THEN [statsCache EXCEPT ![k] = e] ELSE statsCache
  BY <1>6, <1>11 DEF Keep, Until
<1>13. EntryFresh(wrote, time, k, e)
  <2>1. PICK s \in Int, s2 \in Int :
          s = e.until - STATS_CACHE_TTL - 1 /\ s2 = q.since /\ s <= s2
    BY <1>9, <1>11
  <2>2. TakenBy(wrote, a, s)
    BY <1>9, <1>10, <2>1, TakenEarlier
  <2> QED
    BY <1>8, <1>9, <1>11, <2>1, <2>2 DEF EntryFresh
<1>14. n # StatIdle => RequestFresh(wrote, time, n)
  <2> SUFFICES ASSUME n # StatIdle PROVE RequestFresh(wrote, time, n)
    OBVIOUS
  <2>1. n = m /\ k # q.key
    BY <1>5
  <2>2. PICK s2 \in Int : s2 = q.since - STATS_CACHE_TTL /\ s2 <= q.since
    BY <1>9
  <2>3. TakenBy(wrote, a, s2)
    BY <1>9, <1>10, <2>2, TakenEarlier
  <2>4. \A p \in DOMAIN g : TakenBy(wrote, g[p], s2)
    BY <1>3, <1>7, <2>2, <2>3 DEF With, RequestFresh
  <2>5. DOMAIN h \subseteq DOMAIN q.held /\ \A p \in DOMAIN h : h[p] = q.held[p]
    BY <1>3 DEF Without
  <2>6. \A p \in DOMAIN h : TakenBy(wrote, h[p], q.since)
    BY <1>7, <2>5 DEF RequestFresh
  <2>7. m = [key |-> q.key, since |-> q.since, need |-> q.need, held |-> h, got |-> g]
    BY <1>4, <1>7 DEF RequestFresh
  <2>8. q.key \in DOMAIN Parts \cup {"failed"}
    BY <1>6, <1>7, <2>1 DEF RequestFresh
  <2> QED
    BY <1>7, <2>1, <2>2, <2>4, <2>5, <2>6, <2>7, <2>8 DEF RequestFresh
<1>15. \/ UNCHANGED statsCache
       \/ \E x \in Kept : \E d : /\ statsCache' = [statsCache EXCEPT ![x] = d]
                                 /\ EntryFresh(wrote, time, x, d)
  BY <1>12, <1>13
<1> QED
  BY <1>6, <1>14, <1>15, StatStep

\* A whole is of answers that were true when they were kept.
LEMMA KeepWholeStep ==
  ASSUME StatInv, NEW r \in Reqs, KeepWhole(r)
  PROVE  StatInv'
<1>1. PICK q : q = statReq[r]
  OBVIOUS
<1>2. PICK n : n = StatIdle
  OBVIOUS
<1>3. PICK e : e = [answer |-> q.got, until |-> time + STATS_CACHE_TTL]
  OBVIOUS
<1>4. /\ q # StatIdle /\ q.need = {} /\ q.held = NoRows
      /\ statReq' = Step(statReq, r, n) /\ UNCHANGED <<time, wrote>>
      /\ statsCache' = IF q.key \in Kept THEN [statsCache EXCEPT ![q.key] = e]
                       ELSE statsCache
  BY <1>1, <1>2, <1>3 DEF KeepWhole, Keep, Until
<1>5. RequestFresh(wrote, time, q)
  BY <1>1, <1>4 DEF StatInv
<1>6. /\ time \in Nat /\ STATS_CACHE_TTL \in Nat /\ wrote \in [Tables -> Nat]
      /\ q.since \in Nat /\ q.since <= time /\ time <= q.since + 1
  BY <1>5, StatNumbers DEF StatInv, RequestFresh
<1>7. q.key \in Kept => q.key \in DOMAIN Parts
  <2>1. DOMAIN q.held = {}
    BY <1>4 DEF NoRows
  <2>2. q.key \in DOMAIN Parts \cup {"failed"}
    BY <1>4, <1>5, <2>1 DEF RequestFresh
  <2> QED
    BY <2>2, PartsAreCounts, StatisticsAssumption DEF Kept
<1>8. q.key \in Kept => EntryFresh(wrote, time, q.key, e)
  <2>1. PICK s \in Int, s2 \in Int :
          s = e.until - 2 * STATS_CACHE_TTL - 1 /\ s2 = q.since - STATS_CACHE_TTL /\ s <= s2
    BY <1>3, <1>6
  <2>2. \A p \in DOMAIN q.got : TakenBy(wrote, q.got[p], s2)
    BY <1>5, <2>1 DEF RequestFresh
  <2>3. \A p \in DOMAIN q.got : TakenBy(wrote, q.got[p], s)
    BY <1>6, <2>1, <2>2, TakenEarlier
  <2> QED
    BY <1>3, <1>6, <1>7, <2>1, <2>3 DEF EntryFresh
<1>9. \/ UNCHANGED statsCache
      \/ \E x \in Kept : \E d : /\ statsCache' = [statsCache EXCEPT ![x] = d]
                                /\ EntryFresh(wrote, time, x, d)
  BY <1>4, <1>8
<1> QED
  BY <1>2, <1>4, <1>9, StatStep

LEMMA StatRejectStep ==
  ASSUME StatInv, NEW r \in Reqs, NEW k, StatReject(r, k)
  PROVE  StatInv'
<1>1. PICK q : q = statReq[r]
  OBVIOUS
<1>2. PICK m : m = [q EXCEPT !.need = q.need \ {k}, !.key = "failed"]
  OBVIOUS
<1>3. PICK n : n = IF k = q.key THEN StatIdle ELSE m
  OBVIOUS
<1>4. /\ k \in q.need
      /\ statReq' = Step(statReq, r, n) /\ UNCHANGED <<time, wrote, statsCache>>
  BY <1>1, <1>2, <1>3 DEF StatReject
<1>5. RequestFresh(wrote, time, q)
  BY <1>1, <1>4 DEF StatInv, StatIdle
<1>6. m = [key |-> "failed", since |-> q.since, need |-> q.need \ {k}, held |-> q.held,
           got |-> q.got]
  BY <1>2, <1>5 DEF RequestFresh
<1>7. n # StatIdle => RequestFresh(wrote, time, n)
  BY <1>3, <1>5, <1>6 DEF RequestFresh
<1> QED
  BY <1>4, <1>7, StatStep

LEMMA StatInvNext == StatInv /\ [STNext]_stVars => StatInv'
<1> SUFFICES ASSUME StatInv, [STNext]_stVars PROVE StatInv'
  OBVIOUS
<1>1. CASE UNCHANGED stVars
  BY <1>1 DEF StatInv, stVars
<1>2. CASE Pass
  BY <1>2, PassStep
<1>3. CASE CatalogueClears
  BY <1>3, ClearsStep
<1>4. ASSUME NEW t \in Written, WriteTable(t) PROVE StatInv'
  BY <1>4, WriteTableStep
<1>5. ASSUME NEW r \in Reqs, NEW k \in Asked, k \in Kept, Ask(r, k) PROVE StatInv'
  BY <1>5, AskStep
<1>6. ASSUME NEW r \in Reqs, NEW k \in Asked, TakePart(r, k) PROVE StatInv'
  BY <1>6, TakePartStep
<1>7. ASSUME NEW r \in Reqs, NEW k \in Asked, QueryPart(r, k) PROVE StatInv'
  BY <1>7, QueryPartStep
<1>8. ASSUME NEW r \in Reqs, NEW k \in Asked, KeepPart(r, k) PROVE StatInv'
  BY <1>8, KeepPartStep
<1>9. ASSUME NEW r \in Reqs, NEW k \in Asked, StatReject(r, k) PROVE StatInv'
  BY <1>9, StatRejectStep
<1>10. ASSUME NEW r \in Reqs, KeepWhole(r) PROVE StatInv'
  BY <1>10, KeepWholeStep
<1> QED
  BY <1>1, <1>2, <1>3, <1>4, <1>5, <1>6, <1>7, <1>8, <1>9, <1>10 DEF STNext

\* Whatever is kept, or about to be, says what was true when it was counted.
THEOREM StatInvHolds == STSpec => []StatInv
BY StatInvInit, StatInvNext, PTL DEF STSpec

\* The inductive invariant bounds the age of what is served.
LEMMA FiguresAgeOf == StatInv => FiguresAge
<1> SUFFICES ASSUME StatInv, NEW k \in Kept, Hit(k)
             PROVE  IF k \in DOMAIN Parts
                    THEN \A p \in DOMAIN statsCache[k].answer :
                           Shows(statsCache[k].answer[p], 2 * STATS_CACHE_TTL)
                    ELSE Shows(statsCache[k].answer, STATS_CACHE_TTL)
  BY DEF FiguresAge
<1>1. PICK e : e = statsCache[k]
  OBVIOUS
<1>2. EntryFresh(wrote, time, k, e) /\ e.until > time
  BY <1>1 DEF Hit, StatInv
<1>3. /\ time \in Nat /\ STATS_CACHE_TTL \in Nat /\ wrote \in [Tables -> Nat]
      /\ e.until \in Int
  BY <1>2, StatNumbers DEF StatInv, EntryFresh
<1>4. ASSUME NEW answer, NEW age \in Nat, TakenBy(wrote, answer, e.until - age - 1)
      PROVE  Shows(answer, age)
  BY <1>2, <1>3, <1>4 DEF TakenBy, Shows
<1>5. CASE k \in DOMAIN Parts
  <2>1. 2 * STATS_CACHE_TTL \in Nat
    BY <1>3
  <2>2. \A p \in DOMAIN e.answer : TakenBy(wrote, e.answer[p], e.until - 2 * STATS_CACHE_TTL - 1)
    BY <1>2, <1>5 DEF EntryFresh
  <2>3. \A p \in DOMAIN e.answer : Shows(e.answer[p], 2 * STATS_CACHE_TTL)
    BY <1>4, <2>1, <2>2
  <2> QED
    BY <1>1, <1>5, <2>3
<1>6. CASE k \notin DOMAIN Parts
  <2>1. TakenBy(wrote, e.answer, e.until - STATS_CACHE_TTL - 1)
    BY <1>2, <1>6 DEF EntryFresh
  <2>2. Shows(e.answer, STATS_CACHE_TTL)
    BY <1>3, <1>4, <2>1
  <2> QED
    BY <1>1, <1>6, <2>2
<1> QED
  BY <1>5, <1>6

\* A count that is served was true no longer ago than STATS_CACHE_TTL, or as
\* part of a dashboard twice that, however requests, their queries and the
\* parts they take from the cache overlap.
THEOREM FiguresAgeHolds == STSpec => []FiguresAge
BY StatInvHolds, FiguresAgeOf, PTL

\* What an answer is about: tables, or of a whole the parts that are asked for.
AnswerKeys(k) == IF k \in DOMAIN Parts THEN Parts[k] \cap Asked ELSE Counts[k]

EntryTyped(k, e) == e.until \in Nat /\ DOMAIN e.answer = AnswerKeys(k)

\* A request for a whole lacks none of its parts.
RequestTyped(q) ==
    /\ q.need \cup DOMAIN q.held \subseteq Asked
    /\ \A k \in DOMAIN q.held : DOMAIN q.held[k] = AnswerKeys(k)
    /\ q.key \in DOMAIN Parts =>
         q.need \cup DOMAIN q.held \cup DOMAIN q.got = AnswerKeys(q.key)

StatTypes ==
    /\ time \in 0..MaxTime
    /\ \A k \in Kept : statsCache[k] # Null => EntryTyped(k, statsCache[k])
    /\ \A r \in Reqs : statReq[r] # StatIdle => RequestTyped(statReq[r])

\* A step of r keeps the types, if what it keeps and goes on with is of them.
LEMMA StatTypesStep ==
  ASSUME StatInv, StatTypes, UNCHANGED time, NEW r \in Reqs, NEW q,
         statReq' = Step(statReq, r, q), q # StatIdle => RequestTyped(q),
         \/ UNCHANGED statsCache
         \/ \E k \in Kept : \E e : statsCache' = [statsCache EXCEPT ![k] = e] /\ EntryTyped(k, e)
  PROVE  StatTypes'
<1>1. statReq' = [p \in Reqs |-> IF p = r THEN q ELSE statReq[p]]
  BY DEF StatInv, Step
<1>2. ASSUME NEW p \in Reqs, statReq'[p] # StatIdle PROVE RequestTyped(statReq'[p])
  BY <1>1, <1>2 DEF StatTypes
<1>3. ASSUME NEW k \in Kept, statsCache'[k] # Null PROVE EntryTyped(k, statsCache'[k])
  <2>1. CASE UNCHANGED statsCache
    BY <1>3, <2>1 DEF StatTypes
  <2>2. CASE \E x \in Kept : \E e : statsCache' = [statsCache EXCEPT ![x] = e] /\ EntryTyped(x, e)
    <3>1. PICK x \in Kept : \E e : statsCache' = [statsCache EXCEPT ![x] = e] /\ EntryTyped(x, e)
      BY <2>2
    <3>2. PICK e : statsCache' = [statsCache EXCEPT ![x] = e] /\ EntryTyped(x, e)
      BY <3>1
    <3>3. statsCache' = [y \in Kept |-> IF y = x THEN e ELSE statsCache[y]]
      BY <3>2 DEF StatInv
    <3> QED
      BY <1>3, <3>2, <3>3 DEF StatTypes
  <2> QED
    BY <2>1, <2>2
<1> QED
  BY <1>2, <1>3 DEF StatTypes

\* What is kept until a time to live from now.
LEMMA KeepTypes ==
  ASSUME StatInv, NEW k, NEW answer, Keep(k, answer),
         k \in Kept => DOMAIN answer = AnswerKeys(k)
  PROVE  \/ UNCHANGED statsCache
         \/ \E x \in Kept : \E e : statsCache' = [statsCache EXCEPT ![x] = e] /\ EntryTyped(x, e)
<1>1. PICK e : e = [answer |-> answer, until |-> time + STATS_CACHE_TTL]
  OBVIOUS
<1>2. statsCache' = IF k \in Kept THEN [statsCache EXCEPT ![k] = e] ELSE statsCache
  BY <1>1 DEF Keep, Until
<1>3. time + STATS_CACHE_TTL \in Nat
  BY StatNumbers DEF StatInv
<1>4. k \in Kept => EntryTyped(k, e)
  BY <1>1, <1>3 DEF EntryTyped
<1> QED
  BY <1>2, <1>4

\* A request waits for all the parts of a whole, or for itself.
LEMMA AskTypes ==
  ASSUME StatInv, StatTypes, NEW r \in Reqs, NEW k \in Kept, Ask(r, k)
  PROVE  StatTypes'
<1>1. PICK need : need = IF k \in DOMAIN Parts THEN Parts[k] \cap Asked ELSE {k}
  OBVIOUS
<1>2. PICK q : q = [StatIdle EXCEPT !.key = k, !.since = time, !.need = need]
  OBVIOUS
<1>3. q.key = k /\ q.need = need /\ q.held = NoRows /\ q.got = NoRows /\ DOMAIN NoRows = {}
  BY <1>2 DEF StatIdle, NoRows
<1>4. RequestTyped(q)
  BY <1>1, <1>3 DEF RequestTyped, AnswerKeys, Kept
<1> QED
  BY <1>1, <1>2, <1>4, StatTypesStep DEF Ask

\* A part comes out of the cache, or is queried, or what was queried is kept.
LEMMA PartTypes ==
  ASSUME StatInv, StatTypes, NEW r \in Reqs, NEW k,
         TakePart(r, k) \/ QueryPart(r, k) \/ KeepPart(r, k) \/ StatReject(r, k)
  PROVE  StatTypes'
<1>1. PICK q : q = statReq[r]
  OBVIOUS
<1>2. k \in q.need \cup DOMAIN q.held /\ q # StatIdle
  BY <1>1 DEF TakePart, QueryPart, KeepPart, StatReject, StatIdle, NoRows
<1>3. RequestFresh(wrote, time, q) /\ RequestTyped(q)
  BY <1>1, <1>2 DEF StatInv, StatTypes
<1>4. q = [key |-> q.key, since |-> q.since, need |-> q.need, held |-> q.held, got |-> q.got]
  BY <1>3 DEF RequestFresh
<1>5. k \in DOMAIN Counts /\ k \notin DOMAIN Parts
  BY <1>2, <1>3, PartsAreCounts DEF RequestFresh
<1>6. CASE TakePart(r, k)
  <2>1. PICK got : got = With(q.got, k, statsCache[k].answer)
    OBVIOUS
  <2>2. PICK n : n = [q EXCEPT !.need = q.need \ {k}, !.got = got]
    OBVIOUS
  <2>3. n.key = q.key /\ n.need = q.need \ {k} /\ n.held = q.held /\ n.got = got
    BY <1>4, <2>2
  <2>4. DOMAIN got = DOMAIN q.got \cup {k}
    BY <2>1 DEF With
  <2>5. RequestTyped(n)
    BY <1>2, <1>3, <1>6, <2>3, <2>4, <1>1 DEF TakePart, RequestTyped
  <2>6. statReq' = Step(statReq, r, n) /\ UNCHANGED <<time, wrote, statsCache>>
    BY <1>1, <1>6, <2>1, <2>2 DEF TakePart
  <2> QED
    BY <2>5, <2>6, StatTypesStep
<1>7. CASE QueryPart(r, k)
  <2>1. PICK held : held = With(q.held, k, CountNow(k))
    OBVIOUS
  <2>2. PICK n : n = [q EXCEPT !.need = q.need \ {k}, !.held = held]
    OBVIOUS
  <2>3. n.key = q.key /\ n.need = q.need \ {k} /\ n.held = held /\ n.got = q.got
    BY <1>4, <2>2
  <2>4. /\ DOMAIN held = DOMAIN q.held \cup {k}
        /\ \A x \in DOMAIN held : held[x] = IF x = k THEN CountNow(k) ELSE q.held[x]
    BY <2>1 DEF With
  <2>5. DOMAIN CountNow(k) = AnswerKeys(k)
    BY <1>5 DEF CountNow, AnswerKeys
  <2>6. k \in q.need
    BY <1>1, <1>7 DEF QueryPart
  <2>7. RequestTyped(n)
    BY <1>3, <2>3, <2>4, <2>5, <2>6 DEF RequestTyped
  <2>8. statReq' = Step(statReq, r, n) /\ UNCHANGED <<time, wrote, statsCache>>
    BY <1>1, <1>7, <2>1, <2>2 DEF QueryPart
  <2> QED
    BY <2>7, <2>8, StatTypesStep
<1>8. CASE KeepPart(r, k)
  <2>1. PICK held, got : held = Without(q.held, {k}) /\ got = With(q.got, k, q.held[k])
    OBVIOUS
  <2>2. PICK m : m = [q EXCEPT !.held = held, !.got = got]
    OBVIOUS
  <2>3. m.key = q.key /\ m.need = q.need /\ m.held = held /\ m.got = got
    BY <1>4, <2>2
  <2>4. /\ DOMAIN held = DOMAIN q.held \ {k} /\ \A x \in DOMAIN held : held[x] = q.held[x]
        /\ DOMAIN got = DOMAIN q.got \cup {k}
    BY <2>1 DEF With, Without
  <2>5. k \in DOMAIN q.held /\ Keep(k, q.held[k]) /\ UNCHANGED time
    BY <1>1, <1>8 DEF KeepPart
  <2>6. RequestTyped(m)
    BY <1>3, <2>3, <2>4, <2>5 DEF RequestTyped
  <2>7. PICK n : n = IF k = q.key THEN StatIdle ELSE m
    OBVIOUS
  <2>8. statReq' = Step(statReq, r, n)
    BY <1>1, <1>8, <2>1, <2>2, <2>7 DEF KeepPart
  <2>9. DOMAIN q.held[k] = AnswerKeys(k)
    BY <1>3, <2>5 DEF RequestTyped
  <2>10. \/ UNCHANGED statsCache
         \/ \E x \in Kept : \E e : statsCache' = [statsCache EXCEPT ![x] = e] /\ EntryTyped(x, e)
    BY <2>5, <2>9, KeepTypes
  <2> QED
    BY <2>5, <2>6, <2>7, <2>8, <2>10, StatTypesStep
<1>9. CASE StatReject(r, k)
  <2>1. PICK m : m = [q EXCEPT !.need = q.need \ {k}, !.key = "failed"]
    OBVIOUS
  <2>2. m.key = "failed" /\ m.need = q.need \ {k} /\ m.held = q.held
    BY <1>4, <2>1
  <2>3. RequestTyped(m)
    BY <1>3, <2>2, PartsAreCounts DEF RequestTyped
  <2>4. PICK n : n = IF k = q.key THEN StatIdle ELSE m
    OBVIOUS
  <2>5. statReq' = Step(statReq, r, n) /\ UNCHANGED <<time, wrote, statsCache>>
    BY <1>1, <1>9, <2>1, <2>4 DEF StatReject
  <2> QED
    BY <2>3, <2>4, <2>5, StatTypesStep
<1> QED
  BY <1>6, <1>7, <1>8, <1>9

\* A whole is kept when none of its parts is missing.
LEMMA WholeTypes ==
  ASSUME StatInv, StatTypes, NEW r \in Reqs, KeepWhole(r)
  PROVE  StatTypes'
<1>1. PICK q : q = statReq[r]
  OBVIOUS
<1>2. /\ q # StatIdle /\ q.need = {} /\ q.held = NoRows /\ Keep(q.key, q.got)
      /\ statReq' = Step(statReq, r, StatIdle) /\ UNCHANGED time
  BY <1>1 DEF KeepWhole
<1>3. RequestFresh(wrote, time, q) /\ RequestTyped(q) /\ DOMAIN q.held = {}
  BY <1>1, <1>2 DEF StatInv, StatTypes, NoRows
<1>4. q.key \in Kept => DOMAIN q.got = AnswerKeys(q.key)
  <2>1. q.key \in DOMAIN Parts \cup {"failed"}
    BY <1>2, <1>3 DEF RequestFresh
  <2>2. q.key \in Kept => q.key # "failed"
    BY PartsAreCounts, StatisticsAssumption DEF Kept
  <2> QED
    BY <1>2, <1>3, <2>1, <2>2 DEF RequestTyped
<1> QED
  BY <1>2, <1>4, KeepTypes, StatTypesStep

\* Nothing is kept or asked for at first.
LEMMA StatTypesInit == STInit => StatTypes
BY StatisticsAssumption DEF STInit, StatTypes

\* So every step keeps the types.
LEMMA StatTypesNext == StatInv /\ StatTypes /\ [STNext]_stVars => StatTypes'
<1> SUFFICES ASSUME StatInv, StatTypes, [STNext]_stVars PROVE StatTypes'
  OBVIOUS
<1>1. CASE UNCHANGED stVars
  BY <1>1 DEF StatTypes, stVars
<1>2. CASE Pass
  BY <1>2, StatisticsAssumption DEF Pass, StatTypes, EntryTyped
<1>3. CASE CatalogueClears
  BY <1>3 DEF CatalogueClears, StatTypes
<1>4. ASSUME NEW t \in Written, WriteTable(t) PROVE StatTypes'
  BY <1>4 DEF WriteTable, StatTypes
<1> QED
  BY <1>1, <1>2, <1>3, <1>4, AskTypes, PartTypes, WholeTypes DEF STNext

\* Times, figures and requests keep their types: a dashboard that is kept has
\* all its parts, whichever came from the cache and whichever from queries.
THEOREM StatisticsTypes == STSpec => []STTypeOK
<1>1. StatInv /\ StatTypes => STTypeOK
  <2> SUFFICES ASSUME StatInv, StatTypes PROVE STTypeOK
    OBVIOUS
  <2>1. ASSUME NEW k \in Kept, statsCache[k] # Null
        PROVE  /\ statsCache[k].until \in Nat
               /\ DOMAIN statsCache[k].answer = DOMAIN AnswersOf(k)
    <3>1. DOMAIN AnswersOf(k) = AnswerKeys(k)
      BY DEF AnswersOf, AnswerKeys, CountNow
    <3> QED
      BY <2>1, <3>1 DEF StatTypes, EntryTyped
  <2>2. ASSUME NEW r \in Reqs PROVE statReq[r].need \cup DOMAIN statReq[r].held \subseteq Asked
    BY DEF StatTypes, RequestTyped, StatIdle, NoRows
  <2> QED
    BY <2>1, <2>2 DEF StatInv, StatTypes, STTypeOK
<1> QED
  BY <1>1, StatTypesInit, StatTypesNext, StatInvHolds, PTL DEF STSpec

-----------------------------------------------------------------------------
(* GrowthSeries *)

\* A date that the loop may have come to: no day later than it set out with.
Dated ==
    /\ currentDate \in [month : Int, day : Int]
    /\ 1 <= currentDate.day /\ currentDate.day <= endDate.day
    /\ endDate.day <= 28 => currentDate.day = endDate.day

\* What is listed, month by month, when the loop is at currentDate: nothing
\* later, this month unless it is to come, and of every day that each month
\* has no month is left out.
MonthsListed ==
    /\ \A i \in DOMAIN growth : growth[i] < currentDate.month
    /\ currentDate.month <= endDate.month \/ endDate.month \in ListedMonths
    /\ endDate.day <= 28 =>
         /\ currentDate.month <= endDate.month + 1
         /\ \A i \in DOMAIN growth : growth[i] = currentDate.month - Len(growth) + i - 1

\* The inductive invariant.
GrowthInv ==
    /\ endDate \in Today
    /\ growth \in Seq(Int)
    /\ \A i, j \in DOMAIN growth : i < j => growth[i] < growth[j]
    /\ currentDate # NoDate => Dated /\ MonthsListed

\* Every month has 28 days, and none more than 31.
LEMMA MonthLengths == \A m \in Int : DaysIn(m) \in 28..31
<1> SUFFICES ASSUME NEW m \in Int PROVE DaysIn(m) \in 28..31
  OBVIOUS
<1>1. CASE m % 12 = 1
  BY <1>1 DEF DaysIn
<1>2. CASE m % 12 # 1 /\ m % 12 \in {3, 5, 8, 10}
  BY <1>2 DEF DaysIn
<1>3. CASE m % 12 # 1 /\ m % 12 \notin {3, 5, 8, 10}
  BY <1>3 DEF DaysIn
<1> QED
  BY <1>1, <1>2, <1>3

\* setMonth comes to the month it names, or, from a day that it has not, to
\* one of the first days of the next.
LEMMA SetMonthTo ==
  ASSUME NEW date, date \in [month : Int, day : Int], NEW m \in Int,
         1 <= date.day, date.day <= 31
  PROVE  LET d == SetMonth(date, m) IN
         /\ d \in [month : Int, day : Int] /\ 1 <= d.day /\ d.day <= date.day
         /\ d.month \in {m, m + 1}
         /\ date.day <= DaysIn(m) => d.month = m /\ d.day = date.day
<1>1. DaysIn(m) \in 28..31
  BY MonthLengths
<1> QED
  BY <1>1 DEF SetMonth

\* The days of today are days of their months.
LEMMA TodaysDays ==
  endDate \in Today =>
    /\ endDate.month \in Int /\ endDate.day \in Int
    /\ 1 <= endDate.day /\ endDate.day <= DaysIn(endDate.month) /\ endDate.day <= 31
<1> SUFFICES ASSUME endDate \in Today PROVE
    /\ endDate.month \in Int /\ endDate.day \in Int
    /\ 1 <= endDate.day /\ endDate.day <= DaysIn(endDate.month) /\ endDate.day <= 31
  OBVIOUS
<1>1. endDate.month \in Nat /\ endDate.day \in 1..DaysIn(endDate.month)
  BY DatesAssumption
<1>2. DaysIn(endDate.month) \in 28..31
  BY <1>1, MonthLengths
<1> QED
  BY <1>1, <1>2

\* The months to come are later than those listed, so the list is in order.
LEMMA InOrder ==
  ASSUME NEW s \in Seq(Int), NEW m \in Int, \A i \in DOMAIN s : s[i] < m,
         \A i, j \in DOMAIN s : i < j => s[i] < s[j],
         NEW n, n = Append(s, m)
  PROVE  /\ n \in Seq(Int) /\ Len(n) = Len(s) + 1 /\ n[Len(n)] = m
         /\ DOMAIN n = 1..Len(s) + 1 /\ \A i \in 1..Len(s) : n[i] = s[i]
         /\ \A i, j \in DOMAIN n : i < j => n[i] < n[j]
<1>1. /\ n \in Seq(Int) /\ Len(n) = Len(s) + 1 /\ n[Len(n)] = m
      /\ DOMAIN n = 1..Len(s) + 1 /\ \A i \in 1..Len(s) : n[i] = s[i]
      /\ Len(s) \in Nat /\ DOMAIN s = 1..Len(s)
  OBVIOUS
<1>2. ASSUME NEW i \in DOMAIN n, NEW j \in DOMAIN n, i < j PROVE n[i] < n[j]
  <2>1. i \in 1..Len(s)
    BY <1>1, <1>2
  <2>2. CASE j \in 1..Len(s)
    <3>1. n[i] = s[i] /\ n[j] = s[j] /\ i \in DOMAIN s /\ j \in DOMAIN s
      BY <1>1, <2>1, <2>2
    <3> QED
      BY <1>2, <3>1
  <2>3. CASE j = Len(s) + 1
    BY <1>1, <2>1, <2>3
  <2> QED
    BY <1>1, <2>2, <2>3
<1> QED
  BY <1>1, <1>2

\* The loop sets out no later than this month, with an empty list.
LEMMA SetsOut ==
  ASSUME GrowthInv, NEW months \in Spans, GetGrowthStats(months)
  PROVE  GrowthInv'
<1>1. months \in Nat /\ endDate \in Today /\ endDate \in [month : Int, day : Int]
  BY DatesAssumption DEF GrowthInv
<1>2. PICK m \in Int : m = endDate.month - months
  BY <1>1, TodaysDays
<1>3. PICK d : d = SetMonth(endDate, m)
  OBVIOUS
<1>4. /\ d \in [month : Int, day : Int] /\ 1 <= d.day /\ d.day <= endDate.day
      /\ d.month \in {m, m + 1}
      /\ endDate.day <= DaysIn(m) => d.month = m /\ d.day = endDate.day
  BY <1>1, <1>2, <1>3, TodaysDays, SetMonthTo
<1>5. currentDate' = d /\ growth' = <<>> /\ endDate' = endDate
  BY <1>2, <1>3 DEF GetGrowthStats
<1>6. DaysIn(m) \in 28..31
  BY <1>2, MonthLengths
<1>7. d.month <= endDate.month
  BY <1>1, <1>2, <1>4, TodaysDays
<1>8. endDate.day <= 28 => d.day = endDate.day
  BY <1>1, <1>4, <1>6, TodaysDays
<1>9. Dated'
  BY <1>4, <1>5, <1>8 DEF Dated
<1>10. MonthsListed'
  BY <1>1, <1>4, <1>5, <1>7, TodaysDays DEF MonthsListed
<1> QED
  BY <1>1, <1>5, <1>9, <1>10 DEF GrowthInv

\* A month is listed, and the loop goes on to the next or, by the overflow, to
\* the one after; not past this one, whose day no date is beyond.
LEMMA LoopGoesOn ==
  ASSUME GrowthInv, PushMonth
  PROVE  GrowthInv'
<1>1. PICK c : c = currentDate
  OBVIOUS
<1>2. PICK d : d = SetMonth(c, c.month + 1)
  OBVIOUS
<1>3. PICK n : n = Append(growth, c.month)
  OBVIOUS
<1>4. /\ endDate \in Today /\ Dated /\ MonthsListed /\ NotAfter(c, endDate)
      /\ currentDate' = d /\ growth' = n /\ endDate' = endDate
  BY <1>1, <1>2, <1>3 DEF GrowthInv, PushMonth
<1>5. /\ c \in [month : Int, day : Int] /\ 1 <= c.day /\ c.day <= endDate.day
      /\ endDate.day <= 28 => c.day = endDate.day
      /\ endDate.month \in Int /\ endDate.day \in Int /\ endDate.day <= 31
      /\ endDate.day <= DaysIn(endDate.month)
  BY <1>1, <1>4, TodaysDays DEF Dated
<1>6. /\ d \in [month : Int, day : Int] /\ 1 <= d.day /\ d.day <= c.day
      /\ d.month \in {c.month + 1, c.month + 2}
      /\ c.day <= DaysIn(c.month + 1) => d.month = c.month + 1 /\ d.day = c.day
  <2>1. PICK m \in Int : m = c.month + 1
    BY <1>5
  <2>2. d = SetMonth(c, m) /\ c.day <= 31
    BY <1>2, <1>5, <2>1
  <2>3. /\ d \in [month : Int, day : Int] /\ 1 <= d.day /\ d.day <= c.day
        /\ d.month \in {m, m + 1}
        /\ c.day <= DaysIn(m) => d.month = m /\ d.day = c.day
    BY <1>5, <2>2, SetMonthTo
  <2> QED
    BY <1>5, <2>1, <2>3
<1>7. DaysIn(c.month + 1) \in 28..31
  BY <1>5, MonthLengths
<1>8. /\ n \in Seq(Int) /\ Len(n) = Len(growth) + 1 /\ n[Len(n)] = c.month
      /\ DOMAIN n = 1..Len(growth) + 1 /\ \A i \in 1..Len(growth) : n[i] = growth[i]
      /\ \A i, j \in DOMAIN n : i < j => n[i] < n[j]
  BY <1>1, <1>3, <1>4, <1>5, InOrder DEF GrowthInv, MonthsListed
<1>9. /\ growth \in Seq(Int) /\ Len(growth) \in Nat /\ DOMAIN growth = 1..Len(growth)
      /\ \A i \in DOMAIN growth : growth[i] < c.month
  BY <1>1, <1>4 DEF GrowthInv, MonthsListed
<1>10. c.month <= endDate.month
  BY <1>4, <1>5 DEF NotAfter
<1>11. Dated'
  BY <1>4, <1>5, <1>6, <1>7 DEF Dated
<1>12. \A i \in DOMAIN n : n[i] < d.month
  <2>1. ASSUME NEW i \in DOMAIN n PROVE n[i] <= c.month
    <3>1. CASE i = Len(n)
      BY <1>5, <1>8, <3>1
    <3>2. CASE i \in 1..Len(growth)
      <4>1. n[i] = growth[i] /\ growth[i] < c.month /\ growth[i] \in Int
        BY <1>8, <1>9, <3>2
      <4> QED
        BY <1>5, <4>1
    <3> QED
      BY <1>8, <1>9, <3>1, <3>2
  <2>2. \A i \in DOMAIN n : n[i] \in Int
    BY <1>8
  <2> QED
    BY <1>5, <1>6, <2>1, <2>2
<1>13. d.month <= endDate.month \/ endDate.month \in {n[i] : i \in DOMAIN n}
  <2>1. CASE c.month = endDate.month
    <3>1. Len(n) \in DOMAIN n
      BY <1>8, <1>9
    <3> QED
      BY <1>8, <2>1, <3>1
  <2>2. CASE c.month + 1 = endDate.month
    <3>1. DaysIn(c.month + 1) = DaysIn(endDate.month)
      BY <2>2
    <3>2. c.day <= DaysIn(c.month + 1)
      BY <1>5, <1>7, <3>1
    <3> QED
      BY <1>5, <1>6, <2>2, <3>2
  <2>3. CASE c.month + 1 < endDate.month
    BY <1>5, <1>6, <2>3
  <2> QED
    BY <1>5, <1>10, <2>1, <2>2, <2>3
<1>14. ASSUME endDate.day <= 28
       PROVE  /\ d.month <= endDate.month + 1
              /\ \A i \in DOMAIN n : n[i] = d.month - Len(n) + i - 1
  <2>1. d.month = c.month + 1
    BY <1>5, <1>6, <1>7, <1>14
  <2>2. ASSUME NEW i \in DOMAIN n PROVE n[i] = d.month - Len(n) + i - 1
    <3>1. CASE i = Len(n)
      <4>1. n[i] = c.month /\ i \in Int /\ c.month \in Int
        BY <1>5, <1>8, <1>9, <3>1
      <4> QED
        BY <2>1, <3>1, <4>1
    <3>2. CASE i \in 1..Len(growth)
      <4>1. n[i] = growth[i] /\ growth[i] = c.month - Len(growth) + i - 1
        BY <1>1, <1>4, <1>8, <1>9, <1>14, <3>2 DEF MonthsListed
      <4> QED
        BY <1>5, <1>8, <1>9, <2>1, <3>2, <4>1
    <3> QED
      BY <1>8, <1>9, <3>1, <3>2
  <2> QED
    BY <1>5, <1>10, <2>1, <2>2
<1>15. MonthsListed'
  BY <1>4, <1>12, <1>13, <1>14 DEF MonthsListed, ListedMonths
<1> QED
  BY <1>4, <1>8, <1>11, <1>15 DEF GrowthInv

\* The inductive invariant holds whatever is asked for and whenever.
THEOREM GrowthInvHolds == GSSpec => []GrowthInv
<1>1. GSInit => GrowthInv
  BY DEF GSInit, GrowthInv
<1>2. GrowthInv /\ [GSNext]_gsVars => GrowthInv'
  <2> SUFFICES ASSUME GrowthInv, [GSNext]_gsVars PROVE GrowthInv'
    OBVIOUS
  <2>1. CASE AnswerGrowth
    BY <2>1 DEF AnswerGrowth, GrowthInv
  <2>2. CASE UNCHANGED gsVars
    BY <2>2 DEF gsVars, GrowthInv, Dated, MonthsListed, ListedMonths
  <2> QED
    BY <2>1, <2>2, SetsOut, LoopGoesOn DEF GSNext
<1> QED
  BY <1>1, <1>2, PTL DEF GSSpec

\* The months come in order, each once, up to this one, and on the first
\* twenty-eight days of a month none is left out.
THEOREM GrowthTypes == GSSpec => []GSTypeOK
<1>1. GrowthInv => GSTypeOK
  <2> SUFFICES ASSUME GrowthInv PROVE GSTypeOK
    OBVIOUS
  <2>1. endDate.day \in 1..DaysIn(endDate.month)
    BY DatesAssumption DEF GrowthInv
  <2>2. ASSUME Through PROVE endDate.month \in ListedMonths /\ endDate.month < currentDate.month
    <3>1. Dated /\ MonthsListed /\ ~NotAfter(currentDate, endDate)
      BY <2>2 DEF Through, GrowthInv
    <3>2. endDate.month < currentDate.month
      BY <3>1, TodaysDays DEF GrowthInv, Dated, NotAfter
    <3> QED
      BY <3>1, <3>2, TodaysDays DEF GrowthInv, Dated, MonthsListed
  <2>3. ASSUME Through, endDate.day <= 28 PROVE ListedMonths = growth[1]..endDate.month
    <3>1. Dated /\ MonthsListed /\ growth \in Seq(Int) /\ endDate.month \in Int
      BY <2>3, TodaysDays DEF Through, GrowthInv
    <3>2. PICK k : k = Len(growth)
      OBVIOUS
    <3>3. k \in Nat /\ DOMAIN growth = 1..k
      BY <3>1, <3>2
    <3>4. currentDate.month = endDate.month + 1
      BY <2>2, <2>3, <3>1 DEF Dated, MonthsListed
    <3>5. \A i \in 1..k : growth[i] = endDate.month - k + i
      <4>1. ASSUME NEW i \in 1..k
            PROVE  growth[i] = currentDate.month - k + i - 1
        BY <2>3, <3>1, <3>2, <3>3 DEF MonthsListed
      <4> QED
        BY <3>1, <3>3, <3>4, <4>1
    <3>6. 1 \in 1..k
      BY <2>2, <2>3, <3>3 DEF ListedMonths
    <3>7. growth[1] = endDate.month - k + 1
      BY <3>1, <3>3, <3>5, <3>6
    <3>8. ListedMonths = {endDate.month - k + i : i \in 1..k}
      BY <3>3, <3>5 DEF ListedMonths
    <3>9. ASSUME NEW m \in growth[1]..endDate.month PROVE m \in ListedMonths
      <4>1. PICK i \in 1..k : m = endDate.month - k + i
        <5>1. m - endDate.month + k \in 1..k
          BY <3>1, <3>3, <3>7, <3>9
        <5> QED
          BY <3>1, <3>3, <3>9, <3>7, <5>1
      <4> QED
        BY <3>8, <4>1
    <3>10. ASSUME NEW m \in ListedMonths PROVE m \in growth[1]..endDate.month
      BY <3>1, <3>3, <3>7, <3>8, <3>10
    <3> QED
      BY <3>9, <3>10
  <2> QED
    BY <2>1, <2>2, <2>3 DEF GSTypeOK, GrowthInv
<1> QED
  BY <1>1, GrowthInvHolds, PTL
=============================================================================
