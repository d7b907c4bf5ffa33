------------------------------ MODULE Reviews ------------------------------
(***************************************************************************)
(* src/reviews: testimonials, of which at most MaxHomepage are meant to be *)
(* pinned to the home page.  The count that guards a pin and the update    *)
(* that makes it are two queries; only a swap is one transaction, and that *)
(* follows three queries of its own.                                       *)
(***************************************************************************)
EXTENDS Backend

CONSTANTS
    ReviewIds,
    MaxHomepage    \* MAX_HOMEPAGE_REVIEWS

ASSUME HomepageAssumption ==
    MaxHomepage \in Nat /\ IsFiniteSet(ReviewIds) /\ Null \notin Reqs

VARIABLES
    reviews,    \* Review
    shown,      \* those with showOnHomepage
    reviewReq,
    outpaced    \* requests that had counted when another review was pinned,
                \* or relied on one being pinned that was then hidden
rvTables == <<reviews, shown>>
rvVars == <<rvTables, reviewReq, outpaced>>

\* `show` is what to write into showOnHomepage: Null leaves it.
ReviewIdle == [pc |-> "idle", review |-> Null, show |-> Null, replace |-> Null]
ReviewAt(r, pc) == reviewReq[r].pc = pc
ReviewAwait(r, pc) ==
    reviewReq' = [reviewReq EXCEPT ![r].pc = pc] /\ UNCHANGED outpaced
ReviewLeave(r) == reviewReq' = Step(reviewReq, r, ReviewIdle)
ReviewEnd(r) == ReviewLeave(r) /\ outpaced' = outpaced \ {r}

\* findUnique of the review, with which every request starts.
FindReview(r, x, pc, show, replace) ==
    /\ reviewReq[r] = ReviewIdle /\ x \in reviews
    /\ reviewReq' = Step(reviewReq, r, [pc |-> pc, review |-> x, show |-> show,
                                        replace |-> replace])
    /\ UNCHANGED <<rvTables, outpaced>>

RvInit ==
    /\ reviews = {} /\ shown = {}
    /\ reviewReq = [r \in Reqs |-> ReviewIdle] /\ outpaced = {}

\* Requests between their count and their write.
Counted == {q \in Reqs : reviewReq[q].pc \in {"update", "findReplaced", "swap"}}
\* r makes the home page what `pinned` is.
Repin(r, pinned) ==
    /\ shown' = pinned
    /\ outpaced' = (outpaced \cup
                     {q \in Counted : \/ pinned \ shown # {}
                                      \/ {reviewReq[q].review, reviewReq[q].replace}
                                           \cap (shown \ pinned) # {}}) \ {r}

-----------------------------------------------------------------------------

\* One query, and no count: CreateReviewDto may ask for the home page.
CreateReview(x, show) ==
    /\ x \notin reviews
    /\ \A r \in Reqs : x \notin {reviewReq[r].review, reviewReq[r].replace}
    /\ reviews' = reviews \cup {x}
    /\ Repin(Null, IF show THEN shown \cup {x} ELSE shown)
    /\ UNCHANGED reviewReq

\* update: the DTO shows, hides, or says nothing of the home page.
UpdateReview(r, x, show) ==
    FindReview(r, x, IF show = TRUE /\ x \notin shown THEN "checkCap" ELSE "update",
               show, Null)

BelowCap_OffByOne == Cardinality(shown) <= MaxHomepage
BelowCap == Cardinality(shown) < MaxHomepage

\* assertHomepageCapNotReached
CheckCap(r) ==
    /\ ReviewAt(r, "checkCap")
    /\ IF BelowCap THEN ReviewAwait(r, "update") ELSE ReviewEnd(r)
    /\ UNCHANGED rvTables

\* setHomepageVisibility: hide, or show: the other review if there are enough.
Hide(r, x) == FindReview(r, x, "update", FALSE, Null)
Show(r, x, replace) ==
    x \notin shown /\ FindReview(r, x, "count", TRUE, replace)

CountShown(r) ==
    /\ ReviewAt(r, "count")
    /\ IF BelowCap THEN ReviewAwait(r, "update")
       ELSE IF reviewReq[r].replace = Null THEN ReviewEnd(r)
       ELSE ReviewAwait(r, "findReplaced")
    /\ UNCHANGED rvTables

FindReplaced(r) ==
    /\ ReviewAt(r, "findReplaced")
    /\ IF reviewReq[r].replace \in shown THEN ReviewAwait(r, "swap") ELSE ReviewEnd(r)
    /\ UNCHANGED rvTables

\* The update of either; a review that is gone rejects it.
WriteReview(r) ==
    LET q == reviewReq[r] IN
    /\ ReviewAt(r, "update")
    /\ Repin(r, CASE q.show = TRUE -> shown \cup ({q.review} \cap reviews)
                  [] q.show = FALSE -> shown \ {q.review}
                  [] OTHER -> shown)
    /\ ReviewLeave(r)
    /\ UNCHANGED reviews

Swap(r) ==
    LET q == reviewReq[r] IN
    /\ ReviewAt(r, "swap")
    /\ Repin(r, IF {q.review, q.replace} \subseteq reviews
                THEN (shown \ {q.replace}) \cup {q.review} ELSE shown)
    /\ ReviewLeave(r)
    /\ UNCHANGED reviews

RemoveReview(r, x) == FindReview(r, x, "delete", Null, Null)
DeleteReview(r) ==
    LET x == reviewReq[r].review IN
    /\ ReviewAt(r, "delete")
    /\ reviews' = reviews \ {x}
    /\ Repin(r, shown \ {x})
    /\ ReviewLeave(r)

ReviewReject(r) ==
    /\ Faults /\ reviewReq[r] # ReviewIdle
    /\ ReviewEnd(r)
    /\ UNCHANGED rvTables

RvNext ==
    \/ \E x \in ReviewIds, show \in BOOLEAN : CreateReview(x, show)
    \/ \E r \in Reqs :
         \/ \E x \in ReviewIds :
              \/ \E show \in BOOLEAN \cup {Null} : UpdateReview(r, x, show)
              \/ Hide(r, x)
              \/ \E replace \in ReviewIds \cup {Null} : Show(r, x, replace)
              \/ RemoveReview(r, x)
         \/ CheckCap(r) \/ CountShown(r) \/ FindReplaced(r)
         \/ WriteReview(r) \/ Swap(r) \/ DeleteReview(r) \/ ReviewReject(r)

RvSpec == RvInit /\ [][RvNext]_rvVars

-----------------------------------------------------------------------------

RvTypeOK ==
    /\ reviews \subseteq ReviewIds /\ shown \subseteq reviews
    /\ reviewReq \in [Reqs ->
         [pc : {"checkCap", "count", "update", "findReplaced", "swap", "delete"},
          review : ReviewIds, show : BOOLEAN \cup {Null},
          replace : ReviewIds \cup {Null}] \cup {ReviewIdle}]
    /\ outpaced \subseteq Counted

\* A request that no other pin has outpaced takes the home page over its limit
\* never, and further over it neither, whatever is hidden, replaced or deleted
\* meanwhile: only overlapping requests and new reviews do.
HomepageCap ==
    [][\A r \in Reqs \ outpaced :
         WriteReview(r) \/ Swap(r) =>
           Cardinality(shown') <= MaxHomepage
             \/ Cardinality(shown') <= Cardinality(shown)]_rvVars
=============================================================================
