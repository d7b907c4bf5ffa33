----------------------- MODULE ApplicationLifecycle ------------------------
(***************************************************************************)
(* What the service promises about an application, whatever its requests   *)
(* overlap with.  Nothing is ever done to one but what somebody decided to *)
(* do to it, who was allowed to when he decided: its owner submits and     *)
(* deletes what was his draft then, and edits what was his draft or his    *)
(* rejected application; a reviewer sets any status.  Each decision takes  *)
(* effect once, or never.                                                  *)
(***************************************************************************)
CONSTANTS Ids, Statuses, Wishes, Users, Reviewers, Tickets
VARIABLES
    live,      \* the applications there are: whose, in which status, for what
    gone,      \* the deleted ones
    decided    \* decisions taken and not carried out

lvars == <<live, gone, decided>>
Row == [owner : Users, status : Statuses, wish : Wishes]
Decision == [by : Tickets, user : Users, app : Ids,
             what : {"submit", "remove", "edit", "review"},
             to : Statuses \cup Wishes \cup {"deleted"}]

LInit == live = [a \in {} |-> {}] /\ gone = {} /\ decided = {}

Open(a, row) ==
    /\ a \notin DOMAIN live \cup gone
    /\ live' = [b \in DOMAIN live \cup {a} |-> IF b = a THEN row ELSE live[b]]
    /\ UNCHANGED <<gone, decided>>

\* What a user may decide about an application as it is.
Owners(d, statuses) ==
    live[d.app].owner = d.user /\ live[d.app].status \in statuses
May(d) ==
    \/ d.what = "submit" /\ d.to = "SUBMITTED" /\ Owners(d, {"DRAFT"})
    \/ d.what = "remove" /\ d.to = "deleted" /\ Owners(d, {"DRAFT"})
    \/ d.what = "edit" /\ d.to \in Wishes /\ Owners(d, {"DRAFT", "REJECTED"})
    \/ d.what = "review" /\ d.to \in Statuses /\ d.user \in Reviewers

Decide(d) ==
    /\ d.app \in DOMAIN live /\ May(d)
    /\ \A e \in decided : e.by # d.by
    /\ decided' = decided \cup {d} /\ UNCHANGED <<live, gone>>

\* The application may have been submitted, reviewed or deleted since.
CarryOut(d) ==
    /\ d.app \in DOMAIN live
    /\ decided' = decided \ {d}
    /\ \/ /\ d.what \in {"submit", "review"}
          /\ live' = [live EXCEPT ![d.app] = [@ EXCEPT !.status = d.to]]
          /\ UNCHANGED gone
       \/ /\ d.what = "edit"
          /\ live' = [live EXCEPT ![d.app] = [@ EXCEPT !.wish = d.to]]
          /\ UNCHANGED gone
       \/ /\ d.what = "remove"
          /\ live' = [b \in DOMAIN live \ {d.app} |-> live[b]]
          /\ gone' = gone \cup {d.app}

Drop(d) == decided' = decided \ {d} /\ UNCHANGED <<live, gone>>

LNext ==
    \/ \E a \in Ids, row \in Row : Open(a, row)
    \/ \E d \in Decision : Decide(d)
    \/ \E d \in decided : CarryOut(d) \/ Drop(d)

LSpec == LInit /\ [][LNext]_lvars
=============================================================================
