------------------------------ MODULE Backend ------------------------------
(***************************************************************************)
(* What the modules of the NestJS services have in common.  Every service  *)
(* runs its requests as promises over one PostgreSQL database: between two *)
(* awaited calls any other request may run.  Each module keeps the         *)
(* requests in flight in a function from Reqs to records whose pc names    *)
(* the next awaited call; the action that starts a request does its first  *)
(* read, and a call that is refused there changes nothing and is no action.*)
(* An operator with an underscore in its name is a mutant.                 *)
(***************************************************************************)
EXTENDS Integers, FiniteSets, Functions

CONSTANTS
    Reqs,     \* requests of one service that may be in flight together
    Null,
    Faults    \* may a query, or a call to another server, fail?

ASSUME BackendAssumption ==
    /\ IsFiniteSet(Reqs)
    /\ Faults \in BOOLEAN

\* The requests after r has gone on to q.
Step(reqs, r, q) == [reqs EXCEPT ![r] = q]

\* A table is a function from the ids of its rows to their contents.
Table(Ids, Rows) == UNION {[D -> Rows] : D \in SUBSET Ids}
NoRows == [x \in {} |-> Null]
With(table, id, row) == [x \in DOMAIN table \cup {id} |->
                            IF x = id THEN row ELSE table[x]]
Without(table, ids) == [x \in DOMAIN table \ ids |-> table[x]]
=============================================================================
