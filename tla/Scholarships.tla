---------------------------- MODULE Scholarships ----------------------------
(***************************************************************************)
(* src/scholarships: after every write the service counts the scholarships *)
(* of the university, and those that are full, in two queries, and writes  *)
(* what it makes of them into hasScholarship and hasFullScholarship of the *)
(* university in a third.  The university's own update may write them too. *)
(***************************************************************************)
EXTENDS Backend, Sequences

CONSTANTS
    ScholarshipIds,
    Universities     \* they stay; a removed one takes its scholarships along

VARIABLES
    scholarships,    \* Scholarship: its university, and isFullScholarship
    flags,           \* of each university: hasScholarship, hasFullScholarship
    scholarReq,
    moved,           \* requests whose counts another write has overtaken
    outdated         \* universities whose flags were last written so, or by
                     \* hand, or that a failed or overtaken request left out
scholarVars == <<scholarships, flags, scholarReq, moved, outdated>>

Scholarship == [university : Universities, full : BOOLEAN]
UpdateScholarshipDto == [university : Universities \cup {Null}, full : BOOLEAN]

\* `from` is the university the row was found with, `recount` are those whose
\* flags are yet to be written, `any` and `full` what has been counted.
ScholarIdle == [pc |-> "idle", id |-> Null, from |-> Null, row |-> Null,
                recount |-> <<>>, any |-> Null, full |-> Null]
ScholarAt(r, pc) == scholarReq[r].pc = pc
ScholarGoto(r, q) == scholarReq' = Step(scholarReq, r, q)

ScholarshipsOf(u) == {s \in DOMAIN scholarships : scholarships[s].university = u}
FullOf(u) == {s \in ScholarshipsOf(u) : scholarships[s].full}
Pending(r) == {scholarReq[r].recount[i] : i \in DOMAIN scholarReq[r].recount}

SCInit ==
    /\ scholarships = NoRows
    /\ flags = [u \in Universities |-> [any |-> FALSE, full |-> FALSE]]
    /\ scholarReq = [r \in Reqs |-> ScholarIdle]
    /\ moved = {} /\ outdated = {}

-----------------------------------------------------------------------------

StartScholarship(r, pc, s, row) ==
    /\ scholarReq[r] = ScholarIdle
    /\ ScholarGoto(r, [ScholarIdle EXCEPT !.pc = pc, !.id = s, !.row = row,
                         !.from = IF s \in DOMAIN scholarships
                                  THEN scholarships[s].university ELSE row.university])
    /\ UNCHANGED <<scholarships, flags, moved, outdated>>

CreateScholarship(r, s, row) ==
    /\ s \notin DOMAIN scholarships /\ \A q \in Reqs : scholarReq[q].id # s
    /\ StartScholarship(r, "insert", s, row)
UpdateScholarship(r, s, dto) ==
    s \in DOMAIN scholarships /\ StartScholarship(r, "write", s, dto)
RemoveScholarship(r, s) ==
    s \in DOMAIN scholarships /\ StartScholarship(r, "delete", s, scholarships[s])

\* The scholarships of these universities change, and r is to recount `us`:
\* not one the row had come to since r found it, and leaves now.
Changes(r, universities, us) ==
    LET q == scholarReq[r] IN
    /\ ScholarGoto(r, [ScholarIdle EXCEPT !.pc = "count", !.recount = us])
    /\ moved' = moved \cup
         {p \in Reqs \ {r} : /\ {scholarReq[p].any, scholarReq[p].full} # {Null}
                             /\ Head(scholarReq[p].recount) \in universities}
    /\ outdated' = outdated \cup (universities \ {q.from, q.row.university})
    /\ UNCHANGED flags

\* The university it was found with, if the update names another, and that one.
ToRecount_NewOnly(from, to) == <<to>>
ToRecount(from, to) == IF from = to THEN <<to>> ELSE <<from, to>>

\* What the update, of a DTO that may leave the university, makes of the row.
Updated(row, dto) ==
    IF dto.university = Null THEN [dto EXCEPT !.university = row.university] ELSE dto

InsertScholarship(r) ==
    LET q == scholarReq[r] IN
    /\ ScholarAt(r, "insert")
    /\ scholarships' = With(scholarships, q.id, q.row)
    /\ Changes(r, {q.row.university}, <<q.row.university>>)

WriteScholarship(r) ==
    LET q == scholarReq[r]
        row == Updated(scholarships[q.id], q.row) IN
    /\ ScholarAt(r, "write") /\ q.id \in DOMAIN scholarships
    /\ scholarships' = With(scholarships, q.id, row)
    /\ Changes(r, {scholarships[q.id].university, row.university},
               IF q.row.university = Null THEN <<row.university>>
               ELSE ToRecount(q.from, row.university))

DeleteScholarship(r) ==
    LET q == scholarReq[r] IN
    /\ ScholarAt(r, "delete") /\ q.id \in DOMAIN scholarships
    /\ scholarships' = Without(scholarships, {q.id})
    /\ Changes(r, {scholarships[q.id].university}, <<q.from>>)

-----------------------------------------------------------------------------
(* updateUniversityScholarshipStatus *)

\* The two counts answer in either order.
CountScholarships(r) ==
    LET q == scholarReq[r] IN
    /\ ScholarAt(r, "count")
    /\ \/ q.any = Null /\ ScholarGoto(r, [q EXCEPT !.any =
                                            ScholarshipsOf(Head(q.recount)) # {}])
       \/ q.full = Null /\ ScholarGoto(r, [q EXCEPT !.full =
                                             FullOf(Head(q.recount)) # {}])
    /\ UNCHANGED <<scholarships, flags, moved, outdated>>

WriteFlags(r) ==
    LET q == scholarReq[r]
        u == Head(q.recount) IN
    /\ ScholarAt(r, "count") /\ q.any # Null /\ q.full # Null
    /\ flags' = [flags EXCEPT ![u] = [any |-> q.any, full |-> q.full]]
    /\ outdated' = IF r \in moved THEN outdated \cup {u} ELSE outdated \ {u}
    /\ moved' = moved \ {r}
    /\ ScholarGoto(r, IF Tail(q.recount) = <<>> THEN ScholarIdle
                      ELSE [q EXCEPT !.recount = Tail(@), !.any = Null, !.full = Null])
    /\ UNCHANGED scholarships

\* UniversitiesService.update with the flags in its DTO.
SetFlags(u, any, full) ==
    /\ flags' = [flags EXCEPT ![u] = [any |-> any, full |-> full]]
    /\ outdated' = outdated \cup {u}
    /\ UNCHANGED <<scholarships, scholarReq, moved>>

\* A query fails, of a request that found its row gone as well.
ScholarReject(r) ==
    LET q == scholarReq[r] IN
    /\ \/ Faults /\ q # ScholarIdle
       \/ q.pc \in {"write", "delete"} /\ q.id \notin DOMAIN scholarships
    /\ ScholarGoto(r, ScholarIdle)
    /\ moved' = moved \ {r}
    /\ outdated' = outdated \cup Pending(r)
    /\ UNCHANGED <<scholarships, flags>>

SCNext ==
    \/ \E r \in Reqs :
         \/ \E s \in ScholarshipIds :
              \/ \E row \in Scholarship : CreateScholarship(r, s, row)
              \/ \E dto \in UpdateScholarshipDto : UpdateScholarship(r, s, dto)
              \/ RemoveScholarship(r, s)
         \/ InsertScholarship(r) \/ WriteScholarship(r) \/ DeleteScholarship(r)
         \/ CountScholarships(r) \/ WriteFlags(r) \/ ScholarReject(r)
    \/ \E u \in Universities, any, full \in BOOLEAN : SetFlags(u, any, full)

SCSpec == SCInit /\ [][SCNext]_scholarVars

-----------------------------------------------------------------------------

SCTypeOK ==
    /\ DOMAIN scholarships \subseteq ScholarshipIds
    /\ \A s \in DOMAIN scholarships : scholarships[s] \in Scholarship
    /\ flags \in [Universities -> [any : BOOLEAN, full : BOOLEAN]]
    /\ \A r \in Reqs : /\ scholarReq[r].pc \in {"idle", "insert", "write", "delete", "count"}
                       /\ Pending(r) # {} <=> ScholarAt(r, "count")
    /\ moved \subseteq {r \in Reqs : Pending(r) # {}} /\ outdated \subseteq Universities

\* When no request is to recount a university, its flags say whether it has
\* scholarships and full ones, in whatever order writes, moves between
\* universities, counts and deletions came, unless the last to write the flags
\* had counted before another's write, wrote them by hand, or failed.
FlagsAgree ==
    \A u \in Universities \ outdated :
      (\A r \in Reqs : u \notin Pending(r)) =>
        flags[u] = [any |-> ScholarshipsOf(u) # {}, full |-> FullOf(u) # {}]
=============================================================================
