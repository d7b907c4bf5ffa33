-------------------------- MODULE MCPartnerAccess --------------------------
(* An agency's owner and the member he invites, for TLC. *)
EXTENDS PartnerAccess, TLC

CONSTANTS c1, p1, m1, r1, r2, r3

Symmetry == Permutations(Reqs)
=============================================================================
