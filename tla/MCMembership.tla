----------------------------- MODULE MCMembership ----------------------------
(***************************************************************************)
(* Membership for TLC.                                                     *)
(***************************************************************************)
EXTENDS Membership

CONSTANTS a, b, c, d

(* Whoever is invited may be exchanged for another.                        *)
Invited == Permutations(Node \ {a})

=============================================================================
