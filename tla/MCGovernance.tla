---------------------------- MODULE MCGovernance ----------------------------
(* Instances of the governance contract for TLC. *)
EXTENDS Governance, TLC

CONSTANTS a1, a2, c1, w0, w1

\* No address is told from another before initialize names an admin.
Symmetry == Permutations(Address)
=============================================================================
