----------------------------- MODULE MCServices -----------------------------
(* Instance of the services for TLC.                                        *)
EXTENDS Services, TLC

CONSTANTS k1, k2, u1, u2, g1, g2

Symmetry == Permutations({k1, k2}) \cup Permutations({u1, u2}) \cup Permutations({g1, g2})
=============================================================================
