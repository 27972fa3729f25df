------------------------------ MODULE MCToken ------------------------------
(* Instances of the token contract for TLC. *)
EXTENDS TokenRefinement

CONSTANTS a1, a2
============================================================================
