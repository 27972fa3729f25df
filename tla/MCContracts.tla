----------------------------- MODULE MCContracts -----------------------------
(* Instances of the contracts for TLC. *)
EXTENDS Contracts, TLC

CONSTANTS a1, a2, c1, w0, w1, g1, g2

\* What is provided, withdrawn and swapped, negative amounts too.
PoolAmounts == {-2, 1, 2, 3, 5}

\* No address is told from another before initialize names an admin, no
\* provider from another before its first provision.
Symmetry == Permutations(Address) \cup Permutations(Provider) \cup Permutations(Grant)

\* Newton's iteration of the pool computes the integer square root.
ASSUME RootIsFound == \A x \in 0..1000 : IsRoot(Sqrt(x), x)
=============================================================================
