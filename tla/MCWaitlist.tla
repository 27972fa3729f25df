----------------------------- MODULE MCWaitlist -----------------------------
(* Instances of the enrollment and waitlist services for TLC. *)
EXTENDS Waitlist, TLC

CONSTANTS u1, u2, u3, t1, t2, t3

\* Neither users nor request slots are told apart.
Symmetry == Permutations(Joiner) \cup Permutations(Task)
============================================================================
