--------------------------- MODULE MCAchievements ---------------------------
(* Instance of the achievements for TLC: one bundle of two courses, one of  *)
(* them with a KYC gate.                                                    *)
EXTENDS Achievements, TLC

CONSTANTS b1, c1, c2, t1, t2

BundledCourses == b1 :> {c1, c2}
Symmetry == Permutations(Task)
=============================================================================
