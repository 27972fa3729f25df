---------------------------- MODULE Achievements ----------------------------
(***************************************************************************)
(* What a report of progress sets off: the streak of the day, credentials  *)
(* and bundles, and the certificate. The three touch no row in common, so  *)
(* a behaviour exercises one of them, its focus.                           *)
(***************************************************************************)
EXTENDS Progress, Streaks, Certificates

VARIABLE focus

vars == <<focus, achievementVars, streakVars, certificateVars>>

AchievementsTypeOK == ProgressTypeOK /\ StreakTypeOK /\ CertificateTypeOK

Init ==
  /\ focus \in {"progress", "streaks", "certificates"}
  /\ ProgressInit /\ StreakInit /\ CertificateInit

Next ==
  /\ UNCHANGED focus
  /\ \/ focus = "progress" /\ ProgressNext /\ UNCHANGED <<streakVars, certificateVars>>
     \/ focus = "streaks" /\ StreakNext /\ UNCHANGED <<achievementVars, certificateVars>>
     \/ focus = "certificates" /\ CertificateNext /\ UNCHANGED <<achievementVars, streakVars>>

Spec == Init /\ [][Next]_vars
=============================================================================
