------------------------------ MODULE Progress ------------------------------
(***************************************************************************)
(* ProgressService.record and BundlesService (apps/backend/src) for one    *)
(* student with a Stellar key. A report of 100 % completes the bundles of  *)
(* the course, has credentials issued and pays the referrer, one await     *)
(* after the other. The streak that record begins with is in Streaks.      *)
(*                                                                         *)
(* No code of the repository sets completedAt of an enrollment, which      *)
(* bundles wait for: MarkCompleted stands for whoever does.                *)
(***************************************************************************)
EXTENDS Credentials

CONSTANTS
  CoursesOf,    \* the courses of each bundle
  MaxRecords,   \* bound: reports of progress
  MaxPurchases  \* bound: purchase requests

ASSUME ProgressAssumption ==
  /\ CoursesOf \in [Bundle -> SUBSET Course]
  /\ {MaxRecords, MaxPurchases} \subseteq Nat

\* Rows of one course: the table has no unique key, so that each of the
\* handlers that run at a time may insert one.
RowId == 1..Cardinality(Task)

VARIABLES
  progress,     \* progress rows by course and row: "none", "open", "done"
  enrolled,     \* enrollment by course: "none", "open", "completed"
  purchased,    \* bundle enrollment: "none", "open", "completed"
  everDone,     \* history: courses saved as completed
  referrals,    \* mints to the referrer, counted up to 2
  records, purchases

progressVars == <<progress, enrolled, purchased, everDone, referrals, records, purchases>>
achievementVars == <<credentialVars, progressVars>>

ProgressTypeOK ==
  /\ CredentialTypeOK
  /\ progress \in [Course -> [RowId -> {"none", "open", "done"}]]
  /\ enrolled \in [Course -> {"none", "open", "completed"}]
  /\ purchased \in [Bundle -> {"none", "open", "completed"}]
  /\ everDone \subseteq Course /\ referrals \in 0..2
  /\ \A t \in Task : task[t].at \in {"bundles", "enroll"} => task[t].todo \subseteq Subject

ProgressInit ==
  /\ CredentialInit
  /\ progress = [c \in Course |-> [r \in RowId |-> "none"]]
  /\ enrolled = [c \in Course |-> "none"] /\ purchased = [b \in Bundle |-> "none"]
  /\ everDone = {} /\ referrals = 0 /\ records = 0 /\ purchases = 0

----------------------------------------------------------------------------
(* ProgressService.record                                                  *)

\* findOne returns any row of the course, or none (row 0); then the handler
\* waits for the chain, whose failure is not fatal.
Record(t, c, full) ==
  /\ task[t] = Idle /\ records < MaxRecords /\ records' = records + 1
  /\ LET found == {r \in RowId : progress[c][r] # "none"}
     IN  \E r \in IF found = {} THEN {0} ELSE found :
           Goto(t, [at |-> "record", course |-> c, full |-> full, row |-> r,
                    was |-> IF r = 0 THEN "open" ELSE progress[c][r]])
  /\ UNCHANGED <<kycVars, issueVars, faults, progress, enrolled, purchased, everDone, referrals, purchases>>

\* The entity is saved as it was read: a partial report may undo a
\* completion saved meanwhile.
SaveProgress(t) ==
  LET my == task[t]
      row == IF my.row # 0 THEN my.row ELSE CHOOSE r \in RowId : progress[my.course][r] = "none"
  IN  /\ my.at = "record"
      /\ progress' = [progress EXCEPT ![my.course][row] = IF my.full THEN "done" ELSE my.was]
      /\ IF my.full
         THEN /\ everDone' = everDone \cup {my.course}
              /\ Goto(t, [at |-> "find_bundles", course |-> my.course])
         ELSE Finish(t) /\ UNCHANGED everDone
      /\ UNCHANGED <<kycVars, issueVars, faults, enrolled, purchased, referrals, records, purchases>>

\* updateProgress reads the open bundle enrollments once.
FindBundles(t) ==
  LET c == task[t].course
  IN  /\ task[t].at = "find_bundles"
      /\ Goto(t, [at |-> "bundles", course |-> c,
                  todo |-> {b \in Bundle : purchased[b] = "open" /\ c \in CoursesOf[b]}])
      /\ UNCHANGED <<kycVars, issueVars, faults, progressVars>>

\* A bundle whose courses are all completed is saved; after the last one the
\* credential of the course is issued.
NextBundle(t) ==
  LET my == task[t]
  IN  /\ my.at = "bundles"
      /\ IF my.todo = {} THEN Goto(t, [at |-> "find", subject |-> my.course, from |-> "progress"])
         ELSE \E b \in my.todo :
           IF \A c \in CoursesOf[b] : enrolled[c] = "completed"
           THEN Goto(t, [at |-> "save_bundle", bundle |-> b, course |-> my.course, todo |-> my.todo \ {b}])
           ELSE Goto(t, [my EXCEPT !.todo = @ \ {b}])
      /\ UNCHANGED <<kycVars, issueVars, faults, progressVars>>

\* Faulty variant of SaveBundle: the credential is left to the next report.
SaveBundleOnly(t) ==
  /\ task[t].at = "save_bundle"
  /\ purchased' = [purchased EXCEPT ![task[t].bundle] = "completed"]
  /\ Goto(t, [at |-> "bundles", course |-> task[t].course, todo |-> task[t].todo])
  /\ UNCHANGED <<kycVars, issueVars, faults, progress, enrolled, everDone, referrals, records, purchases>>

SaveBundle(t) ==
  LET my == task[t]
  IN  /\ my.at = "save_bundle"
      /\ purchased' = [purchased EXCEPT ![my.bundle] = "completed"]
      /\ Goto(t, [at |-> "find", subject |-> my.bundle, from |-> "bundle", course |-> my.course, todo |-> my.todo])
      /\ UNCHANGED <<kycVars, issueVars, faults, progress, enrolled, everDone, referrals, records, purchases>>

\* The event is emitted, and the referrer paid if exactly one row is done.
Announce(t) ==
  LET done == {cr \in Course \X RowId : progress[cr[1]][cr[2]] = "done"}
  IN  /\ task[t].at = "announce"
      /\ Finish(t)
      /\ referrals' \in IF Cardinality(done) = 1 THEN {referrals, More(referrals)} ELSE {referrals}
      /\ UNCHANGED <<kycVars, issueVars, faults, progress, enrolled, purchased, everDone, records, purchases>>

----------------------------------------------------------------------------
(* BundlesService.purchase                                                 *)

Purchase(t, b) ==
  /\ task[t] = Idle /\ purchases < MaxPurchases /\ purchases' = purchases + 1
  /\ purchased[b] = "none"
  /\ Goto(t, [at |-> "purchase", bundle |-> b])
  /\ UNCHANGED <<kycVars, issueVars, faults, progress, enrolled, purchased, everDone, referrals, records>>

\* The table is unique by student and bundle: a second insert throws.
InsertPurchase(t) ==
  LET b == task[t].bundle
  IN  /\ task[t].at = "purchase"
      /\ IF purchased[b] = "none"
         THEN /\ purchased' = [purchased EXCEPT ![b] = "open"]
              /\ Goto(t, [at |-> "enroll", todo |-> CoursesOf[b]])
         ELSE Finish(t) /\ UNCHANGED purchased
      /\ UNCHANGED <<kycVars, issueVars, faults, progress, enrolled, everDone, referrals, records, purchases>>

\* EnrollmentsService.enroll: a course that has an enrollment already is
\* skipped. What else it throws leaves the bundle as it is (Abort).
EnrollNext(t) ==
  LET my == task[t]
  IN  /\ my.at = "enroll"
      /\ IF my.todo = {} THEN Finish(t) /\ UNCHANGED enrolled
         ELSE \E c \in my.todo :
           /\ Goto(t, [my EXCEPT !.todo = @ \ {c}])
           /\ enrolled' = [enrolled EXCEPT ![c] = IF @ = "none" THEN "open" ELSE @]
      /\ UNCHANGED <<kycVars, issueVars, faults, progress, purchased, everDone, referrals, records, purchases>>

MarkCompleted(c) ==
  /\ enrolled[c] = "open"
  /\ enrolled' = [enrolled EXCEPT ![c] = "completed"]
  /\ UNCHANGED <<credentialVars, progress, purchased, everDone, referrals, records, purchases>>

ProgressNext ==
  \/ CredentialNext /\ UNCHANGED progressVars
  \/ \E t \in Task, c \in Course, full \in BOOLEAN : Record(t, c, full)
  \/ \E t \in Task : SaveProgress(t) \/ FindBundles(t) \/ NextBundle(t) \/ SaveBundle(t) \/ Announce(t)
  \/ \E t \in Task : InsertPurchase(t) \/ EnrollNext(t) \/ \E b \in Bundle : Purchase(t, b)
  \/ \E c \in Course : MarkCompleted(c)

----------------------------------------------------------------------------
\* Once every handler has ended and unless one of them failed: a purchased
\* bundle has all its courses enrolled, a completed bundle has its credential,
\* and so has every course ever saved as completed, whatever the order in
\* which the reports, purchases and calls for credentials overlapped. (The
\* KYC gate may refuse the credential of a course.)
PromisesAreKept ==
  (\A t \in Task : task[t] = Idle) /\ faults = 0 =>
    /\ \A b \in Bundle : purchased[b] # "none" => \A c \in CoursesOf[b] : enrolled[c] # "none"
    /\ \A b \in Bundle : purchased[b] = "completed" => rows[b] > 0
    /\ \A c \in everDone \ KycCourse : rows[c] > 0
=============================================================================
