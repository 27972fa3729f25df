------------------------- MODULE AchievementProofs -------------------------
(***************************************************************************)
(* Credentials, streaks and certificates for every number of handlers,     *)
(* courses, bundles, requests, days and faults.                            *)
(***************************************************************************)
EXTENDS Achievements, FiniteSetTheorems, TLAPS

----------------------------------------------------------------------------
(* Streaks.                                                                *)
(*                                                                         *)
(* The row of the table is not the only place a streak is in: a request    *)
(* may save its copy days later. So every copy has to be backed by         *)
(* activity, which the history never forgets, and none may be from a day   *)
(* to come; then any of them may be saved at any time. Once two saves have *)
(* been mixed, the day of the last activity is all that a row can show.    *)

StreakRow == [current : Nat, longest : Nat, last : Int]

VisitState ==
  {NoVisit} \cup [at : {"read", "reward"}, row : StreakRow]
            \cup [at : {"save"}, row : StreakRow, fresh : BOOLEAN]
            \cup [at : {"update"}, row : StreakRow, fresh : BOOLEAN, seen : StreakRow]

Backed(row, day, days, mixed) ==
  /\ row \in StreakRow /\ row.last <= day /\ (row.last # NoDay => row.last \in days)
  /\ ~mixed =>
       /\ row.current <= row.longest
       /\ \A d \in Int : row.last - row.current < d /\ d <= row.last => d \in days

StreakInv ==
  /\ today \in Int /\ torn \in BOOLEAN /\ visit \in [Visit -> VisitState]
  /\ Backed(streakRow, today, active, torn)
  /\ \A v \in Visit : visit[v] # NoVisit => Backed(visit[v].row, today, active, torn)
  /\ \A p \in paid : \E row \in StreakRow :
       p = [days |-> row.current, on |-> row.last] /\ Backed(row, today, active, torn)

\* What follows from the invariant about a request that is under way.
LEMMA VisitFields ==
  ASSUME StreakInv, NEW v \in Visit, visit[v].at # "idle"
  PROVE  /\ visit[v] # NoVisit /\ visit[v].row \in StreakRow
         /\ Backed(visit[v].row, today, active, torn)
         /\ visit[v].at \in {"save", "update"} => visit[v].fresh \in BOOLEAN
<1>1. visit[v] \in VisitState /\ visit[v] # NoVisit
  BY DEF StreakInv, NoVisit
<1> QED
  BY <1>1 DEF StreakInv, VisitState

\* Time, activity and mixed saves only take away from what a row has to show.
LEMMA BackedStays ==
  ASSUME today \in Int, today' \in Int, today <= today', active \subseteq active', torn => torn',
         NEW row \in StreakRow, Backed(row, today, active, torn)
  PROVE  Backed(row, today', active', torn')
BY DEF Backed, StreakRow

\* recordActivity turns a backed row into one that today's activity backs.
LEMMA CountedIsBacked ==
  ASSUME today \in Int, NEW row \in StreakRow, Backed(row, today, active, torn), today' = today,
         active' = active \cup {today}, torn' = torn
  PROVE  Counted(row) \in StreakRow /\ Backed(Counted(row), today', active', torn')
<1> DEFINE current == CASE row.last = today -> row.current
                        [] row.last # NoDay /\ row.last = today - 1 -> row.current + 1
                        [] OTHER -> 1
<1>1. row.current \in Nat /\ row.longest \in Nat /\ row.last \in Int
  BY DEF StreakRow
<1>2. /\ current \in Nat
      /\ ~torn => \A d \in Int : today - current < d /\ d <= today => d \in active \cup {today}
      /\ ~torn /\ row.last = today => current <= row.longest
  <2>1. CASE row.last = today
    BY <1>1, <2>1 DEF Backed
  <2>2. CASE row.last # today /\ row.last # NoDay /\ row.last = today - 1
    BY <1>1, <2>2 DEF Backed
  <2>3. CASE row.last # today /\ ~(row.last # NoDay /\ row.last = today - 1)
    BY <1>1, <2>3
  <2> QED
    BY <2>1, <2>2, <2>3
<1>3. Counted(row) = [current |-> current,
                      longest |-> IF current > row.longest THEN current ELSE row.longest, last |-> today]
  BY DEF Counted
<1> HIDE DEF current
<1> QED
  BY <1>1, <1>2, <1>3 DEF Backed, StreakRow

LEMMA StreakStart == StreakInit => StreakInv
<1> SUFFICES ASSUME StreakInit PROVE StreakInv
  OBVIOUS
<1>1. streakRow \in StreakRow /\ streakRow.current = 0 /\ streakRow.longest = 0 /\ streakRow.last = NoDay /\ NoDay = -1
  BY DEF StreakInit, StreakRow, NoDay
<1>2. Backed(streakRow, today, active, torn)
  BY <1>1 DEF StreakInit, Backed
<1>3. visit \in [Visit -> VisitState] /\ \A v \in Visit : visit[v] = NoVisit
  BY DEF StreakInit, VisitState
<1>4. today \in Int /\ paid = {}
  BY DEF StreakInit
<1>5. torn \in BOOLEAN
  BY DEF StreakInit
<1> QED
  BY <1>2, <1>3, <1>4, <1>5 DEF StreakInv

\* The columns of a save are those of its copy or those that were in the row.
LEMMA UpdateMixes ==
  ASSUME StreakInv, NEW v \in Visit, UpdateRow(v)
  PROVE  /\ Backed(streakRow', today, active, torn') /\ torn' \in BOOLEAN /\ (torn => torn')
         /\ Backed(visit[v].row, today, active, torn')
<1> DEFINE my == visit[v]
<1>1. /\ my.row \in StreakRow /\ Backed(my.row, today, active, torn)
      /\ streakRow \in StreakRow /\ Backed(streakRow, today, active, torn)
  BY VisitFields DEF UpdateRow, StreakInv, Backed
<1>2. /\ streakRow' = [c \in DOMAIN streakRow |-> IF my.row[c] # my.seen[c] THEN my.row[c] ELSE streakRow[c]]
      /\ torn' = (torn \/ streakRow' # my.row)
  BY DEF UpdateRow
<1>3. torn' \in BOOLEAN /\ (torn => torn') /\ (~torn' => ~torn /\ streakRow' = my.row)
  BY <1>2 DEF StreakInv
<1>4. /\ streakRow' \in StreakRow
      /\ streakRow'.last \in {my.row.last, streakRow.last}
  BY <1>1, <1>2 DEF StreakRow
<1>5. streakRow'.last <= today /\ (streakRow'.last # NoDay => streakRow'.last \in active)
  BY <1>1, <1>4 DEF Backed
<1> HIDE DEF my
<1>6. Backed(streakRow', today, active, torn')
  BY <1>1, <1>3, <1>4, <1>5 DEF Backed
<1>7. Backed(my.row, today, active, torn')
  BY <1>1, <1>3 DEF Backed
<1> QED
  BY <1>3, <1>6, <1>7 DEF my

LEMMA StreakStep == StreakInv /\ StreakNext => StreakInv'
<1> SUFFICES ASSUME StreakInv, StreakNext PROVE StreakInv'
  OBVIOUS
<1>1. today \in Int /\ torn \in BOOLEAN /\ visit \in [Visit -> VisitState]
  BY DEF StreakInv
\* A step that keeps the clock and the history, and moves one request on.
<1>2. ASSUME NEW v \in Visit, NEW next \in VisitState, Proceed(v, next),
             UNCHANGED today, active \subseteq active', torn' \in BOOLEAN, torn => torn',
             Backed(streakRow', today', active', torn'),
             next # NoVisit => Backed(next.row, today', active', torn'),
             \A p \in paid' : p \in paid \/ \E row \in StreakRow :
               p = [days |-> row.current, on |-> row.last] /\ Backed(row, today, active, torn)
      PROVE  StreakInv'
  <2>1. visit' \in [Visit -> VisitState]
    BY <1>1, <1>2 DEF Proceed
  <2>2. ASSUME NEW w \in Visit, visit'[w] # NoVisit PROVE Backed(visit'[w].row, today', active', torn')
    <3>1. CASE w = v
      BY <1>1, <1>2, <2>2, <3>1 DEF Proceed
    <3>2. CASE w # v
      <4>1. visit'[w] = visit[w] /\ visit[w] # NoVisit
        BY <1>1, <1>2, <2>2, <3>2 DEF Proceed
      <4>2. visit[w].row \in StreakRow /\ Backed(visit[w].row, today, active, torn)
        BY <1>1, <4>1 DEF StreakInv, VisitState
      <4> QED
        BY <1>1, <1>2, <4>1, <4>2, BackedStays
    <3> QED
      BY <3>1, <3>2
  <2>3. ASSUME NEW p \in paid'
        PROVE  \E row \in StreakRow : p = [days |-> row.current, on |-> row.last]
                                         /\ Backed(row, today', active', torn')
    <3>1. PICK row \in StreakRow : p = [days |-> row.current, on |-> row.last] /\ Backed(row, today, active, torn)
      BY <1>2, <2>3 DEF StreakInv
    <3> QED
      BY <1>1, <1>2, <3>1, BackedStays
  <2> QED
    BY <1>1, <1>2, <2>1, <2>2, <2>3 DEF StreakInv
<1>3. Backed(streakRow, today, active, torn) /\ streakRow \in StreakRow
  BY DEF StreakInv, Backed
<1>4. ASSUME NEW v \in Visit, ReadUser(v) \/ EditUser(v) PROVE StreakInv'
  <2>1. PICK next \in {[at |-> "read", row |-> streakRow], [at |-> "save", row |-> streakRow, fresh |-> FALSE]} :
          Proceed(v, next)
    BY <1>4 DEF ReadUser, EditUser
  <2>2. UNCHANGED <<today, streakRow, active, paid, torn>>
    BY <1>4 DEF ReadUser, EditUser
  <2>3. next \in VisitState /\ next.row = streakRow
    <3>1. CASE next = [at |-> "read", row |-> streakRow]
      BY <1>3, <3>1 DEF VisitState
    <3>2. CASE next = [at |-> "save", row |-> streakRow, fresh |-> FALSE]
      BY <1>3, <3>2 DEF VisitState
    <3> QED
      BY <2>1, <3>1, <3>2
  <2>4. Backed(streakRow', today', active', torn') /\ Backed(next.row, today', active', torn')
    BY <1>3, <2>2, <2>3
  <2> QED
    BY <1>1, <1>2, <2>1, <2>2, <2>3, <2>4
<1>5. ASSUME NEW v \in Visit, CountDay(v) PROVE StreakInv'
  <2>1. visit[v].row \in StreakRow /\ Backed(visit[v].row, today, active, torn)
    BY <1>5, VisitFields DEF CountDay
  <2> DEFINE next == [at |-> "save", row |-> Counted(visit[v].row), fresh |-> visit[v].row.last # today]
  <2>2. next \in VisitState /\ Backed(next.row, today', active', torn')
    BY <1>1, <1>5, <2>1, CountedIsBacked DEF CountDay, VisitState
  <2>3. Backed(streakRow', today', active', torn')
    BY <1>1, <1>3, <1>5, BackedStays DEF CountDay
  <2> QED
    BY <1>1, <1>2, <1>5, <2>2, <2>3 DEF CountDay
<1>6. ASSUME NEW v \in Visit, SelectRow(v) PROVE StreakInv'
  <2>1. /\ visit[v].row \in StreakRow /\ Backed(visit[v].row, today, active, torn)
        /\ visit[v].fresh \in BOOLEAN
    BY <1>6, VisitFields DEF SelectRow
  <2> DEFINE next == [at |-> "update", row |-> visit[v].row, fresh |-> visit[v].fresh, seen |-> streakRow]
  <2>2. next \in VisitState /\ next.row = visit[v].row
    BY <1>3, <2>1 DEF VisitState
  <2>3. UNCHANGED <<today, streakRow, active, paid, torn>> /\ Proceed(v, next)
    BY <1>6 DEF SelectRow
  <2>4. Backed(streakRow', today', active', torn') /\ Backed(next.row, today', active', torn')
    BY <1>3, <2>1, <2>2, <2>3
  <2> QED
    BY <1>1, <1>2, <2>2, <2>3, <2>4
<1>7. ASSUME NEW v \in Visit, UpdateRow(v) PROVE StreakInv'
  <2>1. visit[v].row \in StreakRow
    BY <1>7, VisitFields DEF UpdateRow
  <2>2. UNCHANGED <<today, active, paid>>
    BY <1>7 DEF UpdateRow
  <2>3. /\ Backed(streakRow', today', active', torn') /\ Backed(visit[v].row, today', active', torn')
        /\ torn' \in BOOLEAN /\ (torn => torn')
    BY <1>7, <2>2, UpdateMixes
  <2>4. PICK next \in {NoVisit, [at |-> "reward", row |-> visit[v].row]} : Proceed(v, next)
    BY <1>7 DEF UpdateRow
  <2>5. next \in VisitState /\ (next # NoVisit => next.row = visit[v].row)
    BY <2>1, <2>4 DEF VisitState
  <2>6. next # NoVisit => Backed(next.row, today', active', torn')
    BY <2>3, <2>5
  <2> QED
    BY <1>2, <2>2, <2>3, <2>4, <2>5, <2>6
<1>8. ASSUME NEW v \in Visit, PayMilestone(v) PROVE StreakInv'
  <2>1. visit[v].row \in StreakRow /\ Backed(visit[v].row, today, active, torn)
    BY <1>8, VisitFields DEF PayMilestone
  <2>2. Backed(streakRow', today', active', torn')
    BY <1>3, <1>8 DEF PayMilestone
  <2>3. NoVisit \in VisitState
    BY DEF VisitState
  <2> QED
    BY <1>1, <1>2, <1>8, <2>1, <2>2, <2>3 DEF PayMilestone
<1>9. ASSUME NEW v \in Visit, AbortVisit(v) PROVE StreakInv'
  <2>1. UNCHANGED <<today, streakRow, active, paid, torn>> /\ Proceed(v, NoVisit) /\ NoVisit \in VisitState
    BY <1>9 DEF AbortVisit, VisitState
  <2>2. Backed(streakRow', today', active', torn')
    BY <1>3, <2>1
  <2> QED
    BY <1>1, <1>2, <2>1, <2>2
<1>10. ASSUME PassMidnight PROVE StreakInv'
  <2>1. today' = today + 1 /\ UNCHANGED <<streakRow, visit, active, paid, torn>>
    BY <1>10 DEF PassMidnight
  <2>2. ASSUME NEW row \in StreakRow, Backed(row, today, active, torn) PROVE Backed(row, today', active', torn')
    BY <1>1, <2>1, <2>2, BackedStays
  <2>3. Backed(streakRow', today', active', torn')
    BY <1>3, <2>1, <2>2
  <2>4. ASSUME NEW v \in Visit, visit[v] # NoVisit PROVE Backed(visit[v].row, today', active', torn')
    BY <1>1, <2>2, <2>4 DEF StreakInv, VisitState
  <2> QED
    BY <1>1, <2>1, <2>2, <2>3, <2>4 DEF StreakInv
<1> QED
  BY <1>4, <1>5, <1>6, <1>7, <1>8, <1>9, <1>10 DEF StreakNext

\* No streak and no milestone is ever made of days without activity,
\* however requests overlap, save old rows and straddle midnight, until a
\* save lands between the two statements of another.
THEOREM StreaksAreBacked == Spec => []StreaksAreReal
<1>1. Init => StreakInv
  BY StreakStart DEF Init
<1>2. StreakInv /\ [Next]_vars => StreakInv'
  <2>1. ASSUME StreakInv, UNCHANGED streakVars PROVE StreakInv'
    BY <2>1 DEF StreakInv, Backed, streakVars
  <2> QED
    BY <2>1, StreakStep DEF Next, vars
<1>3. StreakInv => StreaksAreReal
  <2> SUFFICES ASSUME StreakInv PROVE StreaksAreReal
    OBVIOUS
  <2>1. ASSUME ~torn, NEW p \in paid, NEW d \in p.on - p.days + 1 .. p.on PROVE d \in active
    <3>1. PICK row \in StreakRow : p = [days |-> row.current, on |-> row.last] /\ Backed(row, today, active, torn)
      BY <2>1 DEF StreakInv
    <3> QED
      BY <2>1, <3>1 DEF Backed, StreakRow
  <2>2. ASSUME ~torn, NEW d \in streakRow.last - streakRow.current + 1 .. streakRow.last PROVE d \in active
    BY <2>2 DEF StreakInv, Backed, StreakRow
  <2> QED
    BY <2>1, <2>2 DEF StreaksAreReal, StreakInv, Backed
<1> QED
  BY <1>1, <1>2, <1>3, PTL DEF Spec

----------------------------------------------------------------------------
(* Credentials.                                                            *)
(*                                                                         *)
(* CredentialsAreSound and PromisesAreKept are about rows; what makes them *)
(* inductive is what the handlers that are under way know or owe: one that *)
(* is past the ledger call leaves a transaction behind, one that was let   *)
(* through the gate was approved, and a promise that is not kept yet is    *)
(* some handler's next work.                                               *)

----------------------------------------------------------------------------
(* Types. What a handler carries depends on where it is.                   *)

IssueAt == {"find", "gate", "issue", "horizon", "reward", "save"}

ForCourse == [at : IssueAt, subject : Course, from : {"other", "progress"}]
ForBundle == [at : IssueAt, subject : Bundle, from : {"bundle"}, course : Course, todo : SUBSET Bundle]
InKyc == [at : {"kyc_save"}, status : {"pending", "approved", "rejected"}, new : BOOLEAN]
InRecord == [at : {"record"}, course : Course, full : BOOLEAN, row : RowId \cup {0}, was : {"none", "open", "done"}]
AtCourse == [at : {"find_bundles", "announce"}, course : Course]
InLoop == [at : {"bundles"}, course : Course, todo : SUBSET Bundle]
InSave == [at : {"save_bundle"}, bundle : Bundle, course : Course, todo : SUBSET Bundle]
InPurchase == [at : {"purchase"}, bundle : Bundle]
InEnroll == [at : {"enroll"}, todo : SUBSET Course]

TaskState == {Idle} \cup ForCourse \cup ForBundle \cup InKyc \cup InRecord
               \cup AtCourse \cup InLoop \cup InSave \cup InPurchase \cup InEnroll

Typed ==
  /\ task \in [Task -> TaskState]
  /\ customer \in {"none", "pending", "approved", "rejected"} /\ approvedOnce \in BOOLEAN
  /\ rows \in [Subject -> 0..2] /\ onLedger \in [Subject -> 0..2] /\ fallbacks \in [Subject -> 0..2]
  /\ rewarded \subseteq Subject /\ contended \subseteq Subject /\ faults \in Nat
  /\ progress \in [Course -> [RowId -> {"none", "open", "done"}]]
  /\ enrolled \in [Course -> {"none", "open", "completed"}]
  /\ purchased \in [Bundle -> {"none", "open", "completed"}]
  /\ everDone \subseteq Course

\* Where a handler is tells which of the records it is.
LEMMA StateForms ==
  ASSUME NEW x \in TaskState
  PROVE  /\ x.at \in IssueAt => x \in ForCourse \cup ForBundle
         /\ x.at = "kyc_save" => x \in InKyc
         /\ x.at = "record" => x \in InRecord
         /\ x.at \in {"find_bundles", "announce"} => x \in AtCourse
         /\ x.at = "bundles" => x \in InLoop
         /\ x.at = "save_bundle" => x \in InSave
         /\ x.at = "purchase" => x \in InPurchase
         /\ x.at = "enroll" => x \in InEnroll
         /\ x = Idle <=> x.at = "idle"
<1> USE DEF IssueAt
<1>1. CASE x = Idle
  BY <1>1 DEF Idle
<1>2. CASE x \in ForCourse \cup ForBundle
  BY <1>2 DEF ForCourse, ForBundle, Idle
<1>3. CASE x \in InKyc \cup InRecord
  BY <1>3 DEF InKyc, InRecord, Idle
<1>4. CASE x \in AtCourse \cup InLoop \cup InSave \cup InPurchase \cup InEnroll
  BY <1>4 DEF AtCourse, InLoop, InSave, InPurchase, InEnroll, Idle
<1> QED
  BY <1>1, <1>2, <1>3, <1>4 DEF TaskState

\* A handler moves on, and no other does.
LEMMA Moves ==
  ASSUME task \in [Task -> TaskState], NEW t \in Task, NEW next \in TaskState, Goto(t, next)
  PROVE  /\ task' \in [Task -> TaskState] /\ task'[t] = next
         /\ \A u \in Task \ {t} : task'[u] = task[u]
BY DEF Goto

LEMMA Subjects ==
  /\ \A s \in Course \cup Bundle : s \in Subject
  /\ \A b \in Bundle : b \notin Course /\ b \notin KycCourse
BY CredentialAssumption DEF Subject

\* What the caller of issue goes on with.
LEMMA Returned ==
  ASSUME Typed, NEW t \in Task, task[t].at \in IssueAt, Return(t)
  PROVE  \E next \in TaskState :
           /\ Goto(t, next) /\ next.at \in {"announce", "bundles", "idle"}
           /\ task[t].from = "bundle" => next.at = "bundles" /\ next.course = task[t].course
           /\ next.at = "bundles" => task[t].from = "bundle" /\ next.todo = task[t].todo
<1>1. task[t] \in ForCourse \cup ForBundle
  BY StateForms DEF Typed
<1>2. CASE task[t] \in ForBundle
  <2> DEFINE next == [at |-> "bundles", course |-> task[t].course, todo |-> task[t].todo]
  <2>1. next \in InLoop /\ Goto(t, next)
    BY <1>2 DEF ForBundle, InLoop, Return
  <2>2. task[t].from = "bundle"
    BY <1>2 DEF ForBundle
  <2> QED
    BY <2>1, <2>2 DEF TaskState
<1>3. CASE task[t] \in ForCourse /\ task[t].from = "progress"
  <2> DEFINE next == [at |-> "announce", course |-> task[t].subject]
  <2>1. next \in AtCourse /\ Goto(t, next)
    BY <1>3 DEF ForCourse, AtCourse, Return
  <2> QED
    BY <1>3, <2>1 DEF TaskState
<1>4. CASE task[t] \in ForCourse /\ task[t].from = "other"
  <2>1. Goto(t, Idle) /\ Idle \in TaskState /\ Idle.at = "idle"
    BY <1>4 DEF ForCourse, Return, Idle, TaskState
  <2> QED
    BY <1>4, <2>1
<1> QED
  BY <1>1, <1>2, <1>3, <1>4 DEF ForCourse

\* Counting up to 2.
LEMMA Counts == \A n \in 0..2 : More(n) \in 1..2 /\ (n = 0 => More(n) = 1)
BY DEF More

----------------------------------------------------------------------------
LEMMA TypedStart == ProgressInit => Typed
<1> SUFFICES ASSUME ProgressInit PROVE Typed
  OBVIOUS
<1>1. task \in [Task -> TaskState]
  BY DEF ProgressInit, CredentialInit, TaskState
<1>2. rows \in [Subject -> 0..2] /\ onLedger \in [Subject -> 0..2] /\ fallbacks \in [Subject -> 0..2]
  BY DEF ProgressInit, CredentialInit
<1>3. progress \in [Course -> [RowId -> {"none", "open", "done"}]]
  BY DEF ProgressInit
<1>4. enrolled \in [Course -> {"none", "open", "completed"}] /\ purchased \in [Bundle -> {"none", "open", "completed"}]
  BY DEF ProgressInit
<1> QED
  BY <1>1, <1>2, <1>3, <1>4 DEF ProgressInit, CredentialInit, Typed

LEMMA TypedStep == Typed /\ ProgressNext => Typed'
<1> SUFFICES ASSUME Typed, ProgressNext PROVE Typed'
  OBVIOUS
<1>1. ASSUME NEW t \in Task, NEW next \in TaskState, Goto(t, next)
      PROVE  task' \in [Task -> TaskState]
  BY <1>1, Moves DEF Typed
<1>2. ASSUME NEW t \in Task, Finish(t) PROVE task' \in [Task -> TaskState]
  BY <1>1, <1>2 DEF Finish, TaskState
<1>3. ASSUME NEW t \in Task, task[t].at \in IssueAt, Return(t) PROVE task' \in [Task -> TaskState]
  BY <1>1, <1>3, Returned
\* An issuing handler whose position alone changes.
<1>4. ASSUME NEW t \in Task, task[t].at \in IssueAt, NEW at \in IssueAt, Goto(t, [task[t] EXCEPT !.at = at])
      PROVE  task' \in [Task -> TaskState]
  <2>1. task[t] \in ForCourse \cup ForBundle
    BY <1>4, StateForms DEF Typed
  <2>2. [task[t] EXCEPT !.at = at] \in ForCourse \cup ForBundle
    BY <1>4, <2>1 DEF ForCourse, ForBundle
  <2> QED
    BY <1>1, <1>4, <2>2 DEF TaskState
<1>5. ASSUME CredentialNext, UNCHANGED progressVars PROVE Typed'
  <2>1. PICK t \in Task :
          \/ SubmitKyc(t) \/ SaveKyc(t) \/ \E st \in {"pending", "approved", "rejected"} : KycWebhook(t, st)
          \/ \E c \in Course : RequestIssue(t, c)
          \/ FindCredential(t) \/ CheckKyc(t) \/ RecordOrFallBack(t) \/ MintCredentialViaHorizon(t)
          \/ MintReward(t) \/ SaveCredential(t)
          \/ Abort(t)
    BY <1>5 DEF CredentialNext
  <2>2. UNCHANGED <<progress, enrolled, purchased, everDone>>
    BY <1>5 DEF progressVars
  <2>3. CASE SubmitKyc(t) \/ \E st \in {"pending", "approved", "rejected"} : KycWebhook(t, st)
    <3>1. PICK st \in {"pending", "approved", "rejected"}, new \in BOOLEAN :
            Goto(t, [at |-> "kyc_save", status |-> st, new |-> new])
      BY <2>3 DEF SubmitKyc, KycWebhook
    <3>2. [at |-> "kyc_save", status |-> st, new |-> new] \in TaskState
      BY DEF InKyc, TaskState
    <3>3. task' \in [Task -> TaskState]
      BY <1>1, <3>1, <3>2
    <3>4. approvedOnce' \in BOOLEAN /\ UNCHANGED <<customer, rows, onLedger, fallbacks, rewarded, contended, faults>>
      BY <2>3 DEF SubmitKyc, KycWebhook, Typed, issueVars
    <3> QED
      BY <2>2, <3>3, <3>4 DEF Typed
  <2>4. CASE SaveKyc(t)
    <3>1. task[t] \in InKyc
      BY <2>4, StateForms DEF SaveKyc, Typed
    <3>2. customer' \in {"none", "pending", "approved", "rejected"}
      BY <2>4, <3>1 DEF SaveKyc, Typed, InKyc
    <3>3. task' \in [Task -> TaskState]
      BY <1>2, <2>4 DEF SaveKyc
    <3> QED
      BY <2>2, <2>4, <3>2, <3>3 DEF SaveKyc, Typed, issueVars
  <2>5. CASE \E c \in Course : RequestIssue(t, c)
    <3>1. PICK c \in Course : RequestIssue(t, c)
      BY <2>5
    <3>2. [at |-> "find", subject |-> c, from |-> "other"] \in TaskState
      BY DEF ForCourse, TaskState, IssueAt
    <3>3. task' \in [Task -> TaskState]
      BY <1>1, <3>1, <3>2 DEF RequestIssue
    <3> QED
      BY <2>2, <3>1, <3>3 DEF RequestIssue, Typed, kycVars
  <2>6. CASE FindCredential(t)
    <3>1. task' \in [Task -> TaskState]
      BY <1>3, <1>4, <2>6 DEF FindCredential, IssueAt
    <3>2. contended' \subseteq Subject
      <4>1. task[t].subject \in Subject
        BY <2>6, StateForms, Subjects DEF FindCredential, IssueAt, Typed, ForCourse, ForBundle
      <4> QED
        BY <2>6, <4>1 DEF FindCredential, Typed
    <3> QED
      BY <2>2, <2>6, <3>1, <3>2 DEF FindCredential, Typed, kycVars
  <2>7. CASE CheckKyc(t)
    <3>1. task' \in [Task -> TaskState]
      BY <1>2, <1>4, <2>7 DEF CheckKyc, IssueAt
    <3> QED
      BY <2>2, <2>7, <3>1 DEF CheckKyc, Typed, kycVars, issueVars
  <2>8. CASE RecordOrFallBack(t) \/ MintCredentialViaHorizon(t)
    <3>1. task' \in [Task -> TaskState]
      BY <1>2, <1>4, <2>8 DEF RecordOrFallBack, MintCredentialViaHorizon, Throws, IssueAt
    <3>2. onLedger' \in [Subject -> 0..2] /\ fallbacks' \in [Subject -> 0..2] /\ faults' \in Nat
      BY <2>8, Counts DEF RecordOrFallBack, MintCredentialViaHorizon, Throws, Typed
    <3> QED
      BY <2>2, <2>8, <3>1, <3>2 DEF RecordOrFallBack, MintCredentialViaHorizon, Typed, kycVars
  <2>9. CASE MintReward(t)
    <3>1. task' \in [Task -> TaskState]
      BY <1>4, <2>9 DEF MintReward, IssueAt
    <3>2. rewarded' \subseteq Subject
      <4>1. task[t].subject \in Subject
        BY <2>9, StateForms, Subjects DEF MintReward, IssueAt, Typed, ForCourse, ForBundle
      <4> QED
        BY <2>9, <4>1 DEF MintReward, Typed
    <3> QED
      BY <2>2, <2>9, <3>1, <3>2 DEF MintReward, Typed, kycVars
  <2>10. CASE SaveCredential(t)
    <3>1. task' \in [Task -> TaskState]
      BY <1>3, <2>10 DEF SaveCredential, IssueAt
    <3>2. rows' \in [Subject -> 0..2]
      <4>1. rows \in [Subject -> 0..2] /\ rows' = [rows EXCEPT ![task[t].subject] = More(@)]
        BY <2>10 DEF SaveCredential, Typed
      <4>2. task[t].subject \in Subject
        BY <2>10, StateForms, Subjects DEF SaveCredential, IssueAt, Typed, ForCourse, ForBundle
      <4>3. More(rows[task[t].subject]) \in 0..2
        BY <4>1, <4>2, Counts
      <4> QED
        BY <4>1, <4>3
    <3> QED
      BY <2>2, <2>10, <3>1, <3>2 DEF SaveCredential, Typed, kycVars
  <2>11. CASE Abort(t)
    BY <1>2, <2>2, <2>11 DEF Abort, Typed, kycVars, issueVars
  <2> QED
    BY <2>1, <2>3, <2>4, <2>5, <2>6, <2>7, <2>8, <2>9, <2>10, <2>11
<1>6. ASSUME NEW t \in Task, NEW c \in Course, NEW full \in BOOLEAN, Record(t, c, full) PROVE Typed'
  <2>1. PICK r \in RowId \cup {0}, was \in {"none", "open", "done"} :
          Goto(t, [at |-> "record", course |-> c, full |-> full, row |-> r, was |-> was])
    <3>1. PICK r \in RowId \cup {0} :
            /\ r # 0 => r \in RowId
            /\ Goto(t, [at |-> "record", course |-> c, full |-> full, row |-> r,
                        was |-> IF r = 0 THEN "open" ELSE progress[c][r]])
      BY <1>6 DEF Record
    <3> DEFINE was == IF r = 0 THEN "open" ELSE progress[c][r]
    <3>2. was \in {"none", "open", "done"}
      BY <3>1 DEF Typed
    <3> QED
      BY <3>1, <3>2
  <2>2. [at |-> "record", course |-> c, full |-> full, row |-> r, was |-> was] \in TaskState
    BY DEF InRecord, TaskState
  <2>3. task' \in [Task -> TaskState]
    BY <1>1, <2>1, <2>2
  <2> QED
    BY <1>6, <2>3 DEF Record, Typed, kycVars, issueVars
<1>7. ASSUME NEW t \in Task, SaveProgress(t) PROVE Typed'
  <2>1. task[t] \in InRecord
    BY <1>7, StateForms DEF SaveProgress, Typed
  <2>2. task[t].course \in Course /\ task[t].was \in {"none", "open", "done"}
    BY <2>1 DEF InRecord
  <2>3. progress' \in [Course -> [RowId -> {"none", "open", "done"}]]
    BY <1>7, <2>2 DEF SaveProgress, Typed
  <2>4. [at |-> "find_bundles", course |-> task[t].course] \in TaskState
    BY <2>2 DEF AtCourse, TaskState
  <2>5. task' \in [Task -> TaskState] /\ everDone' \subseteq Course
    BY <1>1, <1>2, <1>7, <2>2, <2>4 DEF SaveProgress, Typed
  <2> QED
    BY <1>7, <2>3, <2>5 DEF SaveProgress, Typed, kycVars, issueVars
<1>8. ASSUME NEW t \in Task, FindBundles(t) PROVE Typed'
  <2>1. task[t] \in AtCourse
    BY <1>8, StateForms DEF FindBundles, Typed
  <2> DEFINE next == [at |-> "bundles", course |-> task[t].course,
                      todo |-> {b \in Bundle : purchased[b] = "open" /\ task[t].course \in CoursesOf[b]}]
  <2>2. next \in InLoop /\ Goto(t, next)
    BY <1>8, <2>1 DEF FindBundles, AtCourse, InLoop
  <2>3. task' \in [Task -> TaskState]
    BY <1>1, <2>2 DEF TaskState
  <2> QED
    BY <1>8, <2>3 DEF FindBundles, Typed, kycVars, issueVars, progressVars
<1>9. ASSUME NEW t \in Task, NextBundle(t) PROVE Typed'
  <2>1. task[t] \in InLoop
    BY <1>9, StateForms DEF NextBundle, Typed
  <2>2. task' \in [Task -> TaskState]
    <3>1. CASE task[t].todo = {}
      <4>1. [at |-> "find", subject |-> task[t].course, from |-> "progress"] \in TaskState
        BY <2>1 DEF InLoop, ForCourse, IssueAt, TaskState
      <4> QED
        BY <1>1, <1>9, <3>1, <4>1 DEF NextBundle
    <3>2. CASE task[t].todo # {}
      <4>1. PICK b \in task[t].todo :
              Goto(t, [at |-> "save_bundle", bundle |-> b, course |-> task[t].course, todo |-> task[t].todo \ {b}])
                \/ Goto(t, [task[t] EXCEPT !.todo = @ \ {b}])
        BY <1>9, <3>2 DEF NextBundle
      <4>2. [at |-> "save_bundle", bundle |-> b, course |-> task[t].course, todo |-> task[t].todo \ {b}] \in InSave
        BY <2>1, <4>1 DEF InLoop, InSave
      <4>3. [task[t] EXCEPT !.todo = @ \ {b}] \in InLoop
        BY <2>1 DEF InLoop
      <4> QED
        BY <1>1, <4>1, <4>2, <4>3 DEF TaskState
    <3> QED
      BY <3>1, <3>2
  <2> QED
    BY <1>9, <2>2 DEF NextBundle, Typed, kycVars, issueVars, progressVars
<1>10. ASSUME NEW t \in Task, SaveBundle(t) PROVE Typed'
  <2>1. task[t] \in InSave
    BY <1>10, StateForms DEF SaveBundle, Typed
  <2>2. [at |-> "find", subject |-> task[t].bundle, from |-> "bundle", course |-> task[t].course,
         todo |-> task[t].todo] \in ForBundle
    BY <2>1 DEF InSave, ForBundle, IssueAt
  <2>3. task' \in [Task -> TaskState] /\ purchased' \in [Bundle -> {"none", "open", "completed"}]
    BY <1>1, <1>10, <2>2 DEF SaveBundle, TaskState, Typed
  <2> QED
    BY <1>10, <2>3 DEF SaveBundle, Typed, kycVars, issueVars
<1>11. ASSUME NEW t \in Task, Announce(t) PROVE Typed'
  BY <1>2, <1>11 DEF Announce, Typed, kycVars, issueVars
<1>12. ASSUME NEW t \in Task, NEW b \in Bundle, Purchase(t, b) PROVE Typed'
  <2>1. [at |-> "purchase", bundle |-> b] \in TaskState
    BY DEF InPurchase, TaskState
  <2>2. task' \in [Task -> TaskState]
    BY <1>1, <1>12, <2>1 DEF Purchase
  <2> QED
    BY <1>12, <2>2 DEF Purchase, Typed, kycVars, issueVars
<1>13. ASSUME NEW t \in Task, InsertPurchase(t) PROVE Typed'
  <2>1. task[t] \in InPurchase
    BY <1>13, StateForms DEF InsertPurchase, Typed
  <2>2. [at |-> "enroll", todo |-> CoursesOf[task[t].bundle]] \in TaskState
    BY <2>1, ProgressAssumption DEF InPurchase, InEnroll, TaskState
  <2>3. task' \in [Task -> TaskState] /\ purchased' \in [Bundle -> {"none", "open", "completed"}]
    BY <1>1, <1>2, <1>13, <2>2 DEF InsertPurchase, Typed
  <2> QED
    BY <1>13, <2>3 DEF InsertPurchase, Typed, kycVars, issueVars
<1>14. ASSUME NEW t \in Task, EnrollNext(t) PROVE Typed'
  <2>1. task[t] \in InEnroll
    BY <1>14, StateForms DEF EnrollNext, Typed
  <2>2. CASE task[t].todo = {}
    BY <1>2, <1>14, <2>2 DEF EnrollNext, Typed, kycVars, issueVars
  <2>3. CASE task[t].todo # {}
    <3>1. PICK c \in task[t].todo : /\ Goto(t, [task[t] EXCEPT !.todo = @ \ {c}])
                                    /\ enrolled' = [enrolled EXCEPT ![c] = IF @ = "none" THEN "open" ELSE @]
      BY <1>14, <2>3 DEF EnrollNext
    <3>2. [task[t] EXCEPT !.todo = @ \ {c}] \in InEnroll
      BY <2>1 DEF InEnroll
    <3>3. task' \in [Task -> TaskState] /\ enrolled' \in [Course -> {"none", "open", "completed"}]
      BY <1>1, <3>1, <3>2 DEF TaskState, Typed
    <3> QED
      BY <1>14, <3>3 DEF EnrollNext, Typed, kycVars, issueVars
  <2> QED
    BY <2>2, <2>3
<1>15. ASSUME NEW c \in Course, MarkCompleted(c) PROVE Typed'
  BY <1>15 DEF MarkCompleted, Typed, credentialVars, kycVars, issueVars
<1> QED
  BY <1>5, <1>6, <1>7, <1>8, <1>9, <1>10, <1>11, <1>12, <1>13, <1>14, <1>15 DEF ProgressNext

----------------------------------------------------------------------------
(* What a handler still has to do for a course or a bundle.                *)

OwesCourse(x, c) ==
  \/ x.at \in {"find_bundles", "bundles", "save_bundle"} /\ x.course = c
  \/ x.at \in IssueAt /\ x.subject = c
  \/ x.at \in IssueAt /\ x.from = "bundle" /\ x.course = c
OwesBundle(x, b) == x.at \in IssueAt /\ x.subject = b
OwesEnroll(x, c) == x.at = "enroll" /\ c \in x.todo

BundlesEnrolled ==
  \A b \in Bundle : purchased[b] # "none" =>
    \A c \in CoursesOf[b] : enrolled[c] # "none" \/ \E t \in Task : OwesEnroll(task[t], c)
BundlesCertified ==
  \A b \in Bundle : purchased[b] = "completed" => rows[b] > 0 \/ \E t \in Task : OwesBundle(task[t], b)
CoursesCertified ==
  \A c \in everDone \ KycCourse : rows[c] > 0 \/ \E t \in Task : OwesCourse(task[t], c)

\* Only courses with a gate wait at it, and only bundles that were purchased
\* are looked at.
Entitled(x) ==
  /\ x.at = "gate" => x.subject \in KycCourse
  /\ x.at \in {"bundles", "save_bundle"} => \A b \in x.todo : purchased[b] # "none"
  /\ x.at = "save_bundle" => purchased[x.bundle] # "none"
  /\ x.at \in IssueAt => (x.from = "bundle" => \A b \in x.todo : purchased[b] # "none")

PromiseInv == (\A t \in Task : Entitled(task[t])) /\ (faults = 0 => BundlesEnrolled /\ BundlesCertified /\ CoursesCertified)

\* A step of t that keeps what was promised: what t owed is done or still
\* owed by t, and so is what the step promises.
Handoff(t) ==
  /\ \A u \in Task \ {t} : task'[u] = task[u]
  /\ Entitled(task[t])' /\ \A b \in Bundle : purchased[b] # "none" => purchased'[b] # "none"
  /\ \A s \in Subject : rows[s] > 0 => rows'[s] > 0
  /\ \A c \in Course : enrolled[c] # "none" => enrolled'[c] # "none"
  /\ \A c \in Course \ KycCourse : OwesCourse(task[t], c) => rows'[c] > 0 \/ OwesCourse(task'[t], c)
  /\ \A b \in Bundle : OwesBundle(task[t], b) => rows'[b] > 0 \/ OwesBundle(task'[t], b)
  /\ \A c \in Course : OwesEnroll(task[t], c) => enrolled'[c] # "none" \/ OwesEnroll(task'[t], c)
  /\ \A c \in everDone' : c \in everDone \/ OwesCourse(task'[t], c)
  /\ \A b \in Bundle : purchased'[b] = "completed" => purchased[b] = "completed" \/ OwesBundle(task'[t], b)
  /\ \A b \in Bundle : purchased'[b] # "none" =>
       purchased[b] # "none" \/ \A c \in CoursesOf[b] : OwesEnroll(task'[t], c)

LEMMA HandoffKeeps ==
  ASSUME Typed, Typed', PromiseInv, NEW t \in Task, Handoff(t), faults' = 0 => faults = 0
  PROVE  PromiseInv'
<1>1. ASSUME NEW u \in Task PROVE Entitled(task[u])'
  <2>1. CASE u = t
    BY <2>1 DEF Handoff
  <2>2. CASE u # t
    <3>1. task'[u] = task[u] /\ Entitled(task[u])
      BY <2>2 DEF Handoff, PromiseInv
    <3>2. task[u] \in TaskState
      BY DEF Typed
    <3>3. /\ task[u].at = "bundles" => task[u].todo \subseteq Bundle
          /\ task[u].at = "save_bundle" => task[u].todo \subseteq Bundle /\ task[u].bundle \in Bundle
      BY <3>2, StateForms DEF InLoop, InSave
    <3>4. task[u].at \in IssueAt => (task[u].from = "bundle" => task[u].todo \subseteq Bundle)
      BY <3>2, StateForms DEF ForCourse, ForBundle
    <3> QED
      BY <3>1, <3>3, <3>4 DEF Handoff, Entitled
  <2> QED
    BY <2>1, <2>2
<1> SUFFICES ASSUME faults' = 0 PROVE BundlesEnrolled' /\ BundlesCertified' /\ CoursesCertified'
  BY <1>1 DEF PromiseInv
<1>2. BundlesEnrolled /\ BundlesCertified /\ CoursesCertified
  BY DEF PromiseInv
<1>3. ASSUME NEW b \in Bundle, purchased'[b] # "none", NEW c \in CoursesOf[b], enrolled'[c] = "none"
      PROVE  \E u \in Task : OwesEnroll(task'[u], c)
  <2>1. c \in Course
    BY ProgressAssumption
  <2>2. CASE OwesEnroll(task'[t], c)
    BY <2>2
  <2>3. CASE ~OwesEnroll(task'[t], c)
    <3>1. purchased[b] # "none" /\ enrolled[c] = "none" /\ ~OwesEnroll(task[t], c)
      BY <1>3, <2>1, <2>3 DEF Handoff
    <3>2. PICK u \in Task : OwesEnroll(task[u], c)
      BY <1>2, <3>1 DEF BundlesEnrolled
    <3>3. u # t /\ task'[u] = task[u]
      BY <3>1, <3>2 DEF Handoff
    <3> QED
      BY <3>2, <3>3
  <2> QED
    BY <2>2, <2>3
<1>4. ASSUME NEW b \in Bundle, purchased'[b] = "completed", ~(rows'[b] > 0)
      PROVE  \E u \in Task : OwesBundle(task'[u], b)
  <2>1. CASE OwesBundle(task'[t], b)
    BY <2>1
  <2>2. CASE ~OwesBundle(task'[t], b)
    <3>1. purchased[b] = "completed" /\ ~(rows[b] > 0) /\ ~OwesBundle(task[t], b)
      BY <1>4, <2>2, Subjects DEF Handoff
    <3>2. PICK u \in Task : OwesBundle(task[u], b)
      BY <1>2, <3>1 DEF BundlesCertified
    <3>3. u # t /\ task'[u] = task[u]
      BY <3>1, <3>2 DEF Handoff
    <3> QED
      BY <3>2, <3>3
  <2> QED
    BY <2>1, <2>2
<1>5. ASSUME NEW c \in everDone' \ KycCourse, ~(rows'[c] > 0)
      PROVE  \E u \in Task : OwesCourse(task'[u], c)
  <2>1. c \in Course
    BY <1>5 DEF Typed
  <2>2. CASE OwesCourse(task'[t], c)
    BY <2>2
  <2>3. CASE ~OwesCourse(task'[t], c)
    <3>1. c \in everDone /\ ~(rows[c] > 0) /\ ~OwesCourse(task[t], c)
      BY <1>5, <2>1, <2>3, Subjects DEF Handoff
    <3>2. PICK u \in Task : OwesCourse(task[u], c)
      BY <1>2, <1>5, <3>1 DEF CoursesCertified
    <3>3. u # t /\ task'[u] = task[u]
      BY <3>1, <3>2 DEF Handoff
    <3> QED
      BY <3>2, <3>3
  <2> QED
    BY <2>2, <2>3
<1> QED
  BY <1>3, <1>4, <1>5 DEF BundlesEnrolled, BundlesCertified, CoursesCertified

\* Where a handler owes nothing, whatever it does keeps what was promised.
LEMMA NothingOwed ==
  ASSUME Typed, NEW t \in Task, NEW next \in TaskState, Goto(t, next), next.at \notin {"gate", "bundles", "save_bundle"},
         next.at \in IssueAt => next.from # "bundle",
         task[t].at \in {"idle", "kyc_save", "record", "purchase", "announce"},
         UNCHANGED <<rows, enrolled, purchased, everDone>>
  PROVE  Handoff(t)
BY Moves DEF Typed, Handoff, Entitled, OwesCourse, OwesBundle, OwesEnroll, IssueAt

\* Inside issue and issueBundle the subject, the caller and what it goes on
\* with stay the same.
LEMMA StillIssuing ==
  ASSUME Typed, PromiseInv, NEW t \in Task, task[t].at \in IssueAt, NEW at \in IssueAt,
         Goto(t, [task[t] EXCEPT !.at = at]), at = "gate" => task[t].subject \in KycCourse,
         UNCHANGED <<rows, enrolled, purchased, everDone>>
  PROVE  Handoff(t)
<1>1. task[t] \in ForCourse \cup ForBundle
  BY StateForms DEF Typed
<1>2. [task[t] EXCEPT !.at = at] \in ForCourse \cup ForBundle
  BY <1>1 DEF ForCourse, ForBundle
<1>3. task'[t] = [task[t] EXCEPT !.at = at] /\ \A u \in Task \ {t} : task'[u] = task[u]
  BY <1>2, Moves DEF Typed, TaskState
<1>4. task'[t].at = at /\ task'[t].subject = task[t].subject /\ task'[t].from = task[t].from
  BY <1>1, <1>3 DEF ForCourse, ForBundle
<1>5. task[t].from = "bundle" => task'[t].course = task[t].course /\ task'[t].todo = task[t].todo
  BY <1>1, <1>3 DEF ForCourse, ForBundle
<1>6. Entitled(task[t])
  BY DEF PromiseInv
<1> QED
  BY <1>3, <1>4, <1>5, <1>6 DEF Entitled, Handoff, OwesCourse, OwesBundle, OwesEnroll, IssueAt

\* A handler returns from issue with the row there.
LEMMA ReturnedWithRow ==
  ASSUME Typed, PromiseInv, NEW t \in Task, task[t].at \in IssueAt, Return(t), rows'[task[t].subject] > 0,
         \A s \in Subject : rows[s] > 0 => rows'[s] > 0, UNCHANGED <<enrolled, purchased, everDone>>
  PROVE  Handoff(t)
<1>1. PICK next \in TaskState :
        /\ Goto(t, next) /\ next.at \in {"announce", "bundles", "idle"}
        /\ task[t].from = "bundle" => next.at = "bundles" /\ next.course = task[t].course
        /\ next.at = "bundles" => task[t].from = "bundle" /\ next.todo = task[t].todo
  BY Returned
<1>2. task'[t] = next /\ \A u \in Task \ {t} : task'[u] = task[u]
  BY <1>1, Moves DEF Typed
<1>3. Entitled(task[t])
  BY DEF PromiseInv
<1> QED
  BY <1>1, <1>2, <1>3 DEF Entitled, Handoff, OwesCourse, OwesBundle, OwesEnroll, IssueAt

LEMMA PromiseStep == Typed /\ Typed' /\ PromiseInv /\ ProgressNext => PromiseInv'
<1> SUFFICES ASSUME Typed, Typed', PromiseInv, ProgressNext PROVE PromiseInv'
  OBVIOUS
<1>1. ASSUME NEW t \in Task, Handoff(t), UNCHANGED faults PROVE PromiseInv'
  BY <1>1, HandoffKeeps
\* A fault ends the handler, and nothing is promised any more.
<1>2. ASSUME NEW t \in Task, Finish(t), faults' = faults + 1, UNCHANGED purchased PROVE PromiseInv'
  <2>1. task'[t] = Idle /\ \A u \in Task \ {t} : task'[u] = task[u]
    BY <1>2, Moves DEF Finish, Typed, TaskState
  <2>2. ASSUME NEW u \in Task, UNCHANGED purchased PROVE Entitled(task[u])'
    BY <2>1, <2>2 DEF PromiseInv, Entitled, Idle, IssueAt
  <2> QED
    BY <1>2, <2>2 DEF PromiseInv, Typed
<1>3. ASSUME CredentialNext, UNCHANGED progressVars PROVE PromiseInv'
  <2>1. PICK t \in Task :
          \/ SubmitKyc(t) \/ SaveKyc(t) \/ \E st \in {"pending", "approved", "rejected"} : KycWebhook(t, st)
          \/ \E c \in Course : RequestIssue(t, c)
          \/ FindCredential(t) \/ CheckKyc(t) \/ RecordOrFallBack(t) \/ MintCredentialViaHorizon(t)
          \/ MintReward(t) \/ SaveCredential(t)
          \/ Abort(t)
    BY <1>3 DEF CredentialNext
  <2>2. UNCHANGED <<enrolled, purchased, everDone>>
    BY <1>3 DEF progressVars
  <2>3. Idle \in TaskState /\ Idle.at = "idle"
    BY DEF TaskState, Idle
  <2>4. CASE SubmitKyc(t) \/ \E st \in {"pending", "approved", "rejected"} : KycWebhook(t, st)
    <3>1. PICK st \in {"pending", "approved", "rejected"}, new \in BOOLEAN :
            Goto(t, [at |-> "kyc_save", status |-> st, new |-> new])
      BY <2>4 DEF SubmitKyc, KycWebhook
    <3>2. [at |-> "kyc_save", status |-> st, new |-> new] \in TaskState
      BY DEF InKyc, TaskState
    <3>3. task[t].at = "idle" /\ UNCHANGED <<rows, faults>>
      BY <2>3, <2>4 DEF SubmitKyc, KycWebhook, issueVars
    <3> QED
      BY <1>1, <2>2, <3>1, <3>2, <3>3, NothingOwed DEF IssueAt
  <2>5. CASE SaveKyc(t)
    <3>1. Goto(t, Idle) /\ task[t].at = "kyc_save" /\ UNCHANGED <<rows, faults>>
      BY <2>5 DEF SaveKyc, Finish, issueVars
    <3> QED
      BY <1>1, <2>2, <2>3, <3>1, NothingOwed DEF IssueAt
  <2>6. CASE \E c \in Course : RequestIssue(t, c)
    <3>1. PICK c \in Course : Goto(t, [at |-> "find", subject |-> c, from |-> "other"])
      BY <2>6 DEF RequestIssue
    <3>2. [at |-> "find", subject |-> c, from |-> "other"] \in TaskState
      BY DEF ForCourse, TaskState, IssueAt
    <3>3. task[t].at = "idle" /\ UNCHANGED <<rows, faults>>
      BY <2>3, <2>6 DEF RequestIssue
    <3> QED
      BY <1>1, <2>2, <3>1, <3>2, <3>3, NothingOwed DEF IssueAt
  <2>7. CASE FindCredential(t)
    <3>1. task[t].at \in IssueAt /\ UNCHANGED <<rows, faults>>
      BY <2>7 DEF FindCredential, IssueAt
    <3>2. CASE rows[task[t].subject] > 0
      BY <1>1, <2>2, <2>7, <3>1, <3>2, ReturnedWithRow DEF FindCredential
    <3>3. CASE ~(rows[task[t].subject] > 0)
      BY <1>1, <2>2, <2>7, <3>1, <3>3, StillIssuing DEF FindCredential, IssueAt
    <3> QED
      BY <3>2, <3>3
  <2>8. CASE CheckKyc(t)
    <3>1. task[t].at = "gate" /\ task[t].at \in IssueAt /\ UNCHANGED <<rows, faults>>
      BY <2>8 DEF CheckKyc, IssueAt, issueVars
    <3>2. CASE customer = "approved"
      BY <1>1, <2>2, <2>8, <3>1, <3>2, StillIssuing DEF CheckKyc, IssueAt
    <3>3. CASE customer # "approved"
      <4>1. task'[t] = Idle /\ \A u \in Task \ {t} : task'[u] = task[u]
        BY <2>3, <2>8, <3>3, Moves DEF CheckKyc, Finish, Typed
      <4>2. task[t].subject \in KycCourse
        BY <3>1 DEF PromiseInv, Entitled
      <4>3. task[t] \in ForCourse
        BY <3>1, <4>2, StateForms, Subjects DEF Typed, ForBundle
      <4>4. ~(task[t].from = "bundle") /\ \A b \in Bundle : b # task[t].subject
        BY <4>2, <4>3, Subjects DEF ForCourse
      <4>5. Handoff(t)
        BY <2>2, <2>3, <3>1, <4>1, <4>2, <4>4 DEF Entitled, Handoff, OwesCourse, OwesBundle, OwesEnroll, IssueAt
      <4> QED
        BY <1>1, <3>1, <4>5
    <3> QED
      BY <3>2, <3>3
  <2>9. CASE RecordOrFallBack(t) \/ MintCredentialViaHorizon(t)
    <3>1. task[t].at \in IssueAt /\ UNCHANGED rows
      BY <2>9 DEF RecordOrFallBack, MintCredentialViaHorizon, IssueAt
    <3>2. CASE Finish(t) /\ faults' = faults + 1
      BY <1>2, <2>2, <3>2
    <3>3. CASE UNCHANGED faults /\ \E at \in {"horizon", "reward"} : Goto(t, [task[t] EXCEPT !.at = at])
      BY <1>1, <2>2, <3>1, <3>3, StillIssuing DEF IssueAt
    <3> QED
      BY <2>9, <3>2, <3>3 DEF RecordOrFallBack, MintCredentialViaHorizon, Throws
  <2>10. CASE MintReward(t)
    BY <1>1, <2>2, <2>10, StillIssuing DEF MintReward, IssueAt
  <2>11. CASE SaveCredential(t)
    <3>1. task[t].at \in IssueAt /\ Return(t) /\ UNCHANGED faults
      BY <2>11 DEF SaveCredential, IssueAt
    <3>2. rows \in [Subject -> 0..2] /\ rows' = [rows EXCEPT ![task[t].subject] = More(@)]
      BY <2>11 DEF SaveCredential, Typed
    <3>3. task[t].subject \in Subject
      BY <3>1, StateForms, Subjects DEF Typed, ForCourse, ForBundle
    <3>4. rows'[task[t].subject] > 0 /\ \A s \in Subject : rows[s] > 0 => rows'[s] > 0
      <4>1. More(rows[task[t].subject]) > 0
        BY <3>2, <3>3, Counts
      <4> QED
        BY <3>2, <3>3, <4>1
    <3> QED
      BY <1>1, <2>2, <3>1, <3>4, ReturnedWithRow
  <2>12. CASE Abort(t)
    BY <1>2, <2>2, <2>12 DEF Abort
  <2> QED
    BY <2>1, <2>4, <2>5, <2>6, <2>7, <2>8, <2>9, <2>10, <2>11, <2>12
<1> Idle \in TaskState /\ Idle.at = "idle"
  BY DEF TaskState, Idle
<1>4. ASSUME NEW t \in Task, NEW c \in Course, NEW full \in BOOLEAN, Record(t, c, full) PROVE PromiseInv'
  <2>1. PICK r \in RowId \cup {0} :
          /\ r # 0 => r \in RowId
          /\ Goto(t, [at |-> "record", course |-> c, full |-> full, row |-> r,
                      was |-> IF r = 0 THEN "open" ELSE progress[c][r]])
    BY <1>4 DEF Record
  <2> DEFINE next == [at |-> "record", course |-> c, full |-> full, row |-> r,
                      was |-> IF r = 0 THEN "open" ELSE progress[c][r]]
  <2>2. next \in InRecord
    BY <2>1 DEF Typed, InRecord
  <2>3. task[t].at = "idle" /\ UNCHANGED <<rows, enrolled, purchased, everDone, faults>>
    BY <1>4 DEF Record, issueVars
  <2> QED
    BY <1>1, <2>1, <2>2, <2>3, NothingOwed DEF TaskState, IssueAt
<1>5. ASSUME NEW t \in Task, SaveProgress(t) PROVE PromiseInv'
  <2>1. task[t] \in InRecord /\ task[t].at = "record" /\ UNCHANGED <<rows, enrolled, purchased, faults>>
    BY <1>5, StateForms DEF SaveProgress, Typed, issueVars
  <2>2. CASE task[t].full
    <3> DEFINE next == [at |-> "find_bundles", course |-> task[t].course]
    <3>1. next \in TaskState /\ Goto(t, next) /\ everDone' = everDone \cup {task[t].course}
      BY <1>5, <2>1, <2>2 DEF SaveProgress, InRecord, AtCourse, TaskState
    <3>2. task'[t] = next /\ \A u \in Task \ {t} : task'[u] = task[u]
      BY <3>1, Moves DEF Typed
    <3>3. Handoff(t)
      BY <2>1, <3>1, <3>2 DEF Entitled, Handoff, OwesCourse, OwesBundle, OwesEnroll, IssueAt
    <3> QED
      BY <1>1, <2>1, <3>3
  <2>3. CASE ~task[t].full
    BY <1>1, <1>5, <2>1, <2>3, NothingOwed DEF SaveProgress, Finish, IssueAt
  <2> QED
    BY <2>2, <2>3
<1>6. ASSUME NEW t \in Task, FindBundles(t) PROVE PromiseInv'
  <2>1. task[t] \in AtCourse /\ task[t].at = "find_bundles" /\ UNCHANGED <<rows, faults, enrolled, purchased, everDone>>
    BY <1>6, StateForms DEF FindBundles, Typed, issueVars, progressVars
  <2> DEFINE next == [at |-> "bundles", course |-> task[t].course,
                      todo |-> {b \in Bundle : purchased[b] = "open" /\ task[t].course \in CoursesOf[b]}]
  <2>2. next \in InLoop /\ Goto(t, next)
    BY <1>6, <2>1 DEF FindBundles, AtCourse, InLoop
  <2>3. task'[t] = next /\ \A u \in Task \ {t} : task'[u] = task[u]
    BY <2>2, Moves DEF Typed, TaskState
  <2>4. Handoff(t)
    BY <2>1, <2>3 DEF Entitled, Handoff, OwesCourse, OwesBundle, OwesEnroll, IssueAt
  <2> QED
    BY <1>1, <2>1, <2>4
<1>7. ASSUME NEW t \in Task, NextBundle(t) PROVE PromiseInv'
  <2>1. task[t] \in InLoop /\ task[t].at = "bundles" /\ UNCHANGED <<rows, faults, enrolled, purchased, everDone>>
    BY <1>7, StateForms DEF NextBundle, Typed, issueVars, progressVars
  <2>2. PICK next \in TaskState :
          /\ Goto(t, next)
          /\ \/ /\ next.at = "find" /\ next.subject = task[t].course
                /\ next.from = "progress"
             \/ /\ next.at \in {"save_bundle", "bundles"} /\ next.course = task[t].course
                /\ next.todo \subseteq task[t].todo /\ (next.at = "save_bundle" => next.bundle \in task[t].todo)
    <3>1. CASE task[t].todo = {}
      <4> DEFINE next == [at |-> "find", subject |-> task[t].course, from |-> "progress"]
      <4>1. next \in TaskState
        BY <2>1 DEF InLoop, ForCourse, IssueAt, TaskState
      <4> QED
        BY <1>7, <3>1, <4>1 DEF NextBundle
    <3>2. CASE task[t].todo # {}
      <4>1. PICK b \in task[t].todo :
              Goto(t, [at |-> "save_bundle", bundle |-> b, course |-> task[t].course, todo |-> task[t].todo \ {b}])
                \/ Goto(t, [task[t] EXCEPT !.todo = @ \ {b}])
        BY <1>7, <3>2 DEF NextBundle
      <4> DEFINE saving == [at |-> "save_bundle", bundle |-> b, course |-> task[t].course, todo |-> task[t].todo \ {b}]
                 going == [task[t] EXCEPT !.todo = @ \ {b}]
      <4>2. saving \in InSave
        BY <2>1, <4>1 DEF InLoop, InSave
      <4>3. going \in InLoop /\ going.at = "bundles" /\ going.course = task[t].course /\ going.todo \subseteq task[t].todo
        BY <2>1 DEF InLoop
      <4>4. saving \in TaskState /\ going \in TaskState
        BY <4>2, <4>3 DEF TaskState
      <4> QED
        BY <4>1, <4>3, <4>4
    <3> QED
      BY <3>1, <3>2
  <2>3. task'[t] = next /\ \A u \in Task \ {t} : task'[u] = task[u]
    BY <2>2, Moves DEF Typed
  <2>4. Entitled(task[t])
    BY DEF PromiseInv
  <2>5. Handoff(t)
    BY <2>1, <2>2, <2>3, <2>4 DEF Entitled, Handoff, OwesCourse, OwesBundle, OwesEnroll, IssueAt
  <2> QED
    BY <1>1, <2>1, <2>5
<1>8. ASSUME NEW t \in Task, SaveBundle(t) PROVE PromiseInv'
  <2>1. /\ task[t] \in InSave /\ task[t].at = "save_bundle" /\ UNCHANGED <<rows, faults, enrolled, everDone>>
        /\ purchased' = [purchased EXCEPT ![task[t].bundle] = "completed"]
    BY <1>8, StateForms DEF SaveBundle, Typed, issueVars
  <2> DEFINE next == [at |-> "find", subject |-> task[t].bundle, from |-> "bundle",
                      course |-> task[t].course, todo |-> task[t].todo]
  <2>2. next \in ForBundle /\ Goto(t, next)
    BY <1>8, <2>1 DEF SaveBundle, InSave, ForBundle, IssueAt
  <2>3. task'[t] = next /\ \A u \in Task \ {t} : task'[u] = task[u]
    BY <2>2, Moves DEF Typed, TaskState
  <2>4. Entitled(task[t]) /\ task[t].bundle \in Bundle
    BY <2>1 DEF PromiseInv, InSave
  <2>5. /\ purchased'[task[t].bundle] = "completed" /\ purchased[task[t].bundle] # "none"
        /\ \A b \in Bundle \ {task[t].bundle} : purchased'[b] = purchased[b]
    BY <2>1, <2>4 DEF Entitled, Typed
  <2>6. task[t].todo \subseteq Bundle
    BY <2>1 DEF InSave
  <2>7. Handoff(t)
    BY <2>1, <2>3, <2>4, <2>5, <2>6 DEF Entitled, Handoff, OwesCourse, OwesBundle, OwesEnroll, IssueAt
  <2> QED
    BY <1>1, <2>1, <2>7
<1>9. ASSUME NEW t \in Task, Announce(t) PROVE PromiseInv'
  BY <1>1, <1>9, NothingOwed DEF Announce, Finish, issueVars, IssueAt
<1>10. ASSUME NEW t \in Task, NEW b \in Bundle, Purchase(t, b) PROVE PromiseInv'
  <2>1. [at |-> "purchase", bundle |-> b] \in TaskState
    BY DEF InPurchase, TaskState
  <2> QED
    BY <1>1, <1>10, <2>1, NothingOwed DEF Purchase, issueVars, IssueAt
<1>11. ASSUME NEW t \in Task, InsertPurchase(t) PROVE PromiseInv'
  <2>1. task[t] \in InPurchase /\ task[t].at = "purchase" /\ UNCHANGED <<rows, faults, enrolled, everDone>>
    BY <1>11, StateForms DEF InsertPurchase, Typed, issueVars
  <2> DEFINE b == task[t].bundle
             next == [at |-> "enroll", todo |-> CoursesOf[b]]
  <2>2. b \in Bundle /\ next \in TaskState
    BY <2>1, ProgressAssumption DEF InPurchase, InEnroll, TaskState
  <2>3. CASE purchased[b] = "none"
    <3>1. task'[t] = next /\ \A u \in Task \ {t} : task'[u] = task[u]
      BY <1>11, <2>2, <2>3, Moves DEF InsertPurchase, Typed
    <3>2. purchased' = [purchased EXCEPT ![b] = "open"]
      BY <1>11, <2>3 DEF InsertPurchase
    <3>3. purchased'[b] = "open" /\ \A d \in Bundle \ {b} : purchased'[d] = purchased[d]
      BY <2>2, <3>2 DEF Typed
    <3>4. Handoff(t)
      BY <2>1, <3>1, <3>3 DEF Entitled, Handoff, OwesCourse, OwesBundle, OwesEnroll, IssueAt
    <3> QED
      BY <1>1, <2>1, <3>4
  <2>4. CASE purchased[b] # "none"
    BY <1>1, <1>11, <2>1, <2>4, NothingOwed DEF InsertPurchase, Finish, IssueAt
  <2> QED
    BY <2>3, <2>4
<1>12. ASSUME NEW t \in Task, EnrollNext(t) PROVE PromiseInv'
  <2>1. task[t] \in InEnroll /\ task[t].at = "enroll" /\ UNCHANGED <<rows, faults, purchased, everDone>>
    BY <1>12, StateForms DEF EnrollNext, Typed, issueVars
  <2>2. CASE task[t].todo = {}
    <3>1. task'[t] = Idle /\ UNCHANGED enrolled /\ \A u \in Task \ {t} : task'[u] = task[u]
      BY <1>12, <2>2, Moves DEF EnrollNext, Finish, Typed
    <3>2. Handoff(t)
      BY <2>1, <2>2, <3>1 DEF Entitled, Handoff, OwesCourse, OwesBundle, OwesEnroll, IssueAt
    <3> QED
      BY <1>1, <2>1, <3>2
  <2>3. CASE task[t].todo # {}
    <3>1. PICK c \in task[t].todo : /\ Goto(t, [task[t] EXCEPT !.todo = @ \ {c}])
                                    /\ enrolled' = [enrolled EXCEPT ![c] = IF @ = "none" THEN "open" ELSE @]
      BY <1>12, <2>3 DEF EnrollNext
    <3> DEFINE next == [task[t] EXCEPT !.todo = @ \ {c}]
    <3>2. next \in InEnroll /\ next.todo = task[t].todo \ {c} /\ next.at = "enroll" /\ c \in Course
      BY <2>1, <3>1 DEF InEnroll
    <3>3. task'[t] = next /\ \A u \in Task \ {t} : task'[u] = task[u]
      BY <3>1, <3>2, Moves DEF Typed, TaskState
    <3>4. enrolled'[c] # "none" /\ \A d \in Course : enrolled[d] # "none" => enrolled'[d] # "none"
      BY <3>1, <3>2 DEF Typed
    <3>5. Handoff(t)
      BY <2>1, <3>2, <3>3, <3>4 DEF Entitled, Handoff, OwesCourse, OwesBundle, OwesEnroll, IssueAt
    <3> QED
      BY <1>1, <2>1, <3>5
  <2> QED
    BY <2>2, <2>3
<1>13. ASSUME NEW c \in Course, MarkCompleted(c) PROVE PromiseInv'
  <2>1. UNCHANGED <<task, rows, faults, purchased, everDone>>
    BY <1>13 DEF MarkCompleted, credentialVars, issueVars
  <2>2. \A d \in Course : enrolled[d] # "none" => enrolled'[d] # "none"
    BY <1>13 DEF MarkCompleted, Typed
  <2>3. \A b \in Bundle : CoursesOf[b] \subseteq Course
    BY ProgressAssumption
  <2> QED
    BY <2>1, <2>2, <2>3 DEF PromiseInv, Entitled, BundlesEnrolled, BundlesCertified, CoursesCertified
<1> QED
  BY <1>3, <1>4, <1>5, <1>6, <1>7, <1>8, <1>9, <1>10, <1>11, <1>12, <1>13 DEF ProgressNext

LEMMA PromiseStart == ProgressInit => PromiseInv
BY DEF ProgressInit, CredentialInit, PromiseInv, IssueAt, Entitled, BundlesEnrolled, BundlesCertified,
       CoursesCertified, Idle

LEMMA PromisesFollow == Typed /\ PromiseInv => PromisesAreKept
BY Subjects, ProgressAssumption
   DEF Typed, PromiseInv, BundlesEnrolled, BundlesCertified, CoursesCertified, PromisesAreKept,
       OwesCourse, OwesBundle, OwesEnroll, IssueAt, Idle

----------------------------------------------------------------------------
(* What the handlers that are under way know, and what is exact as long as *)
(* one at a time works on a subject and none fails.                        *)

Known(x) ==
  /\ x.at \in {"reward", "save"} => onLedger[x.subject] > 0
  /\ x.at = "kyc_save" => (x.status = "approved" => approvedOnce)
  /\ x.at \in {"issue", "horizon"} => (x.subject \in KycCourse => approvedOnce)
Kept(s) ==
  /\ rows[s] > 0 \/ s \in rewarded => onLedger[s] > 0
  /\ s \in KycCourse /\ (onLedger[s] > 0 \/ fallbacks[s] > 0) => approvedOnce
Alone(s) == s \notin contended => \A t, u \in Issuing(s) : t = u
BeforeTx == {"gate", "issue", "horizon"}
BeforeFallback == {"gate", "issue"}
Exact(s) ==
  s \notin contended /\ faults = 0 =>
    /\ rows[s] < 2
    /\ \A t \in Issuing(s) :
         /\ rows[s] = 0 /\ onLedger[s] = IF task[t].at \in BeforeTx THEN 0 ELSE 1
         /\ fallbacks[s] <= IF task[t].at \in BeforeFallback THEN 0 ELSE 1
    /\ Issuing(s) = {} => onLedger[s] = rows[s] /\ fallbacks[s] <= rows[s]

SoundInv ==
  /\ customer = "approved" => approvedOnce
  /\ \A t \in Task : Known(task[t])
  /\ \A s \in Subject : Kept(s) /\ Alone(s) /\ Exact(s)

\* A handler that works on no subject before and after its step, and leaves
\* the credentials alone.
LEMMA NotIssuing ==
  ASSUME Typed, SoundInv, NEW t \in Task, NEW next \in TaskState, Goto(t, next),
         task[t].at \notin {"gate", "issue", "horizon", "reward", "save"}, next.at \notin {"gate", "issue", "horizon", "reward", "save"},
         next.at = "kyc_save" => (next.status = "approved" => approvedOnce'),
         customer' = "approved" => approvedOnce', approvedOnce => approvedOnce', UNCHANGED <<rows, onLedger, fallbacks, rewarded, contended, faults>>
  PROVE  SoundInv'
<1>1. task'[t] = next /\ \A u \in Task \ {t} : task'[u] = task[u]
  BY Moves DEF Typed
<1>2. \A s : Issuing(s)' = Issuing(s)
  BY <1>1 DEF Issuing
<1>3. \A u \in Task : Known(task[u])'
  BY <1>1 DEF SoundInv, Known
<1>4. \A s : \A u \in Issuing(s) : task'[u] = task[u]
  BY <1>1 DEF Issuing
<1>5. \A s \in Subject : Kept(s)' /\ Alone(s)' /\ Exact(s)'
  BY <1>2, <1>4 DEF SoundInv, Kept, Alone, Exact
<1> QED
  BY <1>3, <1>5 DEF SoundInv

\* A handler stops working on its subject, with a fault.
LEMMA FaultKeepsSound ==
  ASSUME Typed, SoundInv, NEW t \in Task, Finish(t), faults' = faults + 1,
         UNCHANGED <<kycVars, rows, rewarded, contended>>,
         \A s \in Subject : onLedger[s] > 0 => onLedger'[s] > 0,
         \A s \in KycCourse : onLedger'[s] > 0 \/ fallbacks'[s] > 0 => approvedOnce
  PROVE  SoundInv'
<1>1. task'[t] = Idle /\ \A u \in Task \ {t} : task'[u] = task[u]
  BY Moves DEF Finish, Typed, TaskState
<1>2. \A s : Issuing(s)' \subseteq Issuing(s)
  BY <1>1 DEF Issuing, Idle
<1>3. ASSUME NEW u \in Task PROVE Known(task[u])'
  <2>1. CASE u = t
    BY <1>1, <2>1 DEF Known, Idle
  <2>2. CASE u # t
    <3>1. task'[u] = task[u] /\ Known(task[u]) /\ (task[u].at \in {"reward", "save"} => task[u].subject \in Subject)
      BY <1>1, <2>2, StateForms, Subjects DEF SoundInv, Typed, ForCourse, ForBundle, IssueAt
    <3> QED
      BY <3>1 DEF Known, kycVars
  <2> QED
    BY <2>1, <2>2
<1>4. faults' # 0
  BY DEF Typed
<1>5. \A s \in Subject : Kept(s)' /\ Alone(s)' /\ Exact(s)'
  BY <1>2, <1>4 DEF SoundInv, Kept, Alone, Exact, kycVars
<1> QED
  BY <1>3, <1>5 DEF SoundInv, kycVars

\* A handler of subject s goes to where it no longer works on it, s having
\* what it should.
LEMMA Leaves ==
  ASSUME Typed, SoundInv, NEW t \in Task, NEW next \in TaskState, Goto(t, next), NEW s \in Subject,
         task[t].at \in IssueAt, task[t].subject = s,
         next.at \in {"announce", "bundles", "idle"}, Kept(s)', rows'[s] < 2 \/ faults # 0 \/ s \in contended,
         \/ s \in contended \/ faults # 0 \/ task[t].at = "find"
         \/ onLedger[s] = rows'[s] /\ fallbacks[s] <= rows'[s],
         task[t].at = "find" => rows'[s] = rows[s],
         \A r \in Subject \ {s} : rows'[r] = rows[r],
         UNCHANGED <<kycVars, onLedger, fallbacks, rewarded, contended, faults>>
  PROVE  SoundInv'
<1>1. task'[t] = next /\ \A u \in Task \ {t} : task'[u] = task[u]
  BY Moves DEF Typed
<1>2. \A u \in Task : Known(task[u])'
  BY <1>1 DEF SoundInv, Known, kycVars
<1>3. ASSUME NEW r \in Subject \ {s} PROVE Kept(r)' /\ Alone(r)' /\ Exact(r)'
  <2>1. Issuing(r)' = Issuing(r) /\ \A u \in Issuing(r) : task'[u] = task[u]
    BY <1>1 DEF Issuing
  <2> QED
    BY <1>3, <2>1 DEF SoundInv, Kept, Alone, Exact, kycVars
<1>4. Issuing(s)' = Issuing(s) \ {t} /\ \A u \in Issuing(s)' : task'[u] = task[u]
  BY <1>1 DEF Issuing
<1>5. Alone(s)'
  BY <1>4 DEF SoundInv, Alone
<1>6. Exact(s)'
  <2>1. SUFFICES ASSUME s \notin contended, faults = 0 PROVE Exact(s)'
    BY DEF Exact
  <2>2. CASE task[t].at = "find"
    <3>1. t \notin Issuing(s) /\ Exact(s)
      BY <2>2 DEF Issuing, SoundInv
    <3> QED
      BY <1>4, <2>1, <2>2, <3>1 DEF Exact
  <2>3. CASE task[t].at # "find"
    <3>1. t \in Issuing(s) /\ Alone(s)
      BY <2>3 DEF Issuing, SoundInv, IssueAt
    <3>2. Issuing(s)' = {}
      BY <1>4, <2>1, <3>1 DEF Alone
    <3> QED
      BY <2>1, <2>3, <3>2 DEF Exact
  <2> QED
    BY <2>2, <2>3
<1> QED
  BY <1>2, <1>3, <1>5, <1>6 DEF SoundInv, kycVars

\* A handler goes on with its subject inside issue.
LEMMA GoesOn ==
  ASSUME Typed, SoundInv, NEW t \in Task, task[t].at \in IssueAt, NEW at \in {"gate", "issue", "horizon", "reward", "save"},
         Goto(t, [task[t] EXCEPT !.at = at])
  PROVE  LET s == task[t].subject IN
         /\ s \in Subject /\ task'[t].at = at /\ task'[t].subject = s
         /\ \A u \in Task \ {t} : task'[u] = task[u]
         /\ Issuing(s)' = Issuing(s) \cup {t} /\ \A r : r # s => Issuing(r)' = Issuing(r)
         /\ \A r : r # s => \A u \in Issuing(r) : task'[u] = task[u]
<1> DEFINE s == task[t].subject
<1>1. task[t] \in ForCourse \cup ForBundle
  BY StateForms DEF Typed
<1>2. [task[t] EXCEPT !.at = at] \in ForCourse \cup ForBundle
  BY <1>1 DEF ForCourse, ForBundle, IssueAt
<1>3. task'[t] = [task[t] EXCEPT !.at = at] /\ \A u \in Task \ {t} : task'[u] = task[u]
  BY <1>2, Moves DEF Typed, TaskState
<1>4. task'[t].at = at /\ task'[t].subject = s /\ s \in Subject
  BY <1>1, <1>3, Subjects DEF ForCourse, ForBundle
<1>5. Issuing(s)' = Issuing(s) \cup {t}
  BY <1>3, <1>4 DEF Issuing
<1>6. ASSUME NEW r, r # s PROVE Issuing(r)' = Issuing(r) /\ \A u \in Issuing(r) : task'[u] = task[u]
  <2>1. t \notin Issuing(r) /\ t \notin Issuing(r)'
    BY <1>4, <1>6 DEF Issuing
  <2> QED
    BY <1>3, <2>1 DEF Issuing
<1> QED
  BY <1>3, <1>4, <1>5, <1>6

LEMMA SoundStep == Typed /\ SoundInv /\ ProgressNext => SoundInv'
<1> SUFFICES ASSUME Typed, SoundInv, ProgressNext PROVE SoundInv'
  OBVIOUS
<1>1. Idle \in TaskState /\ Idle.at = "idle"
  BY DEF TaskState, Idle
<1>2. ASSUME NEW t \in Task, SubmitKyc(t) \/ \E st \in {"pending", "approved", "rejected"} : KycWebhook(t, st)
      PROVE  SoundInv'
  <2>1. PICK st \in {"pending", "approved", "rejected"}, new \in BOOLEAN :
          Goto(t, [at |-> "kyc_save", status |-> st, new |-> new]) /\ (st = "approved" => approvedOnce')
    BY <1>2 DEF SubmitKyc, KycWebhook
  <2>2. [at |-> "kyc_save", status |-> st, new |-> new] \in TaskState
    BY DEF InKyc, TaskState
  <2>3. task[t].at = "idle" /\ UNCHANGED <<customer, rows, onLedger, fallbacks, rewarded, contended, faults>>
    BY <1>1, <1>2 DEF SubmitKyc, KycWebhook, issueVars
  <2>4. approvedOnce => approvedOnce'
    BY <1>2 DEF SubmitKyc, KycWebhook
  <2>5. customer' = "approved" => approvedOnce'
    BY <2>3, <2>4 DEF SoundInv
  <2> QED
    BY <2>1, <2>2, <2>3, <2>4, <2>5, NotIssuing
<1>3. ASSUME NEW t \in Task, SaveKyc(t) PROVE SoundInv'
  <2>1. Goto(t, Idle) /\ task[t].at = "kyc_save" /\ UNCHANGED <<approvedOnce, issueVars, faults>>
    BY <1>3 DEF SaveKyc, Finish
  <2>2. customer' = "approved" => approvedOnce
    BY <1>3 DEF SaveKyc, SoundInv, Known
  <2> QED
    BY <1>1, <2>1, <2>2, NotIssuing DEF issueVars
<1>4. ASSUME NEW t \in Task, NEW c \in Course, RequestIssue(t, c) PROVE SoundInv'
  <2>1. [at |-> "find", subject |-> c, from |-> "other"] \in TaskState
    BY DEF ForCourse, TaskState, IssueAt
  <2> QED
    BY <1>1, <1>4, <2>1, NotIssuing DEF RequestIssue, kycVars, SoundInv
<1>5. ASSUME NEW t \in Task, FindCredential(t) PROVE SoundInv'
  <2> PICK s : s = task[t].subject
    OBVIOUS
  <2>1. task[t].at = "find" /\ task[t].at \in IssueAt /\ UNCHANGED <<kycVars, rows, onLedger, fallbacks, rewarded, faults>>
    BY <1>5 DEF FindCredential, IssueAt
  <2>2. s \in Subject
    BY <2>1, StateForms, Subjects DEF Typed, ForCourse, ForBundle
  <2>3. CASE rows[s] > 0
    <3>1. PICK next \in TaskState : Goto(t, next) /\ next.at \in {"announce", "bundles", "idle"}
      BY <1>5, <2>1, <2>3, Returned DEF FindCredential
    <3>2. UNCHANGED contended /\ Kept(s)' /\ (rows[s] < 2 \/ faults # 0 \/ s \in contended)
      BY <1>5, <2>1, <2>2, <2>3 DEF FindCredential, SoundInv, Kept, Exact, Typed, kycVars
    <3> QED
      BY <2>1, <2>2, <3>1, <3>2, Leaves
  <2>4. CASE ~(rows[s] > 0)
    <3>1. PICK at \in {"gate", "issue"} :
            Goto(t, [task[t] EXCEPT !.at = at]) /\ (at = "gate" <=> s \in KycCourse)
      BY <1>5, <2>4 DEF FindCredential
    <3>2. /\ task'[t].at = at /\ task'[t].subject = s
          /\ \A u \in Task \ {t} : task'[u] = task[u]
          /\ Issuing(s)' = Issuing(s) \cup {t} /\ \A r : r # s => Issuing(r)' = Issuing(r)
          /\ \A r : r # s => \A u \in Issuing(r) : task'[u] = task[u]
      BY <2>1, <3>1, GoesOn
    <3>3. rows[s] = 0 /\ contended' = IF Issuing(s) # {} THEN contended \cup {s} ELSE contended
      BY <1>5, <2>2, <2>4 DEF FindCredential, Typed
    <3>4. \A u \in Task : Known(task[u])'
      BY <2>1, <3>1, <3>2 DEF SoundInv, Known, kycVars
    <3>5. ASSUME NEW r \in Subject \ {s} PROVE Kept(r)' /\ Alone(r)' /\ Exact(r)'
      BY <2>1, <3>2, <3>3, <3>5 DEF SoundInv, Kept, Alone, Exact, kycVars
    <3>6. Kept(s)' /\ Alone(s)'
      BY <2>1, <2>2, <3>2, <3>3 DEF SoundInv, Kept, Alone, kycVars
    <3>7. Exact(s)'
      <4>1. SUFFICES ASSUME s \notin contended', faults = 0 PROVE Exact(s)'
        BY <2>1 DEF Exact
      <4>2. Issuing(s) = {} /\ s \notin contended /\ Issuing(s)' = {t}
        BY <3>2, <3>3, <4>1
      <4>3. onLedger[s] = 0 /\ fallbacks[s] <= 0
        BY <2>2, <3>3, <4>1, <4>2 DEF SoundInv, Exact
      <4> QED
        BY <2>1, <3>1, <3>2, <3>3, <4>2, <4>3 DEF Exact, BeforeTx, BeforeFallback
    <3> QED
      BY <2>1, <3>4, <3>5, <3>6, <3>7 DEF SoundInv, kycVars
  <2> QED
    BY <2>3, <2>4
<1>6. ASSUME NEW t \in Task, CheckKyc(t) PROVE SoundInv'
  <2> PICK s : s = task[t].subject
    OBVIOUS
  <2>1. task[t].at = "gate" /\ task[t].at \in IssueAt /\ UNCHANGED <<kycVars, issueVars, faults>>
    BY <1>6 DEF CheckKyc, IssueAt
  <2>2. s \in Subject /\ t \in Issuing(s)
    BY <2>1, StateForms, Subjects DEF Typed, ForCourse, ForBundle, Issuing
  <2>3. CASE customer = "approved"
    <3>1. Goto(t, [task[t] EXCEPT !.at = "issue"])
      BY <1>6, <2>3 DEF CheckKyc
    <3>2. /\ task'[t].at = "issue" /\ task'[t].subject = s
          /\ \A u \in Task \ {t} : task'[u] = task[u]
          /\ Issuing(s)' = Issuing(s) \cup {t} /\ \A r : r # s => Issuing(r)' = Issuing(r)
          /\ \A r : r # s => \A u \in Issuing(r) : task'[u] = task[u]
      BY <2>1, <3>1, GoesOn
    <3>3. \A u \in Task : Known(task[u])'
      BY <2>1, <2>3, <3>2 DEF SoundInv, Known, kycVars, issueVars
    <3>4. ASSUME NEW r \in Subject \ {s} PROVE Kept(r)' /\ Alone(r)' /\ Exact(r)'
      BY <2>1, <3>2, <3>4 DEF SoundInv, Kept, Alone, Exact, kycVars, issueVars
    <3>5. Kept(s)' /\ Alone(s)'
      BY <2>1, <2>2, <3>2 DEF SoundInv, Kept, Alone, kycVars, issueVars
    <3>6. Exact(s)'
      <4>1. Issuing(s)' = Issuing(s) /\ Exact(s)
        BY <2>2, <3>2 DEF SoundInv
      <4>2. \A u \in Issuing(s) :
              /\ (task'[u].at \in BeforeTx) = (task[u].at \in BeforeTx)
              /\ (task'[u].at \in BeforeFallback) = (task[u].at \in BeforeFallback)
        BY <2>1, <3>2 DEF Issuing, BeforeTx, BeforeFallback
      <4>3. UNCHANGED <<rows, onLedger, fallbacks, contended, faults>>
        BY <2>1 DEF issueVars
      <4> QED
        BY <4>1, <4>2, <4>3 DEF Exact
    <3> QED
      BY <2>1, <3>3, <3>4, <3>5, <3>6 DEF SoundInv, kycVars
  <2>4. CASE customer # "approved"
    <3>1. Goto(t, Idle) /\ UNCHANGED <<rows, onLedger, fallbacks, rewarded, contended>>
      BY <1>6, <2>1, <2>4 DEF CheckKyc, Finish, issueVars
    <3>2. Kept(s)'
      BY <2>1, <2>2, <3>1 DEF SoundInv, Kept, kycVars
    <3>3. s \in contended \/ faults # 0 \/ (rows[s] = 0 /\ onLedger[s] = 0 /\ fallbacks[s] <= 0)
      BY <2>1, <2>2 DEF SoundInv, Exact, BeforeTx, BeforeFallback
    <3> QED
      BY <1>1, <2>1, <2>2, <3>1, <3>2, <3>3, Leaves
  <2> QED
    BY <2>3, <2>4
\* The two steps of issueCredential, with n transactions of a returned hash
\* and m of the fallback counted for its subject.
<1>7. ASSUME NEW t \in Task, RecordOrFallBack(t) \/ MintCredentialViaHorizon(t) PROVE SoundInv'
  <2> PICK s : s = task[t].subject
    OBVIOUS
  <2>1. /\ task[t].at \in {"issue", "horizon"} /\ task[t].at \in IssueAt
        /\ UNCHANGED <<kycVars, rows, rewarded, contended>>
    BY <1>7 DEF RecordOrFallBack, MintCredentialViaHorizon, IssueAt
  <2>2. s \in Subject /\ t \in Issuing(s)
    BY <2>1, StateForms, Subjects DEF Typed, ForCourse, ForBundle, Issuing
  <2>3. /\ onLedger \in [Subject -> 0..2] /\ fallbacks \in [Subject -> 0..2]
        /\ More(onLedger[s]) \in 1..2 /\ More(fallbacks[s]) \in 1..2
    BY <2>2, Counts DEF Typed
  <2>4. PICK n \in 0..2, m \in 0..2 :
          /\ onLedger' = [onLedger EXCEPT ![s] = n] /\ n \in {onLedger[s], More(onLedger[s])}
          /\ fallbacks' = [fallbacks EXCEPT ![s] = m] /\ m \in {fallbacks[s], More(fallbacks[s])}
          /\ \/ Finish(t) /\ faults' = faults + 1
             \/ /\ Goto(t, [task[t] EXCEPT !.at = "horizon"]) /\ UNCHANGED faults
                /\ task[t].at = "issue" /\ n = onLedger[s]
             \/ /\ Goto(t, [task[t] EXCEPT !.at = "reward"]) /\ UNCHANGED faults
                /\ task[t].at = "horizon" /\ n = More(onLedger[s]) /\ m = fallbacks[s]
    <3>1. /\ onLedger = [onLedger EXCEPT ![s] = onLedger[s]]
          /\ fallbacks = [fallbacks EXCEPT ![s] = fallbacks[s]]
          /\ onLedger[s] \in 0..2 /\ fallbacks[s] \in 0..2
          /\ More(onLedger[s]) \in 0..2 /\ More(fallbacks[s]) \in 0..2
      BY <2>2, <2>3
    <3>2. CASE RecordOrFallBack(t)
      <4>1. /\ task[t].at = "issue" /\ onLedger' = [onLedger EXCEPT ![s] = onLedger[s]]
            /\ \/ fallbacks' = [fallbacks EXCEPT ![s] = fallbacks[s]]
               \/ fallbacks' = [fallbacks EXCEPT ![s] = More(fallbacks[s])]
            /\ \/ Finish(t) /\ faults' = faults + 1
               \/ Goto(t, [task[t] EXCEPT !.at = "horizon"]) /\ UNCHANGED faults
        BY <3>1, <3>2 DEF RecordOrFallBack, Throws
      <4> QED
        BY <3>1, <4>1
    <3>3. CASE MintCredentialViaHorizon(t)
      <4>1. /\ task[t].at = "horizon" /\ fallbacks' = [fallbacks EXCEPT ![s] = fallbacks[s]]
            /\ \/ /\ Finish(t) /\ faults' = faults + 1
                  /\ \/ onLedger' = [onLedger EXCEPT ![s] = onLedger[s]]
                     \/ onLedger' = [onLedger EXCEPT ![s] = More(onLedger[s])]
               \/ /\ Goto(t, [task[t] EXCEPT !.at = "reward"]) /\ UNCHANGED faults
                  /\ onLedger' = [onLedger EXCEPT ![s] = More(onLedger[s])]
        BY <3>1, <3>3 DEF MintCredentialViaHorizon, Throws
      <4> QED
        BY <3>1, <4>1
    <3> QED
      BY <1>7, <3>2, <3>3
  <2>5. /\ onLedger'[s] = n /\ fallbacks'[s] = m
        /\ \A r \in Subject : r # s => onLedger'[r] = onLedger[r] /\ fallbacks'[r] = fallbacks[r]
    BY <2>2, <2>3, <2>4
  <2>6. \A r \in Subject : onLedger[r] > 0 => onLedger'[r] > 0
    BY <2>3, <2>4, <2>5
  <2>7. \A r \in KycCourse : onLedger'[r] > 0 \/ fallbacks'[r] > 0 => approvedOnce
    <3>1. \A r \in KycCourse : r \in Subject
      BY CredentialAssumption DEF Subject
    <3>2. s \in KycCourse => approvedOnce
      BY <2>1 DEF SoundInv, Known
    <3> QED
      BY <2>5, <3>1, <3>2 DEF SoundInv, Kept
  <2>8. CASE Finish(t) /\ faults' = faults + 1
    BY <2>1, <2>6, <2>7, <2>8, FaultKeepsSound
  <2>9. ASSUME NEW at \in {"horizon", "reward"}, Goto(t, [task[t] EXCEPT !.at = at]), UNCHANGED faults,
               at = "reward" => n > 0,
               s \notin contended /\ faults = 0 =>
                 n = (IF at \in BeforeTx THEN 0 ELSE 1) /\ m <= 1
        PROVE  SoundInv'
    <3>1. /\ task'[t].at = at /\ task'[t].subject = s
          /\ \A u \in Task \ {t} : task'[u] = task[u]
          /\ Issuing(s)' = Issuing(s) \cup {t} /\ \A r : r # s => Issuing(r)' = Issuing(r)
          /\ \A r : r # s => \A u \in Issuing(r) : task'[u] = task[u]
      BY <2>1, <2>9, GoesOn
    <3>2. ASSUME NEW u \in Task PROVE Known(task[u])'
      <4>1. CASE u = t
        <5>1. s \in KycCourse => approvedOnce
          BY <2>1 DEF SoundInv, Known
        <5> QED
          BY <2>1, <2>5, <2>9, <3>1, <4>1, <5>1 DEF Known, kycVars
      <4>2. CASE u # t
        <5>1. task'[u] = task[u] /\ Known(task[u]) /\ (task[u].at \in {"reward", "save"} => task[u].subject \in Subject)
          BY <3>1, <4>2, StateForms, Subjects DEF SoundInv, Typed, ForCourse, ForBundle, IssueAt
        <5> QED
          BY <2>1, <2>6, <5>1 DEF Known, kycVars
      <4> QED
        BY <4>1, <4>2
    <3>3. ASSUME NEW r \in Subject \ {s} PROVE Kept(r)' /\ Alone(r)' /\ Exact(r)'
      BY <2>1, <2>5, <2>9, <3>1, <3>3 DEF SoundInv, Kept, Alone, Exact, kycVars
    <3>4. Kept(s)' /\ Alone(s)'
      BY <2>1, <2>2, <2>6, <2>7, <3>1 DEF SoundInv, Kept, Alone, kycVars
    <3>5. Exact(s)'
      <4>1. SUFFICES ASSUME s \notin contended, faults = 0 PROVE Exact(s)'
        BY <2>1, <2>9 DEF Exact
      <4>2. Issuing(s)' = {t} /\ rows[s] = 0
        BY <2>1, <2>2, <3>1, <4>1 DEF SoundInv, Alone, Exact
      <4> QED
        BY <2>1, <2>5, <2>9, <3>1, <4>1, <4>2 DEF Exact, BeforeFallback
    <3> QED
      BY <2>1, <3>2, <3>3, <3>4, <3>5 DEF SoundInv, kycVars
  <2>10. s \notin contended /\ faults = 0 =>
           /\ onLedger[s] = 0
           /\ fallbacks[s] <= IF task[t].at = "issue" THEN 0 ELSE 1
    BY <2>1, <2>2 DEF SoundInv, Exact, BeforeTx, BeforeFallback
  <2>11. /\ onLedger[s] = 0 => More(onLedger[s]) = 1
         /\ fallbacks[s] <= 0 => More(fallbacks[s]) = 1
    BY <2>2, <2>3, Counts
  <2>12. CASE /\ Goto(t, [task[t] EXCEPT !.at = "horizon"]) /\ UNCHANGED faults
              /\ task[t].at = "issue" /\ n = onLedger[s]
    BY <2>4, <2>9, <2>10, <2>11, <2>12 DEF BeforeTx
  <2>13. CASE /\ Goto(t, [task[t] EXCEPT !.at = "reward"]) /\ UNCHANGED faults
              /\ task[t].at = "horizon" /\ n = More(onLedger[s]) /\ m = fallbacks[s]
    BY <2>3, <2>4, <2>9, <2>10, <2>11, <2>13 DEF BeforeTx
  <2> QED
    BY <2>4, <2>8, <2>12, <2>13
<1>8. ASSUME NEW t \in Task, MintReward(t) PROVE SoundInv'
  <2> PICK s : s = task[t].subject
    OBVIOUS
  <2>1. /\ task[t].at = "reward" /\ task[t].at \in IssueAt /\ Goto(t, [task[t] EXCEPT !.at = "save"])
        /\ UNCHANGED <<kycVars, rows, onLedger, fallbacks, contended, faults>> /\ rewarded' \subseteq rewarded \cup {s}
    BY <1>8 DEF MintReward, IssueAt
  <2>2. s \in Subject /\ t \in Issuing(s) /\ onLedger[s] > 0
    BY <2>1, StateForms, Subjects DEF Typed, ForCourse, ForBundle, Issuing, SoundInv, Known
  <2>3. /\ task'[t].at = "save" /\ task'[t].subject = s
        /\ \A u \in Task \ {t} : task'[u] = task[u]
        /\ Issuing(s)' = Issuing(s) \cup {t} /\ \A r : r # s => Issuing(r)' = Issuing(r)
        /\ \A r : r # s => \A u \in Issuing(r) : task'[u] = task[u]
    BY <2>1, GoesOn
  <2>4. \A u \in Task : Known(task[u])'
    BY <2>1, <2>2, <2>3 DEF SoundInv, Known, kycVars
  <2>5. ASSUME NEW r \in Subject \ {s} PROVE Kept(r)' /\ Alone(r)' /\ Exact(r)'
    BY <2>1, <2>3, <2>5 DEF SoundInv, Kept, Alone, Exact, kycVars
  <2>6. Kept(s)' /\ Alone(s)'
    BY <2>1, <2>2, <2>3 DEF SoundInv, Kept, Alone, kycVars
  <2>7. Exact(s)'
    <3>1. Issuing(s)' = Issuing(s) /\ Exact(s)
      BY <2>2, <2>3 DEF SoundInv
    <3>2. \A u \in Issuing(s) :
            /\ (task'[u].at \in BeforeTx) = (task[u].at \in BeforeTx)
            /\ (task'[u].at \in BeforeFallback) = (task[u].at \in BeforeFallback)
      BY <2>1, <2>3 DEF Issuing, BeforeTx, BeforeFallback
    <3> QED
      BY <2>1, <3>1, <3>2 DEF Exact
  <2> QED
    BY <2>1, <2>4, <2>5, <2>6, <2>7 DEF SoundInv, kycVars
<1>9. ASSUME NEW t \in Task, SaveCredential(t) PROVE SoundInv'
  <2> PICK s : s = task[t].subject
    OBVIOUS
  <2>1. /\ task[t].at = "save" /\ task[t].at \in IssueAt /\ Return(t)
        /\ UNCHANGED <<kycVars, onLedger, fallbacks, rewarded, contended, faults>>
    BY <1>9 DEF SaveCredential, IssueAt
  <2>2. s \in Subject /\ t \in Issuing(s) /\ onLedger[s] > 0
    BY <2>1, StateForms, Subjects DEF Typed, ForCourse, ForBundle, Issuing, SoundInv, Known
  <2>3. rows \in [Subject -> 0..2] /\ rows' = [rows EXCEPT ![s] = More(@)]
    BY <1>9 DEF SaveCredential, Typed
  <2>4. (rows[s] = 0 => rows'[s] = 1) /\ \A r \in Subject \ {s} : rows'[r] = rows[r]
    BY <2>2, <2>3, Counts
  <2>5. s \in contended \/ faults # 0 \/ (rows[s] = 0 /\ onLedger[s] = 1 /\ fallbacks[s] <= 1)
    BY <2>1, <2>2 DEF SoundInv, Exact, BeforeTx, BeforeFallback
  <2>6. Kept(s)'
    BY <2>1, <2>2 DEF SoundInv, Kept, kycVars
  <2>7. PICK next \in TaskState : Goto(t, next) /\ next.at \in {"announce", "bundles", "idle"}
    BY <2>1, Returned
  <2> QED
    BY <2>1, <2>2, <2>4, <2>5, <2>6, <2>7, Leaves
<1>10. ASSUME NEW t \in Task, Abort(t) PROVE SoundInv'
  <2>1. \A r \in KycCourse : onLedger[r] > 0 \/ fallbacks[r] > 0 => approvedOnce
    BY CredentialAssumption DEF SoundInv, Kept, Subject
  <2> QED
    BY <1>10, <2>1, FaultKeepsSound DEF Abort, issueVars
<1>11. ASSUME CredentialNext PROVE SoundInv'
  BY <1>2, <1>3, <1>4, <1>5, <1>6, <1>7, <1>8, <1>9, <1>10, <1>11 DEF CredentialNext
\* The handlers of progress and bundles do not touch credentials until they
\* begin to look for one.
<1>12. ASSUME NEW t \in Task, NEW next, Goto(t, next),
              task[t].at \notin {"gate", "issue", "horizon", "reward", "save"},
              next.at \notin {"gate", "issue", "horizon", "reward", "save", "kyc_save"},
              UNCHANGED <<kycVars, issueVars, faults>>, Typed'
       PROVE  SoundInv'
  <2>1. next \in TaskState
    BY <1>12 DEF Goto, Typed
  <2> QED
    BY <1>12, <2>1, NotIssuing DEF SoundInv, kycVars, issueVars
<1>13. Typed'
  BY TypedStep
<1>14. ASSUME NEW t \in Task, NEW c \in Course, NEW full \in BOOLEAN, Record(t, c, full) PROVE SoundInv'
  <2>1. PICK r \in RowId \cup {0} :
          Goto(t, [at |-> "record", course |-> c, full |-> full, row |-> r,
                   was |-> IF r = 0 THEN "open" ELSE progress[c][r]])
    BY <1>14 DEF Record
  <2> QED
    BY <1>1, <1>12, <1>13, <1>14, <2>1 DEF Record
<1>15. ASSUME NEW t \in Task, NextBundle(t) PROVE SoundInv'
  <2>1. task[t] \in InLoop
    BY <1>15, StateForms DEF NextBundle, Typed
  <2>2. PICK next : Goto(t, next) /\ next.at \in {"find", "save_bundle", "bundles"}
    <3>1. \A b : [task[t] EXCEPT !.todo = @ \ {b}].at = "bundles"
      BY <2>1 DEF InLoop
    <3>2. CASE task[t].todo = {}
      BY <1>15, <3>2 DEF NextBundle
    <3>3. CASE task[t].todo # {}
      <4>1. PICK b \in task[t].todo :
              Goto(t, [at |-> "save_bundle", bundle |-> b, course |-> task[t].course, todo |-> task[t].todo \ {b}])
                \/ Goto(t, [task[t] EXCEPT !.todo = @ \ {b}])
        BY <1>15, <3>3 DEF NextBundle
      <4> DEFINE saving == [at |-> "save_bundle", bundle |-> b, course |-> task[t].course, todo |-> task[t].todo \ {b}]
                 going == [task[t] EXCEPT !.todo = @ \ {b}]
      <4>2. going.at = "bundles" /\ saving.at = "save_bundle"
        BY <3>1
      <4>3. Goto(t, saving) \/ Goto(t, going)
        BY <4>1
      <4> HIDE DEF saving, going
      <4> QED
        BY <4>2, <4>3
    <3> QED
      BY <3>2, <3>3
  <2> QED
    BY <1>12, <1>13, <1>15, <2>2 DEF NextBundle
<1>16. ASSUME NEW t \in Task,
              SaveProgress(t) \/ FindBundles(t) \/ SaveBundle(t) \/ Announce(t) \/ InsertPurchase(t)
       PROVE  SoundInv'
  <2>1. PICK next : Goto(t, next) /\ next.at \in {"find_bundles", "bundles", "find", "enroll", "idle"}
    BY <1>1, <1>16 DEF SaveProgress, FindBundles, SaveBundle, Announce, InsertPurchase, Finish
  <2>2. /\ task[t].at \in {"record", "find_bundles", "save_bundle", "announce", "purchase"}
        /\ UNCHANGED <<kycVars, issueVars, faults>>
    BY <1>16 DEF SaveProgress, FindBundles, SaveBundle, Announce, InsertPurchase
  <2> QED
    BY <1>12, <1>13, <2>1, <2>2
<1>17. ASSUME NEW t \in Task, EnrollNext(t) PROVE SoundInv'
  <2>1. task[t] \in InEnroll
    BY <1>17, StateForms DEF EnrollNext, Typed
  <2>2. PICK next : Goto(t, next) /\ next.at \in {"enroll", "idle"}
    <3>1. \A c : [task[t] EXCEPT !.todo = @ \ {c}].at = "enroll"
      BY <2>1 DEF InEnroll
    <3> QED
      BY <1>1, <1>17, <3>1 DEF EnrollNext, Finish
  <2> QED
    BY <1>12, <1>13, <1>17, <2>2 DEF EnrollNext
<1>18. ASSUME NEW t \in Task, NEW b \in Bundle, Purchase(t, b) PROVE SoundInv'
  BY <1>1, <1>12, <1>13, <1>18 DEF Purchase
<1>19. ASSUME NEW c \in Course, MarkCompleted(c) PROVE SoundInv'
  <2>1. UNCHANGED <<task, kycVars, rows, onLedger, fallbacks, rewarded, contended, faults>>
    BY <1>19 DEF MarkCompleted, credentialVars, issueVars
  <2> QED
    BY <2>1 DEF SoundInv, Known, Kept, Alone, Exact, Issuing, kycVars
<1> QED
  BY <1>11, <1>14, <1>15, <1>16, <1>17, <1>18, <1>19 DEF ProgressNext

LEMMA SoundStart == ProgressInit => SoundInv
BY DEF ProgressInit, CredentialInit, SoundInv, Known, Kept, Alone, Exact, Issuing, Idle, BeforeTx, BeforeFallback

LEMMA SoundnessFollows == Typed /\ SoundInv => CredentialsAreSound
<1> SUFFICES ASSUME Typed, SoundInv, NEW s \in Subject, s \notin contended, faults = 0
             PROVE  rows[s] < 2 /\ onLedger[s] < 2 /\ fallbacks[s] < 2
  BY DEF SoundInv, Kept, CredentialsAreSound
<1>1. Exact(s) /\ fallbacks[s] \in 0..2
  BY DEF SoundInv, Typed
<1>2. CASE Issuing(s) = {}
  BY <1>1, <1>2 DEF Exact, Typed
<1>3. CASE Issuing(s) # {}
  <2>1. PICK t \in Issuing(s) : TRUE
    BY <1>3
  <2>2. onLedger[s] \in {0, 1} /\ fallbacks[s] <= 1
    BY <1>1, <2>1 DEF Exact
  <2> QED
    BY <1>1, <2>2 DEF Exact
<1> QED
  BY <1>2, <1>3

----------------------------------------------------------------------------
(* Streaks and certificates leave all of this alone.                       *)

CredentialInv == Typed /\ SoundInv /\ PromiseInv

LEMMA InvStart == Init => CredentialInv
BY TypedStart, SoundStart, PromiseStart DEF Init, CredentialInv

LEMMA InvStep == CredentialInv /\ [Next]_vars => CredentialInv'
<1> SUFFICES ASSUME CredentialInv, [Next]_vars PROVE CredentialInv'
  OBVIOUS
<1>1. CASE ProgressNext
  BY <1>1, TypedStep, SoundStep, PromiseStep DEF CredentialInv
<1>2. CASE UNCHANGED achievementVars
  <2>1. UNCHANGED <<task, customer, approvedOnce, rows, onLedger, fallbacks, rewarded, contended, faults>>
    BY <1>2 DEF achievementVars, credentialVars, kycVars, issueVars
  <2>2. UNCHANGED <<progress, enrolled, purchased, everDone>>
    BY <1>2 DEF achievementVars, progressVars
  <2>3. Typed'
    BY <2>1, <2>2 DEF CredentialInv, Typed
  <2>4. SoundInv'
    BY <2>1 DEF CredentialInv, SoundInv, Known, Kept, Alone, Exact, Issuing
  <2>5. PromiseInv'
    BY <2>1, <2>2 DEF CredentialInv, PromiseInv, Entitled, BundlesEnrolled, BundlesCertified, CoursesCertified
  <2> QED
    BY <2>3, <2>4, <2>5 DEF CredentialInv
<1> QED
  BY <1>1, <1>2 DEF Next, vars

\* For any number of handlers, courses, bundles, requests and faults: a row
\* and a reward are backed by a transaction on the ledger, the KYC gate was
\* passed, and without overlap or fault a subject gets one credential
\* (CredentialsService.issue and issueBundle, KycService).
THEOREM CredentialsSound == Spec => []CredentialsAreSound
<1>1. CredentialInv => CredentialsAreSound
  BY SoundnessFollows DEF CredentialInv
<1> QED
  BY <1>1, InvStart, InvStep, PTL DEF Spec

\* Whatever the order in which reports, purchases and calls for credentials
\* overlap: when all handlers have ended without a fault, every promise of a
\* course or a bundle was kept (ProgressService.record, BundlesService).
THEOREM PromisesKept == Spec => []PromisesAreKept
<1>1. CredentialInv => PromisesAreKept
  BY PromisesFollow DEF CredentialInv
<1> QED
  BY <1>1, InvStart, InvStep, PTL DEF Spec

----------------------------------------------------------------------------
(* Certificates. A pending row is the work of a call that is at the mint,  *)
(* and of one only.                                                        *)

CallState ==
  {NoCall} \cup [at : {"check", "insert"}, keyed : BOOLEAN]
           \cup [at : {"mint"}, keyed : BOOLEAN, row : CertId]

AtWork(k) == call[k].at \in {"insert", "mint"}

CertificateInv ==
  /\ call \in [Issuer -> CallState] /\ certs \in [CertId -> {"none", "pending", "minted"}]
  /\ keyed \in BOOLEAN /\ certFaults \in Nat /\ certCalls \in Nat
  /\ \A k \in Issuer : call[k].at = "mint" => certs[call[k].row] = "pending"
  /\ \A j, k \in Issuer :
       call[j].at = "mint" /\ call[k].at = "mint" /\ call[j].row = call[k].row => j = k
  /\ certFaults = 0 =>
       \A i \in CertId : certs[i] = "pending" => \E k \in Issuer : call[k].at = "mint" /\ call[k].row = i
  /\ ~overlapped =>
       /\ \A j, k \in Issuer : AtWork(j) /\ AtWork(k) => j = k
       /\ \A k \in Issuer : call[k].at = "insert" => Rows = {}
       /\ \A i, j \in Rows : i = j

LEMMA CallForms ==
  ASSUME NEW x \in CallState
  PROVE  /\ x = NoCall <=> x.at = "idle"
         /\ x.at \in {"check", "insert"} => x \in [at : {"check", "insert"}, keyed : BOOLEAN]
         /\ x.at = "mint" => x \in [at : {"mint"}, keyed : BOOLEAN, row : CertId]
BY DEF CallState, NoCall

LEMMA CertificateStart == CertificateInit => CertificateInv
<1> SUFFICES ASSUME CertificateInit PROVE CertificateInv
  OBVIOUS
<1>1. call \in [Issuer -> CallState] /\ \A k \in Issuer : call[k].at = "idle"
  BY DEF CertificateInit, CallState, NoCall
<1>2. certs \in [CertId -> {"none", "pending", "minted"}] /\ \A i \in CertId : certs[i] = "none"
  BY DEF CertificateInit
<1>3. keyed \in BOOLEAN /\ certFaults \in Nat /\ certCalls \in Nat /\ Rows = {}
  BY <1>2 DEF CertificateInit, Rows
<1> QED
  BY <1>1, <1>2, <1>3 DEF CertificateInv, AtWork

LEMMA CertificateStep == CertificateInv /\ CertificateNext => CertificateInv'
<1> SUFFICES ASSUME CertificateInv, CertificateNext PROVE CertificateInv'
  OBVIOUS
<1>1. ASSUME Complete \/ LinkKey PROVE CertificateInv'
  BY <1>1 DEF Complete, LinkKey, CertificateInv, AtWork, Rows
<1>2. ASSUME NEW k \in Issuer, IssueCertificate(k) PROVE CertificateInv'
  <2> DEFINE next == [at |-> "check", keyed |-> keyed]
  <2>1. next \in CallState /\ call' = [call EXCEPT ![k] = next] /\ call[k] = NoCall
    BY <1>2 DEF IssueCertificate, GoOn, CertificateInv, CallState
  <2>2. certCalls' \in Nat /\ UNCHANGED <<keyed, certs, overlapped, certFaults>>
    BY <1>2 DEF IssueCertificate, CertificateInv
  <2>3. ~AtWork(k) /\ call'[k].at = "check" /\ \A j \in Issuer \ {k} : call'[j] = call[j]
    BY <2>1 DEF AtWork, NoCall, CertificateInv
  <2> QED
    BY <2>1, <2>2, <2>3 DEF CertificateInv, AtWork, Rows
<1>3. ASSUME NEW k \in Issuer, CheckIssued(k) PROVE CertificateInv'
  <2>1. PICK next : /\ call' = [call EXCEPT ![k] = next]
                    /\ IF Rows # {} THEN next = NoCall ELSE next = [call[k] EXCEPT !.at = "insert"]
    BY <1>3 DEF CheckIssued, GoOn
  <2>2. call[k] \in [at : {"check", "insert"}, keyed : BOOLEAN] /\ call[k].at = "check"
    BY <1>3, CallForms DEF CheckIssued, CertificateInv
  <2>3. next \in CallState /\ next.at \in {"idle", "insert"} /\ (next.at = "insert" => Rows = {})
    BY <2>1, <2>2 DEF CallState, NoCall
  <2>4. ~AtWork(k) /\ call'[k] = next /\ \A j \in Issuer \ {k} : call'[j] = call[j]
    BY <2>1, <2>2 DEF AtWork, CertificateInv
  <2>5. UNCHANGED <<keyed, certs, certFaults, certCalls>> /\ Rows' = Rows
    BY <1>3 DEF CheckIssued, Rows
  <2>6. ~overlapped' => ~overlapped /\ \A j \in Issuer \ {k} : ~AtWork(j)
    BY <1>3 DEF CheckIssued, AtWork
  <2>7. call' \in [Issuer -> CallState]
    BY <2>1, <2>3 DEF CertificateInv
  <2>8. ~overlapped' =>
          /\ \A j, l \in Issuer : AtWork(j)' /\ AtWork(l)' => j = l
          /\ \A j \in Issuer : call'[j].at = "insert" => Rows' = {}
          /\ \A i, j \in Rows' : i = j
    BY <2>3, <2>4, <2>5, <2>6 DEF CertificateInv, AtWork
  <2> QED
    BY <2>2, <2>3, <2>4, <2>5, <2>7, <2>8 DEF CertificateInv, AtWork
<1>4. ASSUME NEW k \in Issuer, SavePending(k) PROVE CertificateInv'
  <2>1. PICK i \in CertId : /\ certs[i] = "none" /\ certs' = [certs EXCEPT ![i] = "pending"]
                            /\ call' = [call EXCEPT ![k] = [at |-> "mint", keyed |-> call[k].keyed, row |-> i]]
    BY <1>4 DEF SavePending, GoOn
  <2> DEFINE next == [at |-> "mint", keyed |-> call[k].keyed, row |-> i]
  <2>2. next \in CallState /\ call[k].at = "insert"
    BY <1>4, CallForms DEF SavePending, CertificateInv, CallState
  <2>3. next.at = "mint" /\ next.row = i
    OBVIOUS
  <2>4. AtWork(k) /\ call'[k] = next /\ \A j \in Issuer \ {k} : call'[j] = call[j]
    BY <2>1, <2>2 DEF AtWork, CertificateInv
  <2>5. UNCHANGED <<keyed, overlapped, certFaults, certCalls>> /\ Rows' = Rows \cup {i}
    BY <1>4, <2>1 DEF SavePending, Rows, CertificateInv
  <2>6. call' \in [Issuer -> CallState] /\ certs' \in [CertId -> {"none", "pending", "minted"}]
    BY <2>1, <2>2 DEF CertificateInv
  <2>7. certs'[i] = "pending" /\ \A j \in CertId \ {i} : certs'[j] = certs[j]
    BY <2>1 DEF CertificateInv
  <2>8. \A j \in Issuer \ {k} : call[j].at = "mint" => call[j].row \in CertId \ {i}
    <3>1. \A j \in Issuer : call[j].at = "mint" => call[j].row \in CertId
      BY CallForms DEF CertificateInv
    <3> QED
      BY <2>1, <3>1 DEF CertificateInv
  <2> HIDE DEF next
  <2>9. \A j \in Issuer : call'[j].at = "mint" => certs'[call'[j].row] = "pending"
    BY <2>3, <2>4, <2>7, <2>8 DEF CertificateInv
  <2>10. \A j, l \in Issuer :
           call'[j].at = "mint" /\ call'[l].at = "mint" /\ call'[j].row = call'[l].row => j = l
    BY <2>3, <2>4, <2>8 DEF CertificateInv
  <2>11. certFaults' = 0 => \A m \in CertId : certs'[m] = "pending" =>
           \E j \in Issuer : call'[j].at = "mint" /\ call'[j].row = m
    <3>1. SUFFICES ASSUME certFaults' = 0, NEW m \in CertId, certs'[m] = "pending"
                   PROVE  \E j \in Issuer : call'[j].at = "mint" /\ call'[j].row = m
      OBVIOUS
    <3>2. CASE m = i
      BY <2>3, <2>4, <3>2
    <3>3. CASE m # i
      <4>1. PICK j \in Issuer : call[j].at = "mint" /\ call[j].row = m
        BY <2>5, <2>7, <3>1, <3>3 DEF CertificateInv
      <4> QED
        BY <2>2, <2>4, <4>1
    <3> QED
      BY <3>2, <3>3
  <2>12. ~overlapped' =>
          /\ \A j, l \in Issuer : AtWork(j)' /\ AtWork(l)' => j = l
          /\ \A j \in Issuer : call'[j].at = "insert" => Rows' = {}
          /\ \A m, j \in Rows' : m = j
    BY <2>2, <2>3, <2>4, <2>5 DEF CertificateInv, AtWork
  <2> QED
    BY <2>5, <2>6, <2>9, <2>10, <2>11, <2>12 DEF CertificateInv
<1>5. ASSUME NEW k \in Issuer, KeepOffChain(k) \/ Mint(k) \/ AbortCall(k) PROVE CertificateInv'
  <2>1. call' = [call EXCEPT ![k] = NoCall] /\ UNCHANGED <<keyed, overlapped, certCalls>>
    BY <1>5 DEF KeepOffChain, Mint, AbortCall, GoOn
  <2>2. certFaults' = certFaults \/ certFaults' = certFaults + 1
    BY <1>5 DEF KeepOffChain, Mint, AbortCall
  <2>3. call'[k].at = "idle" /\ \A j \in Issuer \ {k} : call'[j] = call[j]
    BY <2>1 DEF NoCall, CertificateInv
  <2>4. call' \in [Issuer -> CallState]
    BY <2>1 DEF CertificateInv, CallState
  <2>5. CASE call[k].at = "mint" /\ certFaults' = certFaults /\ \E s \in {"none", "minted"} : certs' = [certs EXCEPT ![call[k].row] = s]
    <3>1. PICK s \in {"none", "minted"} : certs' = [certs EXCEPT ![call[k].row] = s]
      BY <2>5
    <3>2. call[k].row \in CertId
      BY <2>5, CallForms DEF CertificateInv
    <3>3. certs' \in [CertId -> {"none", "pending", "minted"}] /\ certs'[call[k].row] = s
          /\ \A m \in CertId \ {call[k].row} : certs'[m] = certs[m]
      BY <3>1, <3>2 DEF CertificateInv
    <3>4. \A j \in Issuer \ {k} : call[j].at = "mint" => call[j].row \in CertId \ {call[k].row}
      <4>1. \A j \in Issuer : call[j].at = "mint" => call[j].row \in CertId
        BY CallForms DEF CertificateInv
      <4> QED
        BY <2>5, <4>1 DEF CertificateInv
    <3>5. Rows' \subseteq Rows
      BY <2>5, <3>2, <3>3 DEF Rows, CertificateInv
    <3>6. certFaults' = 0 => \A m \in CertId : certs'[m] = "pending" =>
            \E j \in Issuer : call'[j].at = "mint" /\ call'[j].row = m
      BY <2>3, <2>5, <3>3 DEF CertificateInv
    <3> QED
      BY <2>1, <2>3, <2>4, <2>5, <3>2, <3>3, <3>4, <3>5, <3>6 DEF CertificateInv, AtWork
  <2>6. CASE certs' = certs /\ certFaults' = certFaults + 1
    <3>1. Rows' = Rows
      BY <2>6 DEF Rows
    <3> QED
      BY <2>1, <2>3, <2>4, <2>6, <3>1 DEF CertificateInv, AtWork
  <2> QED
    BY <1>5, <2>5, <2>6 DEF KeepOffChain, Mint, AbortCall
<1>6. keyed \in BOOLEAN
  BY DEF CertificateInv
<1> QED
  BY <1>1, <1>2, <1>3, <1>4, <1>5, <1>6 DEF CertificateNext

\* Unless a call died or could not remove its row, no pending row is left once
\* all calls have ended, and calls that do not overlap make one row at most,
\* for any number of calls (CertificatesService.issueCertificate).
THEOREM NoGhostsRemain == Spec => []NoGhostCertificate
<1>1. Init => CertificateInv
  BY CertificateStart DEF Init
<1>2. CertificateInv /\ [Next]_vars => CertificateInv'
  <2>1. ASSUME CertificateInv, UNCHANGED certificateVars PROVE CertificateInv'
    BY <2>1 DEF CertificateInv, AtWork, Rows, certificateVars
  <2> QED
    BY <2>1, CertificateStep DEF Next, vars
<1>3. CertificateInv => NoGhostCertificate
  <2>1. ASSUME CertificateInv, ~overlapped PROVE Cardinality(Rows) <= 1
    <3>1. CASE Rows = {}
      BY <3>1, FS_EmptySet
    <3>2. CASE Rows # {}
      <4>1. PICK i : Rows = {i}
        BY <2>1, <3>2 DEF CertificateInv
      <4> QED
        BY <4>1, FS_Singleton
    <3> QED
      BY <3>1, <3>2
  <2>2. ASSUME CertificateInv, \A k \in Issuer : call[k] = NoCall, certFaults = 0
        PROVE  \A i \in CertId : certs[i] # "pending"
    BY <2>2 DEF CertificateInv, NoCall
  <2> QED
    BY <2>1, <2>2 DEF NoGhostCertificate
<1> QED
  BY <1>1, <1>2, <1>3, PTL DEF Spec
============================================================================
