--------------------------- MODULE WaitlistProofs ---------------------------
(***************************************************************************)
(* Safety of enrollments and of the waitlist, for any number of users,     *)
(* request slots and rows.                                                 *)
(*                                                                         *)
(* Every statement of a handler may find the tables changed. What holds    *)
(* whatever interleaves needs little beyond the types; that the rollback   *)
(* works needs to be known of every row: who still answers for it.         *)
(***************************************************************************)
EXTENDS Waitlist, FunctionTheorems, FiniteSetTheorems, WellFoundedInduction, TLAPS

----------------------------------------------------------------------------
(* Types. What a handler carries depends on where it is.                   *)

UserAt == {"enroll_pin", "join_listed", "join_full", "join_position"}
RowAt == {"anchoring", "save_hash", "rollback", "unenroll_remove", "upgrade_pin", "upgrade_save"}
EntryAt == {"leave_remove", "leave_compact", "promote_check"}

WithUser == [at : UserAt, user : User]
WithVersion == [at : {"enroll_save"}, user : User, version : Version]
WithRow == [at : RowAt, user : User, row : Row]
WithPosition == [at : {"join_save"}, user : User, position : Position]
WithEntry == [at : EntryAt, user : User, entry : Entry]
Promoting == [at : {"promote_count", "promote_find"}]
WithBoth == [at : {"promote_commit"}, user : User, entry : Entry, enrolled : BOOLEAN]

TaskState == EnrollmentTask \cup WaitlistTask

\* Where a handler is tells which of the records it is.
LEMMA StateForms ==
  ASSUME NEW x \in TaskState
  PROVE  /\ x.at \in UserAt => x \in WithUser
         /\ x.at = "enroll_save" => x \in WithVersion
         /\ x.at \in RowAt => x \in WithRow
         /\ x.at = "join_save" => x \in WithPosition
         /\ x.at \in EntryAt => x \in WithEntry
         /\ x.at = "promote_commit" => x \in WithBoth
         /\ x = Idle <=> x.at = "idle"
<1> USE DEF UserAt, RowAt, EntryAt
<1>1. x \in {Idle} \cup WithUser \cup WithVersion \cup WithRow \cup WithPosition \cup WithEntry
               \cup Promoting \cup WithBoth
  BY DEF TaskState, EnrollmentTask, WaitlistTask, WithUser, WithVersion, WithRow, WithPosition, WithEntry,
         Promoting, WithBoth
<1>2. CASE x = Idle
  BY <1>2 DEF Idle
<1>3. CASE x \in WithUser \cup WithVersion \cup WithRow
  BY <1>3 DEF WithUser, WithVersion, WithRow, Idle
<1>4. CASE x \in WithPosition \cup WithEntry
  BY <1>4 DEF WithPosition, WithEntry, Idle
<1>5. CASE x \in Promoting \cup WithBoth
  BY <1>5 DEF Promoting, WithBoth, Idle
<1> QED
  BY <1>1, <1>2, <1>3, <1>4, <1>5

LEMMA StateSets ==
  /\ Idle \in TaskState
  /\ WithUser \cup WithVersion \cup WithRow \cup WithPosition \cup WithEntry \cup Promoting \cup WithBoth
       \subseteq TaskState
<1>1. Idle \in TaskState
  BY DEF TaskState, EnrollmentTask
<1>2. WithVersion \cup WithRow \cup WithPosition \cup WithEntry \cup Promoting \cup WithBoth \subseteq TaskState
  BY DEF TaskState, EnrollmentTask, WaitlistTask, WithVersion, WithRow, WithPosition, WithEntry, Promoting,
         WithBoth, RowAt, EntryAt
<1>3. WithUser \subseteq TaskState
  BY DEF TaskState, EnrollmentTask, WaitlistTask, WithUser, UserAt
<1> QED
  BY <1>1, <1>2, <1>3

\* A handler moves on, and no other does.
LEMMA Moves ==
  ASSUME task \in [Task -> TaskState], NEW t \in Task, NEW next \in TaskState, Goto(t, next)
  PROVE  /\ task' \in [Task -> TaskState] /\ task'[t] = next
         /\ \A s \in Task \ {t} : task'[s] = task[s]
BY DEF Goto

\* A handler that keeps what it carries.
LEMMA UserMoves ==
  ASSUME NEW x \in WithUser, NEW a \in UserAt
  PROVE  [x EXCEPT !.at = a] \in WithUser /\ [x EXCEPT !.at = a].at = a /\ [x EXCEPT !.at = a].user = x.user
BY DEF WithUser

LEMMA RowMoves ==
  ASSUME NEW x \in WithRow, NEW a \in RowAt
  PROVE  /\ [x EXCEPT !.at = a] \in WithRow /\ [x EXCEPT !.at = a].at = a
         /\ [x EXCEPT !.at = a].user = x.user /\ [x EXCEPT !.at = a].row = x.row
BY DEF WithRow

LEMMA EntryMoves ==
  ASSUME NEW x \in WithEntry, NEW a \in EntryAt
  PROVE  /\ [x EXCEPT !.at = a] \in WithEntry /\ [x EXCEPT !.at = a].at = a
         /\ [x EXCEPT !.at = a].user = x.user /\ [x EXCEPT !.at = a].entry = x.entry
BY DEF WithEntry

\* A handler that changes a field of the row it carries.
LEMMA NewRowMoves ==
  ASSUME NEW x \in WithRow, NEW a \in RowAt, NEW r \in Row
  PROVE  /\ [x EXCEPT !.at = a, !.row = r] \in WithRow
         /\ [x EXCEPT !.at = a, !.row = r].at = a
         /\ [x EXCEPT !.at = a, !.row = r].user = x.user
         /\ [x EXCEPT !.at = a, !.row = r].row = r
<1> DEFINE y == [x EXCEPT !.at = a]
           z == [y EXCEPT !.row = r]
<1>1. [x EXCEPT !.at = a, !.row = r] = z
  OBVIOUS
<1>2. y \in WithRow /\ y.at = a /\ y.user = x.user
  BY RowMoves
<1> HIDE DEF y
<1>3. z \in WithRow /\ z.at = a /\ z.user = x.user /\ z.row = r
  BY <1>2 DEF WithRow
<1> QED
  BY <1>1, <1>3

LEMMA AnchoredMoves ==
  ASSUME NEW x \in WithRow
  PROVE  \E y \in WithRow :
           /\ y = [x EXCEPT !.at = "save_hash", !.row.anchored = TRUE]
           /\ y.at = "save_hash" /\ y.user = x.user
           /\ y.row.id = x.row.id /\ y.row.anchored
<1> DEFINE r == [x.row EXCEPT !.anchored = TRUE]
           y == [x EXCEPT !.at = "save_hash", !.row = r]
<1>1. r \in Row /\ r.id = x.row.id /\ r.anchored
  BY DEF WithRow, Row
<1>2. [x EXCEPT !.at = "save_hash", !.row.anchored = TRUE] = y
  BY DEF WithRow
<1> HIDE DEF r
<1>3. "save_hash" \in RowAt
  BY DEF RowAt
<1>4. y \in WithRow /\ y.at = "save_hash" /\ y.user = x.user /\ y.row = r
  BY ONLY <1>1, <1>3, x \in WithRow, NewRowMoves
<1> QED
  BY <1>1, <1>2, <1>4

LEMMA VersionMoves ==
  ASSUME NEW x \in WithRow, NEW v \in Version
  PROVE  [x EXCEPT !.at = "upgrade_save", !.row.version = v] \in WithRow
<1> DEFINE r == [x.row EXCEPT !.version = v]
           y == [x EXCEPT !.at = "upgrade_save", !.row = r]
<1>1. r \in Row
  BY DEF WithRow, Row
<1>2. [x EXCEPT !.at = "upgrade_save", !.row.version = v] = y
  BY DEF WithRow
<1> HIDE DEF r
<1>3. y \in WithRow
  BY <1>1, NewRowMoves DEF RowAt
<1> QED
  BY <1>2, <1>3

LEMMA EntryFacts ==
  ASSUME NEW e \in Entry
  PROVE  e # NoEntry /\ e.position \in Int /\ e.position >= MinPosition /\ e.position <= MaxPosition /\ e.id \in EntryId
BY WaitlistAssumption DEF Entry, Position, MinPosition

\* Moved up by one, an entry is an entry as long as the bound allows it.
LEMMA EntryAdvances ==
  ASSUME NEW e \in Entry, e.position > MinPosition
  PROVE  /\ [e EXCEPT !.position = @ - 1] \in Entry
         /\ [e EXCEPT !.position = @ - 1].position = e.position - 1
<1>1. MinPosition \in Int /\ MaxPosition \in Int /\ e.position \in Position
  BY WaitlistAssumption DEF MinPosition, Entry
<1>2. e.position - 1 \in Position
  BY <1>1 DEF Position
<1> QED
  BY <1>2 DEF Entry

\* What moving some users up makes of a list.
LEMMA Advances ==
  ASSUME NEW list \in [User -> Entry \cup {NoEntry}], NEW who \in SUBSET User,
         \A u \in who : list[u] # NoEntry /\ list[u].position > MinPosition
  PROVE  /\ Advanced(list, who) \in [User -> Entry \cup {NoEntry}]
         /\ \A u \in who : /\ Advanced(list, who)[u] # NoEntry
                           /\ Advanced(list, who)[u].position = list[u].position - 1
         /\ \A u \in User \ who : Advanced(list, who)[u] = list[u]
<1>1. \A u \in who : /\ [list[u] EXCEPT !.position = @ - 1] \in Entry
                     /\ [list[u] EXCEPT !.position = @ - 1].position = list[u].position - 1
  BY EntryAdvances
<1>2. \A e \in Entry : e # NoEntry
  BY EntryFacts
<1> QED
  BY <1>1, <1>2 DEF Advanced

\* What removing an entry makes of a list.
LEMMA Removes ==
  ASSUME NEW list \in [User -> Entry \cup {NoEntry}], NEW u \in User, NEW entry \in Entry
  PROVE  /\ Without(list, u, entry) \in [User -> Entry \cup {NoEntry}]
         /\ \/ list[u] # NoEntry /\ list[u].id = entry.id /\ Without(list, u, entry)[u] = NoEntry
            \/ ~(list[u] # NoEntry /\ list[u].id = entry.id) /\ Without(list, u, entry)[u] = list[u]
         /\ \A v \in User \ {u} : Without(list, u, entry)[v] = list[v]
<1> DEFINE left == IF list[u] # NoEntry /\ list[u].id = entry.id THEN NoEntry ELSE list[u]
<1>1. Without(list, u, entry) = [list EXCEPT ![u] = left]
  BY DEF Without
<1>2. \/ list[u] # NoEntry /\ list[u].id = entry.id /\ left = NoEntry
      \/ ~(list[u] # NoEntry /\ list[u].id = entry.id) /\ left = list[u]
  OBVIOUS
<1> HIDE DEF left
<1> QED
  BY <1>1, <1>2

\* The greatest of the positions, when somebody is waiting.
LEMMA Greatest ==
  ASSUME NEW P \in SUBSET Position, P # {}
  PROVE  \E p \in P : \A q \in P : q <= p
<1> DEFINE D == {MaxPosition - p : p \in P}
<1>1. MaxPosition \in Int /\ \A p \in P : p \in Int /\ p <= MaxPosition
  BY WaitlistAssumption DEF Position, MinPosition
<1>2. D \subseteq Nat /\ D # {}
  BY <1>1
<1>3. PICK d \in D : \A e \in D : ~(<<e, d>> \in OpToRel(<, Nat))
  BY <1>2, NatLessThanWellFounded, WFMin
<1>4. PICK p \in P : d = MaxPosition - p
  BY <1>3
<1>5. ASSUME NEW q \in P PROVE q <= p
  <2>1. MaxPosition - q \in D /\ d \in Nat /\ MaxPosition - q \in Nat
    BY <1>1, <1>2, <1>3
  <2>2. ~(MaxPosition - q < d)
    BY <1>3, <2>1 DEF OpToRel
  <2> QED
    BY <1>1, <1>4, <2>1, <2>2
<1> QED
  BY <1>5

LEMMA NextPositionIsNext ==
  ASSUME waitlist \in [User -> Entry \cup {NoEntry}]
  PROVE  /\ NextPosition \in Int /\ NextPosition > MinPosition - 1
         /\ \A u \in Waiting : waitlist[u].position < NextPosition
         /\ IF Waiting = {} THEN NextPosition = 1
            ELSE \E u \in Waiting : NextPosition = waitlist[u].position + 1
<1> DEFINE P == {waitlist[u].position : u \in Waiting}
<1>1. P \in SUBSET Position /\ \A u \in Waiting : waitlist[u] \in Entry
  BY DEF Waiting, Entry
<1>2. CASE Waiting = {}
  BY <1>2, WaitlistAssumption DEF NextPosition, MinPosition
<1>3. CASE Waiting # {}
  <2>1. PICK p : p = CHOOSE r \in P : \A q \in P : q <= r
    OBVIOUS
  <2>2. p \in P /\ \A q \in P : q <= p
    BY <1>1, <1>3, <2>1, Greatest
  <2>3. p = CHOOSE r \in P : \A u \in Waiting : waitlist[u].position <= r
    <3>1. \A r \in P : (\A q \in P : q <= r) <=> \A u \in Waiting : waitlist[u].position <= r
      OBVIOUS
    <3> QED
      BY <2>1, <3>1, Zenon
  <2>4. NextPosition = 1 + p
    BY <1>3, <2>3 DEF NextPosition
  <2>5. p \in Int /\ p >= MinPosition /\ MinPosition \in Int
    BY <1>1, <2>2, WaitlistAssumption DEF Position, MinPosition
  <2>6. \A u \in Waiting : waitlist[u].position \in Int /\ waitlist[u].position <= p
    BY <1>1, <2>2, EntryFacts
  <2>7. PICK u \in Waiting : p = waitlist[u].position
    BY <2>2
  <2> QED
    BY <1>3, <2>4, <2>5, <2>6, <2>7
<1> QED
  BY <1>2, <1>3

----------------------------------------------------------------------------
(* Every step keeps the types.                                             *)

\* What a handler carries.
LEMMA Carried ==
  ASSUME TablesOK, NEW t \in Task
  PROVE  /\ task \in [Task -> TaskState] /\ task[t] \in TaskState
         /\ task[t] = Idle <=> task[t].at = "idle"
         /\ task[t].at \in UserAt => task[t] \in WithUser /\ task[t].user \in User
         /\ task[t].at = "enroll_save" => task[t].user \in User /\ task[t].version \in Version
         /\ task[t].at \in RowAt => task[t] \in WithRow /\ task[t].user \in User /\ task[t].row \in Row
         /\ task[t].at = "join_save" => task[t].user \in User /\ task[t].position \in Position
         /\ task[t].at \in EntryAt => task[t] \in WithEntry /\ task[t].user \in User /\ task[t].entry \in Entry
         /\ task[t].at = "promote_commit" =>
              task[t].user \in User /\ task[t].entry \in Entry /\ task[t].enrolled \in BOOLEAN
<1>1. task \in [Task -> TaskState] /\ task[t] \in TaskState
  BY DEF TablesOK, TaskState
<1>2. task[t] \in WithUser => task[t].user \in User
  BY DEF WithUser
<1>3. task[t] \in WithVersion => task[t].user \in User /\ task[t].version \in Version
  BY DEF WithVersion
<1>4. task[t] \in WithRow => task[t].user \in User /\ task[t].row \in Row
  BY DEF WithRow
<1>5. task[t] \in WithPosition => task[t].user \in User /\ task[t].position \in Position
  BY DEF WithPosition
<1>6. task[t] \in WithEntry => task[t].user \in User /\ task[t].entry \in Entry
  BY DEF WithEntry
<1>7. task[t] \in WithBoth => task[t].user \in User /\ task[t].entry \in Entry /\ task[t].enrolled \in BOOLEAN
  BY DEF WithBoth
<1>8. /\ task[t].at \in UserAt => task[t] \in WithUser
      /\ task[t].at = "enroll_save" => task[t] \in WithVersion
      /\ task[t].at \in RowAt => task[t] \in WithRow
      /\ task[t].at = "join_save" => task[t] \in WithPosition
      /\ task[t].at \in EntryAt => task[t] \in WithEntry
      /\ task[t].at = "promote_commit" => task[t] \in WithBoth
      /\ task[t] = Idle <=> task[t].at = "idle"
  BY <1>1, StateForms
<1> QED
  BY <1>1, <1>2, <1>3, <1>4, <1>5, <1>6, <1>7, <1>8

LEMMA TypeStart == Init => TablesOK
<1> SUFFICES ASSUME Init PROVE TablesOK
  OBVIOUS
<1>1. enrollment \in [User -> Row \cup {NoRow}] /\ latest \in Version /\ aborts \in 0..MaxAborts
  BY EnrollmentAssumption DEF Init, EnrollmentInit, Version
<1>2. task \in [Task -> TaskState]
  BY StateSets DEF Init, EnrollmentInit
<1>3. waitlist \in [User -> Entry \cup {NoEntry}]
  BY DEF Init
<1> QED
  BY <1>1, <1>2, <1>3 DEF TablesOK, EnrollmentTypeOK, TaskState

\* The types, table by table.
LEMMA TypeParts ==
  TablesOK <=> /\ enrollment \in [User -> Row \cup {NoRow}] /\ latest \in Version /\ aborts \in 0..MaxAborts
             /\ task \in [Task -> TaskState] /\ waitlist \in [User -> Entry \cup {NoEntry}]
BY DEF TablesOK, EnrollmentTypeOK, TaskState

\* What a handler that only moves on leaves behind.
LEMMA OnlyMoves ==
  ASSUME TablesOK, NEW t \in Task, NEW next \in TaskState, Goto(t, next),
         UNCHANGED <<enrollment, latest, waitlist>>, aborts' \in 0..MaxAborts
  PROVE  TablesOK'
BY Moves DEF TablesOK, EnrollmentTypeOK, TaskState

LEMMA RowIsSaved ==
  ASSUME enrollment \in [User -> Row \cup {NoRow}], NEW u \in User, NEW row \in Row, SaveRow(u, row)
  PROVE  /\ enrollment' \in [User -> Row \cup {NoRow}] /\ enrollment'[u] = row /\ row # NoRow
         /\ \A v \in User \ {u} : enrollment'[v] = enrollment[v]
BY EnrollmentAssumption DEF SaveRow

LEMMA RowIsRemoved ==
  ASSUME enrollment \in [User -> Row \cup {NoRow}], NEW u \in User, NEW row, RemoveRow(u, row)
  PROVE  /\ enrollment' \in [User -> Row \cup {NoRow}]
         /\ \/ enrollment[u] # NoRow /\ enrollment[u].id = row.id /\ enrollment'[u] = NoRow
            \/ ~(enrollment[u] # NoRow /\ enrollment[u].id = row.id) /\ enrollment'[u] = enrollment[u]
         /\ \A v \in User \ {u} : enrollment'[v] = enrollment[v]
BY DEF RemoveRow

\* A user who is enrolled anew.
LEMMA RowIsInserted ==
  ASSUME NEW id \in RowId, NEW v \in Version
  PROVE  [id |-> id, version |-> v, anchored |-> FALSE] \in Row
BY DEF Row

LEMMA Zero == 0 \in Version
BY EnrollmentAssumption DEF Version

LEMMA EnrollTypes ==
  ASSUME TablesOK, NEW t \in Task,
         \/ \E u \in Enroller : Enroll(t, u)
         \/ PinVersion(t) \/ InsertRow(t) \/ RecordEnrollment(t),
         UNCHANGED waitlist
  PROVE  TablesOK'
<1>1. ASSUME NEW u \in Enroller, Enroll(t, u) PROVE TablesOK'
  <2>1. [at |-> "enroll_pin", user |-> u] \in TaskState
    BY StateSets, EnrollmentAssumption DEF WithUser, UserAt
  <2> QED
    BY <1>1, <2>1, OnlyMoves DEF Enroll, TablesOK, EnrollmentTypeOK
<1>2. CASE PinVersion(t)
  <2>1. task[t].user \in User
    BY <1>2, Carried DEF PinVersion, UserAt
  <2>2. [at |-> "enroll_save", user |-> task[t].user, version |-> latest] \in TaskState /\ Idle \in TaskState
    BY <2>1, StateSets DEF WithVersion, TablesOK, EnrollmentTypeOK
  <2> QED
    BY <1>2, <2>2, OnlyMoves DEF PinVersion, Finish, TablesOK, EnrollmentTypeOK
<1>3. CASE InsertRow(t)
  <2>1. task[t].user \in User /\ task[t].version \in Version
    BY <1>3, Carried DEF InsertRow
  <2>2. CASE enrollment[task[t].user] = NoRow
    <3>1. PICK id \in RowId :
            /\ SaveRow(task[t].user, [id |-> id, version |-> task[t].version, anchored |-> FALSE])
            /\ Goto(t, [at |-> "anchoring", user |-> task[t].user,
                        row |-> [id |-> id, version |-> task[t].version, anchored |-> FALSE]])
      BY <1>3, <2>2 DEF InsertRow
    <3> DEFINE row == [id |-> id, version |-> task[t].version, anchored |-> FALSE]
    <3>2. row \in Row
      BY <2>1, RowIsInserted
    <3> HIDE DEF row
    <3>3. [at |-> "anchoring", user |-> task[t].user, row |-> row] \in TaskState
      BY <2>1, <3>2, StateSets DEF WithRow, RowAt
    <3>4. task' \in [Task -> TaskState]
      BY <3>1, <3>3, Moves, TypeParts DEF row
    <3>5. enrollment' \in [User -> Row \cup {NoRow}]
      BY <2>1, <3>1, <3>2, RowIsSaved, TypeParts DEF row
    <3> QED
      BY <1>3, <3>4, <3>5 DEF InsertRow, TablesOK, EnrollmentTypeOK, TaskState
  <2>3. CASE enrollment[task[t].user] # NoRow
    BY <1>3, <2>3, StateSets, OnlyMoves DEF InsertRow, Finish, TablesOK, EnrollmentTypeOK
  <2> QED
    BY <2>2, <2>3
<1>4. CASE RecordEnrollment(t)
  <2>1. task[t] \in WithRow
    BY <1>4, Carried DEF RecordEnrollment, RowAt
  <2>2. [task[t] EXCEPT !.at = "save_hash", !.row.anchored = TRUE] \in TaskState
    BY <2>1, AnchoredMoves, StateSets
  <2>3. [task[t] EXCEPT !.at = "rollback"] \in TaskState
    BY <2>1, RowMoves, StateSets DEF RowAt
  <2> QED
    BY <1>4, <2>2, <2>3, OnlyMoves DEF RecordEnrollment, TablesOK, EnrollmentTypeOK
<1> QED
  BY <1>1, <1>2, <1>3, <1>4

LEMMA EnrollEndTypes ==
  ASSUME TablesOK, NEW t \in Task, SaveHash(t) \/ Rollback(t) \/ Abort(t), UNCHANGED waitlist
  PROVE  TablesOK'
<1>1. CASE SaveHash(t)
  <2>1. task[t] \in WithRow /\ task[t].user \in User /\ task[t].row \in Row
    BY <1>1, Carried DEF SaveHash, RowAt
  <2>2. [task[t] EXCEPT !.at = "rollback"] \in TaskState
    BY <2>1, RowMoves, StateSets DEF RowAt
  <2>3. CASE SaveRow(task[t].user, task[t].row) /\ Finish(t)
    <3>1. task' \in [Task -> TaskState]
      BY <2>3, StateSets, Moves, TypeParts DEF Finish
    <3>2. enrollment' \in [User -> Row \cup {NoRow}]
      BY <2>1, <2>3, RowIsSaved, TypeParts
    <3> QED
      BY <1>1, <3>1, <3>2 DEF SaveHash, TablesOK, EnrollmentTypeOK, TaskState
  <2> QED
    BY <1>1, <2>2, <2>3, OnlyMoves DEF SaveHash, TablesOK, EnrollmentTypeOK
<1>2. CASE Rollback(t)
  <2>1. task[t].user \in User
    BY <1>2, Carried DEF Rollback, RowAt
  <2>2. task' \in [Task -> TaskState]
    BY <1>2, StateSets, Moves, TypeParts DEF Rollback, Finish
  <2>3. enrollment' \in [User -> Row \cup {NoRow}]
    BY <1>2, <2>1, RowIsRemoved, TypeParts DEF Rollback
  <2>4. aborts' \in 0..MaxAborts
    BY <1>2, EnrollmentAssumption DEF Rollback, TablesOK, EnrollmentTypeOK
  <2> QED
    BY <1>2, <2>2, <2>3, <2>4 DEF Rollback, TablesOK, EnrollmentTypeOK, TaskState
<1>3. CASE Abort(t)
  <2>1. aborts' \in 0..MaxAborts
    BY <1>3, EnrollmentAssumption DEF Abort, TablesOK, EnrollmentTypeOK
  <2> QED
    BY <1>3, <2>1, StateSets, OnlyMoves DEF Abort, Finish
<1> QED
  BY <1>1, <1>2, <1>3

LEMMA OtherEnrollmentTypes ==
  ASSUME TablesOK, NEW t \in Task,
         \/ \E u \in User : Unenroll(t, u)
         \/ \E u \in Upgrader : UpgradeVersion(t, u)
         \/ RemoveEnrollment(t) \/ PinUpgrade(t) \/ SaveUpgrade(t),
         UNCHANGED waitlist
  PROVE  TablesOK'
<1>1. ASSUME NEW u \in User, NEW a \in {"unenroll_remove", "upgrade_pin"}, enrollment[u] # NoRow,
             Goto(t, [at |-> a, user |-> u, row |-> enrollment[u]]), UNCHANGED <<enrollment, latest, aborts>>
      PROVE  TablesOK'
  <2>1. enrollment[u] \in Row
    BY <1>1 DEF TablesOK, EnrollmentTypeOK
  <2>2. [at |-> a, user |-> u, row |-> enrollment[u]] \in TaskState
    BY <1>1, <2>1, StateSets DEF WithRow, RowAt
  <2> QED
    BY <1>1, <2>2, OnlyMoves DEF TablesOK, EnrollmentTypeOK
<1>2. CASE RemoveEnrollment(t)
  <2>1. task[t].user \in User
    BY <1>2, Carried DEF RemoveEnrollment, RowAt
  <2>2. [at |-> "promote_count"] \in TaskState
    BY StateSets DEF Promoting
  <2>3. task' \in [Task -> TaskState]
    BY <1>2, <2>2, Moves, TypeParts DEF RemoveEnrollment
  <2>4. enrollment' \in [User -> Row \cup {NoRow}]
    BY <1>2, <2>1, RowIsRemoved, TypeParts DEF RemoveEnrollment
  <2> QED
    BY <1>2, <2>3, <2>4 DEF RemoveEnrollment, TablesOK, EnrollmentTypeOK, TaskState
<1>3. CASE PinUpgrade(t)
  <2>1. [task[t] EXCEPT !.at = "upgrade_save", !.row.version = latest] \in TaskState
    BY <1>3, Carried, VersionMoves, StateSets, TypeParts DEF PinUpgrade, RowAt
  <2> QED
    BY <1>3, <2>1, StateSets, OnlyMoves DEF PinUpgrade, Finish, TablesOK, EnrollmentTypeOK
<1>4. CASE SaveUpgrade(t)
  <2>1. task[t].user \in User /\ task[t].row \in Row
    BY <1>4, Carried DEF SaveUpgrade, RowAt
  <2>2. task' \in [Task -> TaskState]
    BY <1>4, StateSets, Moves, TypeParts DEF SaveUpgrade, Finish
  <2>3. enrollment' \in [User -> Row \cup {NoRow}]
    BY <1>4, <2>1, RowIsSaved, TypeParts DEF SaveUpgrade
  <2> QED
    BY <1>4, <2>2, <2>3 DEF SaveUpgrade, TablesOK, EnrollmentTypeOK, TaskState
<1> QED
  BY <1>1, <1>2, <1>3, <1>4, EnrollmentAssumption DEF Unenroll, UpgradeVersion

----------------------------------------------------------------------------
(* What the handlers of the waitlist do to the queue.                      *)

\* A user is put on the list, behind or beside others.
Queued(u, position) ==
  /\ waitlist[u] = NoEntry /\ waitlist'[u] \in Entry /\ waitlist'[u].position = position
  /\ \A v \in User \ {u} : waitlist'[v] = waitlist[v]

\* A user may be taken off the list.
Unqueued(u, entry) ==
  /\ \/ waitlist[u] # NoEntry /\ waitlist[u].id = entry.id /\ waitlist'[u] = NoEntry
     \/ ~(waitlist[u] # NoEntry /\ waitlist[u].id = entry.id) /\ waitlist'[u] = waitlist[u]
  /\ \A v \in User \ {u} : waitlist'[v] = waitlist[v]

\* Everybody behind a position moves up.
MovedUp(position) ==
  \A u \in User :
    /\ waitlist'[u] = NoEntry <=> waitlist[u] = NoEntry
    /\ waitlist[u] # NoEntry =>
         waitlist'[u].position =
           IF waitlist[u].position > position THEN waitlist[u].position - 1 ELSE waitlist[u].position

\* A user leaves as the first of the queue, and the rest moves up.
Served(u, entry) ==
  /\ (waitlist[u] # NoEntry /\ waitlist[u].id = entry.id) => waitlist'[u] = NoEntry
  /\ \A v \in User :
       \/ v = u /\ waitlist'[v] = NoEntry /\ (waitlist[v] # NoEntry => waitlist[v].id = entry.id)
       \/ /\ waitlist'[v] = NoEntry <=> waitlist[v] = NoEntry
          /\ waitlist[v] # NoEntry => waitlist'[v].position = waitlist[v].position - 1

LEMMA JoinTypes ==
  ASSUME TablesOK, NEW t \in Task,
         \/ \E u \in Joiner : Join(t, u)
         \/ CheckListed(t) \/ CheckFull(t) \/ ReadPosition(t)
  PROVE  TablesOK' /\ UNCHANGED waitlist
<1>1. ASSUME NEW u \in Joiner, Join(t, u) PROVE TablesOK'
  <2>1. [at |-> "join_listed", user |-> u] \in TaskState
    BY StateSets, WaitlistAssumption DEF WithUser, UserAt
  <2> QED
    BY <1>1, <2>1, OnlyMoves DEF Join, TablesOK, EnrollmentTypeOK
<1>2. ASSUME NEW a \in UserAt, task[t].at \in UserAt, UNCHANGED <<enrollment, latest, aborts, waitlist>>,
             Goto(t, [task[t] EXCEPT !.at = a]) \/ Finish(t)
      PROVE  TablesOK'
  <2>1. [task[t] EXCEPT !.at = a] \in TaskState
    BY <1>2, Carried, UserMoves, StateSets
  <2> QED
    BY <1>2, <2>1, StateSets, OnlyMoves DEF Finish, TablesOK, EnrollmentTypeOK
<1>3. CASE ReadPosition(t)
  <2>1. task[t].user \in User
    BY <1>3, Carried DEF ReadPosition, UserAt
  <2>2. NextPosition \in Int /\ NextPosition > MinPosition - 1
    BY NextPositionIsNext, TypeParts
  <2>3. NextPosition \in Position
    BY <1>3, <2>2, WaitlistAssumption DEF ReadPosition, Position, MinPosition
  <2>4. [at |-> "join_save", user |-> task[t].user, position |-> NextPosition] \in TaskState
    BY <2>1, <2>3, StateSets DEF WithPosition
  <2> QED
    BY <1>3, <2>4, OnlyMoves DEF ReadPosition, TablesOK, EnrollmentTypeOK
<1>4. CheckListed(t) \/ CheckFull(t) => TablesOK'
  BY <1>2 DEF CheckListed, CheckFull, UserAt
<1> QED
  BY <1>1, <1>3, <1>4 DEF Join, CheckListed, CheckFull, ReadPosition

LEMMA SaveEntryTypes ==
  ASSUME TablesOK, NEW t \in Task, SaveEntry(t)
  PROVE  /\ TablesOK' /\ task[t].at = "join_save" /\ task[t].user \in User /\ task'[t] = Idle
         /\ Queued(task[t].user, task[t].position) \/ UNCHANGED waitlist
<1>1. task[t].at = "join_save" /\ task[t].user \in User /\ task[t].position \in Position
  BY Carried DEF SaveEntry
<1>2. task' \in [Task -> TaskState] /\ task'[t] = Idle
  BY StateSets, Moves, TypeParts DEF SaveEntry, Finish
<1>3. CASE waitlist[task[t].user] = NoEntry
  <2>1. PICK id \in EntryId : waitlist' = [waitlist EXCEPT ![task[t].user] = [id |-> id, position |-> task[t].position]]
    BY <1>3 DEF SaveEntry
  <2> DEFINE e == [id |-> id, position |-> task[t].position]
  <2>2. e \in Entry /\ e.position = task[t].position
    BY <1>1 DEF Entry
  <2> HIDE DEF e
  <2>3. waitlist' = [waitlist EXCEPT ![task[t].user] = e]
    BY <2>1 DEF e
  <2>4. waitlist' \in [User -> Entry \cup {NoEntry}] /\ Queued(task[t].user, task[t].position)
    BY <1>1, <1>3, <2>2, <2>3, TypeParts DEF Queued
  <2> QED
    BY <1>1, <1>2, <2>4 DEF SaveEntry, TablesOK, EnrollmentTypeOK, TaskState
<1>4. CASE waitlist[task[t].user] # NoEntry
  <2>1. UNCHANGED waitlist
    BY <1>4 DEF SaveEntry
  <2> QED
    BY <1>1, <1>2, <2>1 DEF SaveEntry, TablesOK, EnrollmentTypeOK, TaskState
<1> QED
  BY <1>3, <1>4

LEMMA LeaveTypes ==
  ASSUME TablesOK, NEW t \in Task, NEW u \in Joiner, Leave(t, u)
  PROVE  /\ TablesOK' /\ UNCHANGED waitlist
         /\ task'[t] = [at |-> "leave_remove", user |-> u, entry |-> waitlist[u]]
<1>1. [at |-> "leave_remove", user |-> u, entry |-> waitlist[u]] \in TaskState
  BY StateSets, WaitlistAssumption, TypeParts DEF Leave, WithEntry, EntryAt
<1> QED
  BY <1>1, OnlyMoves, Moves, TypeParts DEF Leave

LEMMA RemoveEntryTypes ==
  ASSUME TablesOK, NEW t \in Task, RemoveEntry(t)
  PROVE  /\ TablesOK' /\ task[t].at = "leave_remove" /\ task[t].user \in User /\ task[t].entry \in Entry
         /\ task'[t].at = "leave_compact" /\ task'[t].entry = task[t].entry
         /\ Unqueued(task[t].user, task[t].entry)
<1>1. task[t].at = "leave_remove" /\ task[t] \in WithEntry /\ task[t].user \in User /\ task[t].entry \in Entry
  BY Carried DEF RemoveEntry, EntryAt
<1> DEFINE next == [task[t] EXCEPT !.at = "leave_compact"]
<1>2. next \in TaskState /\ next.at = "leave_compact" /\ next.entry = task[t].entry
  BY <1>1, EntryMoves, StateSets DEF EntryAt
<1> HIDE DEF next
<1>3. task' \in [Task -> TaskState] /\ task'[t] = next
  BY <1>2, Moves, TypeParts DEF RemoveEntry, next
<1>4. waitlist' = Without(waitlist, task[t].user, task[t].entry)
  BY DEF RemoveEntry
<1>5. waitlist' \in [User -> Entry \cup {NoEntry}] /\ Unqueued(task[t].user, task[t].entry)
  BY <1>1, <1>4, Removes, TypeParts DEF Unqueued
<1> QED
  BY <1>1, <1>2, <1>3, <1>5 DEF RemoveEntry, TablesOK, EnrollmentTypeOK, TaskState

LEMMA CompactTypes ==
  ASSUME TablesOK, NEW t \in Task, Compact(t)
  PROVE  /\ TablesOK' /\ task[t].at = "leave_compact" /\ task[t].entry \in Entry /\ task'[t] = Idle
         /\ MovedUp(task[t].entry.position)
<1>1. task[t].at = "leave_compact" /\ task[t].entry \in Entry
  BY Carried DEF Compact, EntryAt
<1>2. task' \in [Task -> TaskState] /\ task'[t] = Idle
  BY StateSets, Moves, TypeParts DEF Compact, Finish
<1> DEFINE who == Behind(task[t].entry.position)
<1>3. who \in SUBSET User /\ \A u \in who : waitlist[u] # NoEntry /\ waitlist[u].position > MinPosition
  BY DEF Behind, Waiting, Compact, CanAdvance
<1>4. \A u \in User : u \in who <=> waitlist[u] # NoEntry /\ waitlist[u].position > task[t].entry.position
  BY DEF Behind, Waiting
<1> HIDE DEF who
<1>5. waitlist' = Advanced(waitlist, who)
  BY DEF Compact, who
<1>6. waitlist' \in [User -> Entry \cup {NoEntry}] /\ MovedUp(task[t].entry.position)
  BY <1>3, <1>4, <1>5, Advances, TypeParts DEF MovedUp
<1> QED
  BY <1>1, <1>2, <1>6 DEF Compact, TablesOK, EnrollmentTypeOK, TaskState

LEMMA PromoteTypes ==
  ASSUME TablesOK, NEW t \in Task,
         AdminPromote(t) \/ CountEnrolled(t) \/ FindFirst(t) \/ CheckEnrolled(t)
  PROVE  TablesOK' /\ UNCHANGED waitlist
<1>1. \A a \in {"promote_count", "promote_find"} : [at |-> a] \in TaskState
  BY StateSets DEF Promoting
<1>2. AdminPromote(t) \/ CountEnrolled(t) => TablesOK'
  BY <1>1, StateSets, OnlyMoves DEF AdminPromote, CountEnrolled, Finish, TablesOK, EnrollmentTypeOK
<1>3. CASE FindFirst(t)
  <2>1. ASSUME NEW u \in Waiting PROVE [at |-> "promote_check", user |-> u, entry |-> waitlist[u]] \in TaskState
    <3>1. u \in User /\ waitlist[u] \in Entry
      BY TypeParts DEF Waiting
    <3> QED
      BY <3>1, StateSets DEF WithEntry, EntryAt
  <2> QED
    BY <1>3, <2>1, StateSets, OnlyMoves DEF FindFirst, Finish, TablesOK, EnrollmentTypeOK
<1>4. CASE CheckEnrolled(t)
  <2>1. task[t].user \in User /\ task[t].entry \in Entry
    BY <1>4, Carried DEF CheckEnrolled, EntryAt
  <2>2. [at |-> "promote_commit", user |-> task[t].user, entry |-> task[t].entry,
         enrolled |-> enrollment[task[t].user] # NoRow] \in TaskState
    BY <2>1, StateSets DEF WithBoth
  <2> QED
    BY <1>4, <2>2, OnlyMoves DEF CheckEnrolled, TablesOK, EnrollmentTypeOK
<1> QED
  BY <1>2, <1>3, <1>4 DEF AdminPromote, CountEnrolled, FindFirst, CheckEnrolled

LEMMA CommitTypes ==
  ASSUME TablesOK, NEW t \in Task, CommitPromotion(t)
  PROVE  /\ TablesOK' /\ task[t].at = "promote_commit" /\ task[t].user \in User /\ task[t].entry \in Entry
         /\ task'[t] = Idle
         /\ \/ task[t].enrolled /\ UNCHANGED enrollment /\ Served(task[t].user, task[t].entry)
            \/ /\ ~task[t].enrolled /\ enrollment[task[t].user] = NoRow
               /\ \E row \in Row : SaveRow(task[t].user, row) /\ ~row.anchored
               /\ Served(task[t].user, task[t].entry)
            \/ ~task[t].enrolled /\ enrollment[task[t].user] # NoRow /\ UNCHANGED <<enrollment, waitlist>>
<1>1. /\ task[t].at = "promote_commit" /\ task[t].user \in User /\ task[t].entry \in Entry
      /\ task[t].enrolled \in BOOLEAN
  BY Carried DEF CommitPromotion
<1>2. task' \in [Task -> TaskState] /\ task'[t] = Idle
  BY StateSets, Moves, TypeParts DEF CommitPromotion, Finish
<1> DEFINE u == task[t].user
           list == Without(waitlist, u, task[t].entry)
           rest == {v \in User : list[v] # NoEntry}
<1>3. /\ list \in [User -> Entry \cup {NoEntry}]
      /\ \/ waitlist[u] # NoEntry /\ waitlist[u].id = task[t].entry.id /\ list[u] = NoEntry
         \/ ~(waitlist[u] # NoEntry /\ waitlist[u].id = task[t].entry.id) /\ list[u] = waitlist[u]
      /\ \A v \in User \ {u} : list[v] = waitlist[v]
  BY <1>1, Removes, TypeParts
<1> HIDE DEF list
<1>4. rest \in SUBSET User /\ \A v \in rest : list[v] # NoEntry /\ list[v].position > MinPosition
  BY <1>1, <1>3 DEF CommitPromotion, CanAdvance, Waiting
<1>5. ASSUME waitlist' = Advanced(list, rest)
      PROVE  waitlist' \in [User -> Entry \cup {NoEntry}] /\ Served(u, task[t].entry)
  <2>1. /\ waitlist' \in [User -> Entry \cup {NoEntry}]
        /\ \A v \in rest : waitlist'[v] # NoEntry /\ waitlist'[v].position = list[v].position - 1
        /\ \A v \in User \ rest : waitlist'[v] = list[v]
    BY <1>3, <1>4, <1>5, Advances
  <2>2. \A v \in User : v \in rest <=> list[v] # NoEntry
    OBVIOUS
  <2> HIDE DEF rest
  <2>3. \A v \in User \ {u} : /\ waitlist'[v] = NoEntry <=> waitlist[v] = NoEntry
                              /\ waitlist[v] # NoEntry => waitlist'[v].position = waitlist[v].position - 1
    BY <1>3, <2>1, <2>2
  <2>4. CASE waitlist[u] # NoEntry /\ waitlist[u].id = task[t].entry.id
    <3>1. waitlist'[u] = NoEntry
      BY <1>1, <1>3, <2>1, <2>2, <2>4
    <3> QED
      BY <2>1, <2>3, <2>4, <3>1 DEF Served
  <2>5. CASE ~(waitlist[u] # NoEntry /\ waitlist[u].id = task[t].entry.id)
    <3>1. list[u] = waitlist[u]
      BY <1>3, <2>5
    <3> QED
      BY <1>1, <2>1, <2>2, <2>3, <2>5, <3>1 DEF Served
  <2> QED
    BY <2>1, <2>4, <2>5
<1>6. UNCHANGED <<latest, aborts>>
  BY DEF CommitPromotion
<1>7. CASE task[t].enrolled /\ UNCHANGED enrollment /\ waitlist' = Advanced(list, rest)
  BY <1>1, <1>2, <1>5, <1>6, <1>7 DEF TablesOK, EnrollmentTypeOK, TaskState
<1>8. CASE /\ ~task[t].enrolled /\ enrollment[u] = NoRow /\ waitlist' = Advanced(list, rest)
           /\ \E id \in RowId : SaveRow(u, [id |-> id, version |-> 0, anchored |-> FALSE])
  <2>1. PICK id \in RowId : SaveRow(u, [id |-> id, version |-> 0, anchored |-> FALSE])
    BY <1>8
  <2> DEFINE row == [id |-> id, version |-> 0, anchored |-> FALSE]
  <2>2. row \in Row /\ ~row.anchored
    BY RowIsInserted, Zero
  <2>3. SaveRow(u, row)
    BY <2>1
  <2> HIDE DEF row
  <2>4. enrollment' \in [User -> Row \cup {NoRow}]
    BY <1>1, <2>2, <2>3, RowIsSaved, TypeParts
  <2> QED
    BY <1>1, <1>2, <1>5, <1>6, <1>8, <2>2, <2>3, <2>4 DEF TablesOK, EnrollmentTypeOK, TaskState
<1>9. CASE ~task[t].enrolled /\ enrollment[u] # NoRow /\ UNCHANGED <<enrollment, waitlist>>
  BY <1>1, <1>2, <1>6, <1>9 DEF TablesOK, EnrollmentTypeOK, TaskState
<1> QED
  BY <1>7, <1>8, <1>9 DEF CommitPromotion, list

LEMMA EnrollmentStepTypes == TablesOK /\ EnrollmentNext /\ UNCHANGED waitlist => TablesOK'
<1> SUFFICES ASSUME TablesOK, EnrollmentNext, UNCHANGED waitlist PROVE TablesOK'
  OBVIOUS
<1>1. CASE PublishVersion
  <2>1. latest' \in Version
    BY <1>1, EnrollmentAssumption DEF PublishVersion, TablesOK, EnrollmentTypeOK, Version
  <2> QED
    BY <1>1, <2>1 DEF PublishVersion, TablesOK, EnrollmentTypeOK
<1> QED
  BY <1>1, EnrollTypes, EnrollEndTypes, OtherEnrollmentTypes DEF EnrollmentNext

LEMMA WaitlistStepTypes == TablesOK /\ WaitlistNext => TablesOK'
BY JoinTypes, SaveEntryTypes, LeaveTypes, RemoveEntryTypes, CompactTypes, PromoteTypes, CommitTypes
   DEF WaitlistNext

LEMMA TypeStep == TablesOK /\ [Next]_vars => TablesOK'
<1>1. TablesOK /\ UNCHANGED vars => TablesOK'
  BY DEF TablesOK, EnrollmentTypeOK, vars
<1> QED
  BY <1>1, EnrollmentStepTypes, WaitlistStepTypes DEF Next

LEMMA TablesAreTyped == Spec => []TablesOK
BY TypeStart, TypeStep, PTL DEF Spec

\* Nobody but a promotion makes a user a promoted one.
LEMMA PromotedChanges ==
  ASSUME [Next]_vars
  PROVE  promoted' \subseteq promoted \/ \E t \in Task : CommitPromotion(t) /\ promoted' = promoted \cup {task[t].user}
<1>1. ASSUME NEW t \in Task, CommitPromotion(t)
      PROVE  promoted' = promoted \/ promoted' = promoted \cup {task[t].user}
  BY <1>1 DEF CommitPromotion
<1>2. WaitlistNext => promoted' = promoted \/ \E t \in Task : CommitPromotion(t)
  BY DEF WaitlistNext, Join, Leave, CheckListed, CheckFull, ReadPosition, SaveEntry, RemoveEntry, Compact,
         AdminPromote, CountEnrolled, FindFirst, CheckEnrolled
<1> QED
  BY <1>1, <1>2 DEF Next, vars

\* Every handler of enrollments and of the waitlist keeps the tables and what
\* handlers carry well-formed (EnrollmentsService, WaitlistService).
THEOREM WaitlistIsTyped == Spec => []TypeOK
<1>1. Init => promoted \subseteq User
  BY DEF Init
<1>2. TablesOK /\ promoted \subseteq User /\ [Next]_vars => (promoted \subseteq User)'
  <2> SUFFICES ASSUME TablesOK, promoted \subseteq User, [Next]_vars PROVE promoted' \subseteq User
    OBVIOUS
  <2>1. ASSUME NEW t \in Task, CommitPromotion(t) PROVE task[t].user \in User
    BY <2>1, CommitTypes
  <2> QED
    BY <2>1, PromotedChanges
<1>3. TablesOK /\ promoted \subseteq User => TypeOK
  BY DEF TypeOK
<1> QED
  BY <1>1, <1>2, <1>3, TablesAreTyped, PTL DEF Spec

----------------------------------------------------------------------------
(* The order of the queue.                                                 *)

\* The four things that may happen to the queue.
LEMMA QueueSteps ==
  ASSUME TablesOK, [Next]_vars, waitlist' # waitlist
  PROVE  \E t \in Task :
           \/ task[t].at = "join_save" /\ Queued(task[t].user, task[t].position)
           \/ task[t].at = "leave_remove" /\ task[t].entry \in Entry /\ Unqueued(task[t].user, task[t].entry)
           \/ task[t].at = "leave_compact" /\ task[t].entry \in Entry /\ MovedUp(task[t].entry.position)
           \/ /\ task[t].at = "promote_commit" /\ Served(task[t].user, task[t].entry)
              /\ task[t].user \in User
              /\ task[t].enrolled \/ enrollment'[task[t].user] # NoRow
<1>1. WaitlistNext
  BY DEF Next, vars
<1>2. PICK t \in Task : SaveEntry(t) \/ RemoveEntry(t) \/ Compact(t) \/ CommitPromotion(t)
  BY <1>1, JoinTypes, LeaveTypes, PromoteTypes DEF WaitlistNext
<1>3. CASE CommitPromotion(t)
  <2>1. /\ task[t].at = "promote_commit" /\ task[t].user \in User
        /\ \/ task[t].enrolled /\ Served(task[t].user, task[t].entry)
           \/ /\ \E row \in Row : SaveRow(task[t].user, row) /\ ~row.anchored
              /\ Served(task[t].user, task[t].entry)
    BY <1>3, CommitTypes
  <2>2. (\E row \in Row : SaveRow(task[t].user, row)) => enrollment'[task[t].user] # NoRow
    BY <2>1, RowIsSaved, TypeParts
  <2> QED
    BY <2>1, <2>2
<1> QED
  BY <1>2, <1>3, SaveEntryTypes, RemoveEntryTypes, CompactTypes

LEMMA NobodyOvertakes ==
  ASSUME TablesOK, [Next]_vars, NEW u \in Waiting \cap Waiting', NEW v \in Waiting \cap Waiting',
         waitlist[u].position <= waitlist[v].position
  PROVE  waitlist'[u].position <= waitlist'[v].position
<1>1. /\ u \in User /\ v \in User /\ waitlist[u] # NoEntry /\ waitlist[v] # NoEntry
      /\ waitlist'[u] # NoEntry /\ waitlist'[v] # NoEntry
      /\ waitlist[u].position \in Int /\ waitlist[v].position \in Int
  BY TypeParts, EntryFacts DEF Waiting
<1>2. CASE waitlist' = waitlist
  BY <1>2
<1>3. ASSUME NEW t \in Task, Queued(task[t].user, task[t].position)
      PROVE  waitlist'[u].position <= waitlist'[v].position
  BY <1>1, <1>3 DEF Queued
<1>4. ASSUME NEW t \in Task, Unqueued(task[t].user, task[t].entry)
      PROVE  waitlist'[u].position <= waitlist'[v].position
  BY <1>1, <1>4 DEF Unqueued
<1>5. ASSUME NEW t \in Task, task[t].entry \in Entry, MovedUp(task[t].entry.position)
      PROVE  waitlist'[u].position <= waitlist'[v].position
  <2>1. task[t].entry.position \in Int
    BY <1>5, EntryFacts
  <2> QED
    BY <1>1, <1>5, <2>1 DEF MovedUp
<1>6. ASSUME NEW t \in Task, Served(task[t].user, task[t].entry)
      PROVE  waitlist'[u].position <= waitlist'[v].position
  BY <1>1, <1>6 DEF Served
<1> QED
  BY <1>2, <1>3, <1>4, <1>5, <1>6, QueueSteps

\* For any number of handlers, wherever they die: who is ahead of a waiting
\* user stays ahead of him (join, leave, adminRemove and promoteNext).
THEOREM QueueKeepsItsOrder == Spec => NobodyIsOvertaken
<1>1. TablesOK /\ [Next]_vars =>
        [\A u, v \in Waiting \cap Waiting' :
           waitlist[u].position <= waitlist[v].position
             => waitlist'[u].position <= waitlist'[v].position]_vars
  BY NobodyOvertakes
<1> QED
  BY <1>1, TablesAreTyped, PTL DEF Spec, NobodyIsOvertaken

LEMMA DropsAreOwn ==
  ASSUME TablesOK, [Next]_vars, NEW u \in Waiting, waitlist'[u] = NoEntry
  PROVE  \E t \in Task : DroppedBy(t, u)
<1>1. u \in User /\ waitlist[u] # NoEntry
  BY DEF Waiting
<1>2. waitlist' # waitlist
  BY <1>1
<1>3. ASSUME NEW t \in Task, Queued(task[t].user, task[t].position) PROVE FALSE
  BY <1>1, <1>3, EntryFacts DEF Queued
<1>4. ASSUME NEW t \in Task, MovedUp(task[t].entry.position) PROVE FALSE
  BY <1>1, <1>4 DEF MovedUp
<1>5. ASSUME NEW t \in Task, task[t].at = "leave_remove", Unqueued(task[t].user, task[t].entry)
      PROVE  DroppedBy(t, u)
  BY <1>1, <1>5 DEF Unqueued, DroppedBy
<1>6. ASSUME NEW t \in Task, task[t].at = "promote_commit", Served(task[t].user, task[t].entry),
             task[t].enrolled \/ enrollment'[task[t].user] # NoRow
      PROVE  DroppedBy(t, u)
  BY <1>1, <1>6 DEF Served, DroppedBy
<1> QED
  BY <1>2, <1>3, <1>4, <1>5, <1>6, QueueSteps

\* For any number of handlers: nobody leaves the list but by leaving it or by
\* being enrolled (leave, adminRemove and promoteNext).
THEOREM DropsAreWanted == Spec => NobodyIsDropped
<1>1. TablesOK /\ [Next]_vars =>
        [\A u \in Waiting : waitlist'[u] = NoEntry => \E t \in Task : DroppedBy(t, u)]_vars
  BY DropsAreOwn
<1> QED
  BY <1>1, TablesAreTyped, PTL DEF Spec, NobodyIsDropped

----------------------------------------------------------------------------
(* Who answers for a row.                                                  *)

Owner(x) == x.at \in {"anchoring", "save_hash", "rollback"}
Upgrading(x) == x.at \in {"upgrade_pin", "upgrade_save"}
Promoted(x) == x.at \in {"promote_find", "promote_check", "promote_commit"}

\* No two enroll requests work on one row, and while one does, no table row
\* with that key is anchored.
RowsInv ==
  /\ \A t \in Task : ~Upgrading(task[t]) /\ (task[t].at = "save_hash" => task[t].row.anchored)
  /\ \A t \in Task, u \in Enrolled :
       Owner(task[t]) /\ enrollment[u].id = task[t].row.id => ~enrollment[u].anchored
  /\ \A s, t \in Task : Owner(task[s]) /\ Owner(task[t]) /\ task[s].row.id = task[t].row.id => s = t

\* A handler goes on with something else than the row of an enroll request.
Quiet(t) ==
  /\ ~Owner(task'[t]) /\ ~Upgrading(task'[t])
  /\ Promoted(task'[t]) => Promoted(task[t]) \/ (Capacity > 0 /\ ~IsFull)
  /\ \A s \in Task \ {t} : task'[s] = task[s]

LEMMA Quiets ==
  ASSUME TablesOK, NEW t \in Task, NEW next, Goto(t, next), ~Owner(next), ~Upgrading(next),
         Promoted(next) => Promoted(task[t]) \/ (Capacity > 0 /\ ~IsFull)
  PROVE  Quiet(t)
BY TypeParts DEF Goto, Quiet

LEMMA Ends ==
  ASSUME TablesOK, NEW t \in Task, Finish(t)
  PROVE  Quiet(t)
<1>1. ~Owner(Idle) /\ ~Upgrading(Idle) /\ ~Promoted(Idle)
  BY DEF Owner, Upgrading, Promoted, Idle
<1> QED
  BY <1>1, Quiets DEF Finish

\* A step of the waitlist is one of these of some handler.
WaitlistTurn(t) ==
  \/ \E u \in Joiner : Join(t, u) \/ Leave(t, u)
  \/ CheckListed(t) \/ CheckFull(t) \/ ReadPosition(t) \/ SaveEntry(t)
  \/ RemoveEntry(t) \/ Compact(t)
  \/ AdminPromote(t) \/ CountEnrolled(t) \/ FindFirst(t) \/ CheckEnrolled(t)
  \/ CommitPromotion(t)

\* The handlers of the waitlist never work on rows that others own.
LEMMA WaitlistIsQuiet ==
  ASSUME TablesOK, WaitlistNext
  PROVE  \E t \in Task :
           Quiet(t) /\ ~Owner(task[t]) /\ (UNCHANGED <<enrollment, promoted>> \/ CommitPromotion(t)) /\ UNCHANGED aborts
<1>1. ASSUME NEW t \in Task, \E u \in Joiner : Join(t, u) \/ Leave(t, u)
      PROVE  Quiet(t) /\ UNCHANGED <<enrollment, promoted, aborts>>
  BY <1>1, Quiets DEF Join, Leave, Owner, Upgrading, Promoted
<1>2. ASSUME NEW t \in Task, CheckListed(t) \/ CheckFull(t)
      PROVE  Quiet(t) /\ UNCHANGED <<enrollment, promoted, aborts>>
  <2>1. task[t] \in WithUser
    BY <1>2, Carried DEF CheckListed, CheckFull, UserAt
  <2>2. \A a \in {"join_full", "join_position"} :
          ~Owner([task[t] EXCEPT !.at = a]) /\ ~Upgrading([task[t] EXCEPT !.at = a]) /\ ~Promoted([task[t] EXCEPT !.at = a])
    BY <2>1, UserMoves DEF UserAt, Owner, Upgrading, Promoted
  <2> QED
    BY <1>2, <2>2, Quiets, Ends DEF CheckListed, CheckFull
<1>3. ASSUME NEW t \in Task, ReadPosition(t) \/ SaveEntry(t)
      PROVE  Quiet(t) /\ UNCHANGED <<enrollment, promoted, aborts>>
  BY <1>3, Quiets, Ends DEF ReadPosition, SaveEntry, Owner, Upgrading, Promoted
<1>4. ASSUME NEW t \in Task, RemoveEntry(t) \/ Compact(t)
      PROVE  Quiet(t) /\ UNCHANGED <<enrollment, promoted, aborts>>
  <2>1. CASE RemoveEntry(t)
    <3>1. task[t] \in WithEntry
      BY <2>1, Carried DEF RemoveEntry, EntryAt
    <3> DEFINE next == [task[t] EXCEPT !.at = "leave_compact"]
    <3>2. ~Owner(next) /\ ~Upgrading(next) /\ ~Promoted(next)
      BY <3>1, EntryMoves DEF EntryAt, Owner, Upgrading, Promoted
    <3> QED
      BY <2>1, <3>2, Quiets DEF RemoveEntry
  <2> QED
    BY <1>4, <2>1, Ends DEF Compact
<1>5. ASSUME NEW t \in Task, AdminPromote(t) \/ CountEnrolled(t) \/ FindFirst(t) \/ CheckEnrolled(t)
      PROVE  Quiet(t) /\ UNCHANGED <<enrollment, promoted, aborts>>
  BY <1>5, Quiets, Ends DEF AdminPromote, CountEnrolled, FindFirst, CheckEnrolled, Owner, Upgrading, Promoted
<1>6. ASSUME NEW t \in Task, CommitPromotion(t)
      PROVE  Quiet(t) /\ UNCHANGED aborts
  BY <1>6, Ends DEF CommitPromotion
<1>7. ASSUME NEW t \in Task, WaitlistTurn(t) PROVE ~Owner(task[t])
  <2>1. ~Owner(Idle)
    BY DEF Owner, Idle
  <2>2. (\E u \in Joiner : Join(t, u) \/ Leave(t, u)) \/ AdminPromote(t) => task[t] = Idle
    BY DEF Join, Leave, AdminPromote
  <2>3. CheckListed(t) \/ CheckFull(t) \/ ReadPosition(t) \/ SaveEntry(t) => ~Owner(task[t])
    BY DEF Owner, CheckListed, CheckFull, ReadPosition, SaveEntry
  <2>4. RemoveEntry(t) \/ Compact(t) => ~Owner(task[t])
    BY DEF Owner, RemoveEntry, Compact
  <2>5. CountEnrolled(t) \/ FindFirst(t) \/ CheckEnrolled(t) \/ CommitPromotion(t) => ~Owner(task[t])
    BY DEF Owner, CountEnrolled, FindFirst, CheckEnrolled, CommitPromotion
  <2> QED
    BY <1>7, <2>1, <2>2, <2>3, <2>4, <2>5 DEF WaitlistTurn
<1>8. PICK t \in Task : WaitlistTurn(t)
  BY DEF WaitlistNext, WaitlistTurn
<1> QED
  BY <1>1, <1>2, <1>3, <1>4, <1>5, <1>6, <1>7, <1>8 DEF WaitlistTurn

\* What the table must not do to the rows while a handler moves on.
LEMMA QuietKeepsRows ==
  ASSUME TablesOK, RowsInv, NEW t \in Task, Quiet(t),
         \A u \in Enrolled' : enrollment'[u].anchored =>
           \/ u \in Enrolled /\ enrollment[u].anchored /\ enrollment'[u].id = enrollment[u].id
           \/ Owner(task[t]) /\ enrollment'[u].id = task[t].row.id
  PROVE  RowsInv'
<1>1. \A s \in Task : ~Upgrading(task'[s]) /\ (task'[s].at = "save_hash" => task'[s].row.anchored)
  BY DEF Quiet, RowsInv, Owner
<1>2. \A r, s \in Task : Owner(task'[r]) /\ Owner(task'[s]) /\ task'[r].row.id = task'[s].row.id => r = s
  BY DEF Quiet, RowsInv
<1>3. ASSUME NEW s \in Task, NEW u \in Enrolled', Owner(task'[s]), enrollment'[u].id = task'[s].row.id,
             enrollment'[u].anchored
      PROVE  FALSE
  <2>1. s # t /\ Owner(task[s]) /\ enrollment'[u].id = task[s].row.id
    BY <1>3 DEF Quiet
  <2> QED
    BY <1>3, <2>1 DEF RowsInv
<1> QED
  BY <1>1, <1>2, <1>3 DEF RowsInv, Owner, Upgrading

\* A handler that goes on with its row.
LEMMA OwnerKeepsRows ==
  ASSUME TablesOK, RowsInv, NEW t \in Task, UNCHANGED enrollment,
         Owner(task[t]), Owner(task'[t]), task'[t].row.id = task[t].row.id,
         task'[t].at = "save_hash" => task'[t].row.anchored,
         \A s \in Task \ {t} : task'[s] = task[s]
  PROVE  RowsInv'
<1>1. ~Upgrading(task'[t])
  BY DEF Owner, Upgrading
<1>2. \A s \in Task : ~Upgrading(task'[s]) /\ (task'[s].at = "save_hash" => task'[s].row.anchored)
  BY <1>1 DEF RowsInv
<1>3. \A s \in Task : Owner(task'[s]) => Owner(task[s]) /\ task'[s].row.id = task[s].row.id
  OBVIOUS
<1>4. Enrolled' = Enrolled
  BY DEF Enrolled
<1> QED
  BY <1>2, <1>3, <1>4 DEF RowsInv, Owner, Upgrading

\* A new row has a key of its own.
LEMMA InsertKeepsRows ==
  ASSUME TablesOK, RowsInv, NEW t \in Task, InsertRow(t)
  PROVE  /\ RowsInv'
         /\ \/ Quiet(t) /\ UNCHANGED enrollment
            \/ \E row \in Row :
                 /\ SaveRow(task[t].user, row) /\ ~row.anchored /\ task[t].user \in User
                 /\ task'[t].at = "anchoring" /\ task'[t].user = task[t].user /\ task'[t].row = row
                 /\ enrollment[task[t].user] = NoRow
                 /\ \A s \in Task \ {t} : task'[s] = task[s]
<1>1. CASE Finish(t) /\ UNCHANGED enrollment
  <2>1. Quiet(t)
    BY <1>1, Ends
  <2> QED
    BY <1>1, <2>1, QuietKeepsRows DEF Enrolled
<1>2. CASE ~(Finish(t) /\ UNCHANGED enrollment)
  <2> DEFINE u == task[t].user
  <2>1. u \in User /\ task[t].version \in Version /\ task[t].at = "enroll_save"
    BY Carried DEF InsertRow
  <2>2. PICK id \in RowId :
          /\ FreshRow(id) /\ enrollment[u] = NoRow
          /\ SaveRow(u, [id |-> id, version |-> task[t].version, anchored |-> FALSE])
          /\ Goto(t, [at |-> "anchoring", user |-> u,
                      row |-> [id |-> id, version |-> task[t].version, anchored |-> FALSE]])
    BY <1>2 DEF InsertRow
  <2> DEFINE row == [id |-> id, version |-> task[t].version, anchored |-> FALSE]
  <2>3. row \in Row /\ ~row.anchored /\ row.id = id
    BY <2>1, RowIsInserted
  <2>4. SaveRow(u, row) /\ Goto(t, [at |-> "anchoring", user |-> u, row |-> row])
    BY <2>2
  <2> HIDE DEF row
  <2>5. /\ task'[t].at = "anchoring" /\ task'[t].user = u /\ task'[t].row = row
        /\ \A s \in Task \ {t} : task'[s] = task[s]
    BY <2>4, TypeParts DEF Goto
  <2>6. /\ enrollment'[u] = row /\ row # NoRow
        /\ \A v \in User \ {u} : enrollment'[v] = enrollment[v]
    BY <2>1, <2>3, <2>4, RowIsSaved, TypeParts
  <2>7. \A s \in Task : Owner(task[s]) => "row" \in DOMAIN task[s]
    BY Carried DEF Owner, RowAt, WithRow
  <2>8. \A s \in Task : Owner(task[s]) => task[s].row.id # id
    BY <2>2, <2>7 DEF FreshRow, RowInUse
  <2>9. \A v \in Enrolled : enrollment[v].id # id
    BY <2>2 DEF FreshRow, RowInUse
  <2>10. \A s \in Task : ~Upgrading(task'[s]) /\ (task'[s].at = "save_hash" => task'[s].row.anchored)
    BY <2>5 DEF RowsInv, Upgrading
  <2>11. \A r, s \in Task : Owner(task'[r]) /\ Owner(task'[s]) /\ task'[r].row.id = task'[s].row.id => r = s
    BY <2>3, <2>5, <2>8 DEF RowsInv
  <2>12. ASSUME NEW s \in Task, NEW v \in Enrolled', Owner(task'[s]), enrollment'[v].id = task'[s].row.id,
                enrollment'[v].anchored
         PROVE  FALSE
    <3>1. v # u /\ v \in Enrolled /\ enrollment'[v] = enrollment[v]
      BY <2>3, <2>6, <2>12 DEF Enrolled
    <3>2. s # t
      BY <2>3, <2>5, <2>9, <2>12, <3>1
    <3> QED
      BY <2>5, <2>12, <3>1, <3>2 DEF RowsInv
  <2>13. RowsInv'
    BY <2>10, <2>11, <2>12 DEF RowsInv, Owner, Upgrading
  <2> QED
    BY <2>1, <2>2, <2>3, <2>4, <2>5, <2>13
<1> QED
  BY <1>1, <1>2

\* The table as it is saved with an anchored row: what is new there is t's.
LEMMA SaveHashKeepsRows ==
  ASSUME TablesOK, RowsInv, NEW t \in Task, SaveHash(t)
  PROVE  /\ RowsInv' /\ Owner(task[t]) /\ UNCHANGED aborts
         /\ \/ /\ CanSave(task[t].user, task[t].row) /\ SaveRow(task[t].user, task[t].row) /\ Quiet(t)
               /\ task[t].row \in Row /\ task[t].row.anchored /\ task[t].user \in User
            \/ /\ UNCHANGED enrollment /\ Owner(task'[t])
               /\ task'[t].row = task[t].row /\ task'[t].user = task[t].user
               /\ \A s \in Task \ {t} : task'[s] = task[s]
<1>1. /\ task[t].at = "save_hash" /\ Owner(task[t]) /\ task[t] \in WithRow
      /\ task[t].user \in User /\ task[t].row \in Row /\ task[t].row.anchored
  BY Carried DEF SaveHash, RowAt, Owner, RowsInv
<1>2. CASE CanSave(task[t].user, task[t].row) /\ SaveRow(task[t].user, task[t].row) /\ Finish(t)
  <2>1. Quiet(t)
    BY <1>2, Ends
  <2>2. /\ enrollment'[task[t].user] = task[t].row
        /\ \A v \in User \ {task[t].user} : enrollment'[v] = enrollment[v]
    BY <1>1, <1>2, RowIsSaved, TypeParts
  <2>3. RowsInv'
    BY <1>1, <2>1, <2>2, QuietKeepsRows DEF Enrolled
  <2> QED
    BY <1>1, <1>2, <2>1, <2>3 DEF SaveHash
<1>3. CASE Goto(t, [task[t] EXCEPT !.at = "rollback"]) /\ UNCHANGED enrollment
  <2> DEFINE next == [task[t] EXCEPT !.at = "rollback"]
  <2>1. next.at = "rollback" /\ next.user = task[t].user /\ next.row = task[t].row
    BY <1>1, RowMoves DEF RowAt
  <2> HIDE DEF next
  <2>2. task'[t] = next /\ \A s \in Task \ {t} : task'[s] = task[s]
    BY <1>3, TypeParts DEF Goto, next
  <2>3. Owner(task'[t]) /\ task'[t].at # "save_hash"
    BY <2>1, <2>2 DEF Owner
  <2>4. RowsInv'
    BY <1>1, <1>3, <2>1, <2>2, <2>3, OwnerKeepsRows
  <2> QED
    BY <1>1, <1>3, <2>1, <2>2, <2>3, <2>4 DEF SaveHash
<1> QED
  BY <1>2, <1>3 DEF SaveHash

LEMMA RecordKeepsRows ==
  ASSUME TablesOK, RowsInv, NEW t \in Task, RecordEnrollment(t)
  PROVE  /\ RowsInv' /\ UNCHANGED <<enrollment, aborts>> /\ Owner(task[t]) /\ Owner(task'[t])
         /\ task'[t].user = task[t].user /\ task'[t].row.id = task[t].row.id
         /\ \A s \in Task \ {t} : task'[s] = task[s]
<1>1. task[t].at = "anchoring" /\ Owner(task[t]) /\ task[t] \in WithRow
  BY Carried DEF RecordEnrollment, RowAt, Owner
<1>2. PICK saved \in WithRow :
        /\ saved = [task[t] EXCEPT !.at = "save_hash", !.row.anchored = TRUE]
        /\ saved.at = "save_hash" /\ saved.user = task[t].user
        /\ saved.row.id = task[t].row.id /\ saved.row.anchored
  BY <1>1, AnchoredMoves
<1> DEFINE undone == [task[t] EXCEPT !.at = "rollback"]
<1>3. undone.at = "rollback" /\ undone.user = task[t].user /\ undone.row = task[t].row
  BY <1>1, RowMoves DEF RowAt
<1>4. PICK next \in {saved, undone} : Goto(t, next)
  BY <1>2, <1>3 DEF RecordEnrollment
<1>5. task'[t] = next /\ \A s \in Task \ {t} : task'[s] = task[s]
  BY <1>4, TypeParts DEF Goto
<1>6. /\ Owner(task'[t]) /\ task'[t].user = task[t].user /\ task'[t].row.id = task[t].row.id
      /\ task'[t].at = "save_hash" => task'[t].row.anchored
  BY <1>2, <1>3, <1>4, <1>5 DEF Owner
<1>7. UNCHANGED <<enrollment, aborts>>
  BY DEF RecordEnrollment
<1>8. RowsInv'
  BY <1>1, <1>5, <1>6, <1>7, OwnerKeepsRows
<1> QED
  BY <1>1, <1>5, <1>6, <1>7, <1>8

\* Requests that only remove rows.
LEMMA RemovalKeepsRows ==
  ASSUME TablesOK, RowsInv, NEW t \in Task, Rollback(t) \/ RemoveEnrollment(t)
  PROVE  /\ RowsInv' /\ Quiet(t) /\ task[t].user \in User
         /\ \A v \in User \ {task[t].user} : enrollment'[v] = enrollment[v]
         /\ \/ /\ enrollment[task[t].user] # NoRow /\ enrollment[task[t].user].id = task[t].row.id
               /\ enrollment'[task[t].user] = NoRow
            \/ /\ UNCHANGED enrollment
               /\ \/ Rollback(t) /\ aborts < MaxAborts /\ aborts' = aborts + 1
                  \/ enrollment[task[t].user] = NoRow \/ enrollment[task[t].user].id # task[t].row.id
<1>1. task[t].user \in User
  BY Carried DEF Rollback, RemoveEnrollment, RowAt
<1>2. Quiet(t)
  BY Ends, Quiets DEF Rollback, RemoveEnrollment, Owner, Upgrading, Promoted
<1>3. CASE RemoveRow(task[t].user, task[t].row)
  <2>1. /\ enrollment' \in [User -> Row \cup {NoRow}]
        /\ \A v \in User \ {task[t].user} : enrollment'[v] = enrollment[v]
        /\ \/ /\ enrollment[task[t].user] # NoRow /\ enrollment[task[t].user].id = task[t].row.id
              /\ enrollment'[task[t].user] = NoRow
           \/ /\ ~(enrollment[task[t].user] # NoRow /\ enrollment[task[t].user].id = task[t].row.id)
              /\ enrollment'[task[t].user] = enrollment[task[t].user]
    BY <1>1, <1>3, RowIsRemoved, TypeParts
  <2>2. RowsInv'
    BY <1>1, <1>2, <2>1, QuietKeepsRows DEF Enrolled
  <2>3. enrollment'[task[t].user] = enrollment[task[t].user] => enrollment' = enrollment
    BY <1>1, <2>1, TypeParts
  <2> QED
    BY <1>1, <1>2, <2>1, <2>2, <2>3
<1>4. CASE Rollback(t) /\ aborts < MaxAborts /\ aborts' = aborts + 1 /\ UNCHANGED enrollment
  <2>1. RowsInv'
    BY <1>2, <1>4, QuietKeepsRows DEF Enrolled
  <2> QED
    BY <1>1, <1>2, <1>4, <2>1
<1> QED
  BY <1>3, <1>4 DEF Rollback, RemoveEnrollment

\* Promotions insert rows that nobody answers for.
LEMMA CommitKeepsRows ==
  ASSUME TablesOK, RowsInv, NEW t \in Task, CommitPromotion(t), Quiet(t)
  PROVE  /\ RowsInv'
         /\ \A u \in Enrolled : enrollment'[u] = enrollment[u]
<1>1. CASE UNCHANGED enrollment
  BY <1>1, QuietKeepsRows DEF Enrolled
<1>2. ASSUME NEW row \in Row, ~row.anchored, SaveRow(task[t].user, row), enrollment[task[t].user] = NoRow,
             task[t].user \in User
      PROVE  RowsInv' /\ \A u \in Enrolled : enrollment'[u] = enrollment[u]
  <2>1. /\ enrollment'[task[t].user] = row
        /\ \A v \in User \ {task[t].user} : enrollment'[v] = enrollment[v]
    BY <1>2, RowIsSaved, TypeParts
  <2> QED
    BY <1>2, <2>1, QuietKeepsRows DEF Enrolled
<1> QED
  BY <1>1, <1>2, CommitTypes

\* The other requests leave the table alone.
LEMMA OthersAreQuiet ==
  ASSUME TablesOK, NEW t \in Task,
         \/ \E u \in Enroller : Enroll(t, u)
         \/ \E u \in User : Unenroll(t, u)
         \/ PinVersion(t) \/ Abort(t)
  PROVE  /\ Quiet(t) /\ UNCHANGED enrollment
         /\ (~Owner(task[t]) /\ UNCHANGED aborts) \/ aborts' = aborts + 1
<1>1. \A u \in User : Enroll(t, u) \/ Unenroll(t, u) => Quiet(t) /\ UNCHANGED <<enrollment, aborts>> /\ ~Owner(task[t])
  BY Quiets DEF Enroll, Unenroll, Idle, Owner, Upgrading, Promoted
<1>2. PinVersion(t) => Quiet(t) /\ UNCHANGED <<enrollment, aborts>> /\ ~Owner(task[t])
  BY Quiets, Ends DEF PinVersion, Owner, Upgrading, Promoted
<1>3. Abort(t) => Quiet(t) /\ UNCHANGED enrollment /\ aborts' = aborts + 1
  BY Ends DEF Abort
<1> QED
  BY <1>1, <1>2, <1>3, EnrollmentAssumption

\* Every step, without requests for upgrades.
LEMMA RowSteps ==
  ASSUME TablesOK, RowsInv, Upgrader = {}, Next
  PROVE  \/ UNCHANGED <<enrollment, task, aborts>>
         \/ \E t \in Task :
              \/ /\ Quiet(t) /\ UNCHANGED enrollment
                 /\ (~Owner(task[t]) /\ UNCHANGED aborts) \/ aborts' = aborts + 1
              \/ Quiet(t) /\ CommitPromotion(t)
              \/ InsertRow(t) \/ RecordEnrollment(t) \/ SaveHash(t) \/ Rollback(t) \/ RemoveEnrollment(t)
<1>1. CASE WaitlistNext
  <2>1. PICK t \in Task : Quiet(t) /\ ~Owner(task[t]) /\ (UNCHANGED <<enrollment, promoted>> \/ CommitPromotion(t)) /\ UNCHANGED aborts
    BY <1>1, WaitlistIsQuiet
  <2> QED
    BY <2>1
<1>2. CASE EnrollmentNext
  <2>1. ASSUME NEW t \in Task PROVE ~PinUpgrade(t) /\ ~SaveUpgrade(t)
    BY DEF RowsInv, Upgrading, PinUpgrade, SaveUpgrade
  <2>2. ASSUME NEW t \in Task,
               \/ \E u \in Enroller : Enroll(t, u)
               \/ \E u \in User : Unenroll(t, u)
               \/ PinVersion(t) \/ Abort(t)
        PROVE  /\ Quiet(t) /\ UNCHANGED enrollment
               /\ (~Owner(task[t]) /\ UNCHANGED aborts) \/ aborts' = aborts + 1
    BY <2>2, OthersAreQuiet
  <2>3. PublishVersion => UNCHANGED <<enrollment, task, aborts>>
    BY DEF PublishVersion
  <2> QED
    BY <1>2, <2>1, <2>2, <2>3 DEF EnrollmentNext
<1> QED
  BY <1>1, <1>2 DEF Next

LEMMA RowsStart == Init => RowsInv
BY DEF Init, EnrollmentInit, RowsInv, Owner, Upgrading, Idle, Enrolled

LEMMA RowsStep == Upgrader = {} /\ TablesOK /\ RowsInv /\ [Next]_vars => RowsInv'
<1> SUFFICES ASSUME Upgrader = {}, TablesOK, RowsInv, [Next]_vars PROVE RowsInv'
  OBVIOUS
<1>1. CASE UNCHANGED <<enrollment, task>>
  BY <1>1 DEF RowsInv, Enrolled
<1>2. ASSUME NEW t \in Task, Quiet(t), UNCHANGED enrollment PROVE RowsInv'
  BY <1>2, QuietKeepsRows DEF Enrolled
<1> QED
  BY <1>1, <1>2, RowSteps, CommitKeepsRows, InsertKeepsRows, RecordKeepsRows, SaveHashKeepsRows,
     RemovalKeepsRows DEF vars

LEMMA ConfirmedStep ==
  ASSUME Upgrader = {}, TablesOK, RowsInv, [Next]_vars,
         NEW u \in Enrolled, enrollment[u].anchored, enrollment'[u] # enrollment[u]
  PROVE  \E t \in Task : UnenrolledBy(t, u)
<1>1. u \in User /\ enrollment[u] # NoRow
  BY DEF Enrolled
<1>2. PICK t \in Task : InsertRow(t) \/ SaveHash(t) \/ Rollback(t) \/ RemoveEnrollment(t)
  BY RowSteps, CommitKeepsRows, RecordKeepsRows DEF vars
<1>3. CASE InsertRow(t)
  BY <1>1, <1>3, InsertKeepsRows, RowIsSaved, TypeParts
<1>4. CASE SaveHash(t)
  <2>1. Owner(task[t]) /\ CanSave(task[t].user, task[t].row) /\ SaveRow(task[t].user, task[t].row)
        /\ task[t].row \in Row /\ task[t].user \in User
    BY <1>1, <1>4, SaveHashKeepsRows
  <2>2. u = task[t].user
    BY <1>1, <2>1, RowIsSaved, TypeParts
  <2> QED
    BY <1>1, <2>1, <2>2 DEF CanSave, RowsInv
<1>5. CASE Rollback(t)
  <2>1. u = task[t].user /\ enrollment[u].id = task[t].row.id
    BY <1>1, <1>5, RemovalKeepsRows
  <2> QED
    BY <1>5, <2>1 DEF Rollback, Owner, RowsInv
<1>6. CASE RemoveEnrollment(t)
  <2>1. u = task[t].user /\ enrollment[u].id = task[t].row.id
    BY <1>1, <1>6, RemovalKeepsRows
  <2> QED
    BY <1>6, <2>1 DEF RemoveEnrollment, UnenrolledBy
<1> QED
  BY <1>2, <1>3, <1>4, <1>5, <1>6

\* While no version is upgraded, and whatever else overlaps or dies: a
\* confirmed enrollment is only removed by a request that read this very row.
\* The rollback of an enroll request never hits another one's row (enroll).
THEOREM ConfirmedEnrollmentsStay ==
  ASSUME Upgrader = {}
  PROVE  Spec => ConfirmedStays
<1>1. TablesOK /\ RowsInv /\ [Next]_vars =>
        [\A u \in Enrolled :
           enrollment[u].anchored /\ enrollment'[u] # enrollment[u] => \E t \in Task : UnenrolledBy(t, u)]_vars
  BY ConfirmedStep
<1>2. TablesOK /\ RowsInv /\ [Next]_vars => RowsInv'
  BY RowsStep
<1> QED
  BY <1>1, <1>2, RowsStart, TablesAreTyped, PTL DEF Spec, ConfirmedStays

----------------------------------------------------------------------------
(* Rows that are not anchored yet.                                         *)

\* On a course without a limit nobody is promoted, and a row that is not
\* anchored is still some enroll request's work, unless one died.
OwnedInv ==
  /\ aborts \in Nat /\ \A t \in Task : ~Promoted(task[t])
  /\ aborts = 0 => \A u \in Enrolled : enrollment[u].anchored \/
       \E t \in Task : Owner(task[t]) /\ task[t].user = u /\ task[t].row.id = enrollment[u].id

LEMMA OwnedStart == Init => OwnedInv
BY DEF Init, EnrollmentInit, OwnedInv, Promoted, Idle, Enrolled

\* A handler that has no row of its own.
LEMMA QuietKeepsOwned ==
  ASSUME Capacity = 0, OwnedInv, NEW t \in Task, Quiet(t), UNCHANGED enrollment,
         UNCHANGED aborts \/ aborts' = aborts + 1,
         aborts' = 0 => ~Owner(task[t])
  PROVE  OwnedInv'
<1>1. aborts' \in Nat /\ (aborts' = 0 => aborts = 0) /\ \A s \in Task : ~Promoted(task'[s])
  BY DEF OwnedInv, Quiet
<1>2. ASSUME aborts' = 0, NEW u \in Enrolled', ~enrollment'[u].anchored
      PROVE  \E s \in Task : Owner(task'[s]) /\ task'[s].user = u /\ task'[s].row.id = enrollment'[u].id
  <2>1. u \in Enrolled /\ enrollment'[u] = enrollment[u]
    BY <1>2 DEF Enrolled
  <2>2. PICK s \in Task : Owner(task[s]) /\ task[s].user = u /\ task[s].row.id = enrollment[u].id
    BY <1>1, <1>2, <2>1 DEF OwnedInv
  <2> QED
    BY <1>2, <2>1, <2>2 DEF Quiet
<1> QED
  BY <1>1, <1>2 DEF OwnedInv, Owner, Promoted

\* A handler that ends its work on a row, or writes the row of one user.
LEMMA WriteKeepsOwned ==
  ASSUME OwnedInv, UNCHANGED aborts, NEW t \in Task, NEW u \in User,
         \A s \in Task \ {t} : task'[s] = task[s], ~Promoted(task'[t]),
         Owner(task[t]) => task[t].user = u,
         \A v \in User \ {u} : enrollment'[v] = enrollment[v],
         enrollment'[u] # NoRow =>
           \/ enrollment'[u].anchored
           \/ Owner(task'[t]) /\ task'[t].user = u /\ task'[t].row.id = enrollment'[u].id
           \/ enrollment'[u] = enrollment[u] /\ ~(Owner(task[t]) /\ task[t].user = u /\ task[t].row.id = enrollment[u].id)
  PROVE  OwnedInv'
<1>1. aborts' \in Nat /\ \A s \in Task : ~Promoted(task'[s])
  BY DEF OwnedInv
<1>2. ASSUME aborts' = 0, NEW v \in Enrolled', ~enrollment'[v].anchored
      PROVE  \E s \in Task : Owner(task'[s]) /\ task'[s].user = v /\ task'[s].row.id = enrollment'[v].id
  <2>1. v \in User /\ enrollment'[v] # NoRow
    BY <1>2 DEF Enrolled
  <2>2. CASE v = u /\ Owner(task'[t]) /\ task'[t].user = u /\ task'[t].row.id = enrollment'[u].id
    BY <2>2
  <2>3. CASE ~(v = u /\ Owner(task'[t]) /\ task'[t].user = u /\ task'[t].row.id = enrollment'[u].id)
    <3>1. enrollment'[v] = enrollment[v] /\ v \in Enrolled
      BY <1>2, <2>1, <2>3 DEF Enrolled
    <3>2. PICK s \in Task : Owner(task[s]) /\ task[s].user = v /\ task[s].row.id = enrollment[v].id
      BY <1>2, <3>1 DEF OwnedInv
    <3>3. s # t
      BY <1>2, <2>1, <2>3, <3>1, <3>2
    <3> QED
      BY <3>1, <3>2, <3>3
  <2> QED
    BY <2>2, <2>3
<1> QED
  BY <1>1, <1>2 DEF OwnedInv, Owner, Promoted

\* A handler that goes on with its row.
LEMMA OwnerKeepsOwned ==
  ASSUME OwnedInv, UNCHANGED <<aborts, enrollment>>, NEW t \in Task, Owner(task'[t]),
         task'[t].row.id = task[t].row.id, task'[t].user = task[t].user,
         \A s \in Task \ {t} : task'[s] = task[s]
  PROVE  OwnedInv'
<1>1. \A s \in Task : ~Promoted(task'[s])
  BY DEF OwnedInv, Owner, Promoted
<1>2. \A s \in Task : Owner(task[s]) =>
        Owner(task'[s]) /\ task'[s].user = task[s].user /\ task'[s].row.id = task[s].row.id
  OBVIOUS
<1>3. Enrolled' = Enrolled
  BY DEF Enrolled
<1> QED
  BY <1>1, <1>2, <1>3 DEF OwnedInv, Owner, Promoted

LEMMA OwnedStep ==
  ASSUME Upgrader = {}, Capacity = 0, TablesOK, RowsInv, OwnedInv, [Next]_vars
  PROVE  OwnedInv'
<1>1. CASE UNCHANGED <<enrollment, task, aborts>>
  BY <1>1 DEF OwnedInv, Enrolled, Owner, Promoted
<1>2. ASSUME NEW t \in Task, Quiet(t), UNCHANGED enrollment,
             (~Owner(task[t]) /\ UNCHANGED aborts) \/ aborts' = aborts + 1
      PROVE  OwnedInv'
  <2>1. aborts \in Nat /\ (aborts' = aborts + 1 => aborts' # 0)
    BY DEF OwnedInv
  <2>2. (UNCHANGED aborts \/ aborts' = aborts + 1) /\ (aborts' = 0 => ~Owner(task[t]))
    BY <1>2, <2>1
  <2> QED
    BY <1>2, <2>2, QuietKeepsOwned
<1>3. ASSUME NEW t \in Task, Quiet(t), CommitPromotion(t) PROVE FALSE
  BY <1>3 DEF CommitPromotion, OwnedInv, Promoted
<1>4. ASSUME NEW t \in Task, InsertRow(t) PROVE OwnedInv'
  <2>1. UNCHANGED aborts /\ ~Owner(task[t])
    BY <1>4 DEF InsertRow, Owner
  <2>2. CASE Quiet(t) /\ UNCHANGED enrollment
    BY <2>1, <2>2, <1>2
  <2>3. ASSUME NEW row \in Row, SaveRow(task[t].user, row), task[t].user \in User,
               task'[t].at = "anchoring", task'[t].user = task[t].user, task'[t].row = row,
               \A s \in Task \ {t} : task'[s] = task[s]
        PROVE  OwnedInv'
    <3>1. enrollment'[task[t].user] = row /\ \A v \in User \ {task[t].user} : enrollment'[v] = enrollment[v]
      BY <2>3, RowIsSaved, TypeParts
    <3>2. Owner(task'[t]) /\ ~Promoted(task'[t])
      BY <2>3 DEF Owner, Promoted
    <3> QED
      BY <2>1, <2>3, <3>1, <3>2, WriteKeepsOwned
  <2> QED
    BY <1>4, <2>2, <2>3, InsertKeepsRows
<1>5. ASSUME NEW t \in Task, RecordEnrollment(t) PROVE OwnedInv'
  BY <1>5, RecordKeepsRows, OwnerKeepsOwned
<1>6. ASSUME NEW t \in Task, SaveHash(t) PROVE OwnedInv'
  <2>1. CASE /\ SaveRow(task[t].user, task[t].row) /\ Quiet(t)
             /\ task[t].row \in Row /\ task[t].row.anchored /\ task[t].user \in User
    <3>1. /\ enrollment'[task[t].user] = task[t].row
          /\ \A v \in User \ {task[t].user} : enrollment'[v] = enrollment[v]
      BY <2>1, RowIsSaved, TypeParts
    <3>2. UNCHANGED aborts /\ ~Promoted(task'[t]) /\ \A s \in Task \ {t} : task'[s] = task[s]
      BY <1>6, <2>1 DEF SaveHash, Quiet, OwnedInv
    <3> QED
      BY <2>1, <3>1, <3>2, WriteKeepsOwned
  <2>2. CASE /\ UNCHANGED enrollment /\ Owner(task'[t])
             /\ task'[t].row = task[t].row /\ task'[t].user = task[t].user
             /\ \A s \in Task \ {t} : task'[s] = task[s]
    BY <1>6, <2>2, OwnerKeepsOwned DEF SaveHash
  <2> QED
    BY <1>6, <2>1, <2>2, SaveHashKeepsRows
<1>7. ASSUME NEW t \in Task, Rollback(t) \/ RemoveEnrollment(t) PROVE OwnedInv'
  <2>1. Quiet(t) /\ task[t].user \in User /\ \A s \in Task \ {t} : task'[s] = task[s]
    BY <1>7, RemovalKeepsRows DEF Quiet
  <2>2. ~Promoted(task'[t])
    BY <2>1 DEF Quiet, OwnedInv
  <2>3. CASE Rollback(t) /\ UNCHANGED enrollment /\ aborts' = aborts + 1
    BY <1>2, <2>1, <2>3
  <2>4. CASE UNCHANGED aborts
    <3>1. \A v \in User \ {task[t].user} : enrollment'[v] = enrollment[v]
      BY <1>7, RemovalKeepsRows
    <3>2. aborts # aborts + 1
      BY DEF OwnedInv
    <3>3. enrollment'[task[t].user] # NoRow =>
            /\ enrollment'[task[t].user] = enrollment[task[t].user]
            /\ enrollment[task[t].user].id # task[t].row.id
      BY <1>7, <2>4, <3>2, RemovalKeepsRows
    <3> QED
      BY <2>1, <2>2, <2>4, <3>1, <3>3, WriteKeepsOwned
  <2>5. UNCHANGED aborts \/ (Rollback(t) /\ UNCHANGED enrollment /\ aborts' = aborts + 1)
    BY <1>7 DEF Rollback, RemoveEnrollment
  <2> QED
    BY <2>3, <2>4, <2>5
<1>8. CASE UNCHANGED vars
  BY <1>1, <1>8 DEF vars
<1> QED
  BY <1>1, <1>2, <1>3, <1>4, <1>5, <1>6, <1>7, <1>8, RowSteps

\* On a course without a limit, while no version is upgraded and no handler
\* dies, however enroll and unenroll overlap: once all requests have ended
\* every enrollment is anchored. The second save and the rollback settle every
\* row that was inserted (enroll).
THEOREM RollbackSettles ==
  ASSUME Upgrader = {}, Capacity = 0
  PROVE  Spec => [](aborts = 0 => AnchoredAtRest)
<1>1. OwnedInv => (aborts = 0 => AnchoredAtRest)
  BY DEF OwnedInv, AnchoredAtRest, AtRest, Owner, Idle
<1>2. TablesOK /\ RowsInv /\ [Next]_vars => RowsInv'
  BY RowsStep
<1>3. TablesOK /\ RowsInv /\ OwnedInv /\ [Next]_vars => OwnedInv'
  BY OwnedStep
<1> QED
  BY <1>1, <1>2, <1>3, RowsStart, OwnedStart, TablesAreTyped, PTL DEF Spec

----------------------------------------------------------------------------
(* Handlers served one at a time.                                          *)

OneAtATime == \A s, t \in Task : s = t

\* Where the queue, or a place on the course, matters to a handler.
Elsewhere(x) ==
  x.at \notin {"join_save", "leave_remove", "leave_compact", "promote_find", "promote_check", "promote_commit"}

\* The waiting users are at 1 to n, one at each.
Line(n) ==
  /\ \A u \in Waiting : waitlist[u].position \in 1..n
  /\ \A p \in 1..n : \E u \in Waiting : waitlist[u].position = p
  /\ \A u, v \in Waiting : waitlist[u].position = waitlist[v].position => u = v

\* The same, but nobody is at p.
Gap(n, p) ==
  /\ p \in 1..n
  /\ \A u \in Waiting : waitlist[u].position \in 1..n /\ waitlist[u].position # p
  /\ \A q \in 1..n : q # p => \E u \in Waiting : waitlist[u].position = q
  /\ \A u, v \in Waiting : waitlist[u].position = waitlist[v].position => u = v

QueueInv ==
  /\ (\A t \in Task : task[t].at # "leave_compact") => \E n \in Nat : Line(n)
  /\ \A t \in Task :
       /\ task[t].at = "join_save" => \E n \in Nat : Line(n) /\ task[t].position = n + 1
       /\ task[t].at = "leave_remove" => waitlist[task[t].user] = task[t].entry
       /\ task[t].at = "leave_compact" => \E n \in Nat : Gap(n, task[t].entry.position)
       /\ task[t].at \in {"promote_check", "promote_commit"} =>
            waitlist[task[t].user] = task[t].entry /\ task[t].entry.position = 1
       /\ task[t].at = "promote_commit" /\ enrollment[task[t].user] # NoRow => task[t].enrolled

OthersStay(t) == \A s \in Task \ {t} : task'[s] = task[s]

\* The handlers of enrollments have nothing to do with either.
LEMMA EnrollmentTurns ==
  ASSUME TablesOK, EnrollmentNext
  PROVE  \/ UNCHANGED <<task, enrollment>>
         \/ \E t \in Task : Elsewhere(task'[t]) /\ (Elsewhere(task[t]) \/ Abort(t)) /\ OthersStay(t)
<1>1. ASSUME NEW t \in Task, NEW next, Goto(t, next), Elsewhere(next), Elsewhere(task[t])
      PROVE  Elsewhere(task'[t]) /\ Elsewhere(task[t]) /\ OthersStay(t)
  BY <1>1, TypeParts DEF Goto, OthersStay
<1>2. Elsewhere(Idle)
  BY DEF Elsewhere, Idle
<1>3. ASSUME NEW t \in Task, NEW u \in User, Enroll(t, u) \/ Unenroll(t, u) \/ UpgradeVersion(t, u)
      PROVE  Elsewhere(task'[t]) /\ Elsewhere(task[t]) /\ OthersStay(t)
  BY <1>1, <1>2, <1>3 DEF Enroll, Unenroll, UpgradeVersion, Elsewhere
<1>4. ASSUME NEW t \in Task, PinVersion(t) \/ InsertRow(t) \/ Rollback(t) \/ RemoveEnrollment(t) \/ SaveUpgrade(t)
      PROVE  Elsewhere(task'[t]) /\ Elsewhere(task[t]) /\ OthersStay(t)
  BY <1>1, <1>2, <1>4 DEF PinVersion, InsertRow, Rollback, RemoveEnrollment, SaveUpgrade, Finish, Elsewhere
<1>5. ASSUME NEW t \in Task, RecordEnrollment(t) \/ SaveHash(t) \/ PinUpgrade(t)
      PROVE  Elsewhere(task'[t]) /\ Elsewhere(task[t]) /\ OthersStay(t)
  <2>1. task[t] \in WithRow /\ Elsewhere(task[t])
    BY <1>5, Carried DEF RecordEnrollment, SaveHash, PinUpgrade, RowAt, Elsewhere
  <2>2. \A x \in WithRow : Elsewhere(x)
    BY DEF WithRow, RowAt, Elsewhere
  <2>3. Elsewhere([task[t] EXCEPT !.at = "save_hash", !.row.anchored = TRUE])
    BY <2>1, <2>2, AnchoredMoves
  <2>4. Elsewhere([task[t] EXCEPT !.at = "rollback"])
    BY <2>1, <2>2, RowMoves DEF RowAt
  <2>5. Elsewhere([task[t] EXCEPT !.at = "upgrade_save", !.row.version = latest])
    BY <2>1, <2>2, VersionMoves, TypeParts
  <2> QED
    BY <1>1, <1>2, <1>5, <2>1, <2>3, <2>4, <2>5 DEF RecordEnrollment, SaveHash, PinUpgrade, Finish
<1>6. ASSUME NEW t \in Task, Abort(t) PROVE Elsewhere(task'[t]) /\ OthersStay(t)
  BY <1>2, <1>6, TypeParts DEF Abort, Finish, Goto, OthersStay
<1>7. PublishVersion => UNCHANGED <<task, enrollment>>
  BY DEF PublishVersion
<1> QED
  BY <1>3, <1>4, <1>5, <1>6, <1>7, EnrollmentAssumption DEF EnrollmentNext

\* What the steps do to a queue without gaps.
LEMMA LineGrows ==
  ASSUME TablesOK, NEW n \in Nat, Line(n), NEW u \in User, Queued(u, n + 1)
  PROVE  Line(n + 1)'
<1>1. Waiting' = Waiting \cup {u} /\ u \notin Waiting
  BY EntryFacts DEF Queued, Waiting
<1>2. waitlist'[u].position = n + 1 /\ \A v \in Waiting : waitlist'[v] = waitlist[v]
  BY <1>1 DEF Queued, Waiting
<1>3. ASSUME NEW p \in 1..(n + 1) PROVE \E v \in Waiting' : waitlist'[v].position = p
  BY <1>1, <1>2 DEF Line
<1> QED
  BY <1>1, <1>2, <1>3 DEF Line

LEMMA LineBreaks ==
  ASSUME TablesOK, NEW n \in Nat, Line(n), NEW u \in User, NEW e \in Entry, waitlist[u] = e, Unqueued(u, e)
  PROVE  Gap(n, e.position)'
<1>1. u \in Waiting /\ Waiting' = Waiting \ {u}
  BY EntryFacts DEF Unqueued, Waiting
<1>2. \A v \in Waiting' : waitlist'[v] = waitlist[v]
  BY <1>1 DEF Unqueued, Waiting
<1>3. e.position \in 1..n
  BY <1>1 DEF Line
<1>4. ASSUME NEW q \in 1..n, q # e.position PROVE \E v \in Waiting' : waitlist'[v].position = q
  BY <1>1, <1>2, <1>4 DEF Line
<1> QED
  BY <1>1, <1>2, <1>3, <1>4 DEF Line, Gap

LEMMA GapCloses ==
  ASSUME TablesOK, NEW n \in Nat, NEW p \in 1..n, Gap(n, p), MovedUp(p)
  PROVE  Line(n - 1)'
<1>1. Waiting' = Waiting
  BY DEF MovedUp, Waiting
<1>2. \A u \in Waiting :
        /\ u \in User /\ waitlist[u].position \in 1..n /\ waitlist[u].position # p
        /\ waitlist'[u].position = IF waitlist[u].position > p THEN waitlist[u].position - 1 ELSE waitlist[u].position
  BY DEF MovedUp, Waiting, Gap
<1>3. ASSUME NEW q \in 1..(n - 1) PROVE \E u \in Waiting : waitlist'[u].position = q
  <2>1. CASE q < p
    <3>1. PICK u \in Waiting : waitlist[u].position = q
      BY <2>1 DEF Gap
    <3> QED
      BY <1>2, <2>1, <3>1
  <2>2. CASE q >= p
    <3>1. q + 1 \in 1..n /\ q + 1 # p /\ q + 1 > p
      BY <2>2
    <3>2. PICK u \in Waiting : waitlist[u].position = q + 1
      BY <3>1 DEF Gap
    <3>3. waitlist'[u].position = (q + 1) - 1
      BY <1>2, <3>1, <3>2
    <3> QED
      BY <3>3
  <2> QED
    BY <2>1, <2>2
<1>4. ASSUME NEW u \in Waiting, NEW v \in Waiting, waitlist'[u].position = waitlist'[v].position PROVE u = v
  <2>1. waitlist[u].position = waitlist[v].position
    BY <1>2, <1>4
  <2> QED
    BY <2>1 DEF Gap
<1>5. \A u \in Waiting : waitlist'[u].position \in 1..(n - 1)
  BY <1>2
<1> QED
  BY <1>1, <1>3, <1>4, <1>5 DEF Line

LEMMA LineIsServed ==
  ASSUME TablesOK, NEW n \in Nat, Line(n), NEW u \in User, NEW e \in Entry, waitlist[u] = e, e.position = 1, Served(u, e)
  PROVE  n - 1 \in Nat /\ Line(n - 1)'
<1>1. u \in Waiting /\ Waiting' = Waiting \ {u}
  BY EntryFacts DEF Served, Waiting
<1>2. 1 \in 1..n
  BY <1>1 DEF Line
<1>3. \A v \in Waiting' : /\ waitlist[v].position \in 1..n /\ waitlist[v].position # 1
                          /\ waitlist'[v].position = waitlist[v].position - 1
  BY <1>1 DEF Served, Line, Waiting
<1>4. ASSUME NEW q \in 1..(n - 1) PROVE \E v \in Waiting' : waitlist'[v].position = q
  <2>1. q + 1 \in 1..n /\ q + 1 # 1
    OBVIOUS
  <2>2. PICK v \in Waiting : waitlist[v].position = q + 1
    BY <2>1 DEF Line
  <2>3. v \in Waiting' /\ waitlist'[v].position = (q + 1) - 1
    BY <1>1, <1>3, <2>1, <2>2
  <2> QED
    BY <2>3
<1>5. ASSUME NEW v \in Waiting', NEW w \in Waiting', waitlist'[v].position = waitlist'[w].position PROVE v = w
  <2>1. waitlist[v].position = waitlist[w].position
    BY <1>3, <1>5
  <2> QED
    BY <1>1, <2>1 DEF Line
<1>6. \A v \in Waiting' : waitlist'[v].position \in 1..(n - 1)
  BY <1>3
<1> QED
  BY <1>2, <1>4, <1>5, <1>6 DEF Line

\* Most steps leave the queue alone.
LEMMA QueueAlone ==
  ASSUME OneAtATime, QueueInv, UNCHANGED waitlist, NEW t \in Task, Elsewhere(task'[t]),
         task[t].at # "leave_compact"
  PROVE  QueueInv'
<1>1. \A s \in Task : Elsewhere(task'[s]) /\ task[s].at # "leave_compact"
  BY DEF OneAtATime
<1>2. PICK n \in Nat : Line(n)
  BY <1>1 DEF QueueInv
<1>3. Line(n)'
  BY <1>2 DEF Line, Waiting
<1> QED
  BY <1>1, <1>3 DEF QueueInv, Elsewhere

\* A line is a line, whoever has to do with it next.
LEMMA LineStays ==
  ASSUME NEW n \in Nat, Line(n), UNCHANGED waitlist
  PROVE  Line(n)'
BY DEF Line, Waiting

LEMMA NextInLine ==
  ASSUME TablesOK, NEW n \in Nat, Line(n)
  PROVE  NextPosition = n + 1
<1>1. CASE Waiting = {}
  <2>1. n = 0
    <3>1. CASE n > 0
      <4>1. 1 \in 1..n
        BY <3>1
      <4> QED
        BY <1>1, <4>1 DEF Line
    <3> QED
      BY <3>1
  <2> QED
    BY <1>1, <2>1, NextPositionIsNext, TypeParts
<1>2. CASE Waiting # {}
  <2>1. PICK u \in Waiting : NextPosition = waitlist[u].position + 1
    BY <1>2, NextPositionIsNext, TypeParts
  <2>2. waitlist[u].position \in 1..n
    BY <2>1 DEF Line
  <2>3. n \in 1..n
    BY <2>2
  <2>4. PICK v \in Waiting : waitlist[v].position = n
    BY <2>3 DEF Line
  <2>5. n < NextPosition
    BY <2>4, NextPositionIsNext, TypeParts
  <2> QED
    BY <2>1, <2>2, <2>5
<1> QED
  BY <1>1, <1>2

LEMMA QueueStart == Init => QueueInv
<1> SUFFICES ASSUME Init PROVE QueueInv
  OBVIOUS
<1>1. Waiting = {}
  BY DEF Init, Waiting
<1>2. Line(0)
  BY <1>1 DEF Line
<1>3. \A t \in Task : Elsewhere(task[t])
  BY DEF Init, EnrollmentInit, Idle, Elsewhere
<1> QED
  BY <1>2, <1>3 DEF QueueInv, Elsewhere

LEMMA QueueStep ==
  ASSUME OneAtATime, MaxAborts = 0, TablesOK, QueueInv, Next
  PROVE  QueueInv'
<1>1. CASE EnrollmentNext /\ UNCHANGED waitlist
  <2>1. CASE UNCHANGED <<task, enrollment>>
    BY <1>1, <2>1, LineStays DEF QueueInv, Gap, Waiting
  <2>2. ASSUME NEW t \in Task PROVE ~Abort(t)
    BY TypeParts DEF Abort
  <2> QED
    BY <1>1, <2>1, <2>2, EnrollmentTurns, QueueAlone DEF Elsewhere
<1>2. ASSUME NEW t \in Task, task[t].at # "leave_compact", UNCHANGED waitlist, Elsewhere(task'[t]) PROVE QueueInv'
  BY <1>2, QueueAlone
<1>3. Elsewhere(Idle)
  BY DEF Elsewhere, Idle
<1>4. ASSUME NEW t \in Task, NEW next, Goto(t, next) PROVE task'[t] = next
  BY <1>4, TypeParts DEF Goto
<1>5. ASSUME NEW t \in Task, NEW u \in Joiner, Join(t, u) PROVE QueueInv'
  BY <1>2, <1>4, <1>5 DEF Join, Idle, Elsewhere
<1>6. ASSUME NEW t \in Task, CheckListed(t) \/ CheckFull(t) PROVE QueueInv'
  <2>1. task[t] \in WithUser
    BY <1>6, Carried DEF CheckListed, CheckFull, UserAt
  <2>2. \A a \in {"join_full", "join_position"} : Elsewhere([task[t] EXCEPT !.at = a])
    BY <2>1, UserMoves DEF UserAt, Elsewhere
  <2> QED
    BY <1>2, <1>3, <1>4, <1>6, <2>2 DEF CheckListed, CheckFull, Finish
<1>7. ASSUME NEW t \in Task, ReadPosition(t) PROVE QueueInv'
  <2>1. /\ task'[t] = [at |-> "join_save", user |-> task[t].user, position |-> NextPosition]
        /\ UNCHANGED waitlist /\ task[t].at = "join_position"
    BY <1>4, <1>7 DEF ReadPosition
  <2>2. PICK n \in Nat : Line(n)
    BY <2>1 DEF QueueInv, OneAtATime
  <2>3. Line(n)' /\ task'[t].at = "join_save" /\ task'[t].position = n + 1
    BY <2>1, <2>2, LineStays, NextInLine
  <2> QED
    BY <2>3 DEF QueueInv, OneAtATime
<1>8. ASSUME NEW t \in Task, SaveEntry(t) PROVE QueueInv'
  <2>1. /\ task[t].at = "join_save" /\ task[t].user \in User /\ task'[t] = Idle
        /\ Queued(task[t].user, task[t].position) \/ UNCHANGED waitlist
    BY <1>8, SaveEntryTypes
  <2>2. PICK n \in Nat : Line(n) /\ task[t].position = n + 1
    BY <2>1 DEF QueueInv
  <2>3. \E m \in Nat : Line(m)'
    BY <2>1, <2>2, LineGrows, LineStays
  <2> QED
    BY <1>3, <2>1, <2>3 DEF QueueInv, OneAtATime, Elsewhere
<1>9. ASSUME NEW t \in Task, NEW u \in Joiner, Leave(t, u) PROVE QueueInv'
  <2>1. /\ UNCHANGED waitlist /\ task[t] = Idle
        /\ task'[t] = [at |-> "leave_remove", user |-> u, entry |-> waitlist[u]]
    BY <1>9, LeaveTypes DEF Leave
  <2>2. PICK n \in Nat : Line(n)
    BY <2>1 DEF QueueInv, OneAtATime, Idle
  <2>3. Line(n)'
    BY <2>1, <2>2, LineStays
  <2> QED
    BY <2>1, <2>3 DEF QueueInv, OneAtATime
<1>10. ASSUME NEW t \in Task, RemoveEntry(t) PROVE QueueInv'
  <2>1. /\ task[t].at = "leave_remove" /\ task[t].user \in User /\ task[t].entry \in Entry
        /\ task'[t].at = "leave_compact" /\ task'[t].entry = task[t].entry
        /\ Unqueued(task[t].user, task[t].entry) /\ waitlist[task[t].user] = task[t].entry
    BY <1>10, RemoveEntryTypes DEF QueueInv
  <2>2. PICK n \in Nat : Line(n)
    BY <2>1 DEF QueueInv, OneAtATime
  <2>3. PICK e \in Entry : e = task[t].entry
    BY <2>1
  <2>4. Gap(n, e.position)'
    BY <2>1, <2>2, <2>3, LineBreaks
  <2>5. Gap(n, task[t].entry.position)'
    BY <2>1, <2>3, <2>4
  <2> QED
    BY <2>1, <2>5 DEF QueueInv, OneAtATime
<1>11. ASSUME NEW t \in Task, Compact(t) PROVE QueueInv'
  <2>1. task[t].at = "leave_compact" /\ task'[t] = Idle /\ MovedUp(task[t].entry.position)
    BY <1>11, CompactTypes
  <2>2. PICK n \in Nat : Gap(n, task[t].entry.position)
    BY <2>1 DEF QueueInv
  <2>3. n - 1 \in Nat /\ task[t].entry.position \in 1..n
    BY <2>2 DEF Gap
  <2>4. Line(n - 1)'
    BY <2>1, <2>2, <2>3, GapCloses
  <2> QED
    BY <1>3, <2>1, <2>3, <2>4 DEF QueueInv, OneAtATime, Elsewhere
<1>12. ASSUME NEW t \in Task, AdminPromote(t) \/ CountEnrolled(t) PROVE QueueInv'
  <2>1. /\ task'[t].at \in {"promote_count", "promote_find", "idle"} /\ UNCHANGED waitlist
        /\ task[t].at \in {"idle", "promote_count"}
    BY <1>4, <1>12 DEF AdminPromote, CountEnrolled, Finish, Idle
  <2>2. PICK n \in Nat : Line(n)
    BY <2>1 DEF QueueInv, OneAtATime
  <2>3. Line(n)'
    BY <2>1, <2>2, LineStays
  <2> QED
    BY <2>1, <2>3 DEF QueueInv, OneAtATime
<1>13. ASSUME NEW t \in Task, FindFirst(t) PROVE QueueInv'
  <2>1. UNCHANGED waitlist /\ task[t].at = "promote_find"
    BY <1>13 DEF FindFirst
  <2>2. \/ task'[t] = Idle
        \/ /\ task'[t].at = "promote_check" /\ waitlist'[task'[t].user] = task'[t].entry
           /\ task'[t].entry.position = 1
    <3>1. ASSUME NEW u \in Waiting, waitlist[u].position = 1,
                 task'[t] = [at |-> "promote_check", user |-> u, entry |-> waitlist[u]]
          PROVE  /\ task'[t].at = "promote_check" /\ waitlist'[task'[t].user] = task'[t].entry
                 /\ task'[t].entry.position = 1
      BY <2>1, <3>1
    <3> QED
      BY <1>4, <1>13, <3>1 DEF FindFirst, Finish
  <2>3. PICK n \in Nat : Line(n)
    BY <2>1 DEF QueueInv, OneAtATime
  <2>4. Line(n)'
    BY <2>1, <2>3, LineStays
  <2> QED
    BY <1>3, <2>2, <2>4 DEF QueueInv, OneAtATime, Elsewhere
<1>14. ASSUME NEW t \in Task, CheckEnrolled(t) PROVE QueueInv'
  <2>1. /\ UNCHANGED <<waitlist, enrollment>> /\ task[t].at = "promote_check"
        /\ task'[t] = [at |-> "promote_commit", user |-> task[t].user, entry |-> task[t].entry,
                       enrolled |-> enrollment[task[t].user] # NoRow]
    BY <1>4, <1>14 DEF CheckEnrolled
  <2>2. PICK b : b = (enrollment[task[t].user] # NoRow)
    OBVIOUS
  <2>3. task'[t] = [at |-> "promote_commit", user |-> task[t].user, entry |-> task[t].entry, enrolled |-> b]
    BY <2>1, <2>2, Zenon
  <2>4. /\ task'[t].at = "promote_commit" /\ task'[t].user = task[t].user /\ task'[t].entry = task[t].entry
        /\ task'[t].enrolled = b
    BY <2>3
  <2>5. enrollment[task[t].user] # NoRow => b
    BY <2>2, Zenon
  <2>6. enrollment'[task'[t].user] # NoRow => task'[t].enrolled
    BY <2>1, <2>4, <2>5, Zenon
  <2>7. waitlist[task[t].user] = task[t].entry /\ task[t].entry.position = 1
    BY <2>1 DEF QueueInv
  <2>8. PICK n \in Nat : Line(n)
    BY <2>1 DEF QueueInv, OneAtATime
  <2>9. Line(n)'
    BY <2>1, <2>8, LineStays
  <2> QED
    BY <2>1, <2>4, <2>6, <2>7, <2>9 DEF QueueInv, OneAtATime
<1>15. ASSUME NEW t \in Task, CommitPromotion(t) PROVE QueueInv'
  <2>1. /\ task[t].at = "promote_commit" /\ task[t].user \in User /\ task[t].entry \in Entry /\ task'[t] = Idle
        /\ waitlist[task[t].user] = task[t].entry /\ task[t].entry.position = 1
        /\ enrollment[task[t].user] # NoRow => task[t].enrolled
    BY <1>15, CommitTypes DEF QueueInv
  <2>2. Served(task[t].user, task[t].entry)
    BY <1>15, <2>1, CommitTypes
  <2>3. PICK n \in Nat : Line(n)
    BY <2>1 DEF QueueInv, OneAtATime
  <2>4. n - 1 \in Nat /\ Line(n - 1)'
    BY <2>1, <2>2, <2>3, LineIsServed
  <2> QED
    BY <1>3, <2>1, <2>4 DEF QueueInv, OneAtATime, Elsewhere
<1> QED
  BY <1>1, <1>5, <1>6, <1>7, <1>8, <1>9, <1>10, <1>11, <1>12, <1>13, <1>14, <1>15 DEF Next, WaitlistNext

\* A line of n is as long as its number of users says.
LEMMA LineCounts ==
  ASSUME TablesOK, NEW n \in Nat, Line(n)
  PROVE  {waitlist[u].position : u \in Waiting} = 1..Cardinality(Waiting)
<1> DEFINE f == [u \in Waiting |-> waitlist[u].position]
           P == {waitlist[u].position : u \in Waiting}
<1>1. P = 1..n
  BY DEF Line
<1>2. f \in Bijection(Waiting, 1..n)
  BY DEF Line, Bijection, Injection, Surjection, IsInjective
<1>3. ExistsBijection(Waiting, 1..n)
  BY <1>2 DEF ExistsBijection
<1>4. ExistsBijection(1..n, Waiting)
  <2>1. \A S, T : ExistsBijection(S, T) => ExistsBijection(T, S)
    BY Fun_ExistsBijSymmetric
  <2> QED
    BY <1>3, <2>1
<1>5. IsFiniteSet(1..n) /\ Cardinality(1..n) = n
  BY FS_Interval
<1>6. Cardinality(Waiting) = n
  BY <1>4, <1>5, FS_Bijection
<1> QED
  BY <1>1, <1>6

\* Handlers that are served one at a time and do not die leave the positions
\* of the queue 1 to the number of the waiting, for any number of users: the
\* two statements of a leave and the promotion move up whom they must.
THEOREM QueueHasNoGaps ==
  ASSUME OneAtATime, MaxAborts = 0
  PROVE  Spec => []PositionsAreContiguous
<1>1. TablesOK /\ QueueInv /\ [Next]_vars => QueueInv'
  <2>1. QueueInv /\ UNCHANGED vars => QueueInv'
    BY LineStays DEF vars, QueueInv, Gap, Waiting
  <2> QED
    BY <2>1, QueueStep
<1>2. TablesOK /\ QueueInv => PositionsAreContiguous
  <2>1. ASSUME TablesOK, QueueInv, AtRest PROVE \E n \in Nat : Line(n)
    BY <2>1 DEF AtRest, QueueInv, Idle
  <2> QED
    BY <2>1, LineCounts DEF PositionsAreContiguous
<1> QED
  BY <1>1, <1>2, QueueStart, TablesAreTyped, PTL DEF Spec

----------------------------------------------------------------------------
(* Places for those who are promoted.                                      *)

\* Once one more promotion has counted, the promoted are less than there are
\* places, and all others may be under way; after that each can only take what
\* it was under way for.
PlaceInv ==
  /\ IsFiniteSet(Enrolled) /\ promoted \subseteq Enrolled
  /\ OversoldByOverlapOnly

\* A step writes the row of one user at most.
LEMMA OneRowIsWritten ==
  ASSUME TablesOK, Next
  PROVE  \/ UNCHANGED enrollment
         \/ \E u \in User : \A v \in User \ {u} : enrollment'[v] = enrollment[v]
<1>1. ASSUME NEW u \in User, NEW row \in Row, SaveRow(u, row)
      PROVE  \A v \in User \ {u} : enrollment'[v] = enrollment[v]
  BY <1>1, RowIsSaved, TypeParts
<1>2. ASSUME NEW u \in User, NEW row, RemoveRow(u, row)
      PROVE  \A v \in User \ {u} : enrollment'[v] = enrollment[v]
  BY <1>2, RowIsRemoved, TypeParts
<1>3. ASSUME NEW t \in Task, InsertRow(t) PROVE
        UNCHANGED enrollment \/ \E u \in User : \A v \in User \ {u} : enrollment'[v] = enrollment[v]
  <2>1. task[t].user \in User /\ task[t].version \in Version
    BY <1>3, Carried DEF InsertRow
  <2>2. \A id \in RowId : [id |-> id, version |-> task[t].version, anchored |-> FALSE] \in Row
    BY <2>1, RowIsInserted
  <2> QED
    BY <1>1, <1>3, <2>1, <2>2 DEF InsertRow
<1>4. ASSUME NEW t \in Task, SaveHash(t) \/ SaveUpgrade(t) PROVE
        UNCHANGED enrollment \/ \E u \in User : \A v \in User \ {u} : enrollment'[v] = enrollment[v]
  <2>1. task[t].user \in User /\ task[t].row \in Row
    BY <1>4, Carried DEF SaveHash, SaveUpgrade, RowAt
  <2> QED
    BY <1>1, <1>4, <2>1 DEF SaveHash, SaveUpgrade
<1>5. ASSUME NEW t \in Task, Rollback(t) \/ RemoveEnrollment(t) PROVE
        UNCHANGED enrollment \/ \E u \in User : \A v \in User \ {u} : enrollment'[v] = enrollment[v]
  <2>1. task[t].user \in User
    BY <1>5, Carried DEF Rollback, RemoveEnrollment, RowAt
  <2> QED
    BY <1>2, <1>5, <2>1 DEF Rollback, RemoveEnrollment
<1>6. ASSUME NEW t \in Task, CommitPromotion(t) PROVE
        UNCHANGED enrollment \/ \E u \in User : \A v \in User \ {u} : enrollment'[v] = enrollment[v]
  BY <1>1, <1>6, CommitTypes
<1>7. WaitlistNext => UNCHANGED enrollment \/ \E t \in Task : CommitPromotion(t)
  BY WaitlistIsQuiet
<1>8. EnrollmentNext => UNCHANGED enrollment \/
        \E t \in Task : InsertRow(t) \/ SaveHash(t) \/ SaveUpgrade(t) \/ Rollback(t) \/ RemoveEnrollment(t)
  BY DEF EnrollmentNext, PublishVersion, Enroll, Unenroll, UpgradeVersion, PinVersion, RecordEnrollment, PinUpgrade, Abort
<1> QED
  BY <1>3, <1>4, <1>5, <1>6, <1>7, <1>8 DEF Next

LEMMA EnrolledStaysFinite ==
  ASSUME TablesOK, [Next]_vars, IsFiniteSet(Enrolled)
  PROVE  IsFiniteSet(Enrolled')
<1>1. CASE UNCHANGED enrollment
  BY <1>1 DEF Enrolled
<1>2. ASSUME NEW u \in User, \A v \in User \ {u} : enrollment'[v] = enrollment[v] PROVE IsFiniteSet(Enrolled')
  <2>1. Enrolled' \subseteq Enrolled \cup {u}
    BY <1>2 DEF Enrolled
  <2>2. IsFiniteSet(Enrolled \cup {u})
    BY FS_AddElement
  <2> QED
    BY <2>1, <2>2, FS_Subset
<1> QED
  BY <1>1, <1>2, OneRowIsWritten DEF vars

LEMMA FewUnderWay == UnderWay \subseteq Task /\ IsFiniteSet(UnderWay) /\ Cardinality(UnderWay) <= Cardinality(Task)
<1>1. UnderWay \subseteq Task
  BY DEF UnderWay
<1> QED
  BY <1>1, WaitlistAssumption, FS_Subset

\* What a promotion that commits leaves behind.
LEMMA CommitTakesAPlace ==
  ASSUME TablesOK, NEW t \in Task, CommitPromotion(t), promoted \subseteq Enrolled
  PROVE  /\ promoted' \subseteq Enrolled'
         /\ promoted' = promoted \/ promoted' = promoted \cup {task[t].user}
         /\ t \in UnderWay /\ UnderWay' = UnderWay \ {t}
<1>1. t \in UnderWay /\ UnderWay' = UnderWay \ {t}
  <2>1. task[t].at = "promote_commit" /\ task'[t].at = "idle"
    BY CommitTypes DEF Idle
  <2>2. \A s \in Task \ {t} : task'[s] = task[s]
    BY TypeParts, StateSets, Moves DEF CommitPromotion, Finish
  <2> QED
    BY <2>1, <2>2 DEF UnderWay
<1>2. CASE UNCHANGED <<enrollment, promoted>>
  BY <1>1, <1>2 DEF Enrolled
<1>3. ASSUME NEW id \in RowId, SaveRow(task[t].user, [id |-> id, version |-> 0, anchored |-> FALSE]),
             promoted' = promoted \cup {task[t].user}
      PROVE  promoted' \subseteq Enrolled'
  <2> DEFINE row == [id |-> id, version |-> 0, anchored |-> FALSE]
  <2>1. row \in Row /\ task[t].user \in User
    BY RowIsInserted, Zero, CommitTypes
  <2>2. SaveRow(task[t].user, row)
    BY <1>3
  <2> HIDE DEF row
  <2>3. /\ enrollment'[task[t].user] # NoRow
        /\ \A v \in User \ {task[t].user} : enrollment'[v] = enrollment[v]
    BY <2>1, <2>2, RowIsSaved, TypeParts
  <2> QED
    BY <1>3, <2>1, <2>3 DEF Enrolled
<1> QED
  BY <1>1, <1>2, <1>3 DEF CommitPromotion

LEMMA PlaceStep ==
  ASSUME TablesOK, PlaceInv, [Next]_vars
  PROVE  PlaceInv'
<1>1. IsFiniteSet(Enrolled)'
  BY EnrolledStaysFinite DEF PlaceInv
<1>2. /\ IsFiniteSet(promoted) /\ Cardinality(promoted) \in Nat
      /\ Cardinality(promoted) <= Cardinality(Enrolled) /\ Cardinality(Enrolled) \in Nat
      /\ Cardinality(UnderWay) \in Nat /\ Cardinality(Task) \in Nat /\ Capacity \in Nat
      /\ Cardinality(promoted) + Cardinality(UnderWay) < Capacity + Cardinality(Task)
  BY FS_Subset, FS_CardinalityType, FewUnderWay, WaitlistAssumption DEF PlaceInv, OversoldByOverlapOnly
\* Nobody is promoted, and no promotion counts.
<1>3. ASSUME promoted' \subseteq promoted, UnderWay' \subseteq UnderWay PROVE OversoldByOverlapOnly'
  <2>1. Cardinality(promoted') \in Nat /\ Cardinality(promoted') <= Cardinality(promoted)
    BY <1>2, <1>3, FS_Subset, FS_CardinalityType
  <2>2. Cardinality(UnderWay') \in Nat /\ Cardinality(UnderWay') <= Cardinality(UnderWay)
    BY <1>3, FewUnderWay, FS_Subset, FS_CardinalityType
  <2> QED
    BY <1>2, <2>1, <2>2 DEF OversoldByOverlapOnly
<1>4. CASE UNCHANGED vars
  BY <1>1, <1>3, <1>4 DEF vars, PlaceInv, UnderWay, Enrolled
<1>5. CASE EnrollmentNext /\ promoted' = promoted \cap Enrolled'
  <2>1. UnderWay' \subseteq UnderWay
    <3>1. CASE UNCHANGED <<task, enrollment>>
      BY <3>1 DEF UnderWay
    <3>2. ASSUME NEW t \in Task, Elsewhere(task'[t]), OthersStay(t) PROVE UnderWay' \subseteq UnderWay
      BY <3>2 DEF UnderWay, Elsewhere, OthersStay
    <3> QED
      BY <1>5, <3>1, <3>2, EnrollmentTurns
  <2> QED
    BY <1>1, <1>3, <1>5, <2>1 DEF PlaceInv
<1>6. ASSUME NEW t \in Task, CommitPromotion(t) PROVE PlaceInv'
  <2>1. /\ promoted' \subseteq Enrolled' /\ t \in UnderWay /\ UnderWay' = UnderWay \ {t}
        /\ promoted' = promoted \/ promoted' = promoted \cup {task[t].user}
    BY <1>6, CommitTakesAPlace DEF PlaceInv
  <2>2. Cardinality(UnderWay') = Cardinality(UnderWay) - 1
    BY <2>1, FewUnderWay, FS_RemoveElement
  <2>3. Cardinality(promoted') <= Cardinality(promoted) + 1 /\ Cardinality(promoted') \in Nat
    <3>1. /\ Cardinality(promoted \cup {task[t].user}) \in Nat
          /\ Cardinality(promoted \cup {task[t].user}) <= Cardinality(promoted) + 1
      <4>1. /\ IsFiniteSet(promoted \cup {task[t].user})
            /\ Cardinality(promoted \cup {task[t].user})
                 = IF task[t].user \in promoted THEN Cardinality(promoted) ELSE Cardinality(promoted) + 1
        BY <1>2, FS_AddElement, Zenon
      <4> QED
        BY <1>2, <4>1, FS_CardinalityType
    <3>2. CASE promoted' = promoted
      BY <1>2, <3>2
    <3>3. CASE promoted' = promoted \cup {task[t].user}
      BY <3>1, <3>3
    <3> QED
      BY <2>1, <3>2, <3>3
  <2>4. Cardinality(promoted') + Cardinality(UnderWay') < Capacity + Cardinality(Task)
    BY <1>2, <2>2, <2>3
  <2> QED
    BY <1>1, <2>1, <2>4 DEF PlaceInv, OversoldByOverlapOnly
<1>7. ASSUME NEW t \in Task, Quiet(t), UNCHANGED <<enrollment, promoted>> PROVE PlaceInv'
  <2>1. \A s \in Task \ {t} : task'[s] = task[s]
    BY <1>7 DEF Quiet
  <2>2. CASE ~Promoted(task'[t]) \/ Promoted(task[t])
    <3>1. UnderWay' \subseteq UnderWay
      BY <2>1, <2>2 DEF UnderWay, Promoted
    <3> QED
      BY <1>1, <1>3, <1>7, <3>1 DEF PlaceInv, Enrolled
  <2>3. CASE Promoted(task'[t]) /\ ~Promoted(task[t])
    <3>1. Cardinality(Enrolled) < Capacity
      BY <1>2, <1>7, <2>3 DEF Quiet, IsFull
    <3>2. UnderWay' \subseteq Task
      BY DEF UnderWay
    <3>3. Cardinality(UnderWay') \in Nat /\ Cardinality(UnderWay') <= Cardinality(Task)
      BY <3>2, WaitlistAssumption, FS_Subset, FS_CardinalityType
    <3>4. OversoldByOverlapOnly'
      BY <1>2, <1>7, <3>1, <3>3 DEF OversoldByOverlapOnly
    <3> QED
      BY <1>1, <1>7, <3>4 DEF PlaceInv, Enrolled
  <2> QED
    BY <2>2, <2>3
<1>8. CASE WaitlistNext
  BY <1>6, <1>7, <1>8, WaitlistIsQuiet
<1> QED
  BY <1>4, <1>5, <1>8 DEF Next

\* However many handlers promote at a time, and whether they die or not, they
\* put no more students into the course than it has places and one for every
\* other handler that overlaps (promoteNext counts before its transaction).
THEOREM PromotionsOversellByOverlapOnly == Spec => []OversoldByOverlapOnly
<1>1. Init => PlaceInv
  <2> SUFFICES ASSUME Init PROVE PlaceInv
    OBVIOUS
  <2>1. Enrolled = {} /\ promoted = {} /\ UnderWay = {}
    BY DEF Init, EnrollmentInit, Enrolled, UnderWay, Idle
  <2>2. Cardinality(Task) \in Nat /\ Cardinality(Task) # 0 /\ Capacity \in Nat
    BY WaitlistAssumption, FS_EmptySet, FS_CardinalityType
  <2> QED
    BY <2>1, <2>2, FS_EmptySet DEF PlaceInv, OversoldByOverlapOnly
<1>2. TablesOK /\ PlaceInv /\ [Next]_vars => PlaceInv'
  BY PlaceStep
<1>3. PlaceInv => OversoldByOverlapOnly
  BY DEF PlaceInv
<1> QED
  BY <1>1, <1>2, <1>3, TablesAreTyped, PTL DEF Spec
=============================================================================
