---------------------------- MODULE Enrollments ----------------------------
(***************************************************************************)
(* EnrollmentsService (apps/backend/src/enrollments), for one course.      *)
(*                                                                         *)
(* A request handler runs from one await to the next, and any other        *)
(* handler, in this process or in another replica, may run in between.     *)
(* task[t] is the handler in slot t: where it stands and what it keeps in  *)
(* its local variables. A handler that throws is a slot that is idle again.*)
(*                                                                         *)
(* repo.save writes the whole entity: it updates the row with its id, and  *)
(* inserts that row when there is none (any more). repo.remove deletes the *)
(* row with the entity's id, if there is one. The table has one row per    *)
(* user (@Unique(['userId', 'courseId'])).                                 *)
(***************************************************************************)
EXTENDS Integers

CONSTANTS
  User,
  Task,        \* request slots: how many handlers run at a time
  RowId,       \* primary keys, reused once nothing refers to them
  NoRow,       \* no enrollment
  Enroller,    \* bound: users who call enroll
  Upgrader,    \* bound: users who call upgradeVersion
  MaxVersion,  \* bound: published versions of the course
  MaxAborts    \* bound: handlers that die at an await

Version == 0..MaxVersion    \* 0: enrolledVersionNumber is null

\* anchored: transactionHash is not null.
Row == [id : RowId, version : Version, anchored : BOOLEAN]

ASSUME EnrollmentAssumption ==
  /\ RowId \subseteq Nat
  /\ Enroller \subseteq User
  /\ Upgrader \subseteq User
  /\ MaxVersion \in Nat
  /\ MaxAborts \in Nat
  /\ NoRow \notin Row

VARIABLES
  enrollment,  \* the enrollments table: user -> row
  latest,      \* versionNumber of listVersions(courseId)[0]
  task,        \* the handlers
  aborts       \* handlers that died

Idle == [at |-> "idle"]

EnrollmentTask ==
  {Idle}
  \cup [at : {"enroll_pin"}, user : User]
  \cup [at : {"enroll_save"}, user : User, version : Version]
  \cup [at : {"anchoring", "save_hash", "rollback", "unenroll_remove",
              "upgrade_pin", "upgrade_save"}, user : User, row : Row]

EnrollmentTypeOK ==
  /\ enrollment \in [User -> Row \cup {NoRow}]
  /\ latest \in Version
  /\ aborts \in 0..MaxAborts

EnrollmentInit ==
  /\ enrollment = [u \in User |-> NoRow]
  /\ latest = 0
  /\ task = [t \in Task |-> Idle]
  /\ aborts = 0

----------------------------------------------------------------------------
Goto(t, next) == task' = [task EXCEPT ![t] = next]
Finish(t) == Goto(t, Idle)

Enrolled == {u \in User : enrollment[u] # NoRow}

RowInUse(id) ==
  \/ \E u \in Enrolled : enrollment[u].id = id
  \/ \E t \in Task : "row" \in DOMAIN task[t] /\ task[t].row.id = id

\* The next primary key, the least that nothing refers to.
FreshRow(id) == ~RowInUse(id) /\ \A i \in RowId : i < id => RowInUse(i)

\* repo.save(row) goes through unless the user has another row.
CanSave(u, row) == enrollment[u] # NoRow => enrollment[u].id = row.id

SaveRow(u, row) == enrollment' = [enrollment EXCEPT ![u] = row]

\* Faulty variant of RemoveRow: deletes by user instead of by primary key.
RemoveRowOfUser(u, row) == enrollment' = [enrollment EXCEPT ![u] = NoRow]

\* repo.remove(row)
RemoveRow(u, row) ==
  enrollment' = [enrollment EXCEPT ![u] =
                   IF @ # NoRow /\ @.id = row.id THEN NoRow ELSE @]

----------------------------------------------------------------------------
(* enroll                                                                  *)

\* No enrollment is found; otherwise the request is refused at once.
Enroll(t, u) ==
  /\ task[t] = Idle
  /\ enrollment[u] = NoRow
  /\ Goto(t, [at |-> "enroll_pin", user |-> u])
  /\ UNCHANGED <<enrollment, latest, aborts>>

\* enforcePrerequisites may throw; listVersions returns the latest version.
PinVersion(t) ==
  /\ task[t].at = "enroll_pin"
  /\ \/ Goto(t, [at |-> "enroll_save", user |-> task[t].user, version |-> latest])
     \/ Finish(t)
  /\ UNCHANGED <<enrollment, latest, aborts>>

\* The insert throws when the user was enrolled meanwhile.
InsertRow(t) ==
  LET u == task[t].user
  IN  /\ task[t].at = "enroll_save"
      /\ \/ /\ enrollment[u] = NoRow
            /\ \E id \in RowId :
                 LET row == [id |-> id, version |-> task[t].version, anchored |-> FALSE]
                 IN  /\ FreshRow(id)
                     /\ SaveRow(u, row)
                     /\ Goto(t, [at |-> "anchoring", user |-> u, row |-> row])
         \/ /\ enrollment[u] # NoRow
            /\ Finish(t)
            /\ UNCHANGED enrollment
      /\ UNCHANGED <<latest, aborts>>

\* Faulty variant of RecordEnrollment: a failure is swallowed, as the one of
\* the reward for a credential is.
RecordEnrollmentOrCarryOn(t) ==
  /\ task[t].at = "anchoring"
  /\ \/ Goto(t, [task[t] EXCEPT !.at = "save_hash", !.row.anchored = TRUE])
     \/ Finish(t)
  /\ UNCHANGED <<enrollment, latest, aborts>>

\* recordEnrollment returns a transaction hash, or throws after its retries.
RecordEnrollment(t) ==
  /\ task[t].at = "anchoring"
  /\ \/ Goto(t, [task[t] EXCEPT !.at = "save_hash", !.row.anchored = TRUE])
     \/ Goto(t, [task[t] EXCEPT !.at = "rollback"])
  /\ UNCHANGED <<enrollment, latest, aborts>>

\* The second save, inside the try: what it throws leads to the rollback.
SaveHash(t) ==
  LET u == task[t].user
  IN  /\ task[t].at = "save_hash"
      /\ \/ CanSave(u, task[t].row) /\ SaveRow(u, task[t].row) /\ Finish(t)
         \/ Goto(t, [task[t] EXCEPT !.at = "rollback"]) /\ UNCHANGED enrollment
      /\ UNCHANGED <<latest, aborts>>

\* The catch removes the row; a failure to remove it is only logged.
Rollback(t) ==
  /\ task[t].at = "rollback"
  /\ Finish(t)
  /\ \/ RemoveRow(task[t].user, task[t].row) /\ UNCHANGED aborts
     \/ aborts < MaxAborts /\ aborts' = aborts + 1 /\ UNCHANGED enrollment
  /\ UNCHANGED latest

----------------------------------------------------------------------------
(* unenroll                                                                *)

Unenroll(t, u) ==
  /\ task[t] = Idle
  /\ enrollment[u] # NoRow
  /\ Goto(t, [at |-> "unenroll_remove", user |-> u, row |-> enrollment[u]])
  /\ UNCHANGED <<enrollment, latest, aborts>>

\* Emits enrollment.removed, whose handler goes on in this slot.
RemoveEnrollment(t) ==
  /\ task[t].at = "unenroll_remove"
  /\ RemoveRow(task[t].user, task[t].row)
  /\ Goto(t, [at |-> "promote_count"])
  /\ UNCHANGED <<latest, aborts>>

----------------------------------------------------------------------------
(* upgradeVersion                                                          *)

UpgradeVersion(t, u) ==
  /\ task[t] = Idle
  /\ enrollment[u] # NoRow
  /\ Goto(t, [at |-> "upgrade_pin", user |-> u, row |-> enrollment[u]])
  /\ UNCHANGED <<enrollment, latest, aborts>>

PinUpgrade(t) ==
  /\ task[t].at = "upgrade_pin"
  /\ IF latest = 0
       THEN Finish(t)
       ELSE Goto(t, [task[t] EXCEPT !.at = "upgrade_save", !.row.version = latest])
  /\ UNCHANGED <<enrollment, latest, aborts>>

\* Saves the entity as it was read, with the new version.
SaveUpgrade(t) ==
  LET u == task[t].user
  IN  /\ task[t].at = "upgrade_save"
      /\ Finish(t)
      /\ IF CanSave(u, task[t].row)
           THEN SaveRow(u, task[t].row)
           ELSE UNCHANGED enrollment
      /\ UNCHANGED <<latest, aborts>>

----------------------------------------------------------------------------
\* The instructor publishes a version of the course.
PublishVersion ==
  /\ latest < MaxVersion
  /\ latest' = latest + 1
  /\ UNCHANGED <<enrollment, task, aborts>>

\* The process dies, or the database refuses a statement: the handler goes
\* no further.
Abort(t) ==
  /\ task[t] # Idle
  /\ aborts < MaxAborts
  /\ aborts' = aborts + 1
  /\ Finish(t)
  /\ UNCHANGED <<enrollment, latest>>

EnrollmentNext ==
  \/ PublishVersion
  \/ \E t \in Task :
       \/ \E u \in Enroller : Enroll(t, u)
       \/ \E u \in User : Unenroll(t, u)
       \/ \E u \in Upgrader : UpgradeVersion(t, u)
       \/ PinVersion(t) \/ InsertRow(t) \/ RecordEnrollment(t) \/ SaveHash(t)
       \/ Rollback(t) \/ RemoveEnrollment(t) \/ PinUpgrade(t) \/ SaveUpgrade(t)
       \/ Abort(t)
============================================================================
