------------------------------ MODULE Waitlist ------------------------------
(***************************************************************************)
(* WaitlistService (apps/backend/src/waitlist) together with the           *)
(* EnrollmentsService whose enrollment.removed events it handles. Both     *)
(* write the enrollments table of the course.                              *)
(***************************************************************************)
EXTENDS Enrollments, FiniteSets

CONSTANTS
  Joiner,       \* bound: users who call join
  Capacity,     \* course.maxEnrollment, 0 when it is null
  EntryId,      \* primary keys, reused once nothing refers to them
  NoEntry,      \* not on the waitlist
  MaxDrift,     \* bound: how far races move a position below 1
  MaxPosition   \* bound: greatest position

MinPosition == 1 - MaxDrift
Position == MinPosition..MaxPosition
Entry == [id : EntryId, position : Position]

ASSUME WaitlistAssumption ==
  /\ Joiner \subseteq User
  /\ Capacity \in Nat
  /\ EntryId \subseteq Nat
  /\ MaxDrift \in Nat
  /\ MaxPosition \in Nat
  /\ NoEntry \notin Entry
  /\ IsFiniteSet(Task) /\ Task # {}

VARIABLES
  waitlist,   \* the waitlist_entries table: user -> entry
  promoted    \* history: the users whose row a promotion inserted

vars == <<enrollment, latest, task, aborts, waitlist, promoted>>

WaitlistTask ==
  [at : {"join_listed", "join_full", "join_position"}, user : User]
  \cup [at : {"join_save"}, user : User, position : Position]
  \cup [at : {"leave_remove", "leave_compact", "promote_check"}, user : User, entry : Entry]
  \cup [at : {"promote_count", "promote_find"}]
  \cup [at : {"promote_commit"}, user : User, entry : Entry, enrolled : BOOLEAN]

TablesOK ==
  /\ EnrollmentTypeOK
  /\ task \in [Task -> EnrollmentTask \cup WaitlistTask]
  /\ waitlist \in [User -> Entry \cup {NoEntry}]

TypeOK == TablesOK /\ promoted \subseteq User

Init ==
  /\ EnrollmentInit
  /\ waitlist = [u \in User |-> NoEntry]
  /\ promoted = {}

----------------------------------------------------------------------------
Waiting == {u \in User : waitlist[u] # NoEntry}

EntryInUse(id) ==
  \/ \E u \in Waiting : waitlist[u].id = id
  \/ \E t \in Task : "entry" \in DOMAIN task[t] /\ task[t].entry.id = id

FreshEntry(id) == ~EntryInUse(id) /\ \A i \in EntryId : i < id => EntryInUse(i)

\* isFull
IsFull == Capacity > 0 /\ Cardinality(Enrolled) >= Capacity

\* (Number(maxPos?.max) || 0) + 1
NextPosition ==
  IF Waiting = {}
    THEN 1
    ELSE 1 + (CHOOSE p \in {waitlist[u].position : u \in Waiting} :
                \A u \in Waiting : waitlist[u].position <= p)

\* Faulty variant of Without: deletes by position instead of by primary key.
WithoutPosition(list, u, entry) ==
  [v \in User |-> IF list[v] # NoEntry /\ list[v].position = entry.position
                    THEN NoEntry ELSE list[v]]

\* What is left of list when the entry with this id is removed.
Without(list, u, entry) ==
  [list EXCEPT ![u] = IF @ # NoEntry /\ @.id = entry.id THEN NoEntry ELSE @]

\* Faulty variant of Advanced: applied twice.
AdvancedTwice(list, who) ==
  [u \in User |-> IF u \in who THEN [list[u] EXCEPT !.position = @ - 2] ELSE list[u]]

\* UPDATE ... SET position = position - 1 for the users in who.
Advanced(list, who) ==
  [u \in User |-> IF u \in who THEN [list[u] EXCEPT !.position = @ - 1] ELSE list[u]]

\* Faulty variant of Behind: misses the entry right behind.
BehindNext(position) == {u \in Waiting : waitlist[u].position > position + 1}

Behind(position) == {u \in Waiting : waitlist[u].position > position}

\* The bound on positions: nobody is moved below it.
CanAdvance == \A u \in Waiting : waitlist[u].position > MinPosition

----------------------------------------------------------------------------
(* join                                                                    *)

\* The course is published and the user not enrolled; refused otherwise.
Join(t, u) ==
  /\ task[t] = Idle
  /\ enrollment[u] = NoRow
  /\ Goto(t, [at |-> "join_listed", user |-> u])
  /\ UNCHANGED <<enrollment, latest, aborts, waitlist, promoted>>

CheckListed(t) ==
  /\ task[t].at = "join_listed"
  /\ IF waitlist[task[t].user] = NoEntry
       THEN Goto(t, [task[t] EXCEPT !.at = "join_full"])
       ELSE Finish(t)
  /\ UNCHANGED <<enrollment, latest, aborts, waitlist, promoted>>

CheckFull(t) ==
  /\ task[t].at = "join_full"
  /\ IF IsFull
       THEN Goto(t, [task[t] EXCEPT !.at = "join_position"])
       ELSE Finish(t)
  /\ UNCHANGED <<enrollment, latest, aborts, waitlist, promoted>>

ReadPosition(t) ==
  /\ task[t].at = "join_position"
  /\ NextPosition <= MaxPosition
  /\ Goto(t, [at |-> "join_save", user |-> task[t].user, position |-> NextPosition])
  /\ UNCHANGED <<enrollment, latest, aborts, waitlist, promoted>>

\* The insert throws when the user was put on the list meanwhile.
SaveEntry(t) ==
  LET u == task[t].user
  IN  /\ task[t].at = "join_save"
      /\ Finish(t)
      /\ IF waitlist[u] = NoEntry
           THEN \E id \in EntryId :
                  /\ FreshEntry(id)
                  /\ waitlist' = [waitlist EXCEPT ![u] =
                                    [id |-> id, position |-> task[t].position]]
           ELSE UNCHANGED waitlist
      /\ UNCHANGED <<enrollment, latest, aborts, promoted>>

----------------------------------------------------------------------------
(* leave, also called by adminRemove                                       *)

Leave(t, u) ==
  /\ task[t] = Idle
  /\ waitlist[u] # NoEntry
  /\ Goto(t, [at |-> "leave_remove", user |-> u, entry |-> waitlist[u]])
  /\ UNCHANGED <<enrollment, latest, aborts, waitlist, promoted>>

RemoveEntry(t) ==
  /\ task[t].at = "leave_remove"
  /\ waitlist' = Without(waitlist, task[t].user, task[t].entry)
  /\ Goto(t, [task[t] EXCEPT !.at = "leave_compact"])
  /\ UNCHANGED <<enrollment, latest, aborts, promoted>>

\* A statement of its own, for the position that was read at the start.
Compact(t) ==
  /\ task[t].at = "leave_compact"
  /\ CanAdvance
  /\ waitlist' = Advanced(waitlist, Behind(task[t].entry.position))
  /\ Finish(t)
  /\ UNCHANGED <<enrollment, latest, aborts, promoted>>

----------------------------------------------------------------------------
(* promoteNext, called by the admin and by handleEnrollmentRemoved         *)

AdminPromote(t) ==
  /\ task[t] = Idle
  /\ Goto(t, [at |-> "promote_count"])
  /\ UNCHANGED <<enrollment, latest, aborts, waitlist, promoted>>

\* Faulty variant of CountEnrolled: any course with a limit has a place.
CountNobody(t) ==
  /\ task[t].at = "promote_count"
  /\ IF Capacity > 0
       THEN Goto(t, [at |-> "promote_find"])
       ELSE Finish(t)
  /\ UNCHANGED <<enrollment, latest, aborts, waitlist, promoted>>

CountEnrolled(t) ==
  /\ task[t].at = "promote_count"
  /\ IF Capacity > 0 /\ ~IsFull
       THEN Goto(t, [at |-> "promote_find"])
       ELSE Finish(t)
  /\ UNCHANGED <<enrollment, latest, aborts, waitlist, promoted>>

\* Any of the entries at position 1, when races made several.
FindFirst(t) ==
  LET first == {u \in Waiting : waitlist[u].position = 1}
  IN  /\ task[t].at = "promote_find"
      /\ \/ \E u \in first :
              Goto(t, [at |-> "promote_check", user |-> u, entry |-> waitlist[u]])
         \/ first = {} /\ Finish(t)
      /\ UNCHANGED <<enrollment, latest, aborts, waitlist, promoted>>

\* The transaction reads whether the user is enrolled already ...
CheckEnrolled(t) ==
  /\ task[t].at = "promote_check"
  /\ Goto(t, [at |-> "promote_commit", user |-> task[t].user, entry |-> task[t].entry,
              enrolled |-> enrollment[task[t].user] # NoRow])
  /\ UNCHANGED <<enrollment, latest, aborts, waitlist, promoted>>

\* ... and commits all of its writes, or none when the insert is refused.
CommitPromotion(t) ==
  LET u == task[t].user
      list == Without(waitlist, u, task[t].entry)
      rest == {v \in User : list[v] # NoEntry}
  IN  /\ task[t].at = "promote_commit"
      /\ CanAdvance
      /\ Finish(t)
      /\ \/ /\ task[t].enrolled
            /\ UNCHANGED <<enrollment, promoted>>
            /\ waitlist' = Advanced(list, rest)
         \/ /\ ~task[t].enrolled
            /\ enrollment[u] = NoRow
            /\ \E id \in RowId :
                 /\ FreshRow(id)
                 /\ SaveRow(u, [id |-> id, version |-> 0, anchored |-> FALSE])
            /\ waitlist' = Advanced(list, rest)
            /\ promoted' = promoted \cup {u}
         \/ /\ ~task[t].enrolled
            /\ enrollment[u] # NoRow
            /\ UNCHANGED <<enrollment, waitlist, promoted>>
      /\ UNCHANGED <<latest, aborts>>

----------------------------------------------------------------------------
WaitlistNext ==
  \E t \in Task :
    \/ \E u \in Joiner : Join(t, u) \/ Leave(t, u)
    \/ CheckListed(t) \/ CheckFull(t) \/ ReadPosition(t) \/ SaveEntry(t)
    \/ RemoveEntry(t) \/ Compact(t)
    \/ AdminPromote(t) \/ CountEnrolled(t) \/ FindFirst(t) \/ CheckEnrolled(t)
    \/ CommitPromotion(t)

Next ==
  \/ EnrollmentNext /\ UNCHANGED waitlist /\ promoted' = promoted \cap Enrolled'
  \/ WaitlistNext

Spec == Init /\ [][Next]_vars

----------------------------------------------------------------------------
AtRest == \A t \in Task : task[t] = Idle

\* The rollback of enroll works whatever other requests of the same user run
\* in between: once all of them have ended, every enrollment is anchored.
AnchoredAtRest == AtRest => \A u \in Enrolled : enrollment[u].anchored

\* A confirmed enrollment is only ever removed by an unenroll request that
\* read this very row; the rollback of a failed request never takes the row
\* another request inserted and anchored meanwhile.
UnenrolledBy(t, u) ==
  task[t].at = "unenroll_remove" /\ task[t].row.id = enrollment[u].id

ConfirmedStays ==
  [][\A u \in Enrolled :
       enrollment[u].anchored /\ enrollment'[u] # enrollment[u]
         => \E t \in Task : UnenrolledBy(t, u)]_vars

\* However joins, leaves and promotions interleave, and wherever they die, the
\* moves of the queue never put one waiting user in front of another who was
\* ahead.
NobodyIsOvertaken ==
  [][\A u, v \in Waiting \cap Waiting' :
       waitlist[u].position <= waitlist[v].position
         => waitlist'[u].position <= waitlist'[v].position]_vars

\* A waiting user drops off the list only by leaving it, by being enrolled or
\* by having been found enrolled: a promotion that works on a stale entry
\* removes nobody else.
DroppedBy(t, u) ==
  \/ task[t].at = "leave_remove" /\ task[t].user = u
  \/ task[t].at = "promote_commit" /\ task[t].user = u
       /\ (task[t].enrolled \/ enrollment'[u] # NoRow)

NobodyIsDropped ==
  [][\A u \in Waiting : waitlist'[u] = NoEntry => \E t \in Task : DroppedBy(t, u)]_vars

\* Served one at a time, the two-statement leave and the promotion keep the
\* positions what getPosition reports: 1 to the number of waiting users.
PositionsAreContiguous ==
  AtRest => {waitlist[u].position : u \in Waiting} = 1..Cardinality(Waiting)

\* Promotions that have counted and not ended.
UnderWay == {t \in Task : task[t].at \in {"promote_find", "promote_check", "promote_commit"}}

\* The enrolled are counted before the place is taken, so that promotions that
\* overlap fill a place more than once. But the places that promotions have
\* taken and are about to take are never more than the course has and one for
\* every other handler, however many promotions and unenrollments there were.
OversoldByOverlapOnly == Cardinality(promoted) + Cardinality(UnderWay) < Capacity + Cardinality(Task)
============================================================================
