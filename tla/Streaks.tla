------------------------------ MODULE Streaks ------------------------------
(***************************************************************************)
(* StreaksService (apps/backend/src/streaks) for one user, and the other   *)
(* services that save the user row as they read it: what a streak of n     *)
(* days promises, whatever requests overlap it and whenever midnight falls *)
(* between two of their steps.                                             *)
(***************************************************************************)
EXTENDS Integers

CONSTANTS
  Visit,       \* requests that run at a time
  Milestone,   \* lengths of a streak that are rewarded
  MaxDay,      \* bound: days
  MaxVisits    \* bound: requests

NoDay == -1
NoVisit == [at |-> "idle"]

ASSUME StreakAssumption == Milestone \subseteq Nat \ {0} /\ {MaxDay, MaxVisits} \subseteq Nat

VARIABLES
  today,       \* UTC day
  streakRow,   \* currentStreak, longestStreak and the day of lastActivityAt
  visit,       \* the requests
  active,      \* history: days on which a progress report was served
  paid,        \* history: milestones paid, with the day each was reached
  torn,        \* history: a save was mixed with another between its two statements
  visits

streakVars == <<today, streakRow, visit, active, paid, torn, visits>>

StreakTypeOK ==
  /\ today \in 0..MaxDay /\ active \subseteq 0..MaxDay /\ visits \in 0..MaxVisits
  /\ streakRow \in [current : Nat, longest : Nat, last : NoDay..MaxDay]
  /\ paid \subseteq [days : Milestone, on : 0..MaxDay] /\ torn \in BOOLEAN

StreakInit ==
  /\ today = 0 /\ active = {} /\ paid = {} /\ torn = FALSE /\ visits = 0
  /\ streakRow = [current |-> 0, longest |-> 0, last |-> NoDay]
  /\ visit = [v \in Visit |-> NoVisit]

Proceed(v, next) == visit' = [visit EXCEPT ![v] = next]

\* recordActivity begins with the row.
ReadUser(v) ==
  /\ visit[v] = NoVisit /\ visits < MaxVisits /\ visits' = visits + 1
  /\ Proceed(v, [at |-> "read", row |-> streakRow])
  /\ UNCHANGED <<today, streakRow, active, paid, torn>>

\* Faulty variant of Counted: any earlier day is yesterday.
CountedLoosely(row) ==
  LET current == IF row.last = today THEN row.current ELSE row.current + 1
  IN  [current |-> current, longest |-> IF current > row.longest THEN current ELSE row.longest, last |-> today]

\* The row with today's activity: unchanged on the same day, one longer on
\* the next, 1 again after a day without any.
Counted(row) ==
  LET current == CASE row.last = today -> row.current
                   [] row.last # NoDay /\ row.last = today - 1 -> row.current + 1
                   [] OTHER -> 1
  IN  [current |-> current, longest |-> IF current > row.longest THEN current ELSE row.longest, last |-> today]

\* The clock is read after the row has arrived, and the row saved later; only
\* a new day is looked at for a milestone.
CountDay(v) ==
  /\ visit[v].at = "read"
  /\ active' = active \cup {today}
  /\ Proceed(v, [at |-> "save", row |-> Counted(visit[v].row), fresh |-> visit[v].row.last # today])
  /\ UNCHANGED <<today, streakRow, paid, torn, visits>>

\* UsersService.update, banUser, changeRole and softDelete save what they read.
EditUser(v) ==
  /\ visit[v] = NoVisit /\ visits < MaxVisits /\ visits' = visits + 1
  /\ Proceed(v, [at |-> "save", row |-> streakRow, fresh |-> FALSE])
  /\ UNCHANGED <<today, streakRow, active, paid, torn>>

\* save of TypeORM selects the row, and then updates the columns in which it
\* differs from what is saved.
SelectRow(v) ==
  /\ visit[v].at = "save"
  /\ Proceed(v, [at |-> "update", row |-> visit[v].row, fresh |-> visit[v].fresh, seen |-> streakRow])
  /\ UNCHANGED <<today, streakRow, active, paid, torn, visits>>

UpdateRow(v) ==
  LET my == visit[v]
  IN  /\ my.at = "update"
      /\ streakRow' = [c \in DOMAIN streakRow |-> IF my.row[c] # my.seen[c] THEN my.row[c] ELSE streakRow[c]]
      /\ torn' = (torn \/ streakRow' # my.row)
      /\ Proceed(v, IF my.fresh /\ my.row.current \in Milestone THEN [at |-> "reward", row |-> my.row]
                    ELSE NoVisit)
      /\ UNCHANGED <<today, active, paid, visits>>

\* A failure to mint is logged only.
PayMilestone(v) ==
  /\ visit[v].at = "reward"
  /\ paid' \in {paid, paid \cup {[days |-> visit[v].row.current, on |-> visit[v].row.last]}}
  /\ Proceed(v, NoVisit)
  /\ UNCHANGED <<today, streakRow, active, torn, visits>>

\* The process dies, or the database refuses.
AbortVisit(v) ==
  /\ visit[v] # NoVisit
  /\ Proceed(v, NoVisit)
  /\ UNCHANGED <<today, streakRow, active, paid, torn, visits>>

PassMidnight ==
  /\ today < MaxDay /\ today' = today + 1
  /\ UNCHANGED <<streakRow, visit, active, paid, torn, visits>>

StreakNext ==
  \/ \E v \in Visit : ReadUser(v) \/ CountDay(v) \/ EditUser(v) \/ SelectRow(v) \/ UpdateRow(v)
  \/ \E v \in Visit : PayMilestone(v) \/ AbortVisit(v)
  \/ PassMidnight

----------------------------------------------------------------------------
\* A streak of n is backed by activity on each of its n days, and so is every
\* milestone that was paid: lost updates, stale saves and midnight between
\* two steps may shorten a streak, never invent one, unless a save lands
\* between the two statements of another, which leaves the columns of two
\* copies in the row. The day of the last activity is one even then.
StreaksAreReal ==
  /\ streakRow.last # NoDay => streakRow.last \in active
  /\ ~torn =>
       /\ \A d \in streakRow.last - streakRow.current + 1 .. streakRow.last : d \in active
       /\ \A p \in paid : \A d \in p.on - p.days + 1 .. p.on : d \in active
       /\ streakRow.current <= streakRow.longest
============================================================================
