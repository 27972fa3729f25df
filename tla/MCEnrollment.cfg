\* Three handlers of one user at a time on a course without a limit.
CONSTANTS
  u1 = u1
  u2 = u2
  u3 = u3
  t1 = t1
  t2 = t2
  t3 = t3
  User = {u1}
  Task = {t1, t2, t3}
  RowId = {1, 2, 3, 4}
  NoRow = NoRow
  Enroller = {u1}
  Joiner = {u1}
  Upgrader = {}
  MaxVersion = 1
  MaxAborts = 0
  Capacity = 0
  EntryId = {1}
  NoEntry = NoEntry
  MaxDrift = 0
  MaxPosition = 1
SPECIFICATION Spec
INVARIANT AnchoredAtRest
PROPERTY ConfirmedStays
CHECK_DEADLOCK FALSE
SYMMETRY Symmetry
