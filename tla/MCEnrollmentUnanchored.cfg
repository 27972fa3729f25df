\* One handler at a time: an unenrollment promotes a waiting user.
CONSTANTS
  u1 = u1
  u2 = u2
  u3 = u3
  t1 = t1
  t2 = t2
  t3 = t3
  User = {u1, u2, u3}
  Task = {t1}
  RowId = {1, 2, 3, 4}
  NoRow = NoRow
  Enroller = {u1, u2, u3}
  Joiner = {u1, u2, u3}
  Upgrader = {u1, u2, u3}
  MaxVersion = 1
  MaxAborts = 0
  Capacity = 1
  EntryId = {1, 2, 3, 4}
  NoEntry = NoEntry
  MaxDrift = 1
  MaxPosition = 3
SPECIFICATION Spec
INVARIANT AnchoredAtRest
CHECK_DEADLOCK FALSE
SYMMETRY Symmetry
