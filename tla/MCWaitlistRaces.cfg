\* Two handlers at a time on a course with one place.
CONSTANTS
  u1 = u1
  u2 = u2
  u3 = u3
  t1 = t1
  t2 = t2
  t3 = t3
  User = {u1, u2, u3}
  Task = {t1, t2}
  RowId = {1, 2, 3, 4}
  NoRow = NoRow
  Enroller = {u3}
  Joiner = {u1, u2}
  Upgrader = {}
  MaxVersion = 0
  MaxAborts = 1
  Capacity = 1
  EntryId = {1, 2, 3, 4, 5}
  NoEntry = NoEntry
  MaxDrift = 1
  MaxPosition = 3
SPECIFICATION Spec
INVARIANT OversoldByOverlapOnly
PROPERTIES
  NobodyIsOvertaken
  NobodyIsDropped
CHECK_DEADLOCK FALSE
SYMMETRY Symmetry
