CONSTANTS
  d1 = d1
  d2 = d2
  Root = Root
  Dir = {d1, d2}
  Initial = {d1}
  Name = {n1, n2}
  n1 = n1
  n2 = n2
  QueueLimit = 4
  WatchLimit = 2
  MaxChanges = 4
  Foreign = {g1}
SPECIFICATION AllSpec
INVARIANTS UnwatchedOnlyBy
PROPERTIES ChangesReported UserEntriesKept
CHECK_DEADLOCK FALSE
