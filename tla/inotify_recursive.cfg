CONSTANTS
  d1 = d1
  d2 = d2
  Root = Root
  Dir = {d1, d2}
  Initial = {d1}
  Name = {n1, n2}
  n1 = n1
  n2 = n2
  QueueLimit = 4
  WatchLimit = 3
  MaxChanges = 2
SPECIFICATION Spec
INVARIANTS EveryDirectoryWatched
CHECK_DEADLOCK FALSE
