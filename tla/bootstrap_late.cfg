CONSTANTS
  f1 = f1
  File = {f1}
  MaxEdits = 2
  MaxAttempts = 2
SPECIFICATION BootstrapSpec
INVARIANTS NothingLost
CHECK_DEADLOCK FALSE
