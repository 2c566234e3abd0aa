CONSTANTS
  MaxSleeps = 2
  MaxClosing = 2
SPECIFICATION AllSpec
INVARIANTS PartsTyped DetectionLostOnlyBy RunningAsConfigured NothingAfterStop OneAttempt
PROPERTIES LostEventsFollowed AbandonedOnlyBy FallsBack
CHECK_DEADLOCK FALSE
