CONSTANTS
  Sources <- MCAllKinds
  Environment <- MCBlocks
SPECIFICATION Spec
INVARIANTS SingleFlight
PROPERTIES QuietAfterStop StrandedOnlyBy SafeCycle HeldExceptByTimers
CHECK_DEADLOCK FALSE
