CONSTANTS
  r1 = r1
  r2 = r2
  Removals <- MCRemovals
  MaxDialogs = 2
  f1 = f1
  File = {f1}
  MaxEdits = 2
  MaxAttempts = 2
SYMMETRY Symmetry
SPECIFICATION AllSpec
INVARIANTS PartsTyped RuntimeJustified LostOnlyBy BaselineAgreed
PROPERTIES  MandatoryAllowsOnly RemovalForgets
CHECK_DEADLOCK FALSE
