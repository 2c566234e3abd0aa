CONSTANTS
  f1 = f1
  f2 = f2
  f3 = f3
  File <- MCFile3
  NoJournal = NoJournal
  NoManifest = NoManifest
  NoScan = NoScan
  Saved = Saved
  GuardSettings = {TRUE}
  MaxChanges = 3
  CountLimit = 2
  PercentLimit = 60
SYMMETRY Symmetry
SPECIFICATION Spec
INVARIANT ApprovedOnlyThose
CHECK_DEADLOCK FALSE
