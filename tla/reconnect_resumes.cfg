CONSTANTS
  MaxStarts = 2
  MaxGrants = 2
SPECIFICATION ReconnectSpec
PROPERTIES ResumesWithValid
CHECK_DEADLOCK FALSE
