CONSTANTS
  Sources <- MCAutomatic
  Environment <- MCPauses
SPECIFICATION Spec
PROPERTIES StrandedOnlyBy NoTriggerForgotten
CHECK_DEADLOCK FALSE
