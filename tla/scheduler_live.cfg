CONSTANTS
  Sources <- MCSources
  Environment <- MCNetwork
SPECIFICATION FairSpec
PROPERTIES NoFeedbackLoop PromisedStartHappens
CHECK_DEADLOCK FALSE
