\* One task and the reset after it.
SPECIFICATION Spec
CONSTANTS
  Operations <- Clears
  MaxGeneration = 2
CHECK_DEADLOCK FALSE
PROPERTIES
  ResetSilencesCallbacks
