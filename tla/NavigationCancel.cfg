\* A cancel at any moment of one task.
SPECIFICATION Spec
CONSTANTS
  Operations <- Cancels
  MaxGeneration = 1
CHECK_DEADLOCK FALSE
PROPERTIES
  CanceledTaskDoesNotRun
