\* Starts and stops that may overlap, one retry, three generations.
SPECIFICATION FairSpec
CONSTANTS
  RetryCount = 1
  MaxGeneration = 3
CHECK_DEADLOCK FALSE
INVARIANTS
  IdleMeansStopped
  StartIsAttended
PROPERTIES
  LaterStackIsLeftAlone
  TransitionsEnd
