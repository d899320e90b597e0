\* A start and a stop sent at once.
SPECIFICATION Spec
CONSTANTS
  RetryCount = 1
  MaxGeneration = 2
CHECK_DEADLOCK FALSE
PROPERTIES
  StoppedStaysStopped
