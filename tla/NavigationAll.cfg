\* Every operation of the operator at once, two generations.
SPECIFICATION FairSpec
CONSTANTS
  Operations <- AllOperations
  MaxGeneration = 2
CHECK_DEADLOCK FALSE
PROPERTIES
  SendingEnds
