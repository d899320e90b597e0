\* One rename of a map replacement fails.
SPECIFICATION MapSpec
CONSTANTS
  MaxMaps = 2
CHECK_DEADLOCK FALSE
INVARIANTS
  FailedSaveKeepsMap
