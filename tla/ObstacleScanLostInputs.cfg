\* Inputs lost after a turn has ended.
SPECIFICATION Spec
CONSTANTS
  RangeCount = 1
  Distances = {2}
  Infinite = 3
  TieDistance = 1
PROPERTIES
  LostInputsAreWaitedFor
