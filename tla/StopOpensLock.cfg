\* stop_navigation and a start request that was given up too early.
SPECIFICATION TaskSpec
CONSTANTS
  r1 = r1
  Starters = {r1}
  MaxTasks = 2
CHECK_DEADLOCK FALSE
PROPERTIES
  OnlyEndedLockIsReleased
