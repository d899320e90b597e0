\* Every twist asked, every input of select.
SPECIFICATION Spec
CONSTANTS
  MaxLinear = 2
  MinAngular = 3
  MaxAngular = 5
  InPlaceLinear = 1
  StopDistance = 1
  NotFinite = NotFinite
  Asked <- MCAsked
  Commands <- MCCommands
  Distances <- MCDistances
INVARIANTS
  LimitIsNearestFeasible
  UnselectedSourceIsIgnored
  ObstacleStopsForwardOnly
