\* Runs, e-stops and resumes: four tasks one after the other.
SPECIFICATION FairSpec
CONSTANTS
  Operations <- EStops
  MaxGeneration = 4
CHECK_DEADLOCK FALSE
INVARIANTS
  OneGoalAtATime
  InactiveMeansParked
  PauseReachesNav2
PROPERTIES
  FinalStateIsKept
  PausingEnds
