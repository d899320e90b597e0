\* What the exceptions of QueueIsAccounted stand for: each of them happens.
SPECIFICATION GoalSpec
CONSTANTS
  MaxGoals = 3
  MaxRuns = 1
  MaxServed = 2
CHECK_DEADLOCK FALSE
INVARIANT CompletedAreAccounted
