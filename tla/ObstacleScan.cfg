\* The whole scan over two ranges, with lost answers, interruptions and halts.
SPECIFICATION Spec
CONSTANTS
  RangeCount = 2
  Distances = {0, 2}
  Infinite = 3
  TieDistance = 1
INVARIANTS
  EvaluationFacesTarget
  NoForgottenTurn
PROPERTIES
  RecoveryFacesClearSide
  WidensOnlyWhenBlocked
  RoundEnds
