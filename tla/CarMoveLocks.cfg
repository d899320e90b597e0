\* Every owner of the e-stop, the empty one included, and the stale latch.
SPECIFICATION Spec
CONSTANTS
  MaxLinear = 2
  MinAngular = 2
  MaxAngular = 3
  InPlaceLinear = 0
  StopDistance = 1
  RangeMin = 1
  RangeMax = 3
  NoEcho = NoEcho
  NotFinite = NotFinite
  TimerPeriod = 1
  ManualTimeout = 0
  CalibrationTimeout = 0
  NavTimeout = 1
  ObservationTimeout = 1
  McuTimeout = 0
  AgeCap = 2
  ManualTwists <- ForwardOnly
  CalibrationTwists <- NoTwists
  NavTwists <- NoTwists
  McuReports <- ClearOnly
  Sources <- AllSources
INVARIANTS
  ConfirmationIsCurrent
PROPERTIES
  ImplementsInterlock
