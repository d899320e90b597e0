\* A real e-stop whose request names no source.
SPECIFICATION Spec
CONSTANTS
  MaxLinear = 2
  MinAngular = 2
  MaxAngular = 3
  InPlaceLinear = 0
  StopDistance = 1
  RangeMin = 1
  RangeMax = 3
  NoEcho = NoEcho
  NotFinite = NotFinite
  TimerPeriod = 1
  ManualTimeout = 1
  CalibrationTimeout = 0
  NavTimeout = 1
  ObservationTimeout = 1
  McuTimeout = 1
  AgeCap = 2
  ManualTwists <- ForwardOnly
  CalibrationTwists <- NoTwists
  NavTwists <- NoTwists
  McuReports <- ClearOnly
  Sources <- AllSources
PROPERTIES
  RealEStopKeepsLock
