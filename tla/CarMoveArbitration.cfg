\* Arbitration, timeouts, obstacles and the watch on the observer, with one operator.
SPECIFICATION Spec
CONSTANTS
  MaxLinear = 2
  MinAngular = 2
  MaxAngular = 3
  InPlaceLinear = 0
  StopDistance = 1
  RangeMin = 1
  RangeMax = 3
  NoEcho = NoEcho
  NotFinite = NotFinite
  TimerPeriod = 1
  ManualTimeout = 1
  CalibrationTimeout = 0
  NavTimeout = 1
  ObservationTimeout = 1
  McuTimeout = 1
  AgeCap = 2
  ManualTwists <- ReverseOnly
  CalibrationTwists <- ForwardOnly
  NavTwists <- ForwardOnly
  McuReports <- ObstacleReports
  Sources <- WebOnly
INVARIANTS
  LockedMeansStopped
  MotionIsRecent
  ObservationIsWatched
  ObstacleReportsAgree
PROPERTIES
  AnnouncedSourceDrives
