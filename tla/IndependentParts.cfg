\* Maps, snapshots, models, processes, the lidar driver, long tasks, wheels, goals.
SPECIFICATION Spec
CONSTANTS
  MaxMaps = 3
  MaxSnapshots = 4
  Archives = {1, 2, 3}
  MaxGroups = 3
  TcpTimeout = 1
  StartDelay = 2
  InitialScanTimeout = 3
  ScanTimeout = 1
  BaseBackoff = 2
  MaxBackoff = 4
  StopTime = 2
  r1 = r1
  r2 = r2
  Starters = {r1, r2}
  MaxTasks = 2
  NotFinite = NotFinite
  SustainedLimit = 1
  ImmediateLimit = 3
  HoldTime = 2
  MaxTime = 4
  Frames <- MCFrames
  MaxGoals = 2
  MaxRuns = 2
  MaxServed = 2
CHECK_DEADLOCK FALSE
INVARIANTS
  NoMixedMap
  SnapshotSurvives
  ReceiptNamesModel
  NoUnknownStack
  AcceptedTaskLocksPage
  OverspeedIsHeld
  QueueIsAccounted
PROPERTIES
  NoEarlyStart
  ReadyLinkIsDriven
