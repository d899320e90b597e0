SPECIFICATION Spec
CONSTANTS NavRetries = 1
INVARIANTS StoppedMeansLocked OneProgramDrives OwnLockIsNoAlarm NoGoalIsForgotten
PROPERTIES EStopEndsDriving OperatorCanUnlock
