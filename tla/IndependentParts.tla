---------------------------- MODULE IndependentParts ----------------------------
(***************************************************************************)
(* Parts of the system that share no state: the saved map, the calibration  *)
(* snapshot, the deployed model, the launched processes, the lidar driver,  *)
(* the page's long tasks, the wheel monitor and the queue of goals.  One of *)
(* them moves, the others stand still.                                      *)
(***************************************************************************)
EXTENDS MapReplacement, SnapshotPublish, ModelDeploy, ProcessManager,
        LidarSupervisor, LongTask, WheelSpeedMonitor, GoalQueue

VARIABLE part \* the part that moves

Parts == {"map", "snapshot", "model", "process", "lidar", "task", "wheels", "goals"}

fileVars == <<mapVars, snapVars, deployVars>>
vars == <<part, fileVars, procVars, lidarVars, taskVars, wheelVars, goalVars>>

Init ==
  /\ part \in Parts
  /\ MapInit /\ SnapInit /\ DeployInit /\ ProcInit /\ LidarInit /\ TaskInit /\ WheelInit
  /\ GoalInit
  /\ part # "process" => task = "navigation"
  /\ part # "task" => kind = "observation"

MapMoves ==
  /\ part = "map" /\ MapNext
  /\ UNCHANGED <<part, snapVars, deployVars, procVars, lidarVars, taskVars, wheelVars,
                 goalVars>>

SnapshotMoves ==
  /\ part = "snapshot" /\ SnapNext
  /\ UNCHANGED <<part, mapVars, deployVars, procVars, lidarVars, taskVars, wheelVars,
                 goalVars>>

ModelMoves ==
  /\ part = "model" /\ DeployNext
  /\ UNCHANGED <<part, mapVars, snapVars, procVars, lidarVars, taskVars, wheelVars,
                 goalVars>>

ProcessMoves ==
  /\ part = "process" /\ ProcNext
  /\ UNCHANGED <<part, fileVars, lidarVars, taskVars, wheelVars, goalVars>>

LidarMoves(Step) ==
  /\ part = "lidar" /\ Step
  /\ UNCHANGED <<part, fileVars, procVars, taskVars, wheelVars, goalVars>>

TaskMoves ==
  /\ part = "task" /\ TaskNext
  /\ UNCHANGED <<part, fileVars, procVars, lidarVars, wheelVars, goalVars>>

WheelsMove ==
  /\ part = "wheels" /\ WheelNext
  /\ UNCHANGED <<part, fileVars, procVars, lidarVars, taskVars, goalVars>>

GoalsMove ==
  /\ part = "goals" /\ GoalNext
  /\ UNCHANGED <<part, fileVars, procVars, lidarVars, taskVars, wheelVars>>

Next ==
  \/ MapMoves \/ SnapshotMoves \/ ModelMoves \/ ProcessMoves
  \/ LidarMoves(LidarNext) \/ TaskMoves \/ WheelsMove \/ GoalsMove

\* The supervisor's timer runs, and Popen does not fail for ever.
Fairness ==
  /\ WF_vars(LidarMoves(Tick))
  /\ WF_vars(LidarMoves(Supervise))
  /\ SF_vars(LidarMoves(StartDriver))

Spec == Init /\ [][Next]_vars /\ Fairness
=============================================================================
