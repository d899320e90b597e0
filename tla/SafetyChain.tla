------------------------------- MODULE SafetyChain -------------------------------
(***************************************************************************)
(* Calibrator, collector and operator around the one stop lock: who may     *)
(* drive, and whether everybody can stop and go on.                         *)
(***************************************************************************)
EXTENDS CalibrationSession, CollectionSession

vars == <<lockVars, seenVars, navVars>>

TypeOK ==
  /\ holder \in Holders
  /\ view \in [Listeners -> Holders]
  /\ step \in [Programs -> Steps]
  /\ waiting \subseteq Programs \cup {Activity}
  /\ blind \in BOOLEAN
  /\ freed \subseteq Programs
  /\ calibrating \in BOOLEAN
  /\ nav2 \in BOOLEAN
  /\ returned \in BOOLEAN
  /\ goal \in GoalStates
  /\ worn \in BOOLEAN
  /\ tries \in 0..NavRetries
  /\ good \in BOOLEAN

Init == LockInit /\ NavInit

LockMoves == (\E l \in Listeners : HearLock(l)) \/ OperatorStops \/ OperatorReleases

\* A calibration that is past its checks and has not begun to stop.
CalibratingSteps == {"countdown", "release", "confirm", "drive"}

CalKeeps ==
  /\ returned' = (returned /\ step'[Calibrator] \in CalibratingSteps)
  /\ UNCHANGED <<calibrating, nav2, navVars>>

Next ==
  \/ LockMoves /\ UNCHANGED <<seenVars, navVars>>
  \/ HearCalibration /\ UNCHANGED navVars
  \/ (CalBegins \/ CalAdvances) /\ CalKeeps
  \/ (ColBegins \/ ColAdvances) /\ UNCHANGED seenVars
  \/ (Nav2Answers \/ Nav2Ends \/ ResultArrives) /\ UNCHANGED seenVars
  \/ Nav2Leaves \/ Nav2Comes

\* Statuses are delivered to the page and the collector, and a route goes on: each
\* of its waits has a deadline.  A car that stands still reaches no waypoint, so the
\* check of the lock gets its turn; the operator keeps pressing the button.
Fairness ==
  /\ \A l \in {Operator, Collector} : WF_vars(HearLock(l) /\ UNCHANGED <<seenVars, navVars>>)
  /\ WF_vars(ColDrives /\ UNCHANGED seenVars)
  /\ SF_vars(SafetyFails /\ view[Collector] # Free /\ UNCHANGED seenVars)
  /\ WF_vars(OperatorReleases /\ UNCHANGED <<seenVars, navVars>>)

Spec == Init /\ [][Next]_vars /\ Fairness

\* A session that reports a safe stop leaves the car locked, by whomever, unless
\* somebody else has opened the lock since it last drove (_safe_stop, safe_stop:
\* "stopped" needs a lock that was granted and seen).
StoppedMeansLocked ==
  \A p \in Programs : step[p] = "stopped" => holder # Free \/ p \in freed

\* The calibrator and the collector never drive at the same time, although each
\* decides on what it heard long ago (_preflight, preflight, call_estop), and a
\* collector that retries looks at no lock for longer than a countdown lasts
\* (check_path, navigate_once).  The one exception is a Nav2 that goes and comes
\* back within the moment between a calibration's look at the nodes and the first
\* status that the collector hears after it.
OneProgramDrives == returned \/ ~ (At("drive") /\ step[Collector] \in DrivingSteps)

\* A program that drives never takes the lock it held before for an emergency
\* stop (call_estop waits for a status that no longer shows it).
OwnLockIsNoAlarm == \A p \in Programs : step[p] \in DrivingSteps => view[p] # p

\* When the collector has ended, its last goal is over, being canceled, or was
\* given up unanswered: none is left to drive that it knows of (safe_stop).
NoGoalIsForgotten == step[Collector] \in RestSteps => goal \notin {"sent", "live"}

\* The operator's stop ends the collector's route, whenever it arrives: while a
\* goal is driven, between two goals or in a retry (check_runtime_safety).  The
\* route does not go on when the stop is released.
RouteSteps == DrivingSteps \cup {"delay", "plan"}
EStopEndsDriving ==
  step[Collector] \in RouteSteps /\ holder = Operator ~> step[Collector] \notin RouteSteps

\* While no session is active the operator can open every lock, whoever left it:
\* the release names the source of the last status (CarWebBridge.set_emergency_stop).
OperatorCanUnlock == Active = {} ~> holder = Free \/ Active # {}

\* A calibrator that is refused its lock because a real e-stop holds the car ends
\* with the stop confirmed (_safe_stop: the log line on a detected real e-stop).
RealEStopIsConfirmed ==
  [][At("lock") /\ ~Granted(Calibrator, TRUE) => ~At("unsure")']_vars
=============================================================================
