# A TLA+ model of jetson_car

jetson_car drives a small differential-drive robot: an ESP32 runs the motors,
a Jetson runs ROS 2 nodes that map, localise, navigate (Nav2), collect training
observations and calibrate the drive, and a web page operates it all. This
directory holds the TLA+ modules that model the program's own control logic, the
TLC configurations that check them and the proofs TLAPS checks. Source paths
below are relative to `src/src/`; every definition's lines are in `PROJECT.json`
under `map`.

## 1. Inventory

| Component | State it keeps | Operations | Talks to |
|---|---|---|---|
| `car_move` (`move_node.cpp`, `motion_arbitrator.cpp`) | last command of each source with its stamp, sessions active, stop lock and owner, stale-observer latch, last ESP32 report | three command topics, two session-status topics, ESP32 status, `/car/e_stop`, 15 Hz timer | publishes `/cmd_vel_move` and `/car_status`; everybody else's commands pass through it |
| `car_web` navigation task (`ros_bridge.py`) | task state, generation, goal handle, send future, pause flag | run, resume, pause (e-stop), cancel, reset; two Nav2 callbacks per task | Nav2 actions; the web routes |
| `car_web` launcher (`server.py`, `process_manager.py`) | phase, generation, managed process, monitor thread | start, stop, status poll, monitor with retries | the launched stack, the bridge |
| `car_web` other routes | goal queue, pose store, map, mapping and long-task locks | mapping start/save/stop, goals, calibration, observation, e-stop release | all nodes |
| `car_observation` (`observation_collector.cpp`) | session, samples, own stop lock, active Nav2 goal | action goal and cancel, 10 Hz sampling, safety checks | Nav2, `car_move` |
| `car_calibrate` (`calibration_node.py`, `result_store.py`) | session, trials, own stop lock, result snapshot | action goal and cancel, trials, publishing of results | `car_move`, files |
| `car_navigation` (`expanding_obstacle_scan.cpp`) | phase, range and side tried, candidates, clocks, future and handle of the spin goal | tick and halt of the behaviour tree | Nav2 Spin, `car_move`'s status, odometry |
| `car_bringup` (`lidar_supervisor.py`, `laser_tcp_server.py`, `chassis_gate.py`) | driver process, restart deadline, last scan | supervision timer, serial bridge | lidar driver process |
| `car_base` (`odometry_integrator.cpp`) | pose, last ticks, IMU buffer | update, reset | ESP32 status |
| `car_rl` | policy session, deployed model | control cycle; publish, deploy, roll back | Nav2 controller server, files |
| `car_mapping` (`scan_warmup_relay.cpp`) | scans seen | relay | slam_toolbox |
| ESP32 firmware, Nav2, slam_toolbox, AMCL, micro-ROS, lidar driver | outside the repository or vendored | | environment of the modules |

What is hard here: the stop lock has one owner field and four kinds of
requester; every decision in `car_move` depends on what arrived how long ago;
the web server's handlers, callbacks and monitors run in threads that drop the
lock between looking and acting; a Nav2 goal lives on whatever the page thinks
of it; processes, ports and files fail between any two steps. `PROJECT.json`
lists the hazards at their lines with the properties that would catch them.

What makes each part correct:

- `car_move`: nothing moves while a lock or the latch holds; only the holder
  releases; motion dies with its source's timeout; an observer that is lost stops
  the car; what is reported is what is done.
- navigation task: one goal in Nav2 at a time; an inactive page means a parked
  robot; a pause reaches the goal and ends; a final state is final.
- launcher: a stopped stack stays stopped; a start is attended to its end; no
  thread of an earlier start kills the stack of a later one.
- obstacle scan: a direction is judged and chosen facing it; no turn goes on
  unwatched; the range grows only when it must; a round ends.
- sessions around the stop lock: a session that reports "stopped" leaves the car
  locked; calibrator and collector never drive together; neither mistakes the lock
  it has just given back for an alarm; no Nav2 goal that a collector knows of
  outlives it; the operator can stop every drive and open every lock that is left.
- long tasks of the page: from its request to its end a task keeps the routes of
  the others locked, whatever the page has heard of it so far.
- goal queue: a goal the next run passes over was reached or is listed as missed.
- saved map, calibration snapshot, deployed model: whatever operation fails and
  whenever the process dies, what is found afterwards is of one piece, the last
  good one is not lost, and the receipt is true.
- process manager: no launched process group is unknown to the server.
- lidar supervisor: the driver starts only behind a link that has been up for the
  start delay, and is started again as long as the link stays up.
- wheel speed monitor: an overspeed is sustained exactly when it lasted.

## 2. Modules

`MotionArbitrator` holds the pure arithmetic: limiting a twist
(`ClampTwist`, `LimitAngularSpeed`) and choosing the command (`Select`). Speeds are
integers in thousandths, so the code's `0.001` threshold is "not zero"; a value
outside `Int` stands for NaN or infinity.

`CarMove` is the node, with one action per callback of its single-threaded
executor: `OnManualCmd` ... `OnMcuStatus` for the subscriptions, `RefuseEStop`,
`EngageEStop` and `ReleaseEStop` for the service (its refusals, and its two
effects), `OnTimer` for the wall timer, which runs `publish_move_command`,
`publish_ultrasonic` and `publish_status` in that order. A stamp is kept as its
age in ticks; `Tick` ages all of them, and `timer_age <= TimerPeriod` says that
the timer is never late by more than its period. An age saturates at `AgeCap`,
beyond every timeout, where it also stands for "never".

`MotionInterlock` is what the node promises, without commands or timeouts: who
may take, replace and release the stop lock, when the latch may open, and that
nothing moves while either holds. `CarMove` implements it under the mapping
written at its end (`Interlock`, `ImplementsInterlock`).

`ArbitratorCheck` walks the arbitrator through every input a node can build and
compares it with reference definitions (`Feasible`, "an unselected source changes
nothing", "an obstacle stops forward motion only").

`NavigationTask` is the web bridge's task. Web requests run in a thread pool and
callbacks in a multi-threaded executor, so a step is one section under `_lock` or
one call between two sections: `navigate` is `Navigate`, then `SendGoal` or
`SendFails`, then `StoreFuture`; `_goal_response` is `ResponseCheck` and then
`ResponseFails`, or `ResponseClear` followed by `ResponseRejected` or
`ResponseAccepted`; `_navigation_result` is `ResultCheck` and then
`ResultRecorded` or `ResultUnread`. `PauseNavigation`, `CancelNavigation` with
`CancelDecides`, `ClearCheck` with `ClearResets`, and `StopBegins` ... `StopResets`
are the operator's routes. Threads are named by the generation they work for.
Nav2 is external: it answers, ends or cancels a goal, and dies when the stack is
stopped. `Operations` says which interruptions the operator uses.

`NavigationLauncher` is how the stack is started and stopped: the poll of
`_navigation_runtime_status` in its three looks (`PollReads`, `PollFindsExit`,
`PollFindsRunning`, `PollAdopts`), `start_navigation` (`StartChecks`,
`StartBegins`, then `StartLaunches`, `StartFails` or `StartCrashes`),
`stop_navigation` (`StopBegins`, `StopKills`, `StopEnds`, `StopCrashes`) and the
monitor thread of each start (`Monitor...`). A section of a monitor under
`_navigation_process_lock` is two steps, the look at the generation
(`MonitorChecks`) and what follows it (`MonitorKills`, `MonitorLaunches`), because
a route draws a new generation under `_lock` alone; `ProcessLockFree` says when
another thread may enter. An `OSError`, of `Popen` or of the process manager's state
file, is caught by nobody (`except RuntimeError`, `server.py:1230` and 778;
`process_manager.py:124`, 230, 247, 259, 270): it ends the thread, which is then
"crashed", and leaves the phase as it was (`StartCrashes`, `StopCrashes`,
`MonitorCrashes`). Two variables are history: `launcher` is the generation that
launched the last process, `requests` says whether a request was ever sent before
the last one had returned.

`ObstacleScan` is the behaviour-tree node that turns the car left and right of an
obstacle by growing angles. `tick` is one action per phase and outcome
(`TickIdle`, `ObstacleHolds`, `TickUnsafe`, `TickWaitingStop`, `StopHolds`,
`TickWaitingGoal`, `TickTurning`, `TickEvaluating`, `RetryElapses`), `halt` is
`Halt`; a tick that finds a hold not yet elapsed is a stutter. The node sees
answers and results of the Spin server only when it looks, so the server
(`SpinAnswered`, `SpinEnds`), the network (`AnswerArrives`, `ResultArrives`) and a
goal that was given up without being stopped (`StrayTurns`) move between its
ticks. Angles are counted in scan ranges relative to the encounter. `cancels` is a
history variable: "missed" once `cancel_spin` threw, or its answers came too late.

`StopLock` is the lock of `CarMove` as its three users see it: `holder` is the
owner, `view` what each of them read in the last `CarStatus` that reached it
(`HearLock`), `step` where each program is in its session. `CallEStop` is
`call_estop` up to the service's answer, which may be lost although the request was
granted. The programs look at each other as well: the collector at the calibrator's
activity (`calibrating`, `HearCalibration`), the calibrator at Nav2's nodes (`nav2`).
The steps of a route are told apart by how long the collector may be in them without
a look at the lock: `WatchingSteps` are as short as an answer is waited for, a retry
is not (`plan`, `await`). `CalibrationSession` is `_execute` and `_safe_stop` of the
calibrator, one action per wait: `CalEngages`, `CalSeesLock`, `CalChecks`,
`CalCountsDown`, `CalReleases`, `CalSeesUnlock`, `CalDriveEnds`, `CalStops`,
`CalLocks`, `CalSeesOwnLock`, `CalEnds`. `CollectionSession` is the same for the
collector, with the goal it sends to Nav2 (`ColSends` to `GoalFailed`), its retry
(`RetryPlans`, after the look in the delay, and `RetrySends`, after the planner's
answer), the check of its safety (`SafetyFails`), `safe_stop` (`ColCancels`,
`CancelThrows`, `StopFails`, `ColLocks`), the action server and client
(`Nav2Answers`, `Nav2Ends`, `ResultArrives`) and Nav2's nodes, which leave with
their goals and come back (`Nav2Leaves`, `Nav2Comes`). `SafetyChain` composes the
two with the operator's e-stop button, whose release names the holder the page last
heard of.

`LongTask` is how the page starts one of these sessions: the request and its
answer (`StartRoute`, `StartAccepted`, `StartRefused`), the node's own side
(`TaskShows`, `TaskLocks`, `TaskDrives`, `TaskEnds`), the status the page hears,
the five-second window that stands in for it until then (`StatusRoute`,
`WindowEnds`), and the end of a collection within `stop_navigation`.

`GoalQueue` is the list of goals and its progress. Every route is several steps, and
routes overlap, up to one request of each kind at a time: `RouteChecks` is the look it
takes, `AddGoal`, `RemoveLastGoal` and `ClearGoals` edit the list under the lock, and
`TellsBridge` gives the bridge the new length later (`owed` in between). `run` and
`resume` look at the progress, read the goals after it (`ReadsGoals`, `plan`) and
call `Navigate`. `Pause` and `Cancel` interrupt; `StackGoes` is the stop, or the
monitor's before it tries again, and `ForgetsGoals` drops the list at the end of a
stop. Nav2 drives along its route (`Reaches`, `GivesUp`) and reports where it is
(`ReportsProgress`), which the bridge hears later or never (`HearsFeedback`);
`ResultComes` records the end: a canceled route has an empty result, a failed one may
have. Three variables are history: `joined` the goals added while a run was served or
a task under way, `untold` those given up on a route whose result does not say so,
`outran` that something under way counts goals which were removed or reset
(`Outruns`).

Three modules replace something on disk, one action per file operation, with a
failure and a crash possible at each: `MapReplacement` (`replace_saved_map`: two
backups, two installations, and the undoing in reverse), `SnapshotPublish`
(`publish_calibration_snapshot`: staging, tidying up, two renames, restoring) and
`ModelDeploy` (`deploy`: two renames, the check of the model, the receipt, the
rollback). Contents are numbered: a file's value is the map, snapshot or archive it
came from.

`ProcessManager` is what `NavigationLauncher` takes for granted: a launch in a
process group of its own, the record in memory and in the state file, and a web
server that may die between any two of them and comes back (`ServerRestarts`).

`LidarSupervisor` is the supervision timer with its outcomes (`StopDriver`, `Wait`,
`PlanStart`, `StartDriver`, `StartFails`, `ScanTimesOut`), the callbacks that feed
it and the TCP server's reports. Time is counted in supervision periods, as ages
and remaining waits (`Tick`). `WheelSpeedMonitor` is `update` over ESP32 frames that
come at their own pace and are looked at never, once or twice.

`IndependentParts` puts the eight parts that share no state side by side; the
variable `part` says which one moves in a behaviour, so one run checks all of them
and its states are their sum. Each part keeps its own `...Init`, `...Next` and
`...Spec`, and the cfg files named in section 3 use these directly.

`MCCarMove`, `MCArbitrator`, `MCNavigationTask` and `MCIndependentParts` give the
constants their values. Eight modules hold the theorems: `CarMoveProofs`,
`ArbitratorProofs`, `NavigationTaskProofs`, `NavigationLauncherProofs`,
`ObstacleScanProofs` and `SafetyChainProofs` each of the module they are named
after, `PageProofs` of `LongTask` and `GoalQueue`, `PartsProofs` of the other parts
and of `IndependentParts` itself.

## 3. Runs

| Run | What it asks | Bounds |
|---|---|---|
| `CarMoveArbitration` | locks stop, motion is recent, the observer is watched, status and command agree on obstacles, the named source drives | three sources, one forward and one reverse twist, a clear and a blocked report (the arbitrator's own run has the distances), timeouts 0 or 1, `AgeCap` 2, period 1 |
| `CarMoveLocks` | refinement of `MotionInterlock`, the confirmation is current | five sources of requests, the empty one included |
| `Arbitrator` | limiter and selection against their references | twists up to 6 and not finite; all flags, three commands per source, four distances |
| `NavigationPause` | one goal at a time, parked when inactive, a pause reaches Nav2, final states stay, pauses end | four tasks one after the other |
| `NavigationAll` | sending ends, with every operation | two generations |
| `NavigationCancel` (violation) | a canceled task does not run | one task |
| `Launcher` | idle means stopped while requests are serial; no monitor kills a later start's stack; starts are attended and transitions end, unless an `OSError` ended their thread | three generations, one retry, two pages in the checks of a start |
| `LauncherRace` (violation) | no start that a stop has overtaken launches the stack | two generations |
| `ObstacleScan` | judged facing the target, no forgotten turn, recovery faces a clear side, widening only when blocked, rounds end | two ranges, two distances and no echo, any number of interruptions and goals |
| `SafetyChain` | a stopped session leaves a lock, one program drives, its own old lock is no alarm, no known goal is left to run, an e-stop ends a route, the operator can unlock | one calibrator, one collector, any number of sessions, one retry of a waypoint |
| `IndependentParts` | no mixed map; a snapshot survives; a true receipt; no unknown stack; an accepted task locks the page; a sustained overspeed lasted; the queue is accounted for; no early start; a ready link is driven | 3 maps; 4 snapshots; 3 archives, any number of calls; 3 process groups; waits of 1 to 4 periods; 2 start routes, 2 tasks; 4 kinds of frame, limits 1 and 3, hold 2, times to 4; 2 goals, 2 runs, two routes served at once |
| `MapSaveFails` (violation) | a failed save keeps the old map | two maps |

Why the bounds are enough. In `CarMove` every comparison is "age within
timeout"; a timeout of 1 with ages to 2 has an age below, at and beyond it, and
differing timeouts of the sources let each be the first to expire. Speeds matter
only by sign, by zero and by the limit, and the twists lie over the limit, in
reverse and not finite. Four tasks allow a task, a pause, a resume and one more with a
callback of the first still outstanding. Two ranges have a first and a last one; the
scan compares scores only with each other, the tie distance and infinity. In the launcher the interesting cases are
one thread overtaken once or twice, which three generations give. Three maps, four
snapshots and three archives give a good version, one that fails half-way, the
repair after it and one more on top; three process groups a stack, the one that
follows while it is being stopped, and one launched after a restart. The lidar's
first scan may take longer than a later one, so either limit is met alone, and a pause
doubles once before it meets its own. Two tasks and two routes let a start overtake another, and the node's late
answer meet the next task. Two runs of two goals give a run, a pause and a resume
with feedback of the first still under way, and two routes at once any of them
overtaking another; three goals with three routes at once (one run), and two goals
and runs with all routes at once, were checked by hand as well. The proofs
remove these bounds for the safety properties. Deadlock is not checked for the
navigation modules and `IndependentParts`: the operator may stop sending requests,
and generations, maps and tasks are bounded.

Fairness. `NavigationTask`: a thread or callback that has begun goes on, and
Nav2 answers a goal and heeds a cancel (weak fairness on each task's sender,
callbacks, and on `Nav2Answers`, `Nav2Cancels`); no operator need act and no goal
need end by itself, so `PausingEnds` rests on the cancel alone. `wait_for_server`
has a timeout, so a sender always comes through. `NavigationLauncher`: routes and
monitors that have begun go on (all their waits have deadlines) and pages keep
polling; the stack need neither come up nor die. `ObstacleScan`: the tree ticks on,
every clock runs out, the Spin server answers and ends every goal and is heard; the
hold of the stopped wheels has strong fairness, since wheels that jitter for ever
would restart it for ever. The code has no deadline of its own for an answer, so
`RoundEnds` does rest on the server. `SafetyChain`: statuses are delivered to the
page and to the collector, and a route that has begun goes on (weak fairness on
`HearLock` and on `ColDrives`: all its waits have deadlines). `EStopEndsDriving`
needs strong fairness of the safety check under a seen lock, since results take the
collector through other steps: a car that stands still reaches no waypoint, so the
check does get its turn. `OperatorCanUnlock` rests on the operator, who keeps
pressing the button (weak fairness on `OperatorReleases`). `IndependentParts`:
only the lidar has liveness. The timer runs (`Tick`, `Supervise`), and `Popen` does
not fail for ever (strong fairness on `StartDriver`). `CarMove` states no liveness:
what must happen in time is a safety property over ages.

Timing. Where the code relies on one wait being longer than another, the model does
too. The calibrator's countdown (5 s) outlasts the delivery of a status, the three
seconds a driving collector waits for an answer before it looks at the lock
(`WatchingSteps`), and its wait for an open lock (`confirm`, at most 4 s, as far as it
began before the countdown). It does not outlast a retry, which looks at the lock last
in its delay and then waits up to 3 + 8 s for the planner and 3 s for Nav2
(`observation_collector.cpp:1240-1247`, 631-643, 847): `CalCountsDown` asks nothing of
a collector that is planning, and of one that awaits such a goal only if it did so
before the countdown began (`blind`, 3 s at most). What keeps a retry out
is in the code and in the model: a calibration finds Nav2's nodes and does not begin
(`calibration_node.py:617-620`), a planner that is not there finds no way, and the
check in the delay hears of the calibration (`observation_collector.cpp:791`). The
second of zero commands before the calibrator's lock outlasts a status; the page's
window (5 s) outlasts the answer to a start and the first status; a status is heard
before the task that sent it has ended; navigation is not ready while
`stop_navigation` runs.

Exceptions. Some properties name what they do not promise through a history
variable or a state, each set where the code itself gives up: `freed` (somebody else
opened the lock after the session's last drive), `returned` (Nav2 came back between a
calibration's look at the nodes and the first status that the collector heard after
it), "crashed" (an `OSError` ended the thread that was at the start or the stop),
`joined`, `untold` and `outran` (see `GoalQueue` above), `strays` (groups launched
just before a crash or beside a waiting stop), `undoBroken` (a snapshot's undoing that
itself failed or was killed), `cutShort` (a deployment that was), `crossed` (start
routes that overlapped, one that was given up unanswered, or `stop_navigation`).

### What the violations show

1. `cancel_navigation` finds nothing to cancel while `navigate` waits for the
   action server: the page shows "canceled", then the goal is sent, accepted and
   run (`NavigationCancel`; `ros_bridge.py:1397`).
2. `start_navigation` does not ask for its generation again under the process
   lock. A start draws generation 1; a stop draws generation 2, finds no process and
   ends with "idle"; then the start launches the stack, which runs under a page that
   shows navigation as ended, and its monitor finds itself overtaken and leaves
   (`LauncherRace`; `server.py:1221-1236`).
3. `replace_saved_map` is to be complete and atomic (`map_lifecycle.py:16`). When one
   of the two renames to a backup fails, as on a full disk, its `except` branch
   removes the YAML and the image under their final names, where the originals
   still are, and has no backup to give back (`MapSaveFails`;
   `map_lifecycle.py:46-58`).

More configurations show disagreements and are kept to be run by hand; each ends
with the counterexample described.

- `CarMoveUnnamedEStop.cfg` (module `MCCarMove`): a request with an empty `source`
  is answered "真实急停已触发" (real e-stop), but `on_emergency_stop` recognises a real
  e-stop only by a non-empty source, so a program may take the lock over and later
  release it (`move_node.cpp:247-254`).
- `NavigationReset.cfg` (`MCNavigationTask`): `_goal_response` and
  `_navigation_result` check their generation in one lock section and write in a
  later one, so a reset in between does not silence them (`ros_bridge.py:1240-1254`).
- `ObstacleScanLostInputs.cfg` (`ObstacleScan`): `send_goal_future_` stays valid
  after its turn, and a tick that loses its inputs takes the finished goal's handle
  out of it; `async_cancel_goal` throws for a goal whose result has arrived. The
  message of the tick promises to wait for the inputs; instead the exception ends the
  navigation, and `halt`, which throws as well, leaves `active_` set, so the next
  navigation continues the old scan (`expanding_obstacle_scan.cpp:465-473`). The
  properties of `ObstacleScan` about headings and turns therefore hold only as long
  as `cancels` is "heeded".
- `SafetyChainLockout.cfg` (`SafetyChain`): `_safe_stop` leaves a real e-stop alone
  and counts it as the confirmed stop. An e-stop that comes after this look at the
  status refuses the calibrator's own request instead; the stop then counts as
  unconfirmed and the node stays active for good, so the page refuses every release
  (`calibration_node.py:1056-1058`, 1279; `server.py:965`).
- `StopOpensLock.cfg` (`LongTask`): `stop_navigation` takes the absence of an active
  status for the end of the collection. A collection whose start was given up by its
  route, and that has just taken the lock, loses it to a release in its own name
  (`server.py:233-272`, `ros_bridge.py:102-113`, 941-950).
- `GoalQueueUnaccounted.cfg` (`GoalQueue`): the exceptions of `QueueIsAccounted` do
  happen. `add_goal` looks at the state before a run is served and appends its goal
  after it; the total grows, and the success of the run counts a goal that Nav2 never
  had as completed (`server.py:1346-1355`, `ros_bridge.py:1433`, 1337-1344).

Further disagreements met in the code, without a configuration:

- A waypoint that FollowWaypoints gave up before a pause is forgotten by the resume:
  Nav2's result of a canceled goal is empty, and the next run passes the waypoint over
  although it was neither reached nor listed as missed (`ros_bridge.py:1297-1344`;
  the goals in `untold`).
- `resize_navigation_queue` is to keep the progress within the queue when goals are
  added or removed (`ros_bridge.py:1422`), but feedback asks for the generation alone
  (1207-1221). Of three goals two are behind and the feedback of that is on its way;
  the task ends, the last two goals are removed and another is added; then the
  feedback is heard and the new goal is passed over by the next run (`outran`).
- An `OSError` of `Popen` or of the state file leaves the page in "starting",
  "retrying" or "stopping" with nobody at work, and after `Popen` with a stack that no
  monitor attends (`server.py:1230`, 778, 1281; `process_manager.py:124`, 247); the
  page can still be brought out of it by a stop.
- A goal whose send the collector gave up after three seconds keeps no handle and is
  never cancelled if Nav2 accepts it later; only the lock holds the car
  (`observation_collector.cpp:846-850`).
- A failed result is blamed on the waypoint of the last feedback, which may lag
  behind and name one already reached (`ros_bridge.py:1317`).
- A power cut between the renames leaves the new map installed in part and the old
  one under backup names that nothing reads again (`map_lifecycle.py:46-53`).
- A deployment that died between the renames and its receipt leaves the receipt of
  the earlier archive: deploying that one again says "already deployed" of the other
  model (`get_model_worker.py:466`).
- The five-second window of long tasks is one timestamp for all starts: a second,
  overlapping start that fails closes it, and `stop_navigation` does not look at it
  (`server.py:85-86`).
- Mapping and navigation routes check for each other and launch later, without a
  common lock (`server.py:1050`, 1214).
- `clear_goals` asks for an unfinished task and resets later (`server.py:1361`).
- An update that odometry rejects still moves its tick baseline, so the distance is
  lost (`odometry_integrator.cpp:99-105`).
- `observation_monitor_armed_` survives a report that is no longer active
  (`move_node.cpp:217`).
- A Spin server that never answers holds the scan for ever: its phases have no
  deadline of their own (`expanding_obstacle_scan.cpp:294`); a goal whose answer takes
  longer than the half second a cancel waits for it is never cancelled (466).

Two more divergences are visible in `StatusNow` without a run: `CarStatus.msg:31`
calls bit 18 "real e-stop" and bit 20 "obstacle ahead", while `publish_status` also
sets bit 18 for the stale-observer latch, and bit 20 only while a forward command
is being blocked.

## 4. Proofs

Every safety property that a listed run checks is also a theorem, for every value
of the constants that the named `ASSUME`s admit; the invariants below were checked
by TLC on small instances before they were proved. Where a theorem needs more, the
hypothesis is in its statement.

| Module | Theorems | Inductive invariant | Rests on |
|---|---|---|---|
| `CarMoveProofs` | `TypeCorrect`, `LockStops`, `MotionExpires`, `CollectorWatched`, `ConfirmationHolds`, `NamedSourceDrives`, `ObstacleConsistent`, `RealEStopHolds`, `Implements` | `SafetyInvariant` | `LimitsAssumption`, `CarMoveAssumption` |
| `ArbitratorProofs` | `LimitNearest`, `UnselectedIgnored`, `ObstacleStopsForward` | `InputOK` | `LimitsAssumption` |
| `NavigationTaskProofs` | `TypeCorrect`; `SingleGoal`, `Parked`, `PauseDelivered`, `FinalKept` | `PauseInv` | for the last four, e-stops as the only interruption |
| `NavigationLauncherProofs` | `LauncherTypes`, `Attended`, `IdleStaysStopped`, `LaterStackSurvives` | `AttendedInv`, `SerialInv`, `OwnerInv` | |
| `ObstacleScanProofs` | `TypeCorrect`, `JudgedWhereItLooks`, `NoneForgotten`, `ClearSideFaced`, `WidensWhenBlocked` | `ScanInv` | |
| `SafetyChainProofs` | `ChainTypes`, `ChainLeavesLock`, `ChainExcludes`, `ChainKnowsOwnLock`, `ChainForgetsNoGoal` | `Inv` | |
| `PartsProofs` | `MapsNeverMix`, `LastSnapshotSurvives`, `ReceiptIsTrue`, `StacksAreKnown`, `StartsAreLate`, `OverspeedHeld`, `PartsAreTheirOwn` | one for each part | the parts' assumptions on their delays and times |
| `PageProofs` | `TaskLocksPage`, `QueueAccounted` | `TaskInv`, `QueueInv` | |

The arguments:

- `CarMove`. The invariant joins "locked means stopped", the age bounds and the
  watch, and needs two facts the properties do not say: what the last cycle's named
  source implies about the age of its command, and that a latch exists only while
  the watch is armed. `Implements`: every action is one of `MotionInterlock`'s or a
  stutter. `RealEStopHolds` proves, for requests that all name their source, the
  property that `CarMoveUnnamedEStop.cfg` refutes.
- The arbitrator. `LimitNearest` holds of every twist, not only of those enumerated,
  by the arithmetic of clamping; for the selection only the shape of the input is
  inductive, and each theorem follows from the order in which `Select` asks.
- `NavigationTask`. With `Operations \subseteq {"pause"}` only the newest generation
  is unfinished; where its sender, callbacks and goal stand together, and which
  states go with that.
  The hypothesis cannot be widened: with "cancel", "clear" or "stop" beside "pause",
  TLC finds each of the four properties violated within four generations (a cancel or
  a reset that crosses a run or a callback leaves a goal nobody counts).
- `NavigationLauncher`. `AttendedInv` (generations not drawn yet are untouched; a
  start in progress has its route or monitor, or that thread crashed) is inductive for
  overlapping requests. `SerialInv` adds that while requests were serial only the
  current generation may be open and whoever may launch works under a phase other
  than "idle". `LaterStackSurvives`: `OwnerInv` says that a monitor which has looked
  at its generation and not yet killed finds no process of a later start. When it
  looked its generation was the newest, so nothing later had launched; a later one may
  be drawn after that, but nobody else launches while the process lock is held.
- `ObstacleScan`. `RoundInv` relates verdicts, target and range whatever becomes of
  the goals; `InStep` relates the node's future and handle, the server's goal and
  the heading as long as every cancel stopped what it should.
- `SafetyChain`. `OneProgramDrives` is not inductive: it follows because a collector
  that has heard the lock since a countdown began knows of the countdown
  (`CountdownIsHeard`), one that has heard the calibrator knows of the calibration
  (`CalibrationIsKnown`), and until it has heard either Nav2 is away (`Nav2StaysAway`);
  so no retry is told of a way (`NoWayFound`) and one that was awaited before is known
  (`BlindIsKnown`). Hence a program about to give its lock back is alone
  (`ReleasesAlone`), and so is one that has given it back (`OpensAlone`), both up to
  `returned`. `Relocked` says which steps leave the lock, `GaveBack` what a program
  that drives has heard, `GoalIsKnown` where the collector is while a goal of its is
  out. The two sessions are treated alike: each of their steps meets a `Contract` on
  the lock, and the invariant is kept by any step that does.
- The files and processes. `MapPlaces` says, for every step of a replacement, which
  of the four names holds which map; `SnapPlaces` and `Findable` where the last
  reported snapshot is at every step of publishing and undoing; `DeployInv` relates
  target, shelf and receipt during a call; `ProcInv` says that a living group is
  recorded, in memory or on disk, or a stray.
- The lidar. A planned start is never nearer than the rest of the start delay
  (`LidarPlans`), whatever the backoff.
- The wheel monitor. `WheelInv`: the time kept is that of the frame at which the
  overspeed began (`Began`), and frames are looked at in their order, so the
  verdict is about the whole history of looks.
- The page's locks. `StartIsAlone`: a start that nothing crosses is the only one,
  finds no task, and keeps the window open until its task has shown; `StatusFits`
  relates what is published and heard to the number of tasks, and rules out that
  the bridge takes the first status of a task for that of an earlier one.
- The queue. `Accounted` says of a goal that it was reached, joined late, was given up
  without a word, is listed as missed or was given up on the route under way. That
  holds of the completed goals (`ProgressIsTrue`), of those a run has read and is about
  to pass over (`PlanIsTrue`), of those behind Nav2's present leg (`RouteIsTrue`) and of
  those feedback under way would count (`FeedbackIsTrue`); `LengthsAreTrue` says that
  the bridge will be told the length the list has. Removing goals or resetting the
  state while one of these counts more is what breaks them, hence `outran`, under which
  only types and `OneTask` are kept. A reset with no run or edit half done makes all of
  them true again.
- `PartsAreTheirOwn`: a behaviour of `IndependentParts` is one of every part's own
  specification, so the theorems about parts apply to the run.

Type correctness of `CarMove`, `NavigationTask`, `NavigationLauncher`,
`ObstacleScan` and `SafetyChain` is proved; the parts' types are within their
invariants.

Only model-checked: the liveness properties `PausingEnds`, `SendingEnds`,
`TransitionsEnd`, `RoundEnds`, `EStopEndsDriving`, `OperatorCanUnlock` and
`ReadyLinkIsDriven`, since liveness under fairness is out of the prover's reach.
`FailedSaveKeepsMap`, and the two properties of `NavigationCancel` and
`LauncherRace`, do not hold.

## 5. What is left out

- `CarMove`: logging, the stall warning, status fields copied from the ESP32. The
  clock is monotone (the code reads a wall clock); a timer callback is one
  instant.
- `NavigationTask`: waypoint counters and feedback (`GoalQueue` has them) and
  messages; whether a success missed waypoints is a free choice. The zero command
  published by a pause is `car_move`'s input, not the task's state. A reset by a
  failed launch is not composed with the task.
- `NavigationLauncher`: the end of a running observation inside `stop_navigation`
  (`LongTask` has it) and the error texts. One poll is followed at a time, and a
  monitor's look at the stack is one step. Whether a dead process is still on record is
  `ProcessManager`'s: here any look at one may write the file and fail, which allows
  more crashes than the code.
- `ObstacleScan`: the repetition of the last status, the time allowance of a goal and
  a parameter set that `build_scan_ranges` refuses. Nobody drives by hand during a
  scan.
- `SafetyChain`: no program dies (`CarMove`'s latch and watch are about that), and the
  trials and samples of a session are one step each that ends or fails. A goal given
  up unanswered leaves the model: the collector keeps nothing of it, and no property
  is about what Nav2 does with it.
- `GoalQueue`: a goal is accepted as it is sent; what happens between the two is
  `NavigationTask`'s. The pose of a goal is left out. One request of each kind is
  served at a time.
- `ProcessManager`: a process whose identity cannot be read within a second;
  `stop_all` is a stop of each task.
- `LidarSupervisor`: `require_tcp_before_start` is on, as in the launch files;
  `process.wait` sees the end of the driver's leader only, and so does the model.

Not modelled, with the reason:

- `car_observation`: sampling with its watchdog, coverage selection and the writing
  of the data set: arithmetic and file formats over thousands of samples, after
  which a session ends or fails as `CollectionSession` lets it.
- `car_calibrate`: numerical fitting and the data checks of the trials: floating
  point.
- `car_base`: odometry, an integration in floating point with no state machine.
- `car_rl`: the policy controller, a network's forward pass in Nav2's cycle.
- `car_mapping`: the scan warm-up relay, one counter; `car_navigation`: the
  localisation gate and `car_bringup`: the chassis gate, each a process that waits
  for one message and exits; `NavigationLauncher` sees the exit.
- `car_web`: the pose store (one value, written atomically), the mapping routes
  beyond the process manager and the map, and request validation.
- Scripts, launch files and the robot's description. The lidar's SDK under
  `ydlidar_ros2/sdk`, by far the largest part of the repository, is vendored from the
  manufacturer; its driver process is the environment of `LidarSupervisor`.

## 6. Plan

The modules planned are written, and their safety properties are proved. What
proofs could still add, in this order:

1. `StopLock` beside `CarMove`: that the requests its programs make are granted and
   refused as `CarMove` does, as a refinement of `MotionInterlock`'s lock.
2. `NavigationTask` under every operation: what is left of `OneGoalAtATime` and
   `InactiveMeansParked` when the operator cancels, clears and stops.
3. `LongTask` with overlapping starts: which of two tasks the page may lose.
