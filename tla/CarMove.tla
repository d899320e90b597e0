-------------------------------- MODULE CarMove --------------------------------
(***************************************************************************)
(* CarMoveNode: the one node that may drive the wheels.  It keeps the last  *)
(* command of every source, arbitrates between them in a wall timer, holds  *)
(* the emergency stop with its owner, and closes a latch when the           *)
(* observation collector falls silent while it is being watched.            *)
(*                                                                         *)
(* The node runs in a single-threaded executor, so each callback is one     *)
(* action.  Time is counted in ticks: a stamp is kept as its age, and an    *)
(* age saturates at AgeCap, which also stands for a stamp never set.        *)
(***************************************************************************)
EXTENDS MotionArbitrator

CONSTANTS
  ManualTwists, CalibrationTwists, NavTwists, \* commands each topic may carry
  McuReports,          \* [ultrasonic_ok, obstacle_ok, distance] the ESP32 may send
  Sources,             \* what a request's source field may hold
  ManualTimeout, CalibrationTimeout, NavTimeout, ObservationTimeout, McuTimeout,
  TimerPeriod,         \* the wall timer fires at least once in this many ticks
  AgeCap,
  RangeMin, RangeMax,  \* ultrasonic_min_range_, ultrasonic_max_range_
  NoEcho               \* an infinite range, published when no reading is valid

\* The two programs that may hold the lock; any other named source is a real
\* e-stop, and the empty one names nobody.
Programs == {"car_calibrate", "car_observation_collect"}
NoSource == ""

ASSUME CarMoveAssumption ==
  /\ {ManualTimeout, CalibrationTimeout, NavTimeout, ObservationTimeout, McuTimeout}
       \subseteq 0 .. (AgeCap - 1)
  /\ AgeCap \in Nat
  /\ TimerPeriod \in Nat \ {0}
  /\ RangeMin \in Nat /\ RangeMax \in Nat
  /\ NoEcho \notin Int
  /\ \A r \in McuReports : r.ultrasonic_ok \in BOOLEAN /\ r.obstacle_ok \in BOOLEAN

VARIABLES
  manual, calibration, navigation, \* latest command of each source: [cmd, age]
  calibration_active,
  observation_active, observation_age,
  observation_monitor_armed, observation_status_stale_latched, observation_fresh_inactive,
  e_stop_active, e_stop_source,
  mcu, mcu_age,          \* the last ESP32 report
  move_cmd,              \* the last command published on /cmd_vel_move
  active_command_source, \* the source named for it
  status,                \* the last CarStatus published, with the published range
  reply,                 \* the last e-stop request answered
  timer_age              \* ticks since the timer last fired

commandVars == <<manual, calibration, navigation>>
observationVars == <<observation_active, observation_age, observation_monitor_armed,
                     observation_status_stale_latched, observation_fresh_inactive>>
lockVars == <<e_stop_active, e_stop_source, reply>>
mcuVars == <<mcu, mcu_age>>
outputVars == <<move_cmd, active_command_source, status>>
vars == <<commandVars, calibration_active, observationVars, lockVars, mcuVars,
          outputVars, timer_age>>

-----------------------------------------------------------------------------
Never == AgeCap

Older(age) == IF age < AgeCap THEN age + 1 ELSE AgeCap

\* Mutant: a command is obeyed long after its source fell silent.
IsRecentForever(age, timeout) == age < AgeCap

IsRecent(age, timeout) == age # Never /\ age <= timeout

NoCommand == [cmd |-> Stop, age |-> Never]

\* A default-constructed CarMcuStatus: have_mcu_status_ is "mcu_age # Never".
NoReport == [ultrasonic_ok |-> FALSE, obstacle_ok |-> FALSE, distance |-> 0]

Held == [cmd : Command, age : 0 .. AgeCap]

CommandSources ==
  {"init", "mcu_offline", "calibration_lock", "observation_lock", "e_stop",
   "observation_stale", "calibration_expired", "obstacle", "calibration",
   "observation_navigation", "observation_navigation_expired", "manual",
   "navigation", "idle"}

\* The source a CarStatus names while only the stale latch holds.
ObservationStale == "observation_collection_status_stale"

StatusType ==
  [e_stop_ok : BOOLEAN, e_stop_source : Sources \cup {NoSource, ObservationStale},
   mcu_ok : BOOLEAN, obstacle_ok : BOOLEAN, fault_bits : SUBSET {18, 19, 20},
   range : Int \cup {NoEcho}]

Init ==
  /\ manual = NoCommand /\ calibration = NoCommand /\ navigation = NoCommand
  /\ calibration_active = FALSE
  /\ observation_active = FALSE /\ observation_age = Never
  /\ observation_monitor_armed = FALSE
  /\ observation_status_stale_latched = FALSE
  /\ observation_fresh_inactive = FALSE
  /\ e_stop_active = FALSE /\ e_stop_source = NoSource
  /\ mcu = NoReport /\ mcu_age = Never
  /\ move_cmd = Stop /\ active_command_source = "init"
  /\ status = [e_stop_ok |-> FALSE, e_stop_source |-> NoSource, mcu_ok |-> FALSE,
               obstacle_ok |-> FALSE, fault_bits |-> {}, range |-> NoEcho]
  /\ reply \in [stop : {FALSE}, source : Sources, success : {FALSE}] \* nothing granted
  /\ timer_age = 0

-----------------------------------------------------------------------------
(* The topic handlers. *)

OnManualCmd(raw) ==
  /\ manual' = [cmd |-> ClampTwist(raw), age |-> 0]
  /\ UNCHANGED <<calibration, navigation, calibration_active, observationVars, lockVars,
                 mcuVars, outputVars, timer_age>>

OnCalibrationCmd(raw) ==
  /\ calibration' = [cmd |-> ClampTwist(raw), age |-> 0]
  /\ UNCHANGED <<manual, navigation, calibration_active, observationVars, lockVars,
                 mcuVars, outputVars, timer_age>>

OnNavCmd(raw) ==
  /\ navigation' = [cmd |-> ClampTwist(raw), age |-> 0]
  /\ UNCHANGED <<manual, calibration, calibration_active, observationVars, lockVars,
                 mcuVars, outputVars, timer_age>>

\* The end of a calibration forgets its command; a session cannot revive it.
OnCalibrationStatus(active) ==
  /\ calibration_active' = active
  /\ calibration' = IF active THEN calibration ELSE NoCommand
  /\ UNCHANGED <<manual, navigation, observationVars, lockVars, mcuVars, outputVars,
                 timer_age>>

\* Mutant: an active report after a latch leaves an earlier inactive one standing.
StatusKeepsConfirmation(active) ==
  /\ observation_active' = active
  /\ observation_age' = 0
  /\ observation_monitor_armed' = (observation_monitor_armed \/ active)
  /\ observation_fresh_inactive' =
       (observation_fresh_inactive \/ (~active /\ observation_status_stale_latched))
  /\ UNCHANGED <<observation_status_stale_latched, commandVars, calibration_active,
                 lockVars, mcuVars, outputVars, timer_age>>

OnObservationStatus(active) ==
  /\ observation_active' = active
  /\ observation_age' = 0
  /\ observation_monitor_armed' = (observation_monitor_armed \/ active)
  /\ observation_fresh_inactive' =
       (~active /\ (observation_status_stale_latched \/ observation_fresh_inactive))
  /\ UNCHANGED <<observation_status_stale_latched, commandVars, calibration_active,
                 lockVars, mcuVars, outputVars, timer_age>>

OnMcuStatus(report) ==
  /\ mcu' = report
  /\ mcu_age' = 0
  /\ UNCHANGED <<commandVars, calibration_active, observationVars, lockVars, outputVars,
                 timer_age>>

-----------------------------------------------------------------------------
(* The service /car/e_stop. *)

\* A named source that is not a program: what the code calls a real e-stop.
RealEStopActive == e_stop_active /\ e_stop_source \notin Programs \cup {NoSource}

\* Mutant: anybody may release a lock that is not a real e-stop.
RefusedWithoutOwner(stop, source) ==
  \/ /\ source \in Programs /\ RealEStopActive
  \/ /\ source \in Programs /\ e_stop_active
     /\ e_stop_source \notin {NoSource, source}
  \/ /\ ~stop /\ observation_status_stale_latched
     /\ ~observation_fresh_inactive

\* A program never touches a named lock that is not its own, and only the
\* holder releases; a latched observer must have been heard inactive.
Refused(stop, source) ==
  \/ /\ source \in Programs /\ RealEStopActive
  \/ /\ source \in Programs /\ e_stop_active
     /\ e_stop_source \notin {NoSource, source}
  \/ /\ ~stop /\ e_stop_active
     /\ e_stop_source # source
  \/ /\ ~stop /\ observation_status_stale_latched
     /\ ~observation_fresh_inactive

RefuseEStop(stop, source) ==
  /\ Refused(stop, source)
  /\ reply' = [stop |-> stop, source |-> source, success |-> FALSE]
  /\ UNCHANGED <<commandVars, calibration_active, observationVars, e_stop_active,
                 e_stop_source, mcuVars, outputVars, timer_age>>

\* Mutant: the lock is taken but the wheels wait for the next timer.
EngageWithoutStop(source) ==
  /\ ~Refused(TRUE, source)
  /\ e_stop_active' = TRUE
  /\ e_stop_source' = source
  /\ reply' = [stop |-> TRUE, source |-> source, success |-> TRUE]
  /\ UNCHANGED <<commandVars, calibration_active, observationVars, mcuVars, outputVars,
                 timer_age>>

EngageEStop(source) ==
  /\ ~Refused(TRUE, source)
  /\ e_stop_active' = TRUE
  /\ e_stop_source' = source
  /\ move_cmd' = Stop
  /\ reply' = [stop |-> TRUE, source |-> source, success |-> TRUE]
  /\ UNCHANGED <<commandVars, calibration_active, observationVars, mcuVars,
                 active_command_source, status, timer_age>>

\* Mutant: every release ends the watch on the observer.
ReleaseEndsWatch(source) ==
  /\ ~Refused(FALSE, source)
  /\ e_stop_active' = FALSE
  /\ e_stop_source' = NoSource
  /\ observation_status_stale_latched' = FALSE
  /\ observation_monitor_armed' = FALSE
  /\ observation_fresh_inactive' = FALSE
  /\ reply' = [stop |-> FALSE, source |-> source, success |-> TRUE]
  /\ UNCHANGED <<commandVars, calibration_active, observation_active, observation_age,
                 mcuVars, outputVars, timer_age>>

\* The release disarms the watch on the observer only when it clears the latch.
ReleaseEStop(source) ==
  /\ ~Refused(FALSE, source)
  /\ e_stop_active' = FALSE
  /\ e_stop_source' = NoSource
  /\ observation_status_stale_latched' = FALSE
  /\ observation_monitor_armed' =
       (observation_monitor_armed /\ ~observation_status_stale_latched)
  /\ observation_fresh_inactive' =
       (observation_fresh_inactive /\ ~observation_status_stale_latched)
  /\ reply' = [stop |-> FALSE, source |-> source, success |-> TRUE]
  /\ UNCHANGED <<commandVars, calibration_active, observation_active, observation_age,
                 mcuVars, outputVars, timer_age>>

-----------------------------------------------------------------------------
(* The wall timer: publish_move_command, publish_ultrasonic, publish_status. *)

McuOnline == IsRecent(mcu_age, McuTimeout)
ManualFresh == IsRecent(manual.age, ManualTimeout)
CalibrationFresh == IsRecent(calibration.age, CalibrationTimeout)
NavFresh == IsRecent(navigation.age, NavTimeout)

\* The value of observation_status_stale_latched_ after the check at the
\* head of publish_move_command.
StaleNow ==
  \/ observation_status_stale_latched
  \/ /\ observation_monitor_armed
     /\ ~IsRecent(observation_age, ObservationTimeout)

Input ==
  [calibration |-> calibration.cmd, manual |-> manual.cmd, navigation |-> navigation.cmd,
   calibration_active |-> calibration_active, calibration_fresh |-> CalibrationFresh,
   observation_active |-> observation_active, observation_status_stale |-> StaleNow,
   manual_fresh |-> ManualFresh, navigation_fresh |-> NavFresh,
   mcu_online |-> McuOnline, emergency_stop |-> e_stop_active \/ StaleNow,
   ultrasonic_valid |-> mcu.ultrasonic_ok, obstacle |-> mcu.obstacle_ok,
   obstacle_distance |-> mcu.distance]

\* The second if-chain of publish_move_command, which names the source.
NamedSource(selection) ==
  IF ~McuOnline THEN "mcu_offline"
  ELSE IF e_stop_active THEN
    CASE e_stop_source = "car_calibrate" -> "calibration_lock"
      [] e_stop_source = "car_observation_collect" -> "observation_lock"
      [] OTHER -> "e_stop"
  ELSE IF StaleNow THEN "observation_stale"
  ELSE IF calibration_active /\ ~CalibrationFresh THEN "calibration_expired"
  ELSE IF selection.blocked_by_obstacle THEN "obstacle"
  ELSE IF calibration_active THEN "calibration"
  ELSE IF observation_active THEN
    IF NavFresh THEN "observation_navigation" ELSE "observation_navigation_expired"
  ELSE IF ManualFresh THEN "manual"
  ELSE IF NavFresh THEN "navigation"
  ELSE "idle"

\* A zero command of an ordinary source is announced as idle.
CommandSource(selection) ==
  LET named == NamedSource(selection)
  IN  IF selection.command = Stop /\ named \in {"calibration", "manual", "navigation"}
      THEN "idle" ELSE named

\* publish_ultrasonic: the reading, or an infinite range.
PublishedRange ==
  IF /\ McuOnline /\ mcu.ultrasonic_ok
     /\ mcu.distance \in Int /\ RangeMin <= mcu.distance /\ mcu.distance <= RangeMax
  THEN mcu.distance ELSE NoEcho

StatusSource(stale) == IF stale /\ ~e_stop_active THEN ObservationStale ELSE e_stop_source

\* publish_status, given the latch and the obstacle block of this cycle.
StatusNow(stale, blocking) ==
  [e_stop_ok |-> e_stop_active \/ stale,
   e_stop_source |-> StatusSource(stale),
   mcu_ok |-> McuOnline,
   obstacle_ok |-> /\ McuOnline
                   /\ mcu.obstacle_ok \/ (mcu.ultrasonic_ok /\ DistanceBlocks(mcu.distance)),
   fault_bits |-> (IF (e_stop_active \/ stale) /\ StatusSource(stale) \notin Programs
                   THEN {18} ELSE {})
                  \cup (IF McuOnline THEN {} ELSE {19})
                  \cup (IF blocking THEN {20} ELSE {}),
   range |-> PublishedRange]

OnTimer ==
  LET selection == Select(Input)
  IN  /\ observation_status_stale_latched' = StaleNow
      /\ observation_fresh_inactive' =
           (observation_fresh_inactive /\ observation_status_stale_latched = StaleNow)
      /\ move_cmd' = selection.command
      /\ active_command_source' = CommandSource(selection)
      /\ status' = StatusNow(StaleNow, selection.blocked_by_obstacle)
      /\ timer_age' = 0
      /\ UNCHANGED <<commandVars, calibration_active, observation_active, observation_age,
                     observation_monitor_armed, lockVars, mcuVars>>

\* Time passes, but never past the moment the timer is due.
Tick ==
  /\ timer_age < TimerPeriod
  /\ timer_age' = timer_age + 1
  /\ manual' = [manual EXCEPT !.age = Older(@)]
  /\ calibration' = [calibration EXCEPT !.age = Older(@)]
  /\ navigation' = [navigation EXCEPT !.age = Older(@)]
  /\ observation_age' = Older(observation_age)
  /\ mcu_age' = Older(mcu_age)
  /\ UNCHANGED <<calibration_active, observation_active, observation_monitor_armed,
                 observation_status_stale_latched, observation_fresh_inactive, lockVars,
                 mcu, outputVars>>

Next ==
  \/ \E raw \in ManualTwists : OnManualCmd(raw)
  \/ \E raw \in CalibrationTwists : OnCalibrationCmd(raw)
  \/ \E raw \in NavTwists : OnNavCmd(raw)
  \/ \E active \in BOOLEAN : OnCalibrationStatus(active)
  \/ \E active \in BOOLEAN : OnObservationStatus(active)
  \/ \E report \in McuReports : OnMcuStatus(report)
  \/ \E stop \in BOOLEAN, source \in Sources : RefuseEStop(stop, source)
  \/ \E source \in Sources : EngageEStop(source)
  \/ \E source \in Sources : ReleaseEStop(source)
  \/ OnTimer
  \/ Tick

Spec == Init /\ [][Next]_vars

-----------------------------------------------------------------------------
(* Properties. *)

Moving == move_cmd # Stop
Locked == e_stop_active \/ observation_status_stale_latched

\* Every variable keeps the shape car_move gives it; in particular no command
\* held or published ever exceeds the speed limits, whatever arrived.
TypeOK ==
  /\ manual \in Held /\ calibration \in Held /\ navigation \in Held
  /\ calibration_active \in BOOLEAN
  /\ observation_active \in BOOLEAN /\ observation_age \in 0 .. AgeCap
  /\ observation_monitor_armed \in BOOLEAN
  /\ observation_status_stale_latched \in BOOLEAN
  /\ observation_fresh_inactive \in BOOLEAN
  /\ e_stop_active \in BOOLEAN /\ e_stop_source \in Sources \cup {NoSource}
  /\ mcu \in McuReports \cup {NoReport} /\ mcu_age \in 0 .. AgeCap
  /\ move_cmd \in Command /\ active_command_source \in CommandSources
  /\ status \in StatusType
  /\ reply \in [stop : BOOLEAN, source : Sources, success : BOOLEAN]
  /\ timer_age \in 0 .. TimerPeriod

\* From the instant an e-stop is accepted or the observer is declared lost
\* until the release, the last command on /cmd_vel_move is zero: no handler
\* or timer running in between, and no freshness of any source, undoes it.
LockedMeansStopped == Locked => ~Moving

\* Within its timeout plus one timer period of the last word of the ESP32, or
\* of the source that was being obeyed, the car is stopped again.  A
\* calibration that ended forgets its command and stops by the next cycle.
MotionIsRecent ==
  Moving =>
    /\ mcu_age <= McuTimeout + timer_age
    /\ \/ /\ active_command_source = "manual"
          /\ manual.age <= ManualTimeout + timer_age
       \/ /\ active_command_source \in {"navigation", "observation_navigation"}
          /\ navigation.age <= NavTimeout + timer_age
       \/ /\ active_command_source = "calibration"
          /\ \/ calibration.age <= CalibrationTimeout + timer_age
             \/ calibration = NoCommand

\* While the collector says it is active it is watched, and once it has been
\* silent for its timeout plus one period the car does not move, whichever
\* source commands: the watch cannot be lost by any sequence of releases.
ObservationIsWatched ==
  /\ observation_active => observation_monitor_armed
  /\ observation_monitor_armed /\ Moving
       => observation_age <= ObservationTimeout + timer_age

\* The latch can be given up only on the collector's last word: the flag that
\* permits it exists only under the latch and falls with an active report.
ConfirmationIsCurrent ==
  /\ observation_fresh_inactive
       => observation_status_stale_latched /\ ~observation_active
  /\ observation_status_stale_latched => observation_monitor_armed

\* CarStatus and /cmd_vel_move are computed from the obstacle by two separate
\* pieces of code, and they agree: no forward command is in force while the
\* status reports an obstacle, and bit 20 is only set with obstacle_ok.
ObstacleReportsAgree ==
  /\ status.obstacle_ok => move_cmd.linear <= 0
  /\ 20 \in status.fault_bits => status.obstacle_ok

CommandOf(source) ==
  CASE source = "manual" -> manual.cmd
    [] source = "calibration" -> calibration.cmd
    [] source \in {"navigation", "observation_navigation"} -> navigation.cmd
    [] OTHER -> Stop

\* The node names the driving source in an if-chain of its own, apart from the
\* arbitrator's: whenever a cycle moves the car, the named source is the one
\* whose command was published.
AnnouncedSourceDrives ==
  [][OnTimer => move_cmd' \in {Stop, CommandOf(active_command_source')}]_vars

\* "A real e-stop has been triggered; a program lock must not override or
\* release it" (the message of on_emergency_stop): while a stop accepted from
\* a source other than the two programs is in force, no request of a program
\* changes the lock.
RealEStopKeepsLock ==
  [][(/\ e_stop_active /\ e_stop_source \notin Programs
      /\ reply' # reply /\ reply'.source \in Programs)
       => UNCHANGED <<e_stop_active, e_stop_source>>]_vars

\* The node implements the interlock: who may take, replace and release the
\* lock, when the latch may open, and that nothing moves while either holds.
Interlock ==
  INSTANCE MotionInterlock WITH
    holders <- IF e_stop_active THEN {e_stop_source} ELSE {},
    latch <- observation_status_stale_latched,
    confirmed <- observation_fresh_inactive,
    moving <- Moving,
    answer <- reply

ImplementsInterlock == Interlock!Spec
=============================================================================
