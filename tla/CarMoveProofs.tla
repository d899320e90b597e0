----------------------------- MODULE CarMoveProofs -----------------------------
(***************************************************************************)
(* Proofs about CarMove, for every speed limit, timeout, set of sources and *)
(* timer period the assumptions allow.                                      *)
(***************************************************************************)
EXTENDS CarMove, TLAPS

-----------------------------------------------------------------------------
(* The arbitrator's arithmetic. *)

\* A clamped speed lies within the limit.
LEMMA ClampInRange ==
  ASSUME NEW v \in Int, NEW bound \in Nat
  PROVE  Clamp(v, bound) \in -bound .. bound
BY DEF Clamp

\* A limited turn lies within the angular limit and keeps its direction.
LEMMA LimitInRange ==
  ASSUME NEW linear \in Int, NEW angular \in Int
  PROVE  LimitAngularSpeed(linear, angular) \in -MaxAngular .. MaxAngular
<1>1. Clamp(angular, MaxAngular) \in -MaxAngular .. MaxAngular
  BY ClampInRange, LimitsAssumption
<1>2. MinAngular \in 1 .. MaxAngular /\ MaxAngular \in Nat
  BY LimitsAssumption
<1>3. QED
  BY <1>1, <1>2 DEF LimitAngularSpeed

\* Whatever arrives on a command topic, finite or not, what is kept of it is
\* a command within the limits.
LEMMA ClampTwistIsCommand ==
  ASSUME NEW raw
  PROVE  ClampTwist(raw) \in Command
<1> DEFINE linear == Clamp(FiniteOrZero(raw.linear), MaxLinear)
           angular == FiniteOrZero(raw.angular)
<1>1. FiniteOrZero(raw.linear) \in Int /\ angular \in Int
  BY DEF FiniteOrZero
<1>2. linear \in -MaxLinear .. MaxLinear
  BY <1>1, ClampInRange, LimitsAssumption
<1>3. LimitAngularSpeed(linear, angular) \in -MaxAngular .. MaxAngular
  <2>1. linear \in Int
    BY <1>2, LimitsAssumption
  <2>2. QED
    BY <1>1, <2>1, LimitInRange
<1>4. ClampTwist(raw) = [linear |-> linear, angular |-> LimitAngularSpeed(linear, angular)]
  BY DEF ClampTwist
<1>5. QED
  BY <1>2, <1>3, <1>4 DEF Command

\* Stopping is a command.
LEMMA StopIsCommand == Stop \in Command
BY LimitsAssumption DEF Stop, Command

\* The arbitrator publishes one of the three held commands or a stop.
LEMMA SelectIsHeld ==
  Select(Input).command \in {Stop, manual.cmd, calibration.cmd, navigation.cmd}
BY DEF Select, Chosen, Input

\* When it publishes a motion, nothing is locked, the ESP32 is fresh, the
\* command is one whose source is fresh, and no obstacle is ahead of it.
LEMMA SelectMotion ==
  ASSUME Select(Input).command # Stop
  PROVE  /\ McuOnline /\ ~e_stop_active /\ ~StaleNow
         /\ ~Select(Input).blocked_by_obstacle
         /\ \/ /\ calibration_active /\ CalibrationFresh
               /\ Select(Input).command = calibration.cmd
            \/ /\ ~calibration_active /\ NavFresh
               /\ observation_active \/ ~ManualFresh
               /\ Select(Input).command = navigation.cmd
            \/ /\ ~calibration_active /\ ~observation_active /\ ManualFresh
               /\ Select(Input).command = manual.cmd
BY ZenonT(60) DEF Select, Chosen, Input

\* A locked or stale cycle publishes a stop.
COROLLARY LockedSelectsStop ==
  ASSUME e_stop_active \/ StaleNow
  PROVE  Select(Input).command = Stop
BY SelectMotion

-----------------------------------------------------------------------------
(* Type correctness. *)

\* An age stays within its cap as time passes.
LEMMA OlderInRange ==
  ASSUME NEW age \in 0 .. AgeCap
  PROVE  Older(age) \in 0 .. AgeCap /\ Older(age) <= age + 1
BY CarMoveAssumption DEF Older

\* Naming the source never leaves the set of source names.
LEMMA CommandSourceType ==
  ASSUME NEW selection
  PROVE  CommandSource(selection) \in CommandSources
<1>1. NamedSource(selection) \in CommandSources
  BY DEF NamedSource, CommandSources
<1>2. "idle" \in CommandSources
  BY DEF CommandSources
<1>3. QED
  BY <1>1, <1>2 DEF CommandSource

\* A published status has the shape of a CarStatus.
LEMMA StatusNowType ==
  ASSUME TypeOK, NEW blocking \in BOOLEAN
  PROVE  StatusNow(StaleNow, blocking) \in StatusType
<1>1. StaleNow \in BOOLEAN /\ e_stop_active \in BOOLEAN
  BY DEF StaleNow, TypeOK
<1>2. mcu.obstacle_ok \in BOOLEAN /\ mcu.ultrasonic_ok \in BOOLEAN
  <2>1. CASE mcu \in McuReports
    BY <2>1, CarMoveAssumption, Zenon
  <2>2. CASE mcu = NoReport
    BY <2>2 DEF NoReport
  <2>3. QED
    BY <2>1, <2>2 DEF TypeOK
<1>3. StatusSource(StaleNow) \in Sources \cup {NoSource, ObservationStale}
  BY DEF StatusSource, TypeOK
<1>4. PublishedRange \in Int \cup {NoEcho}
  BY DEF PublishedRange
<1>5. McuOnline \in BOOLEAN
  BY DEF McuOnline, IsRecent
<1>6. QED
  BY <1>1, <1>2, <1>3, <1>4, <1>5 DEF StatusNow, StatusType

\* Every variable keeps its type: in particular each command held or published
\* is within the speed limits.
THEOREM TypeCorrect == Spec => []TypeOK
<1>1. Init => TypeOK
  <2> SUFFICES ASSUME Init PROVE TypeOK
    OBVIOUS
  <2>1. NoCommand \in Held
    BY StopIsCommand, CarMoveAssumption DEF NoCommand, Held, Never
  <2>2. status \in StatusType
    BY DEF Init, StatusType
  <2>3. reply \in [stop : BOOLEAN, source : Sources, success : BOOLEAN]
    BY DEF Init
  <2>4. Never \in 0 .. AgeCap /\ 0 \in 0 .. TimerPeriod
    BY CarMoveAssumption DEF Never
  <2>5. QED
    BY <2>1, <2>2, <2>3, <2>4, StopIsCommand DEF Init, TypeOK, CommandSources
<1>2. TypeOK /\ [Next]_vars => TypeOK'
  <2> SUFFICES ASSUME TypeOK, [Next]_vars PROVE TypeOK'
    OBVIOUS
  <2> USE DEF TypeOK, commandVars, observationVars, lockVars, mcuVars, outputVars
  <2>0. \A raw : [cmd |-> ClampTwist(raw), age |-> 0] \in Held
    BY ClampTwistIsCommand, CarMoveAssumption DEF Held
  <2>1. ASSUME NEW raw \in ManualTwists, OnManualCmd(raw) PROVE TypeOK'
    BY <2>0, <2>1 DEF OnManualCmd
  <2>2. ASSUME NEW raw \in CalibrationTwists, OnCalibrationCmd(raw) PROVE TypeOK'
    BY <2>0, <2>2 DEF OnCalibrationCmd
  <2>3. ASSUME NEW raw \in NavTwists, OnNavCmd(raw) PROVE TypeOK'
    BY <2>0, <2>3 DEF OnNavCmd
  <2>4. ASSUME NEW active \in BOOLEAN, OnCalibrationStatus(active) PROVE TypeOK'
    <3>1. NoCommand \in Held
      BY StopIsCommand, CarMoveAssumption DEF NoCommand, Held, Never
    <3>2. QED
      BY <3>1, <2>4 DEF OnCalibrationStatus
  <2>5. ASSUME NEW active \in BOOLEAN, OnObservationStatus(active) PROVE TypeOK'
    BY <2>5, CarMoveAssumption DEF OnObservationStatus
  <2>6. ASSUME NEW report \in McuReports, OnMcuStatus(report) PROVE TypeOK'
    BY <2>6, CarMoveAssumption DEF OnMcuStatus
  <2>7. ASSUME NEW stop \in BOOLEAN, NEW source \in Sources, RefuseEStop(stop, source)
        PROVE  TypeOK'
    BY <2>7 DEF RefuseEStop
  <2>8. ASSUME NEW source \in Sources, EngageEStop(source) PROVE TypeOK'
    BY <2>8, StopIsCommand DEF EngageEStop
  <2>9. ASSUME NEW source \in Sources, ReleaseEStop(source) PROVE TypeOK'
    BY <2>9 DEF ReleaseEStop
  <2>10. CASE OnTimer
    <3>1. Select(Input).command \in Command
      BY SelectIsHeld, StopIsCommand DEF Held
    <3>2. Select(Input).blocked_by_obstacle \in BOOLEAN
      BY DEF Select
    <3>3. status' \in StatusType
      BY <2>10, <3>2, StatusNowType DEF OnTimer
    <3>4. StaleNow \in BOOLEAN
      BY DEF StaleNow
    <3>5. active_command_source' \in CommandSources
      BY <2>10, CommandSourceType DEF OnTimer
    <3>6. observation_fresh_inactive' \in BOOLEAN
      BY <2>10 DEF OnTimer
    <3>7. QED
      BY <2>10, <3>1, <3>3, <3>4, <3>5, <3>6, CarMoveAssumption DEF OnTimer
  <2>11. CASE Tick
    <3>1. \A h \in Held : [h EXCEPT !.age = Older(@)] \in Held
      BY OlderInRange DEF Held
    <3>2. manual' \in Held /\ calibration' \in Held /\ navigation' \in Held
      BY <2>11, <3>1 DEF Tick
    <3>3. observation_age' \in 0 .. AgeCap /\ mcu_age' \in 0 .. AgeCap
      BY <2>11, OlderInRange DEF Tick
    <3>4. timer_age' \in 0 .. TimerPeriod
      BY <2>11, CarMoveAssumption DEF Tick
    <3>5. QED
      BY <2>11, <3>2, <3>3, <3>4 DEF Tick
  <2>12. CASE UNCHANGED vars
    BY <2>12 DEF vars
  <2>13. QED
    BY <2>1, <2>2, <2>3, <2>4, <2>5, <2>6, <2>7, <2>8, <2>9, <2>10, <2>11, <2>12 DEF Next
<1>3. QED
  BY <1>1, <1>2, PTL DEF Spec

-----------------------------------------------------------------------------
(* The safety invariant. *)

\* The if-chain that names the source agrees with the arbitrator: a published
\* motion is the fresh command of the source it names.
LEMMA NamedSourceOfMotion ==
  ASSUME Select(Input).command # Stop
  PROVE  \/ /\ CommandSource(Select(Input)) = "calibration" /\ CalibrationFresh
            /\ Select(Input).command = calibration.cmd
         \/ /\ CommandSource(Select(Input)) \in {"navigation", "observation_navigation"}
            /\ NavFresh /\ Select(Input).command = navigation.cmd
         \/ /\ CommandSource(Select(Input)) = "manual" /\ ManualFresh
            /\ Select(Input).command = manual.cmd
<1> DEFINE sel == Select(Input)
<1> HIDE DEF sel
<1>1. /\ McuOnline /\ ~e_stop_active /\ ~StaleNow /\ ~sel.blocked_by_obstacle
      /\ sel.command # Stop
      /\ \/ calibration_active /\ CalibrationFresh /\ sel.command = calibration.cmd
         \/ /\ ~calibration_active /\ NavFresh /\ (observation_active \/ ~ManualFresh)
            /\ sel.command = navigation.cmd
         \/ /\ ~calibration_active /\ ~observation_active /\ ManualFresh
            /\ sel.command = manual.cmd
  BY SelectMotion DEF sel
<1>2. CASE calibration_active /\ CalibrationFresh /\ sel.command = calibration.cmd
  BY <1>1, <1>2 DEF CommandSource, NamedSource, sel
<1>3. CASE /\ ~calibration_active /\ NavFresh /\ (observation_active \/ ~ManualFresh)
           /\ sel.command = navigation.cmd
  BY <1>1, <1>3 DEF CommandSource, NamedSource, sel
<1>4. CASE /\ ~calibration_active /\ ~observation_active /\ ManualFresh
           /\ sel.command = manual.cmd
  BY <1>1, <1>4 DEF CommandSource, NamedSource, sel
<1>5. QED
  BY <1>1, <1>2, <1>3, <1>4

\* The invariant: each part needs the others or the types to be inductive.
SafetyInv ==
  /\ TypeOK
  /\ LockedMeansStopped
  /\ MotionIsRecent
  /\ ObservationIsWatched
  /\ ConfirmationIsCurrent

\* From the initial state the invariant holds: nothing moves.
LEMMA InitSafety == Init /\ TypeOK => SafetyInv
BY DEF Init, SafetyInv, LockedMeansStopped, MotionIsRecent, ObservationIsWatched,
       ConfirmationIsCurrent, Moving, Locked

\* A control cycle re-establishes the invariant from the freshness it tests.
LEMMA TimerSafety ==
  ASSUME SafetyInv, TypeOK', OnTimer
  PROVE  SafetyInv'
<1> DEFINE sel == Select(Input)
<1>0. /\ ManualTimeout \in Nat /\ CalibrationTimeout \in Nat /\ NavTimeout \in Nat
      /\ ObservationTimeout \in Nat /\ McuTimeout \in Nat
  BY CarMoveAssumption
<1>1. timer_age' = 0 /\ move_cmd' = sel.command
  BY DEF OnTimer
<1>2. LockedMeansStopped'
  BY LockedSelectsStop DEF OnTimer, LockedMeansStopped, Locked, Moving, lockVars
<1>3. MotionIsRecent'
  <2> SUFFICES ASSUME Moving' PROVE MotionIsRecent'
    BY DEF MotionIsRecent
  <2>1. sel.command # Stop
    BY <1>1 DEF Moving
  <2>2. mcu_age' <= McuTimeout + timer_age'
    BY <1>0, <1>1, <2>1, SelectMotion
      DEF SafetyInv, TypeOK, OnTimer, McuOnline, IsRecent, mcuVars
  <2>3. /\ active_command_source' = CommandSource(sel)
        /\ manual' = manual /\ calibration' = calibration /\ navigation' = navigation
    BY DEF OnTimer, commandVars
  <2>4. manual.age \in Nat /\ calibration.age \in Nat /\ navigation.age \in Nat
    BY CarMoveAssumption DEF SafetyInv, TypeOK, Held
  <2>5. QED
    BY <1>0, <1>1, <2>1, <2>2, <2>3, <2>4, NamedSourceOfMotion
      DEF MotionIsRecent, ManualFresh, CalibrationFresh, NavFresh, IsRecent
<1>4. ObservationIsWatched'
  <2>1. observation_active' => observation_monitor_armed'
    BY DEF SafetyInv, ObservationIsWatched, OnTimer
  <2>2. observation_monitor_armed' /\ Moving'
          => observation_age' <= ObservationTimeout + timer_age'
    BY <1>0, <1>1, SelectMotion
      DEF SafetyInv, TypeOK, OnTimer, StaleNow, IsRecent, Moving
  <2>3. QED
    BY <2>1, <2>2 DEF ObservationIsWatched
<1>5. ConfirmationIsCurrent'
  BY DEF SafetyInv, TypeOK, ConfirmationIsCurrent, OnTimer, StaleNow
<1>6. QED
  BY <1>2, <1>3, <1>4, <1>5 DEF SafetyInv

\* Time passing keeps every age within its bound, because the timer's own age
\* grows with them.
LEMMA TickSafety ==
  ASSUME SafetyInv, TypeOK', Tick
  PROVE  SafetyInv'
<1>0. /\ ManualTimeout \in Nat /\ CalibrationTimeout \in Nat /\ NavTimeout \in Nat
      /\ ObservationTimeout \in Nat /\ McuTimeout \in Nat /\ timer_age \in Nat
  BY CarMoveAssumption DEF SafetyInv, TypeOK
<1>1. timer_age' = timer_age + 1
  BY DEF Tick
<1>2. UNCHANGED <<move_cmd, active_command_source, observation_active, e_stop_active,
                  observation_monitor_armed, observation_status_stale_latched,
                  observation_fresh_inactive>>
  BY DEF Tick, outputVars, lockVars
<1>3. /\ \A age \in 0 .. AgeCap : Older(age) \in Int /\ Older(age) <= age + 1
      /\ AgeCap \in Nat
  BY OlderInRange, CarMoveAssumption
<1>4. MotionIsRecent'
  <2> SUFFICES ASSUME Moving' PROVE MotionIsRecent'
    BY DEF MotionIsRecent
  <2>1. Moving
    BY <1>2 DEF Moving
  <2>2. mcu_age' <= McuTimeout + timer_age'
    BY <1>0, <1>1, <1>3, <2>1 DEF SafetyInv, MotionIsRecent, TypeOK, Tick
  <2>3. CASE active_command_source = "manual" /\ manual.age <= ManualTimeout + timer_age
    <3>1. manual.age \in 0 .. AgeCap /\ manual'.age = Older(manual.age)
      BY DEF SafetyInv, TypeOK, Held, Tick
    <3>2. QED
      BY <1>0, <1>1, <1>2, <1>3, <2>2, <2>3, <3>1 DEF MotionIsRecent
  <2>4. CASE /\ active_command_source \in {"navigation", "observation_navigation"}
             /\ navigation.age <= NavTimeout + timer_age
    <3>1. navigation.age \in 0 .. AgeCap /\ navigation'.age = Older(navigation.age)
      BY DEF SafetyInv, TypeOK, Held, Tick
    <3>2. QED
      BY <1>0, <1>1, <1>2, <1>3, <2>2, <2>4, <3>1 DEF MotionIsRecent
  <2>5. CASE /\ active_command_source = "calibration"
             /\ calibration.age <= CalibrationTimeout + timer_age
    <3>1. calibration.age \in 0 .. AgeCap /\ calibration'.age = Older(calibration.age)
      BY DEF SafetyInv, TypeOK, Held, Tick
    <3>2. QED
      BY <1>0, <1>1, <1>2, <1>3, <2>2, <2>5, <3>1 DEF MotionIsRecent
  <2>6. CASE active_command_source = "calibration" /\ calibration = NoCommand
    <3>1. calibration' = NoCommand
      BY <2>6, CarMoveAssumption DEF Tick, NoCommand, Older, Never
    <3>2. QED
      BY <1>2, <2>2, <2>6, <3>1 DEF MotionIsRecent
  <2>7. QED
    BY <2>1, <2>3, <2>4, <2>5, <2>6 DEF SafetyInv, MotionIsRecent
<1>5. ObservationIsWatched'
  BY <1>0, <1>1, <1>2, <1>3 DEF SafetyInv, ObservationIsWatched, TypeOK, Tick, Moving
<1>6. QED
  BY <1>2, <1>4, <1>5 DEF SafetyInv, LockedMeansStopped, Locked, Moving, ConfirmationIsCurrent

\* The handlers of topics and of the e-stop service keep the invariant.
LEMMA HandlerSafety ==
  ASSUME SafetyInv, TypeOK', [Next]_vars, ~OnTimer, ~Tick
  PROVE  SafetyInv'
<1> USE DEF SafetyInv, LockedMeansStopped, MotionIsRecent, ObservationIsWatched,
            ConfirmationIsCurrent, Locked, Moving, commandVars, observationVars,
            lockVars, mcuVars, outputVars
<1>0. /\ ManualTimeout \in Nat /\ CalibrationTimeout \in Nat /\ NavTimeout \in Nat
      /\ ObservationTimeout \in Nat /\ McuTimeout \in Nat /\ timer_age \in Nat
  BY CarMoveAssumption DEF TypeOK
<1>1. ASSUME NEW raw \in ManualTwists, OnManualCmd(raw) PROVE SafetyInv'
  BY <1>0, <1>1 DEF OnManualCmd
<1>2. ASSUME NEW raw \in CalibrationTwists, OnCalibrationCmd(raw) PROVE SafetyInv'
  BY <1>0, <1>2 DEF OnCalibrationCmd
<1>3. ASSUME NEW raw \in NavTwists, OnNavCmd(raw) PROVE SafetyInv'
  BY <1>0, <1>3 DEF OnNavCmd
<1>4. ASSUME NEW active \in BOOLEAN, OnCalibrationStatus(active) PROVE SafetyInv'
  BY <1>0, <1>4 DEF OnCalibrationStatus
<1>5. ASSUME NEW active \in BOOLEAN, OnObservationStatus(active) PROVE SafetyInv'
  BY <1>0, <1>5 DEF OnObservationStatus, TypeOK
<1>6. ASSUME NEW report \in McuReports, OnMcuStatus(report) PROVE SafetyInv'
  BY <1>0, <1>6 DEF OnMcuStatus
<1>7. ASSUME NEW stop \in BOOLEAN, NEW source \in Sources, RefuseEStop(stop, source)
      PROVE  SafetyInv'
  BY <1>7 DEF RefuseEStop
<1>8. ASSUME NEW source \in Sources, EngageEStop(source) PROVE SafetyInv'
  BY <1>8 DEF EngageEStop
<1>9. ASSUME NEW source \in Sources, ReleaseEStop(source) PROVE SafetyInv'
  BY <1>9 DEF ReleaseEStop, Refused
<1>10. CASE UNCHANGED vars
  BY <1>10 DEF vars
<1>11. QED
  BY <1>1, <1>2, <1>3, <1>4, <1>5, <1>6, <1>7, <1>8, <1>9, <1>10 DEF Next

\* Nothing moves under a lock or a latch, motion never outlives its sources by
\* more than a timer period, and the collector is watched while it is active,
\* for every timeout, period and set of sources.
THEOREM SafetyInvariant == Spec => []SafetyInv
<1>1. Init /\ TypeOK => SafetyInv
  BY InitSafety
<1>2. SafetyInv /\ TypeOK' /\ [Next]_vars => SafetyInv'
  BY TimerSafety, TickSafety, HandlerSafety
<1>3. QED
  BY <1>1, <1>2, TypeCorrect, PTL DEF Spec

\* An accepted e-stop or a lost observer keeps the published command at zero.
THEOREM LockStops == Spec => []LockedMeansStopped
<1>1. SafetyInv => LockedMeansStopped
  BY DEF SafetyInv
<1>2. QED
  BY <1>1, SafetyInvariant, PTL

\* The car moves only on recent words of the ESP32 and of the source obeyed.
THEOREM MotionExpires == Spec => []MotionIsRecent
<1>1. SafetyInv => MotionIsRecent
  BY DEF SafetyInv
<1>2. QED
  BY <1>1, SafetyInvariant, PTL

\* An active collector is watched, and its silence stops the car.
THEOREM CollectorWatched == Spec => []ObservationIsWatched
<1>1. SafetyInv => ObservationIsWatched
  BY DEF SafetyInv
<1>2. QED
  BY <1>1, SafetyInvariant, PTL

\* The latch opens only on the collector's current word that it is inactive.
THEOREM ConfirmationHolds == Spec => []ConfirmationIsCurrent
<1>1. SafetyInv => ConfirmationIsCurrent
  BY DEF SafetyInv
<1>2. QED
  BY <1>1, SafetyInvariant, PTL

-----------------------------------------------------------------------------
(* What is published together agrees. *)

\* A published motion is the command of the source the node names for it.
THEOREM NamedSourceDrives == Spec => AnnouncedSourceDrives
<1>1. OnTimer => move_cmd' \in {Stop, CommandOf(active_command_source')}
  <2> SUFFICES ASSUME OnTimer, Select(Input).command # Stop
               PROVE  move_cmd' = CommandOf(active_command_source')
    BY DEF OnTimer
  <2>1. /\ move_cmd' = Select(Input).command
        /\ active_command_source' = CommandSource(Select(Input))
    BY DEF OnTimer
  <2>2. QED
    BY <2>1, NamedSourceOfMotion DEF CommandOf
<1>2. QED
  BY <1>1, PTL DEF AnnouncedSourceDrives

\* A cycle never publishes a forward command with a status that reports an
\* obstacle, nor bit 20 without it.
LEMMA CycleAgrees ==
  ASSUME TypeOK
  PROVE  LET sel == Select(Input)
             now == StatusNow(StaleNow, sel.blocked_by_obstacle)
         IN  /\ now.obstacle_ok => sel.command.linear <= 0
             /\ 20 \in now.fault_bits => now.obstacle_ok
<1>1. /\ mcu.obstacle_ok = Input.obstacle /\ mcu.ultrasonic_ok = Input.ultrasonic_valid
      /\ mcu.distance = Input.obstacle_distance /\ McuOnline = Input.mcu_online
  BY DEF Input
<1>2. Stop.linear = 0
  BY DEF Stop
<1>3. Chosen(Input).linear \in Int
  <2>1. Chosen(Input) \in {Stop, manual.cmd, calibration.cmd, navigation.cmd}
    BY DEF Chosen, Input
  <2>2. \A c \in Command : c.linear \in Int
    BY LimitsAssumption DEF Command
  <2>3. QED
    BY <2>1, <2>2, StopIsCommand DEF TypeOK, Held
<1>4. Chosen(Input).linear > 0 => McuOnline
  BY <1>1, <1>2 DEF Chosen
<1>5. LET now == StatusNow(StaleNow, Select(Input).blocked_by_obstacle)
      IN  /\ now.obstacle_ok <=> McuOnline /\ ObstacleDetected(Input)
          /\ 20 \in now.fault_bits <=> Select(Input).blocked_by_obstacle
  BY <1>1 DEF StatusNow, ObstacleDetected
<1>6. CASE Chosen(Input).linear > 0 /\ ObstacleDetected(Input)
  <2>1. Select(Input).command = Stop
    BY <1>6 DEF Select
  <2>2. McuOnline /\ ObstacleDetected(Input)
    BY <1>4, <1>6
  <2>3. QED
    BY <1>2, <1>5, <2>1, <2>2
<1>7. CASE ~(Chosen(Input).linear > 0 /\ ObstacleDetected(Input))
  <2>1. Select(Input).command = Chosen(Input) /\ ~Select(Input).blocked_by_obstacle
    BY <1>7 DEF Select
  <2>2. ObstacleDetected(Input) => Chosen(Input).linear <= 0
    BY <1>3, <1>7
  <2>3. QED
    BY <1>5, <2>1, <2>2
<1>8. QED
  BY <1>6, <1>7

\* The status and the command in force agree about the obstacle.
THEOREM ObstacleConsistent == Spec => []ObstacleReportsAgree
<1>1. Init => ObstacleReportsAgree
  BY DEF Init, ObstacleReportsAgree, Stop
<1>2. TypeOK /\ ObstacleReportsAgree /\ [Next]_vars => ObstacleReportsAgree'
  <2> SUFFICES ASSUME TypeOK, ObstacleReportsAgree, [Next]_vars PROVE ObstacleReportsAgree'
    OBVIOUS
  <2>1. CASE OnTimer
    BY <2>1, CycleAgrees DEF OnTimer, ObstacleReportsAgree
  <2>2. ASSUME NEW source \in Sources, EngageEStop(source) PROVE ObstacleReportsAgree'
    BY <2>2 DEF EngageEStop, ObstacleReportsAgree, Stop
  <2>3. CASE UNCHANGED <<move_cmd, status>>
    BY <2>3 DEF ObstacleReportsAgree
  <2>4. QED
    BY <2>1, <2>2, <2>3 DEF Next, vars, outputVars, OnManualCmd, OnCalibrationCmd, OnNavCmd,
       OnCalibrationStatus, OnObservationStatus, OnMcuStatus, RefuseEStop, ReleaseEStop, Tick
<1>3. QED
  BY <1>1, <1>2, TypeCorrect, PTL DEF Spec

-----------------------------------------------------------------------------
(* The interlock. *)

\* A held lock has a source among those that may send a request, and without
\* a lock no source is kept.
OwnerInv == e_stop_active => e_stop_source \in Sources

\* The owner is always one of the sources.
THEOREM OwnerIsSource == Spec => []OwnerInv
<1>1. Init => OwnerInv
  BY DEF Init, OwnerInv
<1>2. OwnerInv /\ [Next]_vars => OwnerInv'
  BY DEF OwnerInv, Next, vars, lockVars, OnManualCmd, OnCalibrationCmd, OnNavCmd,
     OnCalibrationStatus, OnObservationStatus, OnMcuStatus, RefuseEStop, EngageEStop,
     ReleaseEStop, OnTimer, Tick
<1>3. QED
  BY <1>1, <1>2, PTL DEF Spec

\* As long as every request names its source, no program overrides or releases
\* a stop that a real source has triggered.
THEOREM RealEStopHolds ==
  ASSUME NoSource \notin Sources
  PROVE  Spec => RealEStopKeepsLock
<1>1. ASSUME OwnerInv, [Next]_vars, e_stop_active, e_stop_source \notin Programs,
             reply' # reply, reply'.source \in Programs
      PROVE  UNCHANGED <<e_stop_active, e_stop_source>>
  <2>1. RealEStopActive
    BY <1>1 DEF RealEStopActive, OwnerInv
  <2>2. \A stop \in BOOLEAN, source \in Sources : source \in Programs => Refused(stop, source)
    BY <2>1 DEF Refused
  <2>3. ASSUME NEW stop \in BOOLEAN, NEW source \in Sources, RefuseEStop(stop, source)
        PROVE  UNCHANGED <<e_stop_active, e_stop_source>>
    BY <2>3 DEF RefuseEStop
  <2>4. ASSUME NEW source \in Sources, EngageEStop(source) PROVE FALSE
    BY <1>1, <2>2, <2>4 DEF EngageEStop
  <2>5. ASSUME NEW source \in Sources, ReleaseEStop(source) PROVE FALSE
    BY <1>1, <2>2, <2>5 DEF ReleaseEStop
  <2>6. CASE UNCHANGED lockVars
    BY <2>6 DEF lockVars
  <2>7. QED
    BY <1>1, <2>3, <2>4, <2>5, <2>6 DEF Next, vars, OnManualCmd, OnCalibrationCmd, OnNavCmd,
       OnCalibrationStatus, OnObservationStatus, OnMcuStatus, OnTimer, Tick
<1>2. QED
  BY <1>1, OwnerIsSource, PTL DEF Spec, RealEStopKeepsLock

\* The initial states are states the interlock may start in.
LEMMA InterlockInit == Init => Interlock!Init
BY DEF Init, Interlock!Init, Moving

\* Every step of the node is a step of the interlock, or leaves it alone.
LEMMA InterlockStep ==
  ASSUME SafetyInv, OwnerInv, [Next]_vars
  PROVE  [Interlock!Next]_(Interlock!vars)
<1> USE DEF Interlock!vars, Moving, lockVars, outputVars, observationVars
<1>1. ASSUME NEW stop \in BOOLEAN, NEW source \in Sources, RefuseEStop(stop, source)
      PROVE  Interlock!Refuse(source)
  BY <1>1 DEF RefuseEStop, Interlock!Refuse
<1>2. ASSUME NEW source \in Sources, EngageEStop(source)
      PROVE  Interlock!Engage(source)
  BY <1>2 DEF EngageEStop, Interlock!Engage, Refused, RealEStopActive
<1>3. ASSUME NEW source \in Sources, ReleaseEStop(source)
      PROVE  Interlock!Release(source)
  <2>1. observation_fresh_inactive => observation_status_stale_latched
    BY DEF SafetyInv, ConfirmationIsCurrent
  <2>2. QED
    BY <1>3, <2>1 DEF ReleaseEStop, Interlock!Release, Refused
<1>4. ASSUME NEW active \in BOOLEAN, OnObservationStatus(active)
      PROVE  Interlock!Report
  <2>1. observation_fresh_inactive => observation_status_stale_latched
    BY DEF SafetyInv, ConfirmationIsCurrent
  <2>2. QED
    BY <1>4, <2>1 DEF OnObservationStatus, Interlock!Report, SafetyInv, TypeOK
<1>5. CASE OnTimer
  <2>1. e_stop_active \/ StaleNow => ~Moving'
    BY <1>5, LockedSelectsStop DEF OnTimer
  <2>2. CASE StaleNow = observation_status_stale_latched
    BY <1>5, <2>1, <2>2 DEF OnTimer, Interlock!Cycle, Interlock!Locked, Interlock!Next,
       SafetyInv, TypeOK
  <2>3. CASE StaleNow # observation_status_stale_latched
    BY <1>5, <2>1, <2>3 DEF OnTimer, StaleNow, Interlock!Trip, Interlock!Next,
       SafetyInv, TypeOK
  <2>4. QED
    BY <2>2, <2>3
<1>6. CASE UNCHANGED <<observation_status_stale_latched, observation_fresh_inactive,
                       e_stop_active, e_stop_source, reply, move_cmd>>
  BY <1>6
<1>7. QED
  BY <1>1, <1>2, <1>3, <1>4, <1>5, <1>6 DEF Interlock!Next, Next, vars, OnManualCmd,
     OnCalibrationCmd, OnNavCmd, OnCalibrationStatus, OnMcuStatus, Tick

\* The node implements the interlock.
THEOREM Implements == Spec => ImplementsInterlock
<1>1. SafetyInv /\ OwnerInv /\ [Next]_vars => [Interlock!Next]_(Interlock!vars)
  BY InterlockStep
<1>2. QED
  BY <1>1, InterlockInit, SafetyInvariant, OwnerIsSource, PTL
     DEF Spec, ImplementsInterlock, Interlock!Spec

=============================================================================
