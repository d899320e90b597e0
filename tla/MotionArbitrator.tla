---------------------------- MODULE MotionArbitrator ----------------------------
(***************************************************************************)
(* The arithmetic of car_move: limiting one velocity command and choosing   *)
(* the command that drives the wheels.                                      *)
(*                                                                         *)
(* Speeds are integers in thousandths (mm/s, mrad/s), so the code's 0.001   *)
(* "requests motion" threshold is "not zero".  A value outside Int stands   *)
(* for a NaN or an infinity.                                                *)
(***************************************************************************)
EXTENDS Integers

CONSTANTS
  MaxLinear,     \* max_linear_speed
  MinAngular,    \* min_angular_speed, the slowest in-place turn
  MaxAngular,    \* max_angular_speed
  InPlaceLinear, \* in_place_linear_threshold_mps
  StopDistance   \* obstacle_stop_distance_m

\* What load_parameters leaves in the parameters, whatever the launch file says.
ASSUME LimitsAssumption ==
  /\ MaxLinear \in Nat \ {0}
  /\ MaxAngular \in Nat \ {0}
  /\ MinAngular \in 1 .. MaxAngular
  /\ InPlaceLinear \in Nat
  /\ StopDistance \in Nat

Stop == [linear |-> 0, angular |-> 0]

\* Every command that car_move can hold or publish.
Command == [linear : -MaxLinear .. MaxLinear, angular : -MaxAngular .. MaxAngular]

Magnitude(v) == IF v < 0 THEN -v ELSE v

Clamp(v, bound) == IF v < -bound THEN -bound ELSE IF v > bound THEN bound ELSE v

FiniteOrZero(v) == IF v \in Int THEN v ELSE 0

\* Mutant: the floor is applied to the magnitude and the sign is forgotten.
LimitSignLost(linear, angular) ==
  LET limited == Clamp(angular, MaxAngular)
  IN  IF angular = 0 \/ Magnitude(linear) > InPlaceLinear \/ Magnitude(limited) >= MinAngular
      THEN limited ELSE MinAngular

\* An in-place turn slower than the wheels can follow is raised to MinAngular.
LimitAngularSpeed(linear, angular) ==
  LET limited == Clamp(angular, MaxAngular)
      inPlace == Magnitude(linear) <= InPlaceLinear
  IN  IF angular = 0 \/ ~inPlace \/ Magnitude(limited) >= MinAngular
      THEN limited
      ELSE IF limited < 0 THEN -MinAngular ELSE MinAngular

ClampTwist(input) ==
  LET linear == Clamp(FiniteOrZero(input.linear), MaxLinear)
  IN  [linear  |-> linear,
       angular |-> LimitAngularSpeed(linear, FiniteOrZero(input.angular))]

\* An echo close enough to block, usable only when finite and positive.
DistanceBlocks(distance) ==
  /\ distance \in Int
  /\ distance > 0
  /\ distance <= StopDistance

\* Mutant: an obstacle the ESP32 has latched is forgotten with its echo.
DetectedByEchoOnly(i) == i.ultrasonic_valid /\ DistanceBlocks(i.obstacle_distance)

\* The ESP32's own obstacle latch counts even when the last echo was lost.
ObstacleDetected(i) == i.obstacle \/ (i.ultrasonic_valid /\ DistanceBlocks(i.obstacle_distance))

\* Mutant: a fresh manual command wins over the observer's navigation.
ChosenManualFirst(i) ==
  IF \/ ~i.mcu_online \/ i.emergency_stop
     \/ (i.calibration_active /\ ~i.calibration_fresh)
  THEN Stop
  ELSE IF i.calibration_active THEN i.calibration
  ELSE IF i.manual_fresh THEN i.manual
  ELSE IF i.navigation_fresh THEN i.navigation
  ELSE Stop

\* The command of the highest-priority source; i is the arbitrator's input.
Chosen(i) ==
  IF \/ ~i.mcu_online \/ i.emergency_stop
     \/ (i.calibration_active /\ ~i.calibration_fresh)
     \/ (~i.calibration_active /\ i.observation_status_stale)
  THEN Stop
  ELSE IF i.calibration_active THEN i.calibration
  ELSE IF i.observation_active THEN IF i.navigation_fresh THEN i.navigation ELSE Stop
  ELSE IF i.manual_fresh THEN i.manual
  ELSE IF i.navigation_fresh THEN i.navigation
  ELSE Stop

\* Mutant: an obstacle stops the car whichever way it goes.
SelectBlocksAll(i) ==
  LET blocked == Chosen(i) # Stop /\ ObstacleDetected(i)
  IN  [command |-> IF blocked THEN Stop ELSE Chosen(i), blocked_by_obstacle |-> blocked]

\* MotionArbitrator::select.  Its blocked_by_safety only words a log line.
Select(i) ==
  LET blocked == Chosen(i).linear > 0 /\ ObstacleDetected(i)
  IN  [command |-> IF blocked THEN Stop ELSE Chosen(i), blocked_by_obstacle |-> blocked]

=============================================================================
