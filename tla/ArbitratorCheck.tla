----------------------------- MODULE ArbitratorCheck -----------------------------
(***************************************************************************)
(* The arbitrator's functions over every combination of their inputs: the   *)
(* limiter on every twist asked, select on every input CarMoveNode can      *)
(* build, reached by changing one source of input at a time.                *)
(***************************************************************************)
EXTENDS MotionArbitrator

CONSTANTS
  Asked,     \* twists to limit
  Commands,  \* limited commands a source may hold
  Distances  \* echoes

VARIABLES asked, input

vars == <<asked, input>>

Idle ==
  [calibration |-> Stop, manual |-> Stop, navigation |-> Stop,
   calibration_active |-> FALSE, calibration_fresh |-> FALSE,
   observation_active |-> FALSE, observation_status_stale |-> FALSE,
   manual_fresh |-> FALSE, navigation_fresh |-> FALSE,
   mcu_online |-> FALSE, emergency_stop |-> FALSE,
   ultrasonic_valid |-> FALSE, obstacle |-> FALSE, obstacle_distance |-> 0]

Init == asked \in Asked /\ input = Idle

Calibrator == \E c \in Commands, active, fresh \in BOOLEAN :
  input' = [input EXCEPT !.calibration = c, !.calibration_active = active,
                         !.calibration_fresh = fresh]

Operator == \E c \in Commands, fresh, stop \in BOOLEAN :
  /\ input.observation_status_stale => stop
  /\ input' = [input EXCEPT !.manual = c, !.manual_fresh = fresh, !.emergency_stop = stop]

Observer == \E active, stale \in BOOLEAN :
  input' = [input EXCEPT !.observation_active = active, !.observation_status_stale = stale,
                         !.emergency_stop = @ \/ stale]

Navigator == \E c \in Commands, fresh \in BOOLEAN :
  input' = [input EXCEPT !.navigation = c, !.navigation_fresh = fresh]

Chassis == \E online, valid, obstacle \in BOOLEAN, d \in Distances :
  input' = [input EXCEPT !.mcu_online = online, !.ultrasonic_valid = valid,
                         !.obstacle = obstacle, !.obstacle_distance = d]

Ask == input = Idle /\ asked' \in Asked /\ UNCHANGED input

Next ==
  \/ Ask
  \/ /\ asked = Stop /\ UNCHANGED asked
     /\ Calibrator \/ Operator \/ Observer \/ Navigator \/ Chassis

Spec == Init /\ [][Next]_vars

-----------------------------------------------------------------------------
\* The turns the wheels can follow at a given forward speed.
Feasible(linear) ==
  {w \in -MaxAngular .. MaxAngular :
     w = 0 \/ Magnitude(w) >= MinAngular \/ Magnitude(linear) > InPlaceLinear}

\* limit_angular_speed returns the feasible turn nearest to the one asked,
\* among those that turn the same way (and no turn when none is asked).
LimitIsNearestFeasible ==
  LET linear == Clamp(FiniteOrZero(asked.linear), MaxLinear)
      angular == FiniteOrZero(asked.angular)
      limited == ClampTwist(asked).angular
      candidates == {w \in Feasible(linear) : (w > 0) = (angular > 0) /\ (w < 0) = (angular < 0)}
  IN  /\ limited \in candidates
      /\ \A w \in candidates : Magnitude(limited - angular) <= Magnitude(w - angular)

\* A source that is not selected cannot influence the wheels: during a
\* calibration nothing but the calibrator does, during an observation no
\* manual command does, and without either a fresh manual command hides Nav2.
UnselectedSourceIsIgnored ==
  \A c \in Commands, fresh \in BOOLEAN :
    /\ (input.calibration_active \/ input.observation_active) =>
         Select([input EXCEPT !.manual = c, !.manual_fresh = fresh]) = Select(input)
    /\ (\/ input.calibration_active
        \/ ~input.observation_active /\ input.manual_fresh) =>
         Select([input EXCEPT !.navigation = c, !.navigation_fresh = fresh]) = Select(input)
    /\ ~input.calibration_active =>
         Select([input EXCEPT !.calibration = c, !.calibration_fresh = fresh]) = Select(input)

\* README: "with an obstacle near, backing out is allowed".  An obstacle turns
\* a forward command into a full stop and leaves every other command as it is.
ObstacleStopsForwardOnly ==
  LET open == Select([input EXCEPT !.obstacle = FALSE, !.ultrasonic_valid = FALSE]).command
  IN  Select(input).command =
        IF open.linear > 0 /\ ObstacleDetected(input) THEN Stop ELSE open

=============================================================================
