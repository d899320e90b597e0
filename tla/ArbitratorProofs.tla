---------------------------- MODULE ArbitratorProofs ----------------------------
(***************************************************************************)
(* Proofs about the arbitrator's functions, for all limits, all commands    *)
(* and all echoes, the ones that are not numbers included.                  *)
(***************************************************************************)
EXTENDS ArbitratorCheck, TLAPS

(* The limiter. *)

\* What is asked is an integer once a value that is not finite counts as zero.
LEMMA FiniteIsInt == \A v : FiniteOrZero(v) \in Int
  BY DEF FiniteOrZero

\* A clamped value is within its bound and is the nearest value there.
LEMMA ClampIsNearest ==
  ASSUME NEW v \in Int, NEW bound \in Nat
  PROVE  /\ Clamp(v, bound) \in -bound .. bound
         /\ \A w \in -bound .. bound : Magnitude(Clamp(v, bound) - v) <= Magnitude(w - v)
         /\ (Clamp(v, bound) > 0) = (v > 0 /\ bound > 0)
         /\ (Clamp(v, bound) < 0) = (v < 0 /\ bound > 0)
  BY DEF Clamp, Magnitude

\* The turn given is one the wheels can follow and turns the way that was asked.
LEMMA LimitIsFeasible ==
  ASSUME NEW linear \in Int, NEW angular \in Int
  PROVE  /\ LimitAngularSpeed(linear, angular) \in Feasible(linear)
         /\ (LimitAngularSpeed(linear, angular) > 0) = (angular > 0)
         /\ (LimitAngularSpeed(linear, angular) < 0) = (angular < 0)
  BY LimitsAssumption DEF LimitAngularSpeed, Clamp, Magnitude, Feasible

\* No other such turn is nearer to the one asked.
LEMMA LimitIsNearest ==
  ASSUME NEW linear \in Int, NEW angular \in Int, NEW w \in Feasible(linear),
         (w > 0) = (angular > 0), (w < 0) = (angular < 0)
  PROVE  Magnitude(LimitAngularSpeed(linear, angular) - angular) <= Magnitude(w - angular)
  BY LimitsAssumption DEF LimitAngularSpeed, Clamp, Magnitude, Feasible

\* limit_angular_speed gives the nearest turn that the wheels can follow, for
\* every twist asked, finite or not, and every setting of the limits.
THEOREM LimitNearest == Spec => []LimitIsNearestFeasible
<1>1. LimitIsNearestFeasible
  <2> DEFINE linear == Clamp(FiniteOrZero(asked.linear), MaxLinear)
             angular == FiniteOrZero(asked.angular)
  <2>1. linear \in Int /\ angular \in Int
    BY FiniteIsInt, ClampIsNearest, LimitsAssumption
  <2>2. ClampTwist(asked).angular = LimitAngularSpeed(linear, angular)
    BY DEF ClampTwist
  <2> HIDE DEF linear, angular
  <2>3. QED
    BY <2>1, <2>2, LimitIsFeasible, LimitIsNearest
    DEF LimitIsNearestFeasible, linear, angular
<1>2. QED
  BY <1>1, PTL

-----------------------------------------------------------------------------
(* The selection. *)

Inputs ==
  [calibration : Commands \cup {Stop}, manual : Commands \cup {Stop},
   navigation : Commands \cup {Stop},
   calibration_active : BOOLEAN, calibration_fresh : BOOLEAN,
   observation_active : BOOLEAN, observation_status_stale : BOOLEAN,
   manual_fresh : BOOLEAN, navigation_fresh : BOOLEAN,
   mcu_online : BOOLEAN, emergency_stop : BOOLEAN,
   ultrasonic_valid : BOOLEAN, obstacle : BOOLEAN,
   obstacle_distance : Distances \cup {0}]

\* Every input the node can build.
InputOK == input \in Inputs

\* Every step of the enumeration gives an input the node can build.
LEMMA InputTypes == Spec => []InputOK
<1>1. Init => InputOK
  BY DEF InputOK, Init, Idle, Inputs
<1>2. InputOK /\ [Next]_vars => InputOK'
  <2> SUFFICES ASSUME input \in Inputs, [Next]_vars PROVE input' \in Inputs
    BY DEF InputOK
  <2>1. CASE Calibrator
    BY ZenonT(60), <2>1 DEF Calibrator, Inputs
  <2>2. CASE Operator
    BY ZenonT(60), <2>2 DEF Operator, Inputs
  <2>3. CASE Observer
    <3>1. PICK active \in BOOLEAN, stale \in BOOLEAN :
            input' = [input EXCEPT !.observation_active = active,
                                   !.observation_status_stale = stale,
                                   !.emergency_stop = @ \/ stale]
      BY <2>3 DEF Observer
    <3>2. (input.emergency_stop \/ stale) \in BOOLEAN
      OBVIOUS
    <3> QED
      BY ZenonT(60), <3>1, <3>2 DEF Inputs
  <2>4. CASE Navigator
    BY <2>4 DEF Navigator, Inputs
  <2>5. CASE Chassis
    <3>1. PICK online \in BOOLEAN, valid \in BOOLEAN, obstacle \in BOOLEAN, d \in Distances :
            input' = [input EXCEPT !.mcu_online = online, !.ultrasonic_valid = valid,
                                   !.obstacle = obstacle, !.obstacle_distance = d]
      BY <2>5 DEF Chassis
    <3> QED
      BY ZenonT(60), <3>1 DEF Inputs
  <2>6. CASE Ask \/ UNCHANGED vars
    BY <2>6 DEF Ask, vars
  <2> QED
    BY <2>1, <2>2, <2>3, <2>4, <2>5, <2>6 DEF Next
<1> QED
  BY <1>1, <1>2, PTL DEF Spec

\* A source that is not selected has no influence on the wheels, whatever it and
\* the others send (MotionArbitrator::select).
THEOREM UnselectedIgnored == Spec => []UnselectedSourceIsIgnored
<1>1. InputOK => UnselectedSourceIsIgnored
  <2> SUFFICES ASSUME input \in Inputs, NEW c \in Commands, NEW fresh \in BOOLEAN
               PROVE
    /\ (input.calibration_active \/ input.observation_active) =>
         Select([input EXCEPT !.manual = c, !.manual_fresh = fresh]) = Select(input)
    /\ (\/ input.calibration_active
        \/ ~input.observation_active /\ input.manual_fresh) =>
         Select([input EXCEPT !.navigation = c, !.navigation_fresh = fresh]) = Select(input)
    /\ ~input.calibration_active =>
         Select([input EXCEPT !.calibration = c, !.calibration_fresh = fresh]) = Select(input)
    BY DEF InputOK, UnselectedSourceIsIgnored
  <2>1. ASSUME input.calibration_active \/ input.observation_active
        PROVE  Chosen([input EXCEPT !.manual = c, !.manual_fresh = fresh]) = Chosen(input)
    BY <2>1 DEF Inputs, Chosen
  <2>2. ASSUME \/ input.calibration_active
               \/ ~input.observation_active /\ input.manual_fresh
        PROVE  Chosen([input EXCEPT !.navigation = c, !.navigation_fresh = fresh]) = Chosen(input)
    BY <2>2 DEF Inputs, Chosen
  <2>3. ASSUME ~input.calibration_active
        PROVE  Chosen([input EXCEPT !.calibration = c, !.calibration_fresh = fresh]) = Chosen(input)
    BY <2>3 DEF Inputs, Chosen
  <2>4. /\ ObstacleDetected([input EXCEPT !.manual = c, !.manual_fresh = fresh])
             = ObstacleDetected(input)
        /\ ObstacleDetected([input EXCEPT !.navigation = c, !.navigation_fresh = fresh])
             = ObstacleDetected(input)
        /\ ObstacleDetected([input EXCEPT !.calibration = c, !.calibration_fresh = fresh])
             = ObstacleDetected(input)
    BY DEF Inputs, ObstacleDetected
  <2> QED
    BY <2>1, <2>2, <2>3, <2>4 DEF Select
<1> QED
  BY <1>1, InputTypes, PTL

\* An obstacle stops the car when it would drive forward and changes nothing
\* else (README: with an obstacle near, backing out is allowed).
THEOREM ObstacleStopsForward == Spec => []ObstacleStopsForwardOnly
<1>1. InputOK => ObstacleStopsForwardOnly
  <2> SUFFICES ASSUME input \in Inputs PROVE ObstacleStopsForwardOnly
    BY DEF InputOK
  <2> DEFINE clear == [input EXCEPT !.obstacle = FALSE, !.ultrasonic_valid = FALSE]
  <2>1. Chosen(clear) = Chosen(input)
    BY DEF Inputs, Chosen
  <2>2. ~ObstacleDetected(clear)
    BY DEF Inputs, ObstacleDetected
  <2>3. Select(clear).command = Chosen(input)
    BY <2>1, <2>2 DEF Select
  <2>4. Select(input).command =
          IF Chosen(input).linear > 0 /\ ObstacleDetected(input) THEN Stop ELSE Chosen(input)
    BY DEF Select
  <2> QED
    BY <2>3, <2>4 DEF ObstacleStopsForwardOnly
<1> QED
  BY <1>1, InputTypes, PTL
=============================================================================
