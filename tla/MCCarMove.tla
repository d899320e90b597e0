------------------------------- MODULE MCCarMove -------------------------------
(* Constants for model checking CarMove: one speed unit is the car's limit,   *)
(* the inputs below are just over it, in reverse, turning and not finite.     *)
EXTENDS CarMove

CONSTANT NotFinite \* a NaN or infinite reading

Forward == [linear |-> 3, angular |-> 0]
Reverse == [linear |-> -1, angular |-> NotFinite]

ForwardOnly == {Forward}
ReverseOnly == {Reverse}
NoTwists == {}

Clear == [ultrasonic_ok |-> TRUE, obstacle_ok |-> FALSE, distance |-> 3]
LatchedWithoutEcho == [ultrasonic_ok |-> FALSE, obstacle_ok |-> TRUE, distance |-> NotFinite]

ClearOnly == {Clear}
ObstacleReports == {Clear, LatchedWithoutEcho}

WebOnly == {"car_web"}
AllSources == {"car_web", "remote", "", "car_calibrate", "car_observation_collect"}

=============================================================================
