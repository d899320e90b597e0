------------------------------ MODULE ObstacleScan ------------------------------
(***************************************************************************)
(* ExpandingObstacleScan, the behaviour-tree node that takes over when the  *)
(* way ahead has been blocked for a while: it stops the car, turns it left  *)
(* and right of the encounter by growing angles with Nav2's Spin action,    *)
(* judges each direction by the ultrasonic sensor, and hands back to the    *)
(* planner facing a clear one.                                              *)
(*                                                                         *)
(* tick() and halt() run in the tree's thread and see messages and answers  *)
(* only when they look, so each is one action; the Spin server and the      *)
(* network move between them.  Angles are counted in scan ranges relative   *)
(* to the encounter: the i-th range is i, left is positive.  A hold or a    *)
(* deadline is a flag saying that its clock runs; a tick that finds it not  *)
(* yet elapsed changes nothing and is a stutter.                            *)
(***************************************************************************)
EXTENDS Integers

CONSTANTS
  RangeCount, \* the size of ranges_
  Distances,  \* what obstacle_distance may hold; 0 stands for an unusable one
  Infinite,   \* the score of a direction without an echo
  TieDistance \* clearance_tie_m_

ASSUME ScanAssumption ==
  /\ RangeCount \in Nat \ {0}
  /\ Distances \subseteq Nat /\ Infinite \in Nat /\ TieDistance \in Nat
  /\ \A d \in Distances : d < Infinite

VARIABLES
  phase, active,
  range_index, scanning_left, final_turn, target_offset,
  left, right,               \* the candidates: [clear, score, offset]
  obstacle_since, stopped_since, clear_since, \* the clock is running
  evaluation_score, no_echo_seen,
  send_goal_future,          \* is it valid
  spin_goal,                 \* "none", or the handle of the "current" or an "old" goal
  spin,                      \* the last goal sent, as the server sees it
  answered, concluded,       \* its answer, its result has reached the client
  stray,                     \* a goal given up by the scan may still turn the car
  cancels,                   \* history: have all cancels stopped what they should
  tree,                      \* the behaviour tree: "idle", "ticking" or "failed"
  heading                    \* where the car faces

roundVars == <<range_index, scanning_left, final_turn, target_offset, left, right>>
clockVars == <<obstacle_since, stopped_since, clear_since>>
scoreVars == <<evaluation_score, no_echo_seen>>
futureVars == <<send_goal_future, spin_goal>>
serverVars == <<spin, answered, concluded>>
missVars == <<stray, cancels>>
nodeVars == <<phase, active, roundVars, clockVars, scoreVars, futureVars>>
envVars == <<serverVars, missVars, tree>> \* a tick that cancels nothing leaves these
vars == <<nodeVars, envVars, heading>>

-----------------------------------------------------------------------------
Phases == {"idle", "waiting_inputs", "waiting_stop", "waiting_goal", "turning",
           "evaluating", "waiting_retry"}

\* A heading that is no scan target: the car was turned only part of the way.
Elsewhere == RangeCount + 1
Offsets == -RangeCount .. RangeCount
Headings == Offsets \cup {Elsewhere}

NoCandidate == [clear |-> FALSE, score |-> 0, offset |-> 0]

CurrentRange == range_index + 1
Live == spin \in {"sent", "running"}

Init ==
  /\ phase = "idle" /\ active = FALSE
  /\ range_index = 0 /\ scanning_left = TRUE /\ final_turn = FALSE /\ target_offset = 0
  /\ left = NoCandidate /\ right = NoCandidate
  /\ obstacle_since = FALSE /\ stopped_since = FALSE /\ clear_since = FALSE
  /\ evaluation_score = 0 /\ no_echo_seen = FALSE
  /\ send_goal_future = FALSE /\ spin_goal = "none"
  /\ spin = "none" /\ answered = FALSE /\ concluded = FALSE
  /\ stray = FALSE /\ cancels = "heeded"
  /\ tree = "idle" /\ heading = 0

-----------------------------------------------------------------------------
(* Waiting for an obstacle. *)

\* A tick of tick_idle; "seen" says that fresh inputs report an obstacle.
TickIdle(seen) ==
  /\ tree = "ticking" /\ ~active
  /\ obstacle_since' = seen
  /\ UNCHANGED <<phase, active, roundVars, stopped_since, clear_since, scoreVars, futureVars,
                 envVars, heading>>

\* The obstacle has been there for trigger_hold_sec_: the encounter's heading
\* becomes the origin of all offsets.
ObstacleHolds ==
  /\ tree = "ticking" /\ ~active /\ obstacle_since
  /\ active' = TRUE /\ heading' = 0
  /\ range_index' = 0 /\ scanning_left' = TRUE /\ final_turn' = FALSE
  /\ left' = NoCandidate /\ right' = NoCandidate
  /\ phase' = "waiting_stop" /\ stopped_since' = FALSE
  /\ UNCHANGED <<target_offset, obstacle_since, clear_since, scoreVars, futureVars, envVars>>

-----------------------------------------------------------------------------
(* Giving a spin goal up: cancel_spin, from a tick with lost inputs or from  *)
(* halt.  "in_time" says that the answer to the goal is there or comes       *)
(* within the wait for it, "obeyed" that the server stops the turn.          *)

\* Mutant: only a goal known to be accepted is canceled.
CancelAccepted(in_time) == spin_goal

\* The handle cancel_spin works on: spin_goal_, or what the future holds.
CancelHandle(in_time) ==
  IF spin_goal = "none" /\ send_goal_future /\ in_time /\ spin # "rejected"
  THEN "current" ELSE spin_goal

\* async_cancel_goal throws UnknownGoalHandleError for a goal whose result the
\* client already has.
CancelThrows(handle) == handle = "old" \/ (handle = "current" /\ concluded)

\* The exception leaves everything behind it undone.
CancelFails(in_time) ==
  /\ CancelThrows(CancelHandle(in_time))
  /\ spin_goal' = CancelHandle(in_time)
  /\ cancels' = "missed"
  /\ UNCHANGED <<send_goal_future, serverVars, stray>>

\* The futures are dropped whether or not the goal was reached.
CancelEnds(in_time, obeyed) ==
  LET lost == Live /\ ~(CancelHandle(in_time) = "current" /\ obeyed)
  IN  /\ ~CancelThrows(CancelHandle(in_time))
      /\ stray' = (stray \/ lost)
      /\ cancels' = IF Live /\ ~(in_time /\ obeyed) THEN "missed" ELSE cancels
      /\ spin_goal' = "none" /\ send_goal_future' = FALSE
      /\ spin' = "none" /\ answered' = FALSE /\ concluded' = FALSE

\* A tick without fresh inputs, without the ESP32 or under an e-stop.  An
\* exception ends the run of the tree before the phase is set.
TickUnsafe(in_time, obeyed) ==
  /\ tree = "ticking" /\ active /\ (answered => in_time)
  /\ \/ CancelFails(in_time) /\ tree' = "failed" /\ UNCHANGED phase
     \/ CancelEnds(in_time, obeyed) /\ phase' = "waiting_inputs" /\ UNCHANGED tree
  /\ UNCHANGED <<active, roundVars, clockVars, scoreVars, heading>>

\* The navigation ends, however; the tree halts this node if it was running.
Halt(in_time, obeyed) ==
  /\ tree # "idle" /\ tree' = "idle" /\ active /\ (answered => in_time)
  /\ \/ CancelFails(in_time) /\ UNCHANGED <<phase, active, clockVars, final_turn>>
     \/ /\ CancelEnds(in_time, obeyed)
        /\ phase' = "idle" /\ active' = FALSE /\ final_turn' = FALSE
        /\ obstacle_since' = FALSE /\ stopped_since' = FALSE /\ clear_since' = FALSE
  /\ UNCHANGED <<range_index, scanning_left, target_offset, left, right, scoreVars, heading>>

-----------------------------------------------------------------------------
(* Stopping and turning. *)

BeginEvaluation ==
  /\ phase' = "evaluating"
  /\ clear_since' = FALSE /\ evaluation_score' = 0 /\ no_echo_seen' = FALSE
  /\ UNCHANGED <<active, final_turn, obstacle_since, stopped_since>>

\* complete_recovery: the future of the last goal stays valid.
CompleteRecovery ==
  /\ active' = FALSE /\ phase' = "idle" /\ final_turn' = FALSE
  /\ obstacle_since' = FALSE /\ stopped_since' = FALSE /\ clear_since' = FALSE
  /\ UNCHANGED scoreVars

\* The target of send_spin.
SpinTarget ==
  IF final_turn THEN target_offset
  ELSE IF scanning_left THEN CurrentRange ELSE -CurrentRange

AlreadyThere ==
  /\ heading = SpinTarget
  /\ IF final_turn THEN CompleteRecovery ELSE BeginEvaluation
  /\ UNCHANGED <<futureVars, serverVars>>

SendGoal ==
  /\ heading # SpinTarget
  /\ send_goal_future' = TRUE
  /\ spin_goal' = IF spin_goal = "none" THEN "none" ELSE "old"
  /\ spin' = "sent" /\ answered' = FALSE /\ concluded' = FALSE
  /\ phase' = "waiting_goal"
  /\ UNCHANGED <<active, final_turn, clockVars, scoreVars>>

SendSpin ==
  /\ target_offset' = SpinTarget
  /\ AlreadyThere \/ SendGoal
  /\ UNCHANGED <<range_index, scanning_left, left, right>>

\* tick_waiting_stop, which a tick also falls into when the inputs are back.
TickWaitingStop(stopped) ==
  LET since == stopped_since /\ phase = "waiting_stop"
  IN  /\ tree = "ticking" /\ active /\ phase \in {"waiting_inputs", "waiting_stop"}
      /\ ~(stopped /\ since)
      /\ phase' = "waiting_stop" /\ stopped_since' = stopped
      /\ UNCHANGED <<active, roundVars, obstacle_since, clear_since, scoreVars, futureVars,
                     envVars, heading>>

\* The wheels stood still for stopped_hold_sec_ and the Spin server is there.
StopHolds ==
  /\ tree = "ticking" /\ active /\ phase = "waiting_stop" /\ stopped_since
  /\ SendSpin
  /\ UNCHANGED <<missVars, tree, heading>>
-----------------------------------------------------------------------------
(* Judging a pair of directions. *)

LeftIsFarther ==
  LET l == left'.score
      r == right'.score
  IN  \/ l = Infinite /\ r # Infinite
      \/ l # Infinite /\ r # Infinite /\ l > r + TieDistance

\* Mutant: the farther side is chosen, clear or not.
ChosenFarther == IF left'.score > right'.score THEN left'.offset ELSE right'.offset

\* choose_clear_offset, when at least one side is clear: near ties go to the
\* right, where the car faces already.
ChosenOffset ==
  IF left'.clear /\ (right'.clear => LeftIsFarther) THEN left'.offset ELSE right'.offset

RestartRound ==
  /\ left' = NoCandidate /\ right' = NoCandidate /\ scanning_left' = TRUE

MoreRanges == CurrentRange < RangeCount

\* Mutant: the same range is tried again.
SameRange ==
  UNCHANGED range_index /\ phase' = IF MoreRanges THEN "waiting_stop" ELSE "waiting_retry"

\* The widest range is kept for the wait before the next round.
NextRange ==
  IF MoreRanges THEN range_index' = range_index + 1 /\ phase' = "waiting_stop"
                ELSE UNCHANGED range_index /\ phase' = "waiting_retry"

\* Mutant: the verdict on the right is not asked for.
LeftClear(r) == left.clear

\* One side of the pair is clear, with r the candidate just found on the right.
EitherClear(r) == left.clear \/ r.clear

\* finish_pair.
FinishPair(r) ==
  \/ /\ EitherClear(r)
     /\ left' = left /\ right' = r
     /\ target_offset' = ChosenOffset /\ final_turn' = TRUE
     /\ phase' = "waiting_stop" /\ stopped_since' = FALSE
     /\ UNCHANGED <<range_index, scanning_left>>
  \/ /\ ~EitherClear(r)
     /\ RestartRound /\ NextRange
     /\ stopped_since' = (stopped_since /\ ~MoreRanges)
     /\ UNCHANGED <<target_offset, final_turn>>

\* What becomes of the verdict on the side being scanned.
Judge(candidate) ==
  IF scanning_left
  THEN /\ left' = candidate /\ scanning_left' = FALSE
       /\ phase' = "waiting_stop" /\ stopped_since' = FALSE
       /\ UNCHANGED <<range_index, final_turn, target_offset, right>>
  ELSE FinishPair(candidate)

\* handle_turn_failure: a side that cannot be faced counts as blocked; a failed
\* final turn widens the range, or ends the round.
TurnFails ==
  /\ spin_goal' = "none"
  /\ IF final_turn
     THEN /\ final_turn' = FALSE /\ RestartRound /\ NextRange /\ stopped_since' = FALSE
          /\ UNCHANGED target_offset
     ELSE Judge([NoCandidate EXCEPT !.offset = target_offset])
  /\ UNCHANGED <<active, obstacle_since, clear_since, scoreVars>>

\* The answer to the goal: a handle, or none when it was rejected.
TickWaitingGoal ==
  /\ tree = "ticking" /\ active /\ phase = "waiting_goal" /\ send_goal_future /\ answered
  /\ \/ spin = "rejected" /\ TurnFails
     \/ /\ spin # "rejected" /\ spin_goal' = "current" /\ phase' = "turning"
        /\ UNCHANGED <<active, roundVars, clockVars, scoreVars>>
  /\ UNCHANGED <<send_goal_future, envVars, heading>>

\* Mutant: the code of the result is not looked at.
TurnEnded == spin \in {"succeeded", "failed"}

TurnSucceeded == spin = "succeeded"

\* The result of the turn.
TickTurning ==
  /\ tree = "ticking" /\ active /\ phase = "turning" /\ concluded
  /\ \/ ~TurnSucceeded /\ TurnFails
     \/ /\ TurnSucceeded /\ spin_goal' = "none"
        /\ IF final_turn THEN CompleteRecovery ELSE BeginEvaluation
        /\ UNCHANGED <<range_index, scanning_left, target_offset, left, right>>
  /\ UNCHANGED <<send_goal_future, envVars, heading>>

\* A tick of tick_evaluating.  "held" says that the way was clear since long
\* enough (never in the tick that starts the clock), "timed_out" that the
\* evaluation took evaluation_timeout_sec_.
TickEvaluating(obstacle, echo, distance, held, timed_out) ==
  LET score == IF obstacle THEN 0
               ELSE IF echo /\ distance > evaluation_score THEN distance
               ELSE evaluation_score
      no_echo == ~obstacle /\ (no_echo_seen \/ ~echo)
  IN  /\ tree = "ticking" /\ active /\ phase = "evaluating"
      /\ held => clear_since /\ ~obstacle
      /\ clear_since' = ~obstacle /\ evaluation_score' = score /\ no_echo_seen' = no_echo
      /\ IF held \/ timed_out
         THEN Judge([clear |-> held, score |-> IF no_echo THEN Infinite ELSE score,
                     offset |-> target_offset])
         ELSE UNCHANGED <<phase, roundVars, stopped_since>>
      /\ UNCHANGED <<active, obstacle_since, futureVars, envVars, heading>>

\* retry_delay_sec_ is over: the next round begins with the smallest range.
RetryElapses ==
  /\ tree = "ticking" /\ active /\ phase = "waiting_retry"
  /\ range_index' = 0 /\ final_turn' = FALSE /\ RestartRound
  /\ phase' = "waiting_stop" /\ stopped_since' = FALSE
  /\ UNCHANGED <<active, target_offset, obstacle_since, clear_since, scoreVars, futureVars,
                 envVars, heading>>

-----------------------------------------------------------------------------
(* The environment: Nav2's Spin server, the client library, the tree, and    *)
(* whoever else moves the car.                                               *)

\* A goal that starts takes the car off its heading.
SpinAnswered ==
  /\ spin = "sent" /\ spin' \in {"running", "rejected"}
  /\ heading' = IF spin' = "running" THEN Elsewhere ELSE heading
  /\ UNCHANGED <<nodeVars, answered, concluded, missVars, tree>>

\* A turn that succeeds ends on its target, one that fails anywhere.
SpinEnds ==
  /\ spin = "running"
  /\ \/ spin' = "succeeded" /\ heading' = target_offset
     \/ spin' = "failed" /\ heading' \in Headings
  /\ UNCHANGED <<nodeVars, answered, concluded, missVars, tree>>

AnswerArrives ==
  /\ spin \notin {"none", "sent"} /\ ~answered /\ answered' = TRUE
  /\ UNCHANGED <<nodeVars, spin, concluded, missVars, tree, heading>>

\* The result is asked for when the turn begins.
ResultArrives ==
  /\ phase = "turning" /\ spin \in {"succeeded", "failed"} /\ ~concluded /\ concluded' = TRUE
  /\ UNCHANGED <<nodeVars, spin, answered, missVars, tree, heading>>

\* A goal the scan gave up without stopping it turns the car and is done.
StrayTurns ==
  /\ stray /\ stray' \in BOOLEAN /\ heading' \in Headings
  /\ UNCHANGED <<nodeVars, serverVars, cancels, tree>>

NavigationBegins ==
  /\ tree = "idle" /\ tree' = "ticking"
  /\ UNCHANGED <<nodeVars, serverVars, missVars, heading>>

\* The navigation ends while this node is not running, and is not halted.
NavigationEnds ==
  /\ tree = "ticking" /\ ~active /\ tree' = "idle"
  /\ UNCHANGED <<nodeVars, serverVars, missVars, heading>>

\* Between two navigations anyone may drive; headings matter only if the scan
\* still believes in its encounter.
OthersDrive ==
  /\ tree = "idle" /\ active /\ heading' \in Headings
  /\ UNCHANGED <<nodeVars, envVars>>

-----------------------------------------------------------------------------
AnyTickEvaluating ==
  \E obstacle, echo, held, timed_out \in BOOLEAN, distance \in Distances :
    TickEvaluating(obstacle, echo, distance, held, timed_out)

Next ==
  \/ \E seen \in BOOLEAN : TickIdle(seen)
  \/ ObstacleHolds
  \/ \E in_time, obeyed \in BOOLEAN : TickUnsafe(in_time, obeyed)
  \/ \E in_time, obeyed \in BOOLEAN : Halt(in_time, obeyed)
  \/ \E stopped \in BOOLEAN : TickWaitingStop(stopped)
  \/ StopHolds
  \/ TickWaitingGoal
  \/ TickTurning
  \/ AnyTickEvaluating
  \/ RetryElapses
  \/ SpinAnswered \/ SpinEnds \/ AnswerArrives \/ ResultArrives
  \/ StrayTurns \/ NavigationBegins \/ NavigationEnds \/ OthersDrive

\* The tree ticks on and every clock runs out; wheels that are found standing
\* again and again do stand still for the hold, and the Spin server answers
\* and ends every goal and is heard.
TimedOut ==
  \E obstacle, echo, held \in BOOLEAN, distance \in Distances :
    TickEvaluating(obstacle, echo, distance, held, TRUE)

Fairness ==
  /\ WF_vars(TickWaitingStop(TRUE)) /\ SF_vars(StopHolds)
  /\ WF_vars(TickWaitingGoal) /\ WF_vars(TickTurning) /\ WF_vars(TimedOut)
  /\ WF_vars(SpinAnswered) /\ WF_vars(SpinEnds)
  /\ WF_vars(AnswerArrives) /\ WF_vars(ResultArrives)

Spec == Init /\ [][Next]_vars /\ Fairness

-----------------------------------------------------------------------------
(* Properties. *)

Candidates ==
  [clear : BOOLEAN, score : Distances \cup {0, Infinite}, offset : Offsets]

\* Every variable keeps the shape the node gives it; in particular the index
\* of the range never leaves ranges_.
TypeOK ==
  /\ phase \in Phases /\ active \in BOOLEAN
  /\ range_index \in 0 .. RangeCount - 1
  /\ scanning_left \in BOOLEAN /\ final_turn \in BOOLEAN /\ target_offset \in Offsets
  /\ left \in Candidates /\ right \in Candidates
  /\ obstacle_since \in BOOLEAN /\ stopped_since \in BOOLEAN /\ clear_since \in BOOLEAN
  /\ evaluation_score \in Distances \cup {0} /\ no_echo_seen \in BOOLEAN
  /\ send_goal_future \in BOOLEAN /\ spin_goal \in {"none", "current", "old"}
  /\ spin \in {"none", "sent", "rejected", "running", "succeeded", "failed"}
  /\ answered \in BOOLEAN /\ concluded \in BOOLEAN
  /\ stray \in BOOLEAN /\ cancels \in {"heeded", "missed"}
  /\ tree \in {"idle", "ticking", "failed"} /\ heading \in Headings

\* As long as every cancel stopped what it should, whatever interrupted the
\* scan and wherever that left the car, a direction is judged only while the
\* car faces it.
EvaluationFacesTarget ==
  cancels = "heeded" /\ phase = "evaluating" => heading = target_offset

\* As long as every cancel stopped what it should, no goal of the scan turns
\* the car unless the scan is waiting for it: neither lost inputs nor a halt
\* while a goal is still unanswered leave a turn behind.
NoForgottenTurn ==
  cancels = "heeded" =>
    /\ ~stray
    /\ Live => active /\ phase \in {"waiting_goal", "turning"}

\* As long as every cancel stopped what it should, the scan declares the
\* encounter over only with the car facing a direction of this round that was
\* found clear.
RecoveryFacesClearSide ==
  [][(active /\ ~active' /\ tree' = "ticking" /\ cancels = "heeded")
       => \E c \in {left, right} : c.clear /\ c.offset = heading']_vars

\* The verdict reached in this step is that the way ahead is clear.
FoundClear ==
  \E obstacle, echo, timed_out \in BOOLEAN, distance \in Distances :
    TickEvaluating(obstacle, echo, distance, TRUE, timed_out)

\* The range grows only after both sides of the present one had their turn and
\* neither was clear: the left was found blocked or out of reach before, and
\* the right is given up in this step, not by a clear verdict.  Or the side
\* found clear could not be faced again.
WidensOnlyWhenBlocked ==
  [][(active /\ range_index' > range_index)
       => \/ final_turn /\ spin # "succeeded"
          \/ /\ ~scanning_left /\ ~left.clear /\ left.offset = CurrentRange
             /\ target_offset = -CurrentRange /\ ~FoundClear]_vars

\* A round of the scan comes to an end: the way is found, or all ranges were
\* tried, or the round was interrupted; no sequence of blocked sides, rejected
\* or failed turns keeps it going for ever.
RoundEnds ==
  (active /\ tree = "ticking") ~>
    (~active \/ tree # "ticking" \/ phase \in {"waiting_inputs", "waiting_retry"})

\* "The obstacle scan waits for the vehicle status, the odometry or the safety
\* lock to recover" (the message of tick): a tick that lost its inputs waits.
LostInputsAreWaitedFor ==
  [][(\E in_time, obeyed \in BOOLEAN : TickUnsafe(in_time, obeyed))
       => phase' = "waiting_inputs"]_vars

=============================================================================
