--------------------------- MODULE ObstacleScanProofs ---------------------------
(***************************************************************************)
(* Proofs about ObstacleScan, for any number of ranges and any readings.    *)
(***************************************************************************)
EXTENDS ObstacleScan, TLAPS

\* The two halves of TypeOK, for the two provers.
Booleans ==
  /\ active \in BOOLEAN /\ scanning_left \in BOOLEAN /\ final_turn \in BOOLEAN
  /\ obstacle_since \in BOOLEAN /\ stopped_since \in BOOLEAN /\ clear_since \in BOOLEAN
  /\ no_echo_seen \in BOOLEAN /\ send_goal_future \in BOOLEAN
  /\ answered \in BOOLEAN /\ concluded \in BOOLEAN /\ stray \in BOOLEAN

Shape ==
  /\ phase \in Phases
  /\ range_index \in 0 .. RangeCount - 1
  /\ target_offset \in Offsets
  /\ left \in Candidates /\ right \in Candidates
  /\ evaluation_score \in Distances \cup {0}
  /\ spin_goal \in {"none", "current", "old"}
  /\ spin \in {"none", "sent", "rejected", "running", "succeeded", "failed"}
  /\ cancels \in {"heeded", "missed"}
  /\ tree \in {"idle", "ticking", "failed"} /\ heading \in Headings

\* The type invariant falls into its Boolean part and the rest.
LEMMA TypeParts == TypeOK <=> Booleans /\ Shape
BY Zenon DEF TypeOK, Booleans, Shape

\* The range, either side, the front and the target are angles the car can face.
LEMMA RangeOffsets ==
  ASSUME Shape
  PROVE  /\ CurrentRange \in 1 .. RangeCount
         /\ CurrentRange \in Offsets /\ -CurrentRange \in Offsets /\ 0 \in Offsets
         /\ NoCandidate \in Candidates /\ NoCandidate.offset = 0 /\ ~NoCandidate.clear
         /\ SpinTarget \in Offsets
         /\ Elsewhere \in Headings /\ Offsets \subseteq Headings
<1>1. CurrentRange \in 1 .. RangeCount
  BY ScanAssumption DEF Shape, CurrentRange
<1>2. CurrentRange \in Offsets /\ -CurrentRange \in Offsets /\ 0 \in Offsets
  BY <1>1, ScanAssumption DEF Offsets
<1>3. NoCandidate \in Candidates /\ NoCandidate.offset = 0 /\ ~NoCandidate.clear
  BY <1>2 DEF NoCandidate, Candidates
<1>4. SpinTarget \in Offsets
  BY <1>2 DEF SpinTarget, Shape
<1>5. QED
  BY <1>1, <1>2, <1>3, <1>4 DEF Headings, Elsewhere

\* A verdict leaves the round well-formed.
LEMMA JudgeShape ==
  ASSUME Shape, NEW c \in Candidates, Judge(c)
  PROVE  /\ phase' \in Phases /\ range_index' \in 0 .. RangeCount - 1
         /\ target_offset' \in Offsets /\ left' \in Candidates /\ right' \in Candidates
<1>1. CASE scanning_left
  BY <1>1 DEF Judge, Shape, Phases
<1>2. CASE ~scanning_left
  <2>1. FinishPair(c)
    BY <1>2 DEF Judge
  <2>2. CASE left.clear \/ c.clear
    <3>1. /\ left' = left /\ right' = c /\ phase' = "waiting_stop"
          /\ range_index' = range_index /\ target_offset' = ChosenOffset
      BY <2>1, <2>2 DEF FinishPair, EitherClear
    <3>2. ChosenOffset \in {left.offset, c.offset}
      BY <3>1 DEF ChosenOffset
    <3>3. QED
      BY <3>1, <3>2 DEF Shape, Phases, Candidates
  <2>3. CASE ~left.clear /\ ~c.clear
    BY <2>1, <2>3, RangeOffsets, ScanAssumption
    DEF FinishPair, EitherClear, RestartRound, NextRange, MoreRanges, CurrentRange, Shape, Phases
  <2>4. QED
    BY <2>2, <2>3
<1>3. QED
  BY <1>1, <1>2

\* A failed turn leaves the node well-formed.
LEMMA TurnFailsShape ==
  ASSUME Shape, TurnFails
  PROVE  /\ phase' \in Phases /\ range_index' \in 0 .. RangeCount - 1
         /\ target_offset' \in Offsets /\ left' \in Candidates /\ right' \in Candidates
         /\ spin_goal' = "none" /\ evaluation_score' = evaluation_score
<1>1. spin_goal' = "none" /\ evaluation_score' = evaluation_score
  BY DEF TurnFails, scoreVars
<1>2. CASE final_turn
  BY <1>2, <1>1, RangeOffsets, ScanAssumption
  DEF TurnFails, RestartRound, NextRange, MoreRanges, CurrentRange, Shape, Phases
<1>3. CASE ~final_turn
  <2> DEFINE blocked == [NoCandidate EXCEPT !.offset = target_offset]
  <2>1. blocked \in Candidates
    BY DEF NoCandidate, Candidates, Shape
  <2>2. Judge(blocked)
    BY <1>3 DEF TurnFails
  <2>3. QED
    BY <1>1, <2>1, <2>2, JudgeShape
<1>4. QED
  BY <1>2, <1>3

\* An evaluation that ends passes a well-formed verdict on; one that goes on
\* leaves the round alone.
LEMMA VerdictJudged ==
  ASSUME Shape,
         NEW obstacle \in BOOLEAN, NEW echo \in BOOLEAN, NEW distance \in Distances,
         NEW held \in BOOLEAN, NEW timed_out \in BOOLEAN,
         TickEvaluating(obstacle, echo, distance, held, timed_out)
  PROVE  /\ evaluation_score' \in Distances \cup {0}
         /\ \/ \E c \in Candidates : c.offset = target_offset /\ Judge(c)
            \/ UNCHANGED <<phase, roundVars, stopped_since>>
<1> DEFINE score == IF obstacle THEN 0
                    ELSE IF echo /\ distance > evaluation_score THEN distance
                    ELSE evaluation_score
           no_echo == ~obstacle /\ (no_echo_seen \/ ~echo)
           verdict == [clear |-> held, score |-> IF no_echo THEN Infinite ELSE score,
                       offset |-> target_offset]
<1>1. score \in Distances \cup {0}
  BY DEF Shape
<1>2. (IF no_echo THEN Infinite ELSE score) \in Distances \cup {0, Infinite}
  BY <1>1
<1>3. verdict \in Candidates /\ verdict.offset = target_offset
  BY <1>2 DEF Candidates, Shape
<1>4. evaluation_score' = score
  BY DEF TickEvaluating
<1>5. CASE held \/ timed_out
  <2>1. Judge(verdict)
    BY <1>5 DEF TickEvaluating
  <2>2. QED
    BY <2>1, <1>3, <1>1, <1>4
<1>6. CASE ~(held \/ timed_out)
  BY <1>6, <1>1, <1>4 DEF TickEvaluating
<1>7. QED
  BY <1>5, <1>6

\* A verdict keeps the shape of what it sets.
LEMMA VerdictShape ==
  ASSUME Shape,
         NEW obstacle \in BOOLEAN, NEW echo \in BOOLEAN, NEW distance \in Distances,
         NEW held \in BOOLEAN, NEW timed_out \in BOOLEAN,
         TickEvaluating(obstacle, echo, distance, held, timed_out)
  PROVE  Shape'
<1>1. /\ spin_goal' = spin_goal /\ spin' = spin /\ cancels' = cancels /\ tree' = tree
      /\ heading' = heading
  BY DEF TickEvaluating, futureVars, envVars, serverVars, missVars
<1>2. CASE \E c \in Candidates : c.offset = target_offset /\ Judge(c)
  BY <1>1, <1>2, VerdictJudged, JudgeShape DEF Shape
<1>3. CASE UNCHANGED <<phase, roundVars, stopped_since>>
  BY <1>1, <1>3, VerdictJudged DEF Shape, roundVars
<1>4. QED
  BY <1>2, <1>3, VerdictJudged

\* Every step keeps the shape of the variables.
LEMMA ShapeStep ==
  ASSUME Shape, Booleans, [Next]_vars
  PROVE  Shape'
<1> USE DEF Shape
<1>1. ASSUME NEW seen \in BOOLEAN, TickIdle(seen) PROVE Shape'
  BY <1>1 DEF TickIdle, roundVars, scoreVars, futureVars, envVars, serverVars, missVars
<1>2. CASE ObstacleHolds
  BY <1>2, RangeOffsets, ScanAssumption
  DEF ObstacleHolds, scoreVars, futureVars, envVars, serverVars, missVars, Phases, Headings
<1>3. ASSUME NEW in_time \in BOOLEAN, NEW obeyed \in BOOLEAN, TickUnsafe(in_time, obeyed)
      PROVE  Shape'
  BY <1>3
  DEF TickUnsafe, CancelFails, CancelEnds, CancelHandle, roundVars, scoreVars, serverVars,
      Phases
<1>4. ASSUME NEW in_time \in BOOLEAN, NEW obeyed \in BOOLEAN, Halt(in_time, obeyed)
      PROVE  Shape'
  BY <1>4
  DEF Halt, CancelFails, CancelEnds, CancelHandle, scoreVars, serverVars, Phases
<1>5. ASSUME NEW stopped \in BOOLEAN, TickWaitingStop(stopped) PROVE Shape'
  BY <1>5
  DEF TickWaitingStop, roundVars, scoreVars, futureVars, envVars, serverVars, missVars, Phases
<1>6. CASE StopHolds
  BY <1>6, RangeOffsets
  DEF StopHolds, SendSpin, AlreadyThere, SendGoal, BeginEvaluation, CompleteRecovery,
      scoreVars, futureVars, serverVars, missVars, Phases
<1>7. CASE TickWaitingGoal
  <2>1. CASE spin = "rejected" /\ TurnFails
    BY <1>7, <2>1, TurnFailsShape DEF TickWaitingGoal, envVars, serverVars, missVars
  <2>2. CASE spin' = spin /\ spin_goal' = "current" /\ phase' = "turning"
             /\ UNCHANGED <<active, roundVars, clockVars, scoreVars>>
    BY <1>7, <2>2
    DEF TickWaitingGoal, envVars, serverVars, missVars, roundVars, scoreVars, Phases
  <2>3. QED
    BY <1>7, <2>1, <2>2 DEF TickWaitingGoal, envVars, serverVars
<1>8. CASE TickTurning
  <2>1. CASE TurnFails
    BY <1>8, <2>1, TurnFailsShape DEF TickTurning, envVars, serverVars, missVars
  <2>2. CASE ~TurnFails
    BY <1>8, <2>2
    DEF TickTurning, CompleteRecovery, BeginEvaluation, envVars, serverVars, missVars,
        scoreVars, Phases
  <2>3. QED
    BY <2>1, <2>2
<1>9. CASE AnyTickEvaluating
  BY <1>9, VerdictShape DEF AnyTickEvaluating
<1>10. CASE RetryElapses
  BY <1>10, RangeOffsets, ScanAssumption
  DEF RetryElapses, RestartRound, scoreVars, futureVars, envVars, serverVars, missVars, Phases
<1>11. CASE SpinAnswered
  BY <1>11, RangeOffsets
  DEF SpinAnswered, nodeVars, roundVars, scoreVars, futureVars, missVars
<1>12. CASE SpinEnds
  BY <1>12, RangeOffsets
  DEF SpinEnds, nodeVars, roundVars, scoreVars, futureVars, missVars
<1>13. CASE AnswerArrives \/ ResultArrives
  BY <1>13
  DEF AnswerArrives, ResultArrives, nodeVars, roundVars, scoreVars, futureVars, missVars
<1>14. CASE StrayTurns \/ OthersDrive
  BY <1>14
  DEF StrayTurns, OthersDrive, nodeVars, roundVars, scoreVars, futureVars, envVars,
      serverVars, missVars
<1>15. CASE NavigationBegins \/ NavigationEnds
  BY <1>15
  DEF NavigationBegins, NavigationEnds, nodeVars, roundVars, scoreVars, futureVars,
      serverVars, missVars
<1>16. CASE UNCHANGED vars
  BY <1>16
  DEF vars, nodeVars, roundVars, scoreVars, futureVars, envVars, serverVars, missVars
<1>17. QED
  BY <1>1, <1>2, <1>3, <1>4, <1>5, <1>6, <1>7, <1>8, <1>9, <1>10, <1>11, <1>12, <1>13,
     <1>14, <1>15, <1>16
  DEF Next

\* A failed turn keeps the flags Boolean.
LEMMA TurnFailsBooleans ==
  ASSUME Booleans, TurnFails \/ (\E c \in Candidates : Judge(c))
  PROVE  scanning_left' \in BOOLEAN /\ final_turn' \in BOOLEAN /\ stopped_since' \in BOOLEAN
<1>1. ASSUME NEW c, FinishPair(c)
      PROVE  /\ scanning_left' \in BOOLEAN /\ final_turn' \in BOOLEAN
             /\ stopped_since' \in BOOLEAN
  BY <1>1, Zenon DEF Booleans, FinishPair, RestartRound
<1>2. ASSUME NEW c, Judge(c)
      PROVE  /\ scanning_left' \in BOOLEAN /\ final_turn' \in BOOLEAN
             /\ stopped_since' \in BOOLEAN
  BY <1>1, <1>2, Zenon DEF Booleans, Judge
<1>3. QED
  BY <1>2, Zenon DEF Booleans, TurnFails, RestartRound

\* So does every step.
LEMMA BooleansStep ==
  ASSUME Shape, Booleans, [Next]_vars
  PROVE  Booleans'
<1> USE DEF Booleans
<1>1. ASSUME NEW seen \in BOOLEAN, TickIdle(seen) PROVE Booleans'
  BY <1>1, Zenon DEF TickIdle, roundVars, scoreVars, futureVars, envVars, serverVars, missVars
<1>2. CASE ObstacleHolds
  BY <1>2, Zenon DEF ObstacleHolds, scoreVars, futureVars, envVars, serverVars, missVars
<1>3. ASSUME NEW in_time \in BOOLEAN, NEW obeyed \in BOOLEAN, TickUnsafe(in_time, obeyed)
      PROVE  Booleans'
  BY <1>3, Zenon
  DEF TickUnsafe, CancelFails, CancelEnds, roundVars, clockVars, scoreVars, serverVars
<1>4. ASSUME NEW in_time \in BOOLEAN, NEW obeyed \in BOOLEAN, Halt(in_time, obeyed)
      PROVE  Booleans'
  BY <1>4, Zenon DEF Halt, CancelFails, CancelEnds, clockVars, scoreVars, serverVars
<1>5. ASSUME NEW stopped \in BOOLEAN, TickWaitingStop(stopped) PROVE Booleans'
  BY <1>5, Zenon
  DEF TickWaitingStop, roundVars, scoreVars, futureVars, envVars, serverVars, missVars
<1>6. CASE StopHolds
  BY <1>6, Zenon
  DEF StopHolds, SendSpin, AlreadyThere, SendGoal, BeginEvaluation, CompleteRecovery,
      clockVars, scoreVars, futureVars, serverVars, missVars
<1>7. CASE TickWaitingGoal
  <2>1. CASE TurnFails
    BY <1>7, <2>1, TurnFailsBooleans, Zenon
    DEF TickWaitingGoal, TurnFails, scoreVars, envVars, serverVars, missVars
  <2>2. CASE ~TurnFails
    BY <1>7, <2>2, Zenon
    DEF TickWaitingGoal, roundVars, clockVars, scoreVars, envVars, serverVars, missVars
  <2>3. QED
    BY <2>1, <2>2
<1>8. CASE TickTurning
  <2>1. CASE TurnFails
    BY <1>8, <2>1, TurnFailsBooleans, Zenon
    DEF TickTurning, TurnFails, scoreVars, envVars, serverVars, missVars
  <2>2. CASE ~TurnFails
    BY <1>8, <2>2, Zenon
    DEF TickTurning, CompleteRecovery, BeginEvaluation, scoreVars, envVars, serverVars,
        missVars
  <2>3. QED
    BY <2>1, <2>2
<1>9. ASSUME NEW obstacle \in BOOLEAN, NEW echo \in BOOLEAN, NEW distance \in Distances,
             NEW held \in BOOLEAN, NEW timed_out \in BOOLEAN,
             TickEvaluating(obstacle, echo, distance, held, timed_out)
      PROVE  Booleans'
  <2>1. /\ scanning_left' \in BOOLEAN /\ final_turn' \in BOOLEAN
        /\ stopped_since' \in BOOLEAN
    <3>1. CASE \E c \in Candidates : c.offset = target_offset /\ Judge(c)
      BY <3>1, TurnFailsBooleans, Zenon
    <3>2. CASE UNCHANGED <<phase, roundVars, stopped_since>>
      BY <3>2, Zenon DEF roundVars
    <3>3. QED
      BY <1>9, <3>1, <3>2, VerdictJudged
  <2>2. QED
    BY <1>9, <2>1, Zenon DEF TickEvaluating, futureVars, envVars, serverVars, missVars
<1>10. CASE RetryElapses
  BY <1>10, Zenon
  DEF RetryElapses, RestartRound, scoreVars, futureVars, envVars, serverVars, missVars
<1>11. CASE SpinAnswered \/ SpinEnds \/ AnswerArrives \/ ResultArrives
  <2>1. UNCHANGED nodeVars /\ stray' = stray /\ answered' \in BOOLEAN /\ concluded' \in BOOLEAN
    BY <1>11, Zenon DEF SpinAnswered, SpinEnds, AnswerArrives, ResultArrives, missVars
  <2>2. QED
    BY <2>1, Zenon DEF nodeVars, roundVars, clockVars, scoreVars, futureVars
<1>12. CASE StrayTurns \/ OthersDrive \/ NavigationBegins \/ NavigationEnds
  <2>1. UNCHANGED <<nodeVars, serverVars>> /\ stray' \in BOOLEAN
    BY <1>12, Zenon
    DEF StrayTurns, OthersDrive, NavigationBegins, NavigationEnds, envVars, missVars
  <2>2. QED
    BY <2>1, Zenon DEF nodeVars, roundVars, clockVars, scoreVars, futureVars, serverVars
<1>13. CASE UNCHANGED vars
  BY <1>13, ZenonT(30)
  DEF vars, nodeVars, roundVars, clockVars, scoreVars, futureVars, envVars, serverVars,
      missVars
<1>14. QED
  BY <1>1, <1>2, <1>3, <1>4, <1>5, <1>6, <1>7, <1>8, <1>9, <1>10, <1>11, <1>12, <1>13
  DEF Next, AnyTickEvaluating

\* Whatever the Spin server, the network and the tree do, every variable of the
\* node keeps its shape and the index of the range stays within ranges_.
THEOREM TypeCorrect == Spec => []TypeOK
<1>1. Init => Booleans
  BY Zenon DEF Init, Booleans
<1>2. Init => Shape
  BY ScanAssumption DEF Init, Shape, Phases, Offsets, Headings, Candidates, NoCandidate
<1>3. TypeOK /\ [Next]_vars => TypeOK'
  BY TypeParts, ShapeStep, BooleansStep DEF TypeOK, Booleans, Shape
<1>4. QED
  BY <1>1, <1>2, <1>3, TypeParts, PTL DEF Spec

-----------------------------------------------------------------------------
(* The inductive invariant. *)

\* What the candidates and the target have to do with each other, whatever
\* became of the goals: once the left side has its verdict it is one of the
\* present range, a final turn has a clear candidate, and a turn under way is
\* the one the round calls for.
RoundInv ==
  /\ active <=> phase # "idle"
  /\ ~scanning_left => left.offset = CurrentRange
  /\ final_turn => \E c \in {left, right} : c.clear /\ c.offset = target_offset
  /\ phase \in {"waiting_goal", "turning", "evaluating"} => target_offset = SpinTarget
  /\ phase = "evaluating" => ~final_turn

\* How the node's futures and the server's goal go with the phase, as long as
\* every cancel stopped what it should.
InStep ==
  /\ ~stray
  /\ tree # "ticking" => ~active
  /\ Live => phase \in {"waiting_goal", "turning"}
  /\ spin_goal = IF phase = "turning" THEN "current" ELSE "none"
  /\ phase = "waiting_goal" => send_goal_future
  /\ phase = "turning" => spin \in {"running", "succeeded", "failed"}
  /\ phase \in {"waiting_goal", "turning"} /\ spin = "succeeded" => heading = target_offset
  /\ phase = "evaluating" => heading = target_offset

ScanInv ==
  /\ Booleans /\ Shape
  /\ RoundInv
  /\ answered => spin \notin {"none", "sent"}
  /\ concluded => spin \in {"succeeded", "failed"}
  /\ cancels = "heeded" => InStep

\* The scan begins idle.
LEMMA ScanInit == Init => ScanInv
<1>1. Init => Booleans
  BY Zenon DEF Init, Booleans
<1>2. Init => Shape
  BY ScanAssumption DEF Init, Shape, Phases, Offsets, Headings, Candidates, NoCandidate
<1>3. Init => RoundInv /\ InStep
  BY DEF Init, RoundInv, InStep, Live
<1>4. QED
  BY <1>1, <1>2, <1>3 DEF ScanInv, Init

\* A verdict keeps the round in order, given that it is about the target.
LEMMA JudgeRound ==
  ASSUME Shape, RoundInv, phase \in {"waiting_goal", "turning", "evaluating"}, ~final_turn,
         NEW c \in Candidates, c.offset = target_offset, Judge(c), active' = active
  PROVE  RoundInv' /\ phase' \in {"waiting_stop", "waiting_retry"}
<1>1. target_offset = IF scanning_left THEN CurrentRange ELSE -CurrentRange
  BY DEF RoundInv, SpinTarget
<1>2. CASE scanning_left
  BY <1>1, <1>2 DEF Judge, RoundInv, CurrentRange
<1>3. CASE ~scanning_left /\ (left.clear \/ c.clear)
  <2>1. /\ left' = left /\ right' = c /\ target_offset' = ChosenOffset /\ final_turn' = TRUE
        /\ phase' = "waiting_stop" /\ range_index' = range_index
        /\ scanning_left' = scanning_left
    BY <1>3 DEF Judge, FinishPair, EitherClear
  <2>2. \E d \in {left', right'} : d.clear /\ d.offset = ChosenOffset
    BY <1>3, <2>1 DEF ChosenOffset
  <2>3. QED
    BY <1>3, <2>1, <2>2 DEF RoundInv, CurrentRange
<1>4. CASE ~scanning_left /\ ~left.clear /\ ~c.clear
  BY <1>4 DEF Judge, FinishPair, EitherClear, RestartRound, NextRange, RoundInv
<1>5. QED
  BY <1>2, <1>3, <1>4

\* A failed turn leaves the round in order.
LEMMA TurnFailsRound ==
  ASSUME Shape, RoundInv, phase \in {"waiting_goal", "turning"}, TurnFails
  PROVE  RoundInv' /\ phase' \in {"waiting_stop", "waiting_retry"}
<1>1. active' = active
  BY DEF TurnFails
<1>2. CASE final_turn
  BY <1>1, <1>2 DEF TurnFails, RestartRound, NextRange, RoundInv
<1>3. CASE ~final_turn
  <2> DEFINE blocked == [NoCandidate EXCEPT !.offset = target_offset]
  <2>1. blocked \in Candidates /\ blocked.offset = target_offset
    BY DEF NoCandidate, Candidates, Shape
  <2>2. Judge(blocked)
    BY <1>3 DEF TurnFails
  <2>3. QED
    BY <1>1, <1>3, <2>1, <2>2, JudgeRound
<1>4. QED
  BY <1>2, <1>3

\* A step that leaves the verdicts alone, and may give a final turn up.
LEMMA RoundKept ==
  ASSUME RoundInv,
         UNCHANGED <<range_index, scanning_left, left, right>>,
         final_turn' => final_turn /\ target_offset' = target_offset,
         active' <=> phase' # "idle",
         phase' \in {"waiting_goal", "turning", "evaluating"} => target_offset' = SpinTarget',
         phase' = "evaluating" => ~final_turn'
  PROVE  RoundInv'
<1>1. ~scanning_left' => left'.offset = CurrentRange'
  BY DEF RoundInv, CurrentRange
<1>2. final_turn' => \E c \in {left', right'} : c.clear /\ c.offset = target_offset'
  BY DEF RoundInv
<1>3. QED
  BY <1>1, <1>2, Zenon DEF RoundInv

\* So does every step.
LEMMA RoundStep ==
  ASSUME ScanInv, [Next]_vars
  PROVE  RoundInv'
<1> USE DEF ScanInv
<1>1. ASSUME NEW seen \in BOOLEAN, TickIdle(seen) PROVE RoundInv'
  BY <1>1 DEF TickIdle, roundVars, RoundInv, CurrentRange, SpinTarget
<1>2. CASE ObstacleHolds
  BY <1>2 DEF ObstacleHolds, RoundInv
<1>3. ASSUME NEW in_time \in BOOLEAN, NEW obeyed \in BOOLEAN, TickUnsafe(in_time, obeyed)
      PROVE  RoundInv'
  BY <1>3 DEF TickUnsafe, roundVars, RoundInv, CurrentRange, SpinTarget
<1>4. ASSUME NEW in_time \in BOOLEAN, NEW obeyed \in BOOLEAN, Halt(in_time, obeyed)
      PROVE  RoundInv'
  <2>1. UNCHANGED <<range_index, scanning_left, left, right, target_offset>>
    BY <1>4 DEF Halt
  <2>2. CASE UNCHANGED <<phase, active, final_turn>>
    BY <2>1, <2>2 DEF RoundInv, CurrentRange, SpinTarget
  <2>3. CASE phase' = "idle" /\ active' = FALSE /\ final_turn' = FALSE
    BY <2>1, <2>3, RoundKept
  <2>4. QED
    BY <1>4, <2>2, <2>3 DEF Halt
<1>5. ASSUME NEW stopped \in BOOLEAN, TickWaitingStop(stopped) PROVE RoundInv'
  BY <1>5 DEF TickWaitingStop, roundVars, RoundInv, CurrentRange, SpinTarget
<1>6. CASE StopHolds
  <2>1. UNCHANGED <<range_index, scanning_left, left, right>> /\ target_offset' = SpinTarget
    BY <1>6 DEF StopHolds, SendSpin
  <2>2. active /\ (final_turn => target_offset' = target_offset)
    BY <1>6, <2>1 DEF StopHolds, SpinTarget
  <2>3. CASE final_turn' = final_turn /\ active' = active /\ phase' = "waiting_goal"
    <3>1. target_offset' = SpinTarget'
      BY <2>1, <2>3 DEF SpinTarget, CurrentRange
    <3>2. QED
      BY <2>1, <2>2, <2>3, <3>1, RoundKept
  <2>4. CASE ~final_turn /\ final_turn' = final_turn /\ active' = active
             /\ phase' = "evaluating"
    <3>1. target_offset' = SpinTarget'
      BY <2>1, <2>4 DEF SpinTarget, CurrentRange
    <3>2. QED
      BY <2>1, <2>2, <2>4, <3>1, RoundKept
  <2>5. CASE final_turn' = FALSE /\ active' = FALSE /\ phase' = "idle"
    BY <2>1, <2>5, RoundKept
  <2>6. QED
    BY <1>6, <2>3, <2>4, <2>5
    DEF StopHolds, SendSpin, AlreadyThere, SendGoal, BeginEvaluation, CompleteRecovery
<1>7. CASE TickWaitingGoal
  <2>1. CASE TurnFails
    BY <1>7, <2>1, TurnFailsRound DEF TickWaitingGoal
  <2>2. CASE ~TurnFails
    <3>1. /\ UNCHANGED <<active, roundVars>> /\ phase = "waiting_goal" /\ phase' = "turning"
      BY <1>7, <2>2 DEF TickWaitingGoal
    <3>2. target_offset' = SpinTarget'
      BY <3>1 DEF RoundInv, roundVars, SpinTarget, CurrentRange
    <3>3. active' <=> phase' # "idle"
      BY <3>1 DEF RoundInv
    <3>4. QED
      BY <3>1, <3>2, <3>3, RoundKept DEF roundVars
  <2>3. QED
    BY <2>1, <2>2
<1>8. CASE TickTurning
  <2>1. CASE TurnFails
    BY <1>8, <2>1, TurnFailsRound DEF TickTurning
  <2>2. CASE ~TurnFails
    <3>1. UNCHANGED <<range_index, scanning_left, target_offset, left, right>>
      BY <1>8, <2>2 DEF TickTurning
    <3>2. CASE final_turn' = FALSE /\ active' = FALSE /\ phase' = "idle"
      BY <3>1, <3>2, RoundKept
    <3>3. CASE ~final_turn /\ final_turn' = final_turn /\ active' = active /\ active
               /\ phase = "turning" /\ phase' = "evaluating"
      <4>1. target_offset' = SpinTarget'
        BY <3>1, <3>3 DEF RoundInv, SpinTarget, CurrentRange
      <4>2. QED
        BY <3>1, <3>3, <4>1, RoundKept
    <3>4. QED
      BY <1>8, <2>2, <3>2, <3>3 DEF TickTurning, CompleteRecovery, BeginEvaluation
  <2>3. QED
    BY <2>1, <2>2
<1>9. ASSUME NEW obstacle \in BOOLEAN, NEW echo \in BOOLEAN, NEW distance \in Distances,
             NEW held \in BOOLEAN, NEW timed_out \in BOOLEAN,
             TickEvaluating(obstacle, echo, distance, held, timed_out)
      PROVE  RoundInv'
  <2>1. phase = "evaluating" /\ active' = active /\ ~final_turn
    BY <1>9 DEF TickEvaluating, RoundInv
  <2>2. CASE \E c \in Candidates : c.offset = target_offset /\ Judge(c)
    BY <2>1, <2>2, JudgeRound
  <2>3. CASE UNCHANGED <<phase, roundVars, stopped_since>>
    BY <2>1, <2>3 DEF roundVars, RoundInv, CurrentRange, SpinTarget
  <2>4. QED
    BY <1>9, <2>2, <2>3, VerdictJudged
<1>10. CASE RetryElapses
  BY <1>10 DEF RetryElapses, RestartRound, RoundInv
<1>11. CASE UNCHANGED nodeVars
  BY <1>11 DEF nodeVars, roundVars, RoundInv, CurrentRange, SpinTarget
<1>12. QED
  BY <1>1, <1>2, <1>3, <1>4, <1>5, <1>6, <1>7, <1>8, <1>9, <1>10, <1>11
  DEF Next, AnyTickEvaluating, SpinAnswered, SpinEnds, AnswerArrives, ResultArrives,
      StrayTurns, OthersDrive, NavigationBegins, NavigationEnds, vars

\* What the client knows of a goal follows the server.
LEMMA KnowledgeStep ==
  ASSUME ScanInv, [Next]_vars
  PROVE  /\ answered' => spin' \notin {"none", "sent"}
         /\ concluded' => spin' \in {"succeeded", "failed"}
<1>1. CASE UNCHANGED serverVars
  BY <1>1 DEF ScanInv, serverVars
<1>2. CASE SpinAnswered \/ SpinEnds \/ AnswerArrives \/ ResultArrives
  BY <1>2 DEF ScanInv, SpinAnswered, SpinEnds, AnswerArrives, ResultArrives
<1>3. CASE spin' \in {"none", "sent"} /\ answered' = FALSE /\ concluded' = FALSE
  BY <1>3
<1>4. CASE \E in_time, obeyed \in BOOLEAN : TickUnsafe(in_time, obeyed) \/ Halt(in_time, obeyed)
  BY <1>1, <1>3, <1>4 DEF TickUnsafe, Halt, CancelFails, CancelEnds
<1>5. CASE StopHolds
  BY <1>1, <1>3, <1>5 DEF StopHolds, SendSpin, AlreadyThere, SendGoal
<1>6. QED
  BY ZenonT(60), <1>1, <1>2, <1>4, <1>5
  DEF Next, TickIdle, ObstacleHolds, TickWaitingStop, TickWaitingGoal, TickTurning,
      AnyTickEvaluating, TickEvaluating, RetryElapses, StrayTurns, OthersDrive,
      NavigationBegins, NavigationEnds, vars, envVars, serverVars

\* A cancel that was in time and obeyed leaves no goal behind.
LEMMA CancelStops ==
  ASSUME ScanInv, InStep, NEW in_time \in BOOLEAN, NEW obeyed \in BOOLEAN,
         answered => in_time, CancelEnds(in_time, obeyed), cancels' = "heeded"
  PROVE  ~stray' /\ spin_goal' = "none" /\ spin' = "none"
<1>1. CASE ~Live
  BY <1>1 DEF InStep, CancelEnds
<1>2. CASE Live
  <2>1. in_time /\ obeyed
    BY <1>2 DEF CancelEnds
  <2>2. CancelHandle(in_time) = "current"
    BY <1>2, <2>1 DEF InStep, CancelHandle, Live
  <2>3. QED
    BY <2>1, <2>2 DEF InStep, CancelEnds
<1>3. QED
  BY <1>1, <1>2

\* A step of the scan that sends no goal and leaves the server alone.
LEMMA InStepWaits ==
  ASSUME InStep, UNCHANGED <<spin, stray, tree>>, ~Live, spin_goal' = "none",
         phase' \notin {"waiting_goal", "turning"},
         phase' = "evaluating" => heading' = target_offset',
         active' => active \/ tree = "ticking"
  PROVE  InStep'
BY DEF InStep, Live

\* Every step keeps node, server and heading together.
LEMMA InStepStep ==
  ASSUME ScanInv, [Next]_vars, cancels' = "heeded"
  PROVE  InStep'
<1> USE DEF ScanInv
<1>1. cancels = "heeded" /\ InStep
  BY ZenonT(60)
     DEF Next, TickIdle, ObstacleHolds, TickUnsafe, Halt, CancelFails, CancelEnds,
         TickWaitingStop, StopHolds, TickWaitingGoal, TickTurning, AnyTickEvaluating,
         TickEvaluating, RetryElapses, SpinAnswered, SpinEnds, AnswerArrives, ResultArrives,
         StrayTurns, OthersDrive, NavigationBegins, NavigationEnds, vars, envVars, missVars
<1>2. ASSUME NEW seen \in BOOLEAN, TickIdle(seen) PROVE InStep'
  BY <1>1, <1>2 DEF TickIdle, envVars, serverVars, missVars, futureVars, roundVars, InStep, Live
<1>3. CASE ObstacleHolds
  BY <1>1, <1>3
  DEF ObstacleHolds, envVars, serverVars, missVars, futureVars, InStep, Live, RoundInv
<1>4. ASSUME NEW in_time \in BOOLEAN, NEW obeyed \in BOOLEAN,
             TickUnsafe(in_time, obeyed) \/ Halt(in_time, obeyed)
      PROVE  InStep'
  <2>1. CancelEnds(in_time, obeyed) /\ (answered => in_time)
    BY <1>4, <1>1 DEF TickUnsafe, Halt, CancelFails
  <2>2. ~stray' /\ spin_goal' = "none" /\ spin' = "none"
    BY <1>1, <2>1, CancelStops
  <2>3. \/ phase' = "waiting_inputs" /\ tree' = "ticking"
        \/ phase' = "idle" /\ active' = FALSE
    BY <1>4, <1>1 DEF TickUnsafe, Halt, CancelFails
  <2>4. QED
    BY <2>2, <2>3 DEF InStep, Live
<1>5. ASSUME NEW stopped \in BOOLEAN, TickWaitingStop(stopped) PROVE InStep'
  BY <1>1, <1>5 DEF TickWaitingStop, envVars, serverVars, missVars, futureVars, InStep, Live
<1>6. CASE StopHolds
  <2>1. CASE SendGoal
    BY <1>1, <1>6, <2>1 DEF StopHolds, SendGoal, missVars, InStep, Live
  <2>2. CASE AlreadyThere
    <3>1. ~Live /\ UNCHANGED <<spin, stray, tree, heading, spin_goal>> /\ spin_goal = "none"
      BY <1>1, <1>6, <2>2
      DEF StopHolds, AlreadyThere, futureVars, serverVars, missVars, InStep
    <3>2. /\ heading = target_offset' /\ (active' => active)
          /\ phase' \in {"evaluating", "idle"}
      BY <1>6, <2>2
      DEF StopHolds, SendSpin, AlreadyThere, BeginEvaluation, CompleteRecovery
    <3>3. QED
      BY <1>1, <3>1, <3>2, InStepWaits
  <2>3. QED
    BY <1>6, <2>1, <2>2 DEF StopHolds, SendSpin
<1>7. CASE TickWaitingGoal
  <2>1. CASE spin = "rejected" /\ TurnFails
    <3>1. UNCHANGED <<spin, stray, tree, active>> /\ ~Live /\ spin_goal' = "none"
      BY <1>7, <2>1 DEF TickWaitingGoal, TurnFails, envVars, serverVars, missVars, Live
    <3>2. phase' \in {"waiting_stop", "waiting_retry"}
      BY <1>7, <2>1, TurnFailsRound DEF TickWaitingGoal
    <3>3. QED
      BY <1>1, <3>1, <3>2, InStepWaits
  <2>2. CASE ~(spin = "rejected" /\ TurnFails)
    BY <1>1, <1>7, <2>2
    DEF TickWaitingGoal, roundVars, envVars, serverVars, missVars, InStep, Live, Shape
  <2>3. QED
    BY <2>1, <2>2
<1>8. CASE TickTurning
  <2>1. /\ UNCHANGED <<spin, stray, tree, heading>> /\ ~Live /\ spin_goal' = "none"
        /\ active /\ phase = "turning"
    BY <1>8 DEF TickTurning, TurnFails, envVars, serverVars, missVars, Live
  <2>2. CASE TurnFails
    <3>1. phase' \in {"waiting_stop", "waiting_retry"}
      BY <2>1, <2>2, TurnFailsRound
    <3>2. QED
      BY <1>1, <2>1, <3>1, InStepWaits
  <2>3. CASE ~TurnFails
    <3>1. spin = "succeeded" /\ phase' \in {"idle", "evaluating"}
          /\ target_offset' = target_offset
      BY <1>8, <2>3 DEF TickTurning, TurnSucceeded, CompleteRecovery, BeginEvaluation
    <3>2. heading = target_offset
      BY <1>1, <2>1, <3>1 DEF InStep
    <3>3. QED
      BY <1>1, <2>1, <3>1, <3>2, InStepWaits
  <2>4. QED
    BY <2>2, <2>3
<1>9. ASSUME NEW obstacle \in BOOLEAN, NEW echo \in BOOLEAN, NEW distance \in Distances,
             NEW held \in BOOLEAN, NEW timed_out \in BOOLEAN,
             TickEvaluating(obstacle, echo, distance, held, timed_out)
      PROVE  InStep'
  <2>1. /\ UNCHANGED <<spin, stray, tree, heading, active, spin_goal>>
        /\ phase = "evaluating" /\ ~final_turn
    BY <1>9 DEF TickEvaluating, futureVars, envVars, serverVars, missVars, RoundInv
  <2>2. ~Live /\ spin_goal = "none" /\ heading = target_offset
    BY <1>1, <2>1 DEF InStep
  <2>3. \/ phase' \in {"waiting_stop", "waiting_retry"}
        \/ phase' = "evaluating" /\ target_offset' = target_offset
    BY <1>9, <2>1, VerdictJudged, JudgeRound DEF roundVars
  <2>4. QED
    BY <1>1, <2>1, <2>2, <2>3, InStepWaits
<1>10. CASE RetryElapses
  BY <1>1, <1>10, InStepWaits
  DEF RetryElapses, envVars, serverVars, missVars, futureVars, InStep
<1>11. CASE SpinAnswered \/ SpinEnds
  BY <1>1, <1>11
  DEF SpinAnswered, SpinEnds, nodeVars, roundVars, futureVars, missVars, InStep, Live
<1>12. CASE AnswerArrives \/ ResultArrives
  BY <1>1, <1>12
  DEF AnswerArrives, ResultArrives, nodeVars, roundVars, futureVars, missVars, InStep, Live
<1>13. CASE StrayTurns \/ OthersDrive
  BY <1>1, <1>13 DEF StrayTurns, OthersDrive, InStep
<1>14. CASE NavigationBegins \/ NavigationEnds
  BY <1>1, <1>14
  DEF NavigationBegins, NavigationEnds, nodeVars, roundVars, futureVars, serverVars, missVars,
      InStep, Live
<1>15. CASE UNCHANGED vars
  BY <1>1, <1>15
  DEF vars, nodeVars, roundVars, futureVars, envVars, serverVars, missVars, InStep, Live
<1>16. QED
  BY <1>2, <1>3, <1>4, <1>5, <1>6, <1>7, <1>8, <1>9, <1>10, <1>11, <1>12, <1>13, <1>14, <1>15
  DEF Next, AnyTickEvaluating

\* Every reachable state has the types, a round in order and, as long as every
\* cancel stopped what it should, node and server in step.
THEOREM ScanInvariant == Spec => []ScanInv
<1>1. ScanInv /\ [Next]_vars => ScanInv'
  BY ShapeStep, BooleansStep, RoundStep, KnowledgeStep, InStepStep DEF ScanInv
<1>2. QED
  BY ScanInit, <1>1, PTL DEF Spec

-----------------------------------------------------------------------------
\* A direction is judged only while the car faces it, as long as every cancel
\* stopped what it should.
THEOREM JudgedWhereItLooks == Spec => []EvaluationFacesTarget
<1>1. ScanInv => EvaluationFacesTarget
  BY DEF ScanInv, InStep, EvaluationFacesTarget
<1>2. QED
  BY <1>1, ScanInvariant, PTL

\* No goal of the scan turns the car unless the scan waits for it, as long as
\* every cancel stopped what it should.
THEOREM NoneForgotten == Spec => []NoForgottenTurn
<1>1. ScanInv => NoForgottenTurn
  BY DEF ScanInv, InStep, RoundInv, NoForgottenTurn
<1>2. QED
  BY <1>1, ScanInvariant, PTL

\* The scan ends an encounter only facing a direction of the round that was
\* found clear, as long as every cancel stopped what it should.
THEOREM ClearSideFaced == Spec => RecoveryFacesClearSide
<1> DEFINE Ends == active /\ ~active' /\ tree' = "ticking" /\ cancels = "heeded"
           Faces == \E c \in {left, right} : c.clear /\ c.offset = heading'
<1>1. ASSUME ScanInv, [Next]_vars, Ends PROVE Faces
  <2>1. \/ StopHolds /\ AlreadyThere /\ final_turn
        \/ TickTurning /\ TurnSucceeded /\ final_turn
    BY <1>1, ZenonT(60)
    DEF Next, TickIdle, ObstacleHolds, TickUnsafe, Halt, TickWaitingStop, StopHolds, SendSpin,
        SendGoal, AlreadyThere, BeginEvaluation, TickWaitingGoal, TickTurning, TurnFails,
        AnyTickEvaluating, TickEvaluating, RetryElapses, SpinAnswered, SpinEnds,
        AnswerArrives, ResultArrives, StrayTurns, OthersDrive, NavigationBegins,
        NavigationEnds, vars, nodeVars
  <2>2. heading' = heading /\ heading = target_offset
    BY <1>1, <2>1
    DEF StopHolds, AlreadyThere, SpinTarget, TickTurning, TurnSucceeded, ScanInv, InStep
  <2>3. QED
    BY <1>1, <2>1, <2>2 DEF ScanInv, RoundInv
<1>2. ScanInv /\ [Next]_vars => [Ends => Faces]_vars
  BY <1>1
<1>3. QED
  BY <1>2, ScanInvariant, PTL DEF Spec, RecoveryFacesClearSide

\* A clear verdict does not widen the range.
LEMMA ClearKeepsRange ==
  ASSUME FoundClear, ~final_turn
  PROVE  range_index' = range_index
<1>1. \E c : c.clear /\ Judge(c)
  <2>1. PICK obstacle \in BOOLEAN, echo \in BOOLEAN, timed_out \in BOOLEAN,
             distance \in Distances :
          TickEvaluating(obstacle, echo, distance, TRUE, timed_out)
    BY DEF FoundClear
  <2> DEFINE score == IF obstacle THEN 0
                      ELSE IF echo /\ distance > evaluation_score THEN distance
                      ELSE evaluation_score
             no_echo == ~obstacle /\ (no_echo_seen \/ ~echo)
             verdict == [clear |-> TRUE, score |-> IF no_echo THEN Infinite ELSE score,
                         offset |-> target_offset]
  <2>2. Judge(verdict)
    BY <2>1 DEF TickEvaluating
  <2>3. QED
    BY <2>2
<1>2. QED
  BY <1>1 DEF Judge, FinishPair, EitherClear

\* The range grows only after both sides of the present one had their turn and
\* neither was clear, or the side found clear could not be faced again, whatever
\* cancels missed.
THEOREM WidensWhenBlocked == Spec => WidensOnlyWhenBlocked
<1> DEFINE Widens == active /\ range_index' > range_index
           Blocked == \/ final_turn /\ spin # "succeeded"
                      \/ /\ ~scanning_left /\ ~left.clear /\ left.offset = CurrentRange
                         /\ target_offset = -CurrentRange /\ ~FoundClear
<1>1. ASSUME ScanInv, Widens, ~final_turn, NEW c, Judge(c),
             phase \in {"waiting_goal", "turning", "evaluating"}
      PROVE  Blocked
  <2>1. ~scanning_left /\ ~left.clear
    BY <1>1 DEF Judge, FinishPair, EitherClear, ScanInv, Shape
  <2>2. left.offset = CurrentRange /\ target_offset = -CurrentRange
    BY <1>1, <2>1 DEF ScanInv, RoundInv, SpinTarget
  <2>3. ~FoundClear
    BY <1>1, ClearKeepsRange DEF ScanInv, Shape
  <2>4. QED
    BY <2>1, <2>2, <2>3
<1>2. ASSUME ScanInv, Widens, [Next]_vars
      PROVE  /\ phase \in {"waiting_goal", "turning", "evaluating"}
             /\ \/ final_turn /\ spin # "succeeded"
                \/ ~final_turn /\ \E c : Judge(c)
  <2>1. ~UNCHANGED range_index /\ range_index' # 0
    BY <1>2, ScanAssumption DEF ScanInv, Shape
  <2>2. \/ TickWaitingGoal /\ spin = "rejected" /\ TurnFails
        \/ TickTurning /\ ~TurnSucceeded /\ TurnFails
        \/ AnyTickEvaluating
    BY <1>2, <2>1, Zenon
    DEF Next, TickIdle, ObstacleHolds, TickUnsafe, Halt, TickWaitingStop, StopHolds, SendSpin,
        TickWaitingGoal, TickTurning, RetryElapses, SpinAnswered, SpinEnds, AnswerArrives,
        ResultArrives, StrayTurns, OthersDrive, NavigationBegins, NavigationEnds, vars,
        nodeVars, roundVars
  <2>3. CASE TurnFails /\ (TickWaitingGoal \/ TickTurning) /\ spin # "succeeded"
    <3>1. phase \in {"waiting_goal", "turning"}
      BY <2>3 DEF TickWaitingGoal, TickTurning
    <3>2. final_turn \/ \E c : Judge(c)
      BY <2>3, Zenon DEF TurnFails
    <3>3. QED
      BY <2>3, <3>1, <3>2
  <2>4. CASE AnyTickEvaluating
    <3>1. \/ \E c \in Candidates : c.offset = target_offset /\ Judge(c)
          \/ UNCHANGED <<phase, roundVars, stopped_since>>
      BY <1>2, <2>4, VerdictJudged DEF AnyTickEvaluating, ScanInv
    <3>2. phase = "evaluating"
      BY <2>4, Zenon DEF AnyTickEvaluating, TickEvaluating
    <3>3. ~final_turn
      BY <1>2, <3>2 DEF ScanInv, RoundInv
    <3>4. \E c : Judge(c)
      BY <2>1, <3>1, Zenon DEF roundVars
    <3>5. QED
      BY <3>2, <3>3, <3>4
  <2>5. QED
    BY <2>2, <2>3, <2>4 DEF TurnSucceeded
<1>3. ScanInv /\ [Next]_vars => [Widens => Blocked]_vars
  BY <1>1, <1>2
<1>4. QED
  BY <1>3, ScanInvariant, PTL DEF Spec, WidensOnlyWhenBlocked

=============================================================================
