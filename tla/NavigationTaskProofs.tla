-------------------------- MODULE NavigationTaskProofs --------------------------
(***************************************************************************)
(* Proofs about NavigationTask, for any number of tasks.                    *)
(*                                                                         *)
(* They are about an operator who runs, e-stops and resumes; cancel and     *)
(* reset break these properties, as the runs NavigationCancel and           *)
(* NavigationReset show.                                                    *)
(***************************************************************************)
EXTENDS NavigationTask, TLAPS

\* No thread or callback works for g any more and Nav2 is done with its goal.
Quiet(g) ==
  /\ sender[g] \in {"none", "done"}
  /\ response[g] \in {"none", "done"}
  /\ result[g] \in {"none", "done"}
  /\ ~Live(g)

Untouched(g) ==
  /\ sender[g] = "none" /\ response[g] = "none" /\ result[g] = "none"
  /\ goal[g] = "none"

\* How far sender, callbacks and goal of one task may be apart.
InStep(g) ==
  /\ sender[g] \in {"none", "waiting"} => goal[g] = "none"
  /\ sender[g] # "done" => response[g] = "none"
  /\ sender[g] = "done" /\ response[g] = "none" => goal[g] = "none"
  /\ response[g] # "dropped" /\ result[g] # "dropped"
  /\ response[g] \in {"checked", "cleared", "done"} => Answered(g)
  /\ response[g] = "cleared" => goal[g] # "unsent"
  /\ response[g] # "done" => result[g] = "none"
  /\ response[g] = "done" /\ result[g] # "pending" => ~Live(g)
  /\ result[g] = "pending" => goal_handle = g
  /\ result[g] = "checked" => Ended(g)

\* The two halves of TypeOK, for the two provers.
Booleans ==
  pause_requested \in BOOLEAN /\ deciding \in BOOLEAN /\ clearing \in BOOLEAN
  /\ nav2_up \in BOOLEAN

Shape ==
  /\ generation \in 0 .. MaxGeneration
  /\ nav_state \in {"idle"} \cup ACTIVE_NAVIGATION_STATES \cup FinalStates
  /\ goal_handle \in 0 .. MaxGeneration
  /\ goal_request_future \in 0 .. MaxGeneration
  /\ sender \in [Tasks -> {"none", "waiting", "sent", "done"}]
  /\ response \in [Tasks -> {"none", "pending", "checked", "cleared", "done", "dropped"}]
  /\ result \in [Tasks -> {"none", "pending", "checked", "done", "dropped"}]
  /\ stopper \in {"idle", "deciding", "cancelled", "killed"}
  /\ goal \in [Tasks -> {"none", "requested", "accepted", "rejected", "unsent", "succeeded",
                         "canceled", "aborted", "lost", "died"}]
  /\ cancels \subseteq Tasks

\* The inductive invariant: only the current task is at work, its parts are in
\* step, and nothing is at work unless the state is an active one.
PauseInv ==
  /\ Shape
  /\ ~deciding /\ ~clearing /\ stopper = "idle"
  /\ \A g \in Tasks : g > generation => Untouched(g)
  /\ \A g \in Tasks : g < generation => Quiet(g)
  /\ nav_state \notin ACTIVE_NAVIGATION_STATES => \A g \in Tasks : Quiet(g)
  /\ \A g \in Tasks : InStep(g)
  /\ pause_requested => nav_state \in {"pausing", "paused"}
  /\ nav_state # "canceling"
  /\ PauseReachesNav2

-----------------------------------------------------------------------------
\* The page begins idle and Nav2 without a goal.
LEMMA PauseInit ==
  ASSUME Operations \subseteq {"pause"}
  PROVE  Init => PauseInv
<1>1. Init => Shape
  BY NavigationTaskAssumption
  DEF Init, Shape, Tasks, NoTask, ACTIVE_NAVIGATION_STATES, FinalStates
<1>2. QED
  BY <1>1
  DEF Init, PauseInv, Untouched, Quiet, Live, InStep, PauseReachesNav2, Answered, Ended,
      ACTIVE_NAVIGATION_STATES, Tasks, NoTask

\* What is at work is the current task, and then it is the only one.
LEMMA OnlyCurrent ==
  ASSUME PauseInv, NEW g \in Tasks, ~Quiet(g)
  PROVE  /\ g = generation
         /\ nav_state \in ACTIVE_NAVIGATION_STATES
         /\ \A h \in Tasks \ {g} : Quiet(h)
  BY DEF PauseInv, Shape, Untouched, Quiet, Live, Tasks

\* The routes of the operator keep the invariant.
LEMMA RoutesKeep ==
  ASSUME Operations \subseteq {"pause"}, PauseInv, Routes
  PROVE  PauseInv'
<1>1. CASE Navigate
  <2>1. /\ generation + 1 \in Tasks
        /\ \A g \in Tasks : Quiet(g)
        /\ Untouched(generation + 1)
    BY <1>1, NavigationTaskAssumption
    DEF Navigate, Room, Reserved, PauseInv, Shape, Tasks
  <2>2. Shape'
    BY <1>1, <2>1
    DEF Navigate, PauseInv, Shape, ACTIVE_NAVIGATION_STATES, Tasks, routeVars, nav2Vars,
        callbackVars
  <2>3. \A g \in Tasks : InStep(g)'
    BY <1>1, <2>1
    DEF Navigate, PauseInv, Shape, Untouched, InStep, Answered, Live, Ended, nav2Vars,
        callbackVars
  <2>4. /\ \A g \in Tasks : g > generation' => Untouched(g)'
        /\ \A g \in Tasks : g < generation' => Quiet(g)'
    BY <1>1, <2>1
    DEF Navigate, PauseInv, Shape, Untouched, Quiet, Live, Tasks, nav2Vars, callbackVars
  <2>5. QED
    BY <1>1, <2>2, <2>3, <2>4
    DEF Navigate, PauseInv, PauseReachesNav2, ACTIVE_NAVIGATION_STATES, routeVars
<1>2. CASE PauseNavigation
  BY <1>2, NavigationTaskAssumption
  DEF PauseNavigation, Handles, PauseInv, Shape, Untouched, Quiet, Live, InStep,
      PauseReachesNav2, Answered, Ended, ACTIVE_NAVIGATION_STATES, FinalStates, Tasks,
      NoTask, routeVars, callbackVars
<1>3. QED
  BY <1>1, <1>2
  DEF Routes, PauseInv, CancelNavigation, CancelDecides, ClearCheck, ClearResets,
      StopBegins, StopDecides, StopKillsNav2, StopResets

\* So does the thread that sends the goal.
LEMMA SenderKeeps ==
  ASSUME PauseInv, NEW g \in Tasks, Sender(g)
  PROVE  PauseInv'
<1>1. CASE SendGoal(g)
  BY <1>1
  DEF SendGoal, PauseInv, Shape, Untouched, Quiet, Live, InStep, PauseReachesNav2,
      Answered, Ended, ACTIVE_NAVIGATION_STATES, FinalStates, Tasks, bridgeVars,
      callbackVars, routeVars
<1>2. CASE SendFails(g)
  <2>1. /\ sender[g] = "waiting"
        /\ sender' = [sender EXCEPT ![g] = "done"]
        /\ nav_state' = IF pause_requested THEN "paused" ELSE "failed"
        /\ goal_handle' = NoTask /\ goal_request_future' = NoTask
        /\ UNCHANGED <<generation, pause_requested, callbackVars, routeVars, nav2Vars>>
    BY <1>2, OnlyCurrent DEF SendFails, NavigationError, Quiet
  <2>2. \A h \in Tasks \ {g} : Quiet(h)
    BY <2>1, OnlyCurrent DEF Quiet
  <2>3. Shape'
    BY <2>1, NavigationTaskAssumption
    DEF PauseInv, Shape, FinalStates, NoTask, callbackVars, routeVars, nav2Vars
  <2>4. \A h \in Tasks : Quiet(h)' /\ InStep(h)'
    BY <2>1, <2>2
    DEF PauseInv, Shape, Quiet, InStep, Live, Answered, Ended, callbackVars, nav2Vars
  <2>5. QED
    BY <2>1, <2>3, <2>4
    DEF PauseInv, Shape, Untouched, Quiet, Live, PauseReachesNav2, callbackVars, routeVars,
        nav2Vars
<1>3. CASE StoreFuture(g)
  BY <1>3
  DEF StoreFuture, PauseInv, Shape, Untouched, Quiet, Live, InStep, PauseReachesNav2,
      Answered, Ended, ACTIVE_NAVIGATION_STATES, FinalStates, Tasks, routeVars, nav2Vars
<1>4. QED
  BY <1>1, <1>2, <1>3 DEF Sender

\* So does the callback of Nav2's answer.
LEMMA ResponseKeeps ==
  ASSUME PauseInv, NEW g \in Tasks, Response(g)
  PROVE  PauseInv'
<1>1. CASE ResponseCheck(g)
  BY <1>1
  DEF ResponseCheck, PauseInv, Shape, Untouched, Quiet, Live, InStep, PauseReachesNav2,
      Answered, Ended, ACTIVE_NAVIGATION_STATES, FinalStates, Tasks, bridgeVars,
      routeVars, nav2Vars
<1>2. CASE ResponseFails(g)
  <2>1. /\ response[g] = "checked" /\ goal[g] = "unsent"
        /\ response' = [response EXCEPT ![g] = "done"]
        /\ nav_state' = IF pause_requested THEN "paused" ELSE "failed"
        /\ goal_handle' = NoTask /\ goal_request_future' = NoTask
        /\ UNCHANGED <<generation, pause_requested, sender, result, routeVars, nav2Vars>>
    BY <1>2, OnlyCurrent DEF ResponseFails, NavigationError, Quiet
  <2>2. \A h \in Tasks \ {g} : Quiet(h)
    BY <2>1, OnlyCurrent DEF Quiet
  <2>3. Shape'
    BY <2>1, NavigationTaskAssumption
    DEF PauseInv, Shape, FinalStates, NoTask, routeVars, nav2Vars
  <2>4. \A h \in Tasks : Quiet(h)' /\ InStep(h)'
    BY <2>1, <2>2
    DEF PauseInv, Shape, Quiet, InStep, Live, Answered, Ended, nav2Vars
  <2>5. QED
    BY <2>1, <2>3, <2>4
    DEF PauseInv, Shape, Untouched, Quiet, Live, PauseReachesNav2, routeVars, nav2Vars
<1>3. CASE ResponseClear(g)
  BY <1>3, NavigationTaskAssumption
  DEF ResponseClear, PauseInv, Shape, Untouched, Quiet, Live, InStep, PauseReachesNav2,
      Answered, Ended, ACTIVE_NAVIGATION_STATES, FinalStates, Tasks, NoTask, routeVars,
      nav2Vars
<1>4. CASE ResponseRejected(g)
  BY <1>4
  DEF ResponseRejected, PauseInv, Shape, Untouched, Quiet, Live, InStep,
      PauseReachesNav2, Answered, Ended, ACTIVE_NAVIGATION_STATES, FinalStates, Tasks,
      routeVars, nav2Vars
<1>5. CASE ResponseAccepted(g)
  <2>1. /\ response[g] = "cleared" /\ sender[g] = "done" /\ Answered(g)
        /\ goal[g] \notin {"rejected", "unsent"}
        /\ response' = [response EXCEPT ![g] = "done"]
        /\ result' = [result EXCEPT ![g] = "pending"]
        /\ goal_handle' = g
        /\ UNCHANGED <<generation, goal_request_future, pause_requested, sender, routeVars,
                       goal, nav2_up>>
    BY <1>5 DEF ResponseAccepted, PauseInv, InStep
  <2>2. /\ g = generation
        /\ nav_state \in ACTIVE_NAVIGATION_STATES
        /\ \A h \in Tasks \ {g} : Quiet(h)
    BY <2>1, OnlyCurrent DEF Quiet
  <2>3. \/ nav_state = "pausing" /\ nav_state' = "pausing" /\ cancels' = cancels \cup {g}
        \/ ~pause_requested /\ nav_state' = "running" /\ cancels' = cancels
    BY <1>5, <2>2 DEF ResponseAccepted, PauseInv, ACTIVE_NAVIGATION_STATES
  <2>4. Shape'
    <3>1. cancels' \subseteq Tasks /\ nav_state' \in ACTIVE_NAVIGATION_STATES
      BY <2>3 DEF PauseInv, Shape, ACTIVE_NAVIGATION_STATES
    <3>2. QED
      BY <2>1, <3>1, NavigationTaskAssumption DEF PauseInv, Shape, Tasks, routeVars
  <2>5. \A h \in Tasks : InStep(h)'
    BY <2>1, <2>2 DEF PauseInv, Shape, Quiet, InStep, Live, Answered, Ended
  <2>6. \A h \in Tasks \ {g} : Quiet(h)'
    BY <2>1, <2>2 DEF PauseInv, Shape, Quiet, Live
  <2>7. PauseReachesNav2'
    BY <2>1, <2>3, <2>6 DEF PauseReachesNav2, Quiet, Live
  <2>8. QED
    BY <2>1, <2>2, <2>3, <2>4, <2>5, <2>6, <2>7
    DEF PauseInv, Shape, Untouched, ACTIVE_NAVIGATION_STATES, Tasks, routeVars
<1>6. QED
  BY <1>1, <1>2, <1>3, <1>4, <1>5 DEF Response

\* So does the callback of the result.
LEMMA ResultKeeps ==
  ASSUME PauseInv, NEW g \in Tasks, Result(g)
  PROVE  PauseInv'
<1>1. CASE ResultCheck(g)
  BY <1>1
  DEF ResultCheck, PauseInv, Shape, Untouched, Quiet, Live, InStep, PauseReachesNav2,
      Answered, Ended, ACTIVE_NAVIGATION_STATES, FinalStates, Tasks, bridgeVars,
      routeVars, nav2Vars
<1>2. ASSUME ResultRecorded(g) \/ ResultUnread(g)
      PROVE  PauseInv'
  <2>1. /\ result[g] = "checked" /\ Ended(g)
        /\ result' = [result EXCEPT ![g] = "done"]
        /\ goal_handle' = NoTask /\ goal_request_future' = NoTask
        /\ UNCHANGED <<generation, sender, response, routeVars, nav2Vars>>
    BY <1>2, OnlyCurrent
    DEF ResultRecorded, ResultUnread, NavigationError, PauseInv, InStep, Quiet
  <2>2. /\ nav_state' \in FinalStates
        /\ pause_requested' => nav_state' = "paused"
    BY <1>2, OnlyCurrent
    DEF ResultRecorded, ResultUnread, NavigationError, Outcomes, Quiet, FinalStates
  <2>3. \A h \in Tasks \ {g} : Quiet(h)
    BY <2>1, OnlyCurrent DEF Quiet
  <2>4. Shape'
    BY <2>1, <2>2, NavigationTaskAssumption
    DEF PauseInv, Shape, NoTask, routeVars, nav2Vars
  <2>5. \A h \in Tasks : Quiet(h)' /\ InStep(h)'
    BY <2>1, <2>3
    DEF PauseInv, Shape, InStep, Quiet, Live, Ended, Answered, nav2Vars
  <2>6. QED
    BY <2>1, <2>2, <2>4, <2>5
    DEF PauseInv, Shape, Untouched, PauseReachesNav2, Quiet, Live, FinalStates, routeVars,
        nav2Vars
<1>3. QED
  BY <1>1, <1>2 DEF Result

\* So does Nav2.
LEMMA Nav2Keeps ==
  ASSUME PauseInv, NEW g \in Tasks, Nav2(g)
  PROVE  PauseInv'
<1>1. CASE Nav2Answers(g)
  BY <1>1
  DEF Nav2Answers, PauseInv, Shape, Untouched, Quiet, Live, InStep, PauseReachesNav2,
      Answered, Ended, ACTIVE_NAVIGATION_STATES, FinalStates, Tasks, bridgeVars,
      callbackVars, routeVars
<1>2. CASE Nav2Ends(g)
  BY <1>2
  DEF Nav2Ends, PauseInv, Shape, Untouched, Quiet, Live, InStep, PauseReachesNav2,
      Answered, Ended, ACTIVE_NAVIGATION_STATES, FinalStates, Tasks, bridgeVars,
      callbackVars, routeVars
<1>3. CASE Nav2Cancels(g)
  BY <1>3
  DEF Nav2Cancels, PauseInv, Shape, Untouched, Quiet, Live, InStep, PauseReachesNav2,
      Answered, Ended, ACTIVE_NAVIGATION_STATES, FinalStates, Tasks, bridgeVars,
      callbackVars, routeVars
<1>4. QED
  BY <1>1, <1>2, <1>3 DEF Nav2

\* So does every step.
LEMMA PauseStep ==
  ASSUME Operations \subseteq {"pause"}, PauseInv, [Next]_vars
  PROVE  PauseInv'
<1>1. CASE Nav2Starts
  BY <1>1
  DEF Nav2Starts, PauseInv, Shape, Untouched, Quiet, Live, InStep, PauseReachesNav2,
      Answered, Ended, bridgeVars, callbackVars, routeVars
<1>2. CASE UNCHANGED vars
  BY <1>2
  DEF vars, PauseInv, Shape, Untouched, Quiet, Live, InStep, PauseReachesNav2, Answered,
      Ended, bridgeVars, callbackVars, routeVars, nav2Vars
<1>3. QED
  BY <1>1, <1>2, RoutesKeep, SenderKeeps, ResponseKeeps, ResultKeeps, Nav2Keeps DEF Next

\* Where e-stops are the only interruption, PauseInv holds in every state.
THEOREM PauseInvariant ==
  ASSUME Operations \subseteq {"pause"}
  PROVE  Spec => []PauseInv
<1>1. Init => PauseInv
  BY PauseInit
<1>2. PauseInv /\ [Next]_vars => PauseInv'
  BY PauseStep
<1>3. QED
  BY <1>1, <1>2, PTL DEF Spec

-----------------------------------------------------------------------------
\* Every e-stop reaches the goal Nav2 is working on, whenever it comes.
THEOREM PauseDelivered ==
  ASSUME Operations \subseteq {"pause"}
  PROVE  Spec => []PauseReachesNav2
<1>1. PauseInv => PauseReachesNav2
  BY DEF PauseInv
<1>2. QED
  BY <1>1, PauseInvariant, PTL

\* A page without an active task means that Nav2 has no goal, now or soon.
THEOREM Parked ==
  ASSUME Operations \subseteq {"pause"}
  PROVE  Spec => []InactiveMeansParked
<1>1. PauseInv => InactiveMeansParked
  BY DEF PauseInv, InactiveMeansParked, Quiet, Pending
<1>2. QED
  BY <1>1, PauseInvariant, PTL

\* Pausing and resuming never puts two goals into Nav2.
THEOREM SingleGoal ==
  ASSUME Operations \subseteq {"pause"}
  PROVE  Spec => []OneGoalAtATime
<1>1. ASSUME PauseInv, NEW g \in Tasks, Pending(g)
      PROVE  g = generation
  BY <1>1 DEF PauseInv, Shape, Untouched, Quiet, Pending, Live, Tasks
<1>2. PauseInv => OneGoalAtATime
  BY <1>1 DEF OneGoalAtATime
<1>3. QED
  BY <1>2, PauseInvariant, PTL

\* No late callback and no late pause rewrites how a task ended.
THEOREM FinalKept ==
  ASSUME Operations \subseteq {"pause"}
  PROVE  Spec => FinalStateIsKept
<1> DEFINE Kept == (nav_state \in FinalStates /\ nav_state' # nav_state)
                     => generation' # generation
<1>1. PauseInv /\ [Next]_vars => [Kept]_vars
  <2> SUFFICES ASSUME PauseInv, Next, nav_state \in FinalStates, nav_state' # nav_state
               PROVE  generation' # generation
    OBVIOUS
  <2>1. \A g \in Tasks : Quiet(g)
    BY DEF PauseInv, FinalStates, ACTIVE_NAVIGATION_STATES
  <2>2. ASSUME NEW g \in Tasks, Sender(g) \/ Response(g) \/ Result(g) \/ Nav2(g)
        PROVE  nav_state' = nav_state
    BY <2>1, <2>2
    DEF Quiet, Live, Sender, SendGoal, SendFails, StoreFuture, Response, ResponseCheck,
        ResponseFails, ResponseClear, ResponseRejected, ResponseAccepted, Result,
        ResultCheck, ResultRecorded, ResultUnread, Nav2, Nav2Answers, Nav2Ends,
        Nav2Cancels, bridgeVars
  <2>3. Routes \/ Nav2Starts
    BY <2>2 DEF Next
  <2>4. Navigate \/ PauseNavigation \/ Nav2Starts
    BY <2>3
    DEF PauseInv, Routes, CancelNavigation, CancelDecides, ClearCheck, ClearResets,
        StopBegins, StopDecides, StopKillsNav2, StopResets
  <2>5. CASE Navigate
    BY <2>5 DEF Navigate, PauseInv, Shape
  <2>6. CASE PauseNavigation
    BY <2>6 DEF PauseNavigation, FinalStates
  <2>7. CASE Nav2Starts
    BY <2>7 DEF Nav2Starts, bridgeVars
  <2>8. QED
    BY <2>4, <2>5, <2>6, <2>7
<1>2. QED
  BY <1>1, PauseInvariant, PTL DEF Spec, FinalStateIsKept

-----------------------------------------------------------------------------
(* Type correctness, for every operator: a reset always finds a generation. *)

Bounded == generation + Reserved \in 0 .. MaxGeneration

\* Every step keeps the flags Boolean.
LEMMA BooleansStep ==
  ASSUME Booleans, [Next]_vars
  PROVE  Booleans'
<1>1. CASE Routes
  <2>1. CASE Navigate \/ PauseNavigation \/ ClearCheck \/ ClearResets
    BY <2>1, Zenon
    DEF Booleans, Navigate, PauseNavigation, ClearCheck, ClearResets, ResetNavigation,
        routeVars, nav2Vars, bridgeVars
  <2>2. CASE CancelNavigation \/ CancelDecides
    BY <2>2, Zenon
    DEF Booleans, CancelNavigation, CancelDecides, CancelSection, nav2Vars
  <2>3. CASE StopBegins \/ StopDecides \/ StopKillsNav2 \/ StopResets
    BY <2>3, Zenon
    DEF Booleans, StopBegins, StopDecides, StopKillsNav2, StopResets, CancelSection,
        ResetNavigation, nav2Vars, bridgeVars
  <2>4. QED
    BY <1>1, <2>1, <2>2, <2>3 DEF Routes
<1>2. CASE \E g \in Tasks : Sender(g) \/ Response(g) \/ Result(g) \/ Nav2(g)
  <2>1. PICK g \in Tasks : Sender(g) \/ Response(g) \/ Result(g) \/ Nav2(g)
    BY <1>2
  <2>2. CASE Sender(g)
    BY <2>2, Zenon
    DEF Booleans, Sender, SendGoal, SendFails, StoreFuture, NavigationError, bridgeVars,
        routeVars, nav2Vars
  <2>3. CASE Response(g)
    BY <2>3, Zenon
    DEF Booleans, Response, ResponseCheck, ResponseFails, ResponseClear, ResponseRejected,
        ResponseAccepted, NavigationError, bridgeVars, routeVars, nav2Vars
  <2>4. CASE Result(g)
    BY <2>4, Zenon
    DEF Booleans, Result, ResultCheck, ResultRecorded, ResultUnread, NavigationError,
        bridgeVars, routeVars, nav2Vars
  <2>5. CASE Nav2(g)
    BY <2>5, Zenon
    DEF Booleans, Nav2, Nav2Answers, Nav2Ends, Nav2Cancels, bridgeVars, routeVars
  <2>6. QED
    BY <2>1, <2>2, <2>3, <2>4, <2>5
<1>3. CASE Nav2Starts
  BY <1>3, Zenon DEF Booleans, Nav2Starts, bridgeVars, routeVars
<1>4. CASE UNCHANGED vars
  BY <1>4, Zenon DEF Booleans, vars, bridgeVars, routeVars, nav2Vars
<1>5. QED
  BY <1>1, <1>2, <1>3, <1>4 DEF Next

\* Every step keeps the shape of the other variables.
LEMMA ShapeStep ==
  ASSUME Shape, Bounded, [Next]_vars
  PROVE  Shape' /\ Bounded'
<1> USE NavigationTaskAssumption DEF Shape, Bounded, Reserved
<1>1. CASE Routes
  <2>1. CASE Navigate
    BY <2>1
    DEF Navigate, Room, Tasks, ACTIVE_NAVIGATION_STATES, callbackVars, routeVars, nav2Vars
  <2>2. CASE PauseNavigation
    BY <2>2
    DEF PauseNavigation, Handles, NoTask, Tasks, ACTIVE_NAVIGATION_STATES, callbackVars,
        routeVars
  <2>3. CASE CancelNavigation
    BY <2>3
    DEF CancelNavigation, CancelSection, Handles, NoTask, Tasks, ACTIVE_NAVIGATION_STATES,
        callbackVars
  <2>4. CASE CancelDecides \/ StopDecides
    BY <2>4 DEF CancelDecides, StopDecides, FinalStates, callbackVars, nav2Vars
  <2>5. CASE ClearCheck
    BY <2>5 DEF ClearCheck, Room, bridgeVars, callbackVars, nav2Vars
  <2>6. CASE ClearResets \/ StopResets
    BY <2>6 DEF ClearResets, StopResets, ResetNavigation, NoTask, callbackVars, nav2Vars
  <2>7. CASE StopBegins
    BY <2>7
    DEF StopBegins, Room, CancelSection, Handles, NoTask, Tasks, ACTIVE_NAVIGATION_STATES,
        callbackVars
  <2>8. CASE StopKillsNav2
    BY <2>8 DEF StopKillsNav2, bridgeVars, callbackVars
  <2>9. QED
    BY <1>1, <2>1, <2>2, <2>3, <2>4, <2>5, <2>6, <2>7, <2>8 DEF Routes
<1>2. ASSUME NEW g \in Tasks, Sender(g) \/ Response(g) \/ Result(g) \/ Nav2(g)
      PROVE  Shape' /\ Bounded'
  <2> HIDE DEF Bounded, Reserved
  <2>0. g \in 0 .. MaxGeneration
    BY DEF Tasks
  <2>1. CASE Sender(g)
    <3>1. CASE SendGoal(g)
      BY <3>1 DEF SendGoal, Bounded, Reserved, bridgeVars, callbackVars, routeVars
    <3>2. CASE SendFails(g)
      <4>1. /\ nav_state' \in {nav_state} \cup FinalStates
            /\ goal_handle' \in {goal_handle, 0}
            /\ goal_request_future' \in {goal_request_future, 0}
            /\ generation' = generation
        BY <3>2 DEF SendFails, NavigationError, NoTask, FinalStates, bridgeVars
      <4>2. QED
        BY <3>2, <4>1
        DEF SendFails, Bounded, Reserved, callbackVars, routeVars, nav2Vars
    <3>3. CASE StoreFuture(g)
      BY <2>0, <3>3 DEF StoreFuture, Bounded, Reserved, routeVars, nav2Vars
    <3>4. QED
      BY <2>1, <3>1, <3>2, <3>3 DEF Sender
  <2>2. CASE ResponseAccepted(g)
    <3>1. /\ cancels' \subseteq Tasks
          /\ nav_state' \in {nav_state} \cup ACTIVE_NAVIGATION_STATES
      BY <2>2 DEF ResponseAccepted, ACTIVE_NAVIGATION_STATES
    <3>2. QED
      BY <2>0, <2>2, <3>1 DEF ResponseAccepted, Bounded, Reserved, routeVars
  <2>3. CASE ResponseCheck(g) \/ ResponseFails(g) \/ ResponseClear(g) \/ ResponseRejected(g)
    BY <2>3
    DEF ResponseCheck, ResponseFails, ResponseClear, ResponseRejected, NavigationError,
        NoTask, FinalStates, Bounded, Reserved, bridgeVars, routeVars, nav2Vars
  <2>4. CASE Result(g)
    BY <2>4
    DEF Result, ResultCheck, ResultRecorded, ResultUnread, Outcomes, NavigationError,
        NoTask, FinalStates, Bounded, Reserved, bridgeVars, routeVars, nav2Vars
  <2>5. CASE Nav2(g)
    BY <2>5
    DEF Nav2, Nav2Answers, Nav2Ends, Nav2Cancels, Bounded, Reserved, bridgeVars, callbackVars,
        routeVars
  <2>6. QED
    BY <1>2, <2>1, <2>2, <2>3, <2>4, <2>5 DEF Response
<1>3. CASE Nav2Starts
  BY <1>3 DEF Nav2Starts, bridgeVars, callbackVars, routeVars
<1>4. CASE UNCHANGED vars
  BY <1>4 DEF vars, bridgeVars, callbackVars, routeVars, nav2Vars
<1>5. QED
  BY <1>1, <1>2, <1>3, <1>4 DEF Next

\* Every variable keeps its shape whatever the operator does; in particular
\* every reset that has begun still has a generation to move to.
THEOREM TypeCorrect == Spec => []TypeOK
<1>1. Init => Booleans
  BY Zenon DEF Init, Booleans
<1>2. Init => Shape /\ Bounded
  BY NavigationTaskAssumption DEF Init, Shape, Bounded, Reserved, NoTask
<1>3. Booleans /\ Shape /\ Bounded /\ [Next]_vars => (Booleans /\ Shape /\ Bounded)'
  BY BooleansStep, ShapeStep
<1>4. Booleans /\ Shape => TypeOK
  BY Zenon DEF Booleans, Shape, TypeOK
<1>5. QED
  BY <1>1, <1>2, <1>3, <1>4, PTL DEF Spec
=============================================================================
