----------------------------- MODULE NavigationTask -----------------------------
(***************************************************************************)
(* The navigation task of the web bridge: the handlers that start, pause,   *)
(* cancel and reset it, the two callbacks Nav2 answers with, and Nav2.      *)
(*                                                                         *)
(* Requests run in the web server's thread pool and callbacks in a          *)
(* multi-threaded executor, so the unit of a step is one section under      *)
(* _lock, or one call between two sections.  A task is named by the         *)
(* generation its callbacks carry.  Progress counters are left out: of      *)
(* them only "were any waypoints missed" decides a state, and it is free.   *)
(***************************************************************************)
EXTENDS Integers

CONSTANTS
  Operations,    \* what the operator uses besides run and resume
  MaxGeneration  \* bound: tasks and resets of one behaviour

ASSUME NavigationTaskAssumption ==
  /\ Operations \subseteq {"pause", "cancel", "clear", "stop"}
  /\ MaxGeneration \in Nat \ {0}

VARIABLES
  \* the fields of the bridge guarded by _lock
  generation,          \* _navigation_generation
  nav_state,           \* _nav["state"]
  goal_handle,         \* the task whose handle _goal_handle holds, or NoTask
  goal_request_future, \* the task whose future is stored, or NoTask
  pause_requested,
  \* where the threads stand, by the task they work for
  sender,              \* navigate()
  response,            \* _goal_response
  result,              \* _navigation_result
  \* where the handlers of more than one section stand
  deciding,            \* a cancel between its two sections
  clearing,            \* clear_goals between its check and its reset
  stopper,             \* stop_navigation
  \* Nav2, outside the repository
  goal,                \* what became of each task's goal
  cancels,             \* cancel requests on their way
  nav2_up

bridgeVars == <<generation, nav_state, goal_handle, goal_request_future, pause_requested>>
callbackVars == <<response, result>>
routeVars == <<deciding, clearing, stopper>>
nav2Vars == <<goal, cancels, nav2_up>>
vars == <<bridgeVars, sender, callbackVars, routeVars, nav2Vars>>

Tasks == 1 .. MaxGeneration
NoTask == 0

ACTIVE_NAVIGATION_STATES == {"sending", "running", "pausing", "canceling"}
UNFINISHED_NAVIGATION_STATES == ACTIVE_NAVIGATION_STATES \cup {"paused"}
FinalStates == {"succeeded", "partial", "canceled", "failed", "rejected", "paused"}

Init ==
  /\ generation = 0 /\ nav_state = "idle"
  /\ goal_handle = NoTask /\ goal_request_future = NoTask
  /\ pause_requested = FALSE
  /\ sender = [g \in Tasks |-> "none"]
  /\ response = [g \in Tasks |-> "none"]
  /\ result = [g \in Tasks |-> "none"]
  /\ deciding = FALSE /\ clearing = FALSE /\ stopper = "idle"
  /\ goal = [g \in Tasks |-> "none"]
  /\ cancels = {}
  /\ nav2_up = TRUE

-----------------------------------------------------------------------------
(* navigate() *)

\* A reset that has begun always finds a generation left for it.
Reserved ==
  (IF clearing THEN 1 ELSE 0) + (IF stopper # "idle" THEN 1 ELSE 0)

Room == generation + Reserved < MaxGeneration

\* Mutant: a paused task may be resumed before Nav2 has let go of the goal.
NavigateWhilePausing ==
  /\ nav_state \notin {"sending", "running"}
  /\ Room
  /\ generation' = generation + 1
  /\ nav_state' = "sending"
  /\ pause_requested' = FALSE
  /\ sender' = [sender EXCEPT ![generation + 1] = "waiting"]
  /\ UNCHANGED <<goal_handle, goal_request_future, callbackVars, routeVars, nav2Vars>>

Navigate ==
  /\ nav_state \notin ACTIVE_NAVIGATION_STATES
  /\ Room
  /\ generation' = generation + 1
  /\ nav_state' = "sending"
  /\ pause_requested' = FALSE
  /\ sender' = [sender EXCEPT ![generation + 1] = "waiting"]
  /\ UNCHANGED <<goal_handle, goal_request_future, callbackVars, routeVars, nav2Vars>>

\* The wait for the action server ends well and the goal leaves, whatever has
\* happened to the task meanwhile.
SendGoal(g) ==
  /\ sender[g] = "waiting"
  /\ nav2_up
  /\ sender' = [sender EXCEPT ![g] = "sent"]
  /\ goal' = [goal EXCEPT ![g] = "requested"]
  /\ UNCHANGED <<bridgeVars, callbackVars, routeVars, cancels, nav2_up>>

\* _navigation_error, fenced by the generation.
NavigationError(g) ==
  IF g # generation
  THEN UNCHANGED bridgeVars
  ELSE /\ goal_handle' = NoTask
       /\ goal_request_future' = NoTask
       /\ nav_state' = IF pause_requested THEN "paused" ELSE "failed"
       /\ UNCHANGED <<generation, pause_requested>>

\* Mutant: a server that never came up leaves the task as it was.
SendFailsQuietly(g) ==
  /\ sender[g] = "waiting"
  /\ sender' = [sender EXCEPT ![g] = "done"]
  /\ UNCHANGED <<bridgeVars, callbackVars, routeVars, nav2Vars>>

SendFails(g) ==
  /\ sender[g] = "waiting"
  /\ sender' = [sender EXCEPT ![g] = "done"]
  /\ NavigationError(g)
  /\ UNCHANGED <<callbackVars, routeVars, nav2Vars>>

\* The future is stored and, from here on, the response callback may run.
StoreFuture(g) ==
  /\ sender[g] = "sent"
  /\ sender' = [sender EXCEPT ![g] = "done"]
  /\ goal_request_future' = g
  /\ response' = [response EXCEPT ![g] = "pending"]
  /\ UNCHANGED <<generation, nav_state, goal_handle, pause_requested, result, routeVars,
                 nav2Vars>>

-----------------------------------------------------------------------------
(* _goal_response: three sections, only the first looks at the generation. *)

Answered(g) == goal[g] \notin {"none", "requested", "lost"}
Ended(g) == goal[g] \in {"succeeded", "canceled", "aborted"}

ResponseCheck(g) ==
  /\ response[g] = "pending" /\ Answered(g)
  /\ response' = [response EXCEPT ![g] = IF g = generation THEN "checked" ELSE "dropped"]
  /\ UNCHANGED <<bridgeVars, sender, result, routeVars, nav2Vars>>

ResponseFails(g) ==
  /\ response[g] = "checked" /\ goal[g] = "unsent"
  /\ response' = [response EXCEPT ![g] = "done"]
  /\ NavigationError(g)
  /\ UNCHANGED <<sender, result, routeVars, nav2Vars>>

ResponseClear(g) ==
  /\ response[g] = "checked" /\ goal[g] # "unsent"
  /\ response' = [response EXCEPT ![g] = "cleared"]
  /\ goal_request_future' = NoTask
  /\ UNCHANGED <<generation, nav_state, goal_handle, pause_requested, sender, result,
                 routeVars, nav2Vars>>

ResponseRejected(g) ==
  /\ response[g] = "cleared" /\ goal[g] = "rejected"
  /\ response' = [response EXCEPT ![g] = "done"]
  /\ nav_state' = IF pause_requested THEN "paused" ELSE "rejected"
  /\ UNCHANGED <<generation, goal_handle, goal_request_future, pause_requested, sender,
                 result, routeVars, nav2Vars>>

\* Mutant: only a cancel, not a pause, is remembered when the goal is accepted.
AcceptIgnoresPause(g) ==
  /\ response[g] = "cleared" /\ goal[g] # "rejected"
  /\ response' = [response EXCEPT ![g] = "done"]
  /\ result' = [result EXCEPT ![g] = "pending"]
  /\ goal_handle' = g
  /\ \/ /\ nav_state = "canceling"
        /\ cancels' = cancels \cup {g}
        /\ UNCHANGED nav_state
     \/ /\ nav_state # "canceling"
        /\ nav_state' = "running"
        /\ UNCHANGED cancels
  /\ UNCHANGED <<generation, goal_request_future, pause_requested, sender, routeVars, goal,
                 nav2_up>>

\* The handle is stored, a cancel or pause that came too early is passed on,
\* and the result callback is hooked.
ResponseAccepted(g) ==
  /\ response[g] = "cleared" /\ goal[g] # "rejected"
  /\ response' = [response EXCEPT ![g] = "done"]
  /\ result' = [result EXCEPT ![g] = "pending"]
  /\ goal_handle' = g
  /\ \/ /\ nav_state \in {"canceling", "pausing"}
        /\ cancels' = cancels \cup {g}
        /\ UNCHANGED nav_state
     \/ /\ nav_state \notin {"canceling", "pausing"}
        /\ nav_state' = "running"
        /\ UNCHANGED cancels
  /\ UNCHANGED <<generation, goal_request_future, pause_requested, sender, routeVars, goal,
                 nav2_up>>

-----------------------------------------------------------------------------
(* _navigation_result: the check of the generation, then the outcome. *)

ResultCheck(g) ==
  /\ result[g] = "pending" /\ Ended(g)
  /\ result' = [result EXCEPT ![g] = IF g = generation THEN "checked" ELSE "dropped"]
  /\ UNCHANGED <<bridgeVars, sender, response, routeVars, nav2Vars>>

\* The states an outcome may be recorded as; a success may have missed points.
Outcomes(g) ==
  IF goal[g] = "succeeded" THEN {"succeeded", "partial"}
  ELSE IF pause_requested THEN {"paused"}
  ELSE IF goal[g] = "canceled" THEN {"canceled"}
  ELSE {"failed"}

ResultRecorded(g) ==
  /\ result[g] = "checked"
  /\ result' = [result EXCEPT ![g] = "done"]
  /\ goal_handle' = NoTask
  /\ goal_request_future' = NoTask
  /\ nav_state' \in Outcomes(g)
  /\ pause_requested' = (nav_state' = "paused")
  /\ UNCHANGED <<generation, sender, response, routeVars, nav2Vars>>

\* The result could not be read, or was empty.
ResultUnread(g) ==
  /\ result[g] = "checked" /\ goal[g] = "aborted"
  /\ result' = [result EXCEPT ![g] = "done"]
  /\ NavigationError(g)
  /\ UNCHANGED <<sender, response, routeVars, nav2Vars>>

-----------------------------------------------------------------------------
(* pause_navigation, called by a granted e-stop. *)

Handles == {goal_handle} \ {NoTask}

\* Mutant: a task without a handle counts as paused at once, as for a cancel.
PauseWithoutHandle ==
  /\ "pause" \in Operations
  /\ nav_state \in {"sending", "running", "pausing"}
  /\ pause_requested' = TRUE
  /\ nav_state' = IF goal_handle = NoTask THEN "paused" ELSE "pausing"
  /\ cancels' = cancels \cup Handles
  /\ UNCHANGED <<generation, goal_handle, goal_request_future, sender, callbackVars,
                 routeVars, goal, nav2_up>>

\* Mutant: a finished task can be paused too.
PauseAnyTask ==
  /\ "pause" \in Operations
  /\ nav_state \notin {"idle", "paused", "canceling"}
  /\ pause_requested' = TRUE
  /\ nav_state' = "pausing"
  /\ cancels' = cancels \cup Handles
  /\ UNCHANGED <<generation, goal_handle, goal_request_future, sender, callbackVars,
                 routeVars, goal, nav2_up>>

\* Mutant: the pause waits for Nav2 without asking it to cancel.
PauseOnlyMarks ==
  /\ "pause" \in Operations
  /\ nav_state \in {"sending", "running", "pausing"}
  /\ pause_requested' = TRUE
  /\ nav_state' = "pausing"
  /\ UNCHANGED <<generation, goal_handle, goal_request_future, sender, callbackVars,
                 routeVars, nav2Vars>>

PauseNavigation ==
  /\ "pause" \in Operations
  /\ nav_state \in {"sending", "running", "pausing"}
  /\ pause_requested' = TRUE
  /\ nav_state' = "pausing"
  /\ cancels' = cancels \cup Handles
  /\ UNCHANGED <<generation, goal_handle, goal_request_future, sender, callbackVars,
                 routeVars, goal, nav2_up>>

-----------------------------------------------------------------------------
(* cancel_navigation: a section that looks, and one that decides. *)

Unfinished == nav_state \in UNFINISHED_NAVIGATION_STATES
NothingToCancel == goal_handle = NoTask /\ goal_request_future = NoTask

CancelSection ==
  /\ pause_requested' = (pause_requested /\ ~Unfinished)
  /\ nav_state' = IF Unfinished THEN "canceling" ELSE nav_state
  /\ cancels' = cancels \cup Handles
  /\ UNCHANGED <<generation, goal_handle, goal_request_future>>

CancelNavigation ==
  /\ "cancel" \in Operations
  /\ ~deciding
  /\ CancelSection
  /\ deciding' = (Unfinished /\ NothingToCancel)
  /\ UNCHANGED <<sender, callbackVars, clearing, stopper, goal, nav2_up>>

CancelDecides ==
  /\ deciding
  /\ deciding' = FALSE
  /\ nav_state' = "canceled"
  /\ UNCHANGED <<generation, goal_handle, goal_request_future, pause_requested, sender,
                 callbackVars, clearing, stopper, nav2Vars>>

-----------------------------------------------------------------------------
(* reset_navigation and the two routes that reach it. *)

ResetNavigation ==
  /\ generation' = generation + 1
  /\ goal_handle' = NoTask
  /\ goal_request_future' = NoTask
  /\ pause_requested' = FALSE
  /\ nav_state' = "idle"

\* clear_goals, and remove_last_goal when it removes the only one.
ClearCheck ==
  /\ "clear" \in Operations
  /\ ~clearing /\ ~Unfinished
  /\ Room
  /\ clearing' = TRUE
  /\ UNCHANGED <<bridgeVars, sender, callbackVars, deciding, stopper, nav2Vars>>

ClearResets ==
  /\ clearing
  /\ clearing' = FALSE
  /\ ResetNavigation
  /\ UNCHANGED <<sender, callbackVars, deciding, stopper, nav2Vars>>

StopBegins ==
  /\ "stop" \in Operations
  /\ stopper = "idle"
  /\ Room
  /\ CancelSection
  /\ stopper' = IF Unfinished /\ NothingToCancel THEN "deciding" ELSE "cancelled"
  /\ UNCHANGED <<sender, callbackVars, deciding, clearing, goal, nav2_up>>

StopDecides ==
  /\ stopper = "deciding"
  /\ stopper' = "cancelled"
  /\ nav_state' = "canceled"
  /\ UNCHANGED <<generation, goal_handle, goal_request_future, pause_requested, sender,
                 callbackVars, deciding, clearing, nav2Vars>>

\* processes.stop("navigation"): a goal Nav2 never answered will never be, an
\* accepted one will never end.
StopKillsNav2 ==
  /\ stopper = "cancelled"
  /\ stopper' = "killed"
  /\ nav2_up' = FALSE
  /\ goal' = [g \in Tasks |-> IF goal[g] = "requested" THEN "lost"
                              ELSE IF goal[g] = "accepted" THEN "died" ELSE goal[g]]
  /\ cancels' = {}
  /\ UNCHANGED <<bridgeVars, sender, callbackVars, deciding, clearing>>

StopResets ==
  /\ stopper = "killed"
  /\ stopper' = "idle"
  /\ ResetNavigation
  /\ UNCHANGED <<sender, callbackVars, deciding, clearing, nav2Vars>>

-----------------------------------------------------------------------------
(* Nav2, as the bridge sees it. *)

Nav2Answers(g) ==
  /\ goal[g] = "requested"
  /\ \E answer \in {"accepted", "rejected", "unsent"} : goal' = [goal EXCEPT ![g] = answer]
  /\ UNCHANGED <<bridgeVars, sender, callbackVars, routeVars, cancels, nav2_up>>

Nav2Ends(g) ==
  /\ goal[g] = "accepted"
  /\ \E outcome \in {"succeeded", "aborted"} : goal' = [goal EXCEPT ![g] = outcome]
  /\ UNCHANGED <<bridgeVars, sender, callbackVars, routeVars, cancels, nav2_up>>

\* A cancel request arrives; it is void when the goal has already ended.
Nav2Cancels(g) ==
  /\ g \in cancels
  /\ cancels' = cancels \ {g}
  /\ goal' = [goal EXCEPT ![g] = IF @ = "accepted" THEN "canceled" ELSE @]
  /\ UNCHANGED <<bridgeVars, sender, callbackVars, routeVars, nav2_up>>

Nav2Starts ==
  /\ ~nav2_up /\ stopper = "idle"
  /\ nav2_up' = TRUE
  /\ UNCHANGED <<bridgeVars, sender, callbackVars, routeVars, goal, cancels>>

-----------------------------------------------------------------------------
Sender(g) == SendGoal(g) \/ SendFails(g) \/ StoreFuture(g)

Response(g) ==
  \/ ResponseCheck(g) \/ ResponseFails(g) \/ ResponseClear(g)
  \/ ResponseRejected(g) \/ ResponseAccepted(g)

Result(g) == ResultCheck(g) \/ ResultRecorded(g) \/ ResultUnread(g)

Routes ==
  \/ Navigate \/ PauseNavigation
  \/ CancelNavigation \/ CancelDecides
  \/ ClearCheck \/ ClearResets
  \/ StopBegins \/ StopDecides \/ StopKillsNav2 \/ StopResets

Nav2(g) == Nav2Answers(g) \/ Nav2Ends(g) \/ Nav2Cancels(g)

Next ==
  \/ Routes
  \/ \E g \in Tasks : Sender(g) \/ Response(g) \/ Result(g) \/ Nav2(g)
  \/ Nav2Starts

\* A thread or callback that has begun goes on, and Nav2 answers a goal and
\* heeds a cancel.  No operator need act and no goal need end by itself.
Fairness ==
  /\ \A g \in Tasks :
       /\ WF_vars(Sender(g)) /\ WF_vars(Response(g)) /\ WF_vars(Result(g))
       /\ WF_vars(Nav2Answers(g)) /\ WF_vars(Nav2Cancels(g))
  /\ WF_vars(CancelDecides)
  /\ WF_vars(ClearResets)
  /\ WF_vars(StopDecides) /\ WF_vars(StopKillsNav2) /\ WF_vars(StopResets)

Spec == Init /\ [][Next]_vars
FairSpec == Spec /\ Fairness

-----------------------------------------------------------------------------
(* Properties. *)

\* The shape of every variable: names of states, of threads' positions and of
\* goals' fates, and generations within the bound.
TypeOK ==
  /\ generation \in 0 .. MaxGeneration
  /\ nav_state \in {"idle"} \cup ACTIVE_NAVIGATION_STATES \cup FinalStates
  /\ goal_handle \in 0 .. MaxGeneration
  /\ goal_request_future \in 0 .. MaxGeneration
  /\ pause_requested \in BOOLEAN
  /\ sender \in [Tasks -> {"none", "waiting", "sent", "done"}]
  /\ response \in [Tasks -> {"none", "pending", "checked", "cleared", "done", "dropped"}]
  /\ result \in [Tasks -> {"none", "pending", "checked", "done", "dropped"}]
  /\ deciding \in BOOLEAN /\ clearing \in BOOLEAN
  /\ stopper \in {"idle", "deciding", "cancelled", "killed"}
  /\ goal \in [Tasks -> {"none", "requested", "accepted", "rejected", "unsent", "succeeded",
                         "canceled", "aborted", "lost", "died"}]
  /\ cancels \subseteq Tasks
  /\ nav2_up \in BOOLEAN

\* Nav2 holds a goal it has not finished with, or is about to be sent one.
Live(g) == goal[g] \in {"requested", "accepted"}
Pending(g) == sender[g] \in {"waiting", "sent"} \/ Live(g)

\* When e-stops are all that interrupts a task, the robot never has two goals:
\* a resume waits until the paused goal is gone from Nav2.
OneGoalAtATime == \A g, h \in Tasks : Pending(g) /\ Pending(h) => g = h

\* When e-stops are all that interrupts a task, a page that shows no active
\* task tells the truth: no goal is running or on its way to Nav2.
InactiveMeansParked ==
  nav_state \notin ACTIVE_NAVIGATION_STATES => \A g \in Tasks : ~Pending(g)

\* An e-stop at any moment of the exchange with Nav2 reaches the goal: once the
\* accepted goal's callback is through, a paused task's goal has its cancel.
PauseReachesNav2 ==
  \A g \in Tasks :
    pause_requested /\ response[g] = "done" /\ goal[g] = "accepted" => g \in cancels

\* A task that ended, or was paused, keeps the state it ended in until the
\* operator starts another: no late callback or pause rewrites it.
FinalStateIsKept ==
  [][(nav_state \in FinalStates /\ nav_state' # nav_state)
       => generation' # generation]_vars

\* A pause is not left hanging: the task comes to a final state.
PausingEnds == nav_state = "pausing" ~> nav_state # "pausing"

\* Whatever the operator does, a task does not stay in "sending": its answer,
\* its failure, a cancel or a reset takes it on.
SendingEnds == nav_state = "sending" ~> nav_state # "sending"

\* cancel_navigation "cancels the current action": a task shown as canceled
\* does not go on to run.
CanceledTaskDoesNotRun ==
  [][nav_state = "canceled" => nav_state' # "running"]_vars

\* reset_navigation "makes old asynchronous callbacks ineffective and restores
\* the initial state": only a new task leaves "idle".
ResetSilencesCallbacks ==
  [][(nav_state = "idle" /\ nav_state' # "idle") => generation' # generation]_vars
=============================================================================
