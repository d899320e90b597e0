-------------------------------- MODULE GoalQueue --------------------------------
(***************************************************************************)
(* The queue of navigation goals and its progress: the page adds, removes   *)
(* and clears goals, runs the rest of the queue and resumes it after an     *)
(* e-stop; Nav2 drives along and reports feedback, which may arrive late.   *)
(* Every route looks at the state first, edits the goals later and tells    *)
(* the bridge later still: the page's handlers overlap.                     *)
(*                                                                         *)
(* That a goal is being sent, and which callback a reset silences, is the   *)
(* matter of NavigationTask: here a goal is accepted as it is sent.         *)
(***************************************************************************)
EXTENDS Integers, Sequences, FiniteSets

CONSTANTS
  MaxGoals, \* bound: goals added
  MaxRuns,  \* bound: runs and resumes
  MaxServed \* bound: routes served at once

ASSUME QueueAssumption == MaxGoals \in Nat /\ MaxRuns \in Nat /\ MaxServed \in Nat

Runs == 1..MaxRuns
NoNews == -1
NoRun == 0
Edits == {"add", "remove", "clear"}
Routes == Edits \cup {"run"}

VARIABLES
  goals,      \* self.goals: the number of each goal
  added,
  nav,        \* _nav; waypoints are counted from 0
  offset,     \* _waypoint_offset
  generation, \* _navigation_generation, resets not counted
  current,    \* the last navigate is not reset: its callbacks are heard
  pausing,    \* _pause_requested
  checked,    \* routes that have looked at the state and not acted
  plan,       \* what run or resume has read, its goals after its progress
  owed,       \* the number of goals that an edit has still to tell the bridge
  dropping,   \* navigation is being stopped, its goals are not yet dropped
  driving,    \* the run whose route Nav2 drives
  route, leg, \* that route, and where on it
  missed,     \* the legs it gave up
  feedback,   \* the newest feedback of each run that is still under way
  visited,    \* history: the goals reached
  joined,     \* history: the goals added while a run was served or a task under way
  untold,     \* history: the goals given up on a route whose result does not say so
  outran      \* history: what something under way counts was removed or reset

queueVars == <<goals, added, checked, plan, owed, dropping>>
navVars == <<nav, offset, generation, current, pausing>>
driveVars == <<driving, route, leg, missed, feedback, visited>>
pastVars == <<joined, untold, outran>>
goalVars == <<queueVars, navVars, driveVars, pastVars>>

ActiveStates == {"running", "pausing", "canceling"}
Unfinished == ActiveStates \cup {"paused"}

InitialNav == [state |-> "idle", current |-> 0, completed |-> 0, total |-> 0, missed |-> {}]

NoPlan == [goals |-> <<>>, completed |-> 0]

GoalInit ==
  /\ goals = <<>> /\ added = 0
  /\ nav = InitialNav
  /\ offset = 0 /\ generation = 0 /\ current = FALSE
  /\ pausing = FALSE
  /\ checked = {}
  /\ plan = NoPlan
  /\ owed = [r \in Edits |-> NoNews] /\ dropping = FALSE
  /\ driving = NoRun /\ route = <<>> /\ leg = 0 /\ missed = {}
  /\ feedback = [r \in Runs |-> NoNews]
  /\ visited = {}
  /\ joined = {} /\ untold = {} /\ outran = FALSE

\* No run or edit is half done.
Settled == "run" \notin checked /\ \A r \in Edits : owed[r] = NoNews

HasRead == plan.goals # <<>>

\* Goals were removed and the bridge still counts them.
Shrinking == owed["remove"] # NoNews \/ owed["clear"] # NoNews

\* The run being served, the route, the feedback or the length under way counts more
\* than n goals.
Outruns(n) ==
  \/ plan.completed > n \/ Len(plan.goals) > n
  \/ current /\ driving = generation /\ offset + Len(route) > n
  \/ current /\ generation \in Runs /\ feedback[generation] # NoNews
             /\ offset + feedback[generation] > n
  \/ \E r \in Edits : owed[r] > n

Served == checked \cup {r \in Edits : owed[r] # NoNews}

Least(a, b) == IF a < b THEN a ELSE b
Most(a, b) == IF a > b THEN a ELSE b

(* The routes: each of them looks first, one request of each at a time. *)

\* The queue is not edited while a task is unfinished; run is refused by navigate.
\* While the stack is being stopped it is not ready, which add and run insist on.
RouteChecks(r) ==
  /\ r \notin Served /\ Cardinality(Served) < MaxServed
  /\ r # "run" => nav.state \notin Unfinished
  /\ dropping => r \notin {"add", "run"}
  /\ checked' = checked \cup {r}
  /\ plan' = IF r = "run" THEN [NoPlan EXCEPT !.completed = nav.completed] ELSE plan
  /\ outran' = (outran \/ (r = "run" /\ Shrinking))
  /\ UNCHANGED <<goals, added, owed, dropping, navVars, driveVars, joined, untold>>

RouteActs(r) ==
  /\ r \in checked
  /\ checked' = checked \ {r}
  /\ plan' = IF r = "run" THEN NoPlan ELSE plan

\* self.goals under the lock; the bridge is named afterwards.
AddGoal ==
  /\ added < MaxGoals
  /\ RouteActs("add")
  /\ added' = added + 1
  /\ goals' = Append(goals, added')
  /\ owed' = [owed EXCEPT !["add"] = Len(goals')]
  /\ joined' = IF nav.state \in ActiveStates \/ HasRead THEN joined \cup {added'} ELSE joined
  /\ outran' = (outran \/ Shrinking)
  /\ UNCHANGED <<dropping, navVars, driveVars, untold>>

RemoveLastGoal ==
  /\ RouteActs("remove")
  /\ goals # <<>>
  /\ goals' = SubSeq(goals, 1, Len(goals) - 1)
  /\ owed' = [owed EXCEPT !["remove"] = Len(goals')]
  /\ outran' = (outran \/ Outruns(Len(goals')))
  /\ UNCHANGED <<added, dropping, navVars, driveVars, joined, untold>>

RemoveRefused ==
  /\ RouteActs("remove")
  /\ goals = <<>>
  /\ UNCHANGED <<goals, added, owed, dropping, navVars, driveVars, pastVars>>

ClearGoals ==
  /\ RouteActs("clear")
  /\ goals' = <<>>
  /\ owed' = [owed EXCEPT !["clear"] = 0]
  /\ outran' = (outran \/ Outruns(0))
  /\ UNCHANGED <<added, dropping, navVars, driveVars, joined, untold>>

\* resize_navigation_queue
Resized(n) ==
  [nav EXCEPT !.total = n,
              !.completed = Least(nav.completed, n),
              !.current = Least(nav.current, Most(n - 1, 0)),
              !.missed = {i \in nav.missed : i < n}]

\* reset_navigation
Reset ==
  /\ nav' = InitialNav
  /\ offset' = 0
  /\ current' = FALSE
  /\ pausing' = FALSE
  /\ outran' = (~Settled' /\ (outran \/ plan.completed > 0))
  /\ UNCHANGED generation

\* The bridge hears of an edit: of no goals by a reset.
TellsBridge(r) ==
  /\ owed[r] # NoNews
  /\ owed' = [owed EXCEPT ![r] = NoNews]
  /\ UNCHANGED <<goals, added, checked, plan, dropping, driveVars, joined, untold>>
  /\ IF owed[r] = 0
     THEN Reset
     ELSE nav' = Resized(owed[r]) /\ UNCHANGED <<offset, generation, current, pausing, outran>>

\* _remaining_navigation_goals, which reads the goals after the progress.
ReadsGoals ==
  /\ "run" \in checked /\ ~HasRead
  /\ IF plan.completed < Len(goals)
     THEN plan' = [plan EXCEPT !.goals = goals] /\ UNCHANGED checked
     ELSE RouteActs("run")
  /\ UNCHANGED <<goals, added, owed, dropping, navVars, driveVars, pastVars>>

\* navigate, called by run and by resume.
Navigate ==
  /\ RouteActs("run") /\ HasRead
  /\ nav.state \notin ActiveStates
  /\ generation < MaxRuns
  /\ generation' = generation + 1
  /\ current' = TRUE
  /\ offset' = plan.completed
  /\ pausing' = FALSE
  /\ \E state \in {"running", "rejected", "failed"} :
       /\ nav' = [state |-> state, current |-> plan.completed,
                  completed |-> plan.completed, total |-> Len(plan.goals),
                  missed |-> {i \in nav.missed : i < plan.completed}]
       /\ IF state = "running"
          THEN /\ driving' = generation'
               /\ route' = SubSeq(plan.goals, plan.completed + 1, Len(plan.goals))
               /\ leg' = 0 /\ missed' = {}
          ELSE UNCHANGED <<driving, route, leg, missed>>
  /\ UNCHANGED <<goals, added, owed, dropping, feedback, visited, pastVars>>

NavigateRefused ==
  /\ RouteActs("run") /\ HasRead
  /\ nav.state \in ActiveStates
  /\ UNCHANGED <<goals, added, owed, dropping, navVars, driveVars, pastVars>>

\* pause_navigation, by an e-stop.
Pause ==
  /\ nav.state \in {"running", "pausing"}
  /\ pausing' = TRUE
  /\ nav' = [nav EXCEPT !.state = "pausing"]
  /\ UNCHANGED <<queueVars, offset, generation, current, driveVars, pastVars>>

\* cancel_navigation; a paused task has no goal left.
Cancel ==
  /\ nav.state \in Unfinished
  /\ pausing' = FALSE
  /\ nav' = [nav EXCEPT !.state = IF driving = NoRun THEN "canceled" ELSE "canceling"]
  /\ UNCHANGED <<queueVars, offset, generation, current, driveVars, pastVars>>

\* stop_navigation, or the monitor before it tries again: the stack goes, then the state.
StackGoes ==
  /\ UNCHANGED <<goals, added, checked, plan, owed, feedback, visited, joined, untold>>
  /\ Reset
  /\ driving' = NoRun /\ route' = <<>> /\ leg' = 0 /\ missed' = {}
  /\ \E forgets \in BOOLEAN : dropping' = (dropping \/ forgets)

\* stop_navigation drops the goals at its end, and tells nobody.
ForgetsGoals ==
  /\ dropping /\ dropping' = FALSE
  /\ goals' = <<>>
  /\ outran' = (outran \/ Outruns(0) \/ nav.completed > 0)
  /\ UNCHANGED <<added, owed, checked, plan, navVars, driveVars, joined, untold>>

(* Nav2, with stop_on_failure off: it goes on after a waypoint it could not reach. *)
OnTheWay == driving # NoRun /\ leg < Len(route)

Reaches ==
  /\ OnTheWay
  /\ visited' = visited \cup {route[leg + 1]}
  /\ leg' = leg + 1
  /\ UNCHANGED <<queueVars, navVars, driving, route, missed, feedback, pastVars>>

GivesUp ==
  /\ OnTheWay
  /\ Len(route) > 1
  /\ missed' = missed \cup {leg}
  /\ leg' = leg + 1
  /\ UNCHANGED <<queueVars, navVars, driving, route, feedback, visited, pastVars>>

ReportsProgress ==
  /\ OnTheWay
  /\ feedback' = [feedback EXCEPT ![driving] = leg]
  /\ UNCHANGED <<queueVars, navVars, driving, route, leg, missed, visited, pastVars>>

(* The bridge's callbacks. *)

\* Mutant: feedback of an earlier run counts for this one.
HearsOldFeedback(r) ==
  /\ feedback[r] # NoNews
  /\ feedback' = [feedback EXCEPT ![r] = NoNews]
  /\ nav' = IF current
            THEN [nav EXCEPT !.current = offset + feedback[r],
                             !.completed = offset + feedback[r]]
            ELSE nav
  /\ UNCHANGED <<queueVars, offset, generation, current, pausing,
                 driving, route, leg, missed, visited, pastVars>>

\* _single_feedback, _multi_feedback
HearsFeedback(r) ==
  /\ feedback[r] # NoNews
  /\ feedback' = [feedback EXCEPT ![r] = NoNews]
  /\ nav' = IF current /\ r = generation
            THEN [nav EXCEPT !.current = offset + feedback[r],
                             !.completed = offset + feedback[r]]
            ELSE nav
  /\ UNCHANGED <<queueVars, offset, generation, current, pausing,
                 driving, route, leg, missed, visited, pastVars>>

\* The waypoint a failed result is blamed on.
Blamed == Least(nav.current, nav.total - 1)

\* The state, the waypoints missed and the progress after a result.
Recorded(status, named) ==
  LET state == IF status # "succeeded" /\ pausing THEN "paused" ELSE status
      blames == state = "failed" /\ nav.total > 0
      all == nav.missed \cup {offset + i : i \in named} \cup
             (IF blames THEN {Blamed} ELSE {})
      done == state = "succeeded" /\ nav.total > 0
  IN  [nav EXCEPT
         !.state = IF state = "succeeded" /\ all # {} THEN "partial" ELSE state,
         !.missed = all,
         !.completed = IF done THEN nav.total
                       ELSE IF blames THEN Most(nav.completed, Blamed + 1)
                       ELSE nav.completed,
         !.current = IF done THEN nav.total - 1 ELSE nav.current]

\* _navigation_result: the route ends, and with it Nav2's goal.  A canceled route
\* has an empty result, a failed one may have; a reset or a later run silences it.
ResultComes ==
  /\ driving # NoRun
  /\ \E status \in {"succeeded", "canceled", "failed"} :
       /\ status = "succeeded" <=> leg = Len(route)
       /\ status = "canceled" => nav.state \in {"pausing", "canceling"}
       /\ \E named \in {missed, {}} :
            /\ status = "succeeded" => named = missed
            /\ status = "canceled" => named = {}
            /\ IF current /\ driving = generation
               THEN /\ nav' = Recorded(status, named)
                    /\ pausing' = (nav'.state = "paused")
               ELSE UNCHANGED <<nav, pausing>>
            /\ untold' = untold \cup {route[i + 1] : i \in missed \ named}
  /\ driving' = NoRun /\ route' = <<>> /\ leg' = 0 /\ missed' = {}
  /\ UNCHANGED <<queueVars, offset, generation, current, feedback, visited, joined, outran>>

GoalNext ==
  \/ \E r \in Routes : RouteChecks(r)
  \/ AddGoal \/ RemoveLastGoal \/ RemoveRefused \/ ClearGoals
  \/ \E r \in Edits : TellsBridge(r)
  \/ ReadsGoals \/ Navigate \/ NavigateRefused
  \/ Pause \/ Cancel \/ StackGoes \/ ForgetsGoals
  \/ Reaches \/ GivesUp \/ ReportsProgress
  \/ \E r \in Runs : HearsFeedback(r)
  \/ ResultComes

GoalSpec == GoalInit /\ [][GoalNext]_goalVars

GoalTypeOK ==
  /\ goals \in Seq(1..MaxGoals)
  /\ nav.completed \in 0..MaxGoals /\ nav.current \in 0..MaxGoals
  /\ nav.total \in 0..MaxGoals /\ nav.missed \subseteq 0..MaxGoals
  /\ generation \in 0..MaxRuns
  /\ checked \subseteq Routes

\* The goals that the next run will pass over (_remaining_navigation_goals).
PassedOver == {i \in 1..Len(goals) : i <= nav.completed}

\* Once a task has ended or is paused, every goal that the next run will pass over
\* was reached or is listed as missed.
CompletedAreAccounted ==
  nav.state \notin ActiveStates =>
    \A i \in PassedOver : goals[i] \in visited \/ i - 1 \in nav.missed

\* So it is, however late feedback comes and however the routes overlap, with three
\* exceptions: a goal that was given up on a route that was paused, canceled or
\* failed without saying so; a goal added while a run was served or a task under
\* way, whose success counts it (resize_navigation_queue, _navigation_result); and
\* whatever is in the queue after goals were removed, or the state was reset, that a
\* run, its route, its feedback or another edit still counted (outran): nothing is
\* claimed then, until a reset with no run or edit half done.
QueueIsAccounted ==
  nav.state \notin ActiveStates /\ ~Shrinking /\ ~outran =>
    \A i \in PassedOver :
      goals[i] \in visited \cup joined \cup untold \/ i - 1 \in nav.missed
=============================================================================
