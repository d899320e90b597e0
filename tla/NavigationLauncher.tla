--------------------------- MODULE NavigationLauncher ---------------------------
(***************************************************************************)
(* How the web server starts and stops the navigation stack: the routes     *)
(* start_navigation and stop_navigation, and the monitor thread that waits  *)
(* for the stack, retries, or gives up.                                     *)
(*                                                                         *)
(* Routes and monitors are named by the generation they drew.  A step is a  *)
(* section under _lock, a section of a route under _navigation_process_lock,*)
(* or a poll.  A monitor's section under the process lock is two steps,     *)
(* because a route may draw a new generation, under _lock alone, between    *)
(* its look at the generation and what it does.                             *)
(*                                                                         *)
(* The process manager writes its state file when it starts, stops or       *)
(* misses a process; an OSError of that, or of the launch itself, is caught *)
(* by nobody here and ends the thread ("crashed").  A dead process may or   *)
(* may not be still on record, so any look at one may end that way.  The    *)
(* task that runs on the stack is NavigationTask.                           *)
(***************************************************************************)
EXTENDS Integers

CONSTANTS
  RetryCount,     \* _navigation_start_retry_count
  MaxGeneration   \* bound: starts and stops of one behaviour

ASSUME NavigationLauncherAssumption ==
  /\ RetryCount \in Nat
  /\ MaxGeneration \in Nat \ {0}

VARIABLES
  generation,  \* _navigation_generation
  phase,       \* _navigation_phase
  process,     \* the managed launch process: "none" or "alive"
  launcher,    \* history: the generation that launched the last process
  stack,       \* its ROS nodes: "down", "up", or "ready" for navigation
  poll,        \* where a page's poll of the runtime status stands
  checked,     \* start requests past their checks that drew no generation yet
  starter, stopper, monitor, \* where each thread stands, by generation
  retries,     \* retry_index of each monitor
  requests     \* history: "serial" until one is sent before the last is through

webVars == <<generation, phase>>
stackVars == <<process, stack, launcher>>
routeVars == <<checked, starter, stopper>>
monitorVars == <<monitor, retries>>
vars == <<webVars, stackVars, poll, routeVars, monitorVars, requests>>

Generations == 1 .. MaxGeneration

\* Bound: two pages at most are in the checks of a start at once.
MaxChecked == 2

Phases == {"idle", "starting", "retrying", "ready", "stopping", "error"}

\* A monitor here holds _navigation_process_lock and has seen its generation.
LockedPositions == {"killing", "launching", "ending"}
WatchPositions == LockedPositions \cup
  {"watching", "cleaning", "delaying", "relaunching", "giving_up", "reporting"}

\* A web server restarted under the same launch finds its stack still running.
Init ==
  /\ generation = 0 /\ phase = "idle"
  /\ \/ process = "none" /\ stack = "down"
     \/ process = "alive" /\ stack \in {"down", "up", "ready"}
  /\ launcher = 0
  /\ poll = "none" /\ checked = 0
  /\ starter = [g \in Generations |-> "none"]
  /\ stopper = [g \in Generations |-> "none"]
  /\ monitor = [g \in Generations |-> "none"]
  /\ retries = [g \in Generations |-> 0]
  /\ requests = "serial"

-----------------------------------------------------------------------------
(* Shared helpers of the server. *)

\* begin_localization and end_localization both forget the last map TF.
Unready == IF stack = "ready" THEN "up" ELSE stack

\* Mutant: an overtaken thread still writes its phase.
SetPhaseAlways(g, new) == phase' = new

\* _set_navigation_phase: only the current generation may write.
SetPhase(g, new) == phase' = IF g = generation THEN new ELSE phase

\* The loop of _wait_navigation_stack_exit may end well, or time out.
StackGone == process = "none" /\ stack = "down"
ExitWaitClean(g) == g # generation \/ StackGone

\* Mutant: the sections of the monitors and of the routes overlap.
Unlocked == TRUE

\* _navigation_process_lock is free.
ProcessLockFree == \A g \in Generations : monitor[g] \notin LockedPositions

\* ProcessManager.start for generation g: Popen, and the record written.
Launch(g) == process = "none" /\ process' = "alive" /\ launcher' = g

\* It ends in an OSError: Popen failed, or the record could not be written.
LaunchBreaks(g) == process = "none" /\ (Launch(g) \/ UNCHANGED <<process, launcher>>)

\* Stopping the process group; a process may resist even the last signal.
StopProcess == process' \in {process, "none"} /\ stack' = Unready /\ UNCHANGED launcher

\* It ends in an OSError: the group is gone but not off the record.
StopBreaks == process' = "none" /\ UNCHANGED <<stack, launcher>>

NoRequestOpen ==
  /\ checked = 0
  /\ \A g \in Generations : starter[g] # "begun" /\ stopper[g] \notin {"begun", "killed"}

Request == requests' = IF NoRequestOpen THEN requests ELSE "overlapping"

\* A checked start always finds a generation left for it.
Room == generation + checked < MaxGeneration

\* _navigation_runtime_status, polled by every page, in the order it looks: at
\* the process, then under the lock at the phase, then at the bridge.  A ready
\* stack that died is an error, an idle phase over a ready stack adopts it.
PollReads ==
  /\ poll = "none"
  /\ poll' = IF process = "alive" THEN "running" ELSE "exited"
  /\ UNCHANGED <<webVars, stackVars, routeVars, monitorVars, requests>>

PollFindsExit ==
  /\ poll = "exited"
  /\ poll' = "none"
  /\ \/ phase = "ready" /\ phase' = "error" /\ stack' = Unready
     \/ phase # "ready" /\ UNCHANGED <<phase, stack>>
  /\ UNCHANGED <<generation, process, launcher, routeVars, monitorVars, requests>>

PollFindsRunning ==
  /\ poll = "running"
  /\ poll' = IF phase = "idle" /\ stack = "ready" THEN "adopting" ELSE "none"
  /\ UNCHANGED <<webVars, stackVars, routeVars, monitorVars, requests>>

PollAdopts ==
  /\ poll = "adopting"
  /\ poll' = "none"
  /\ phase' = IF phase = "idle" THEN "ready" ELSE phase
  /\ UNCHANGED <<generation, stackVars, routeVars, monitorVars, requests>>

RuntimeStatus == PollReads \/ PollFindsExit \/ PollFindsRunning \/ PollAdopts

-----------------------------------------------------------------------------
(* start_navigation *)

StartChecks ==
  /\ Request /\ Room
  /\ checked < MaxChecked
  /\ phase \notin {"stopping", "starting", "retrying"}
  /\ StackGone
  /\ phase' = IF phase = "ready" THEN "error" ELSE phase
  /\ checked' = checked + 1
  /\ UNCHANGED <<generation, stackVars, starter, stopper, monitorVars, poll>>

StartBegins ==
  /\ checked > 0
  /\ checked' = checked - 1
  /\ generation' = generation + 1
  /\ phase' = "starting"
  /\ starter' = [starter EXCEPT ![generation + 1] = "begun"]
  /\ UNCHANGED <<stackVars, stopper, monitorVars, poll, requests>>

\* _start_navigation_process succeeds and the monitor is started.
StartLaunches(g) ==
  /\ starter[g] = "begun" /\ ProcessLockFree
  /\ starter' = [starter EXCEPT ![g] = "returned"]
  /\ Launch(g) /\ stack' = Unready
  /\ monitor' = [monitor EXCEPT ![g] = "watching"]
  /\ UNCHANGED <<webVars, checked, stopper, retries, poll, requests>>

\* Mutant: a start that could not launch leaves its phase behind.
StartFailsQuietly(g) ==
  /\ starter[g] = "begun"
  /\ starter' = [starter EXCEPT ![g] = "returned"]
  /\ UNCHANGED <<webVars, stackVars, checked, stopper, monitorVars, poll, requests>>

\* The process is already there, or its identity cannot be confirmed.
StartFails(g) ==
  /\ starter[g] = "begun"
  /\ starter' = [starter EXCEPT ![g] = "returned"]
  /\ SetPhase(g, "error")
  /\ UNCHANGED <<generation, stackVars, checked, stopper, monitorVars, poll, requests>>

\* Only a RuntimeError is caught: the phase stays, and there is no monitor.
StartCrashes(g) ==
  /\ starter[g] = "begun" /\ ProcessLockFree
  /\ starter' = [starter EXCEPT ![g] = "crashed"]
  /\ LaunchBreaks(g)
  /\ UNCHANGED <<webVars, stack, checked, stopper, monitorVars, poll, requests>>

-----------------------------------------------------------------------------
(* stop_navigation *)

StopBegins ==
  /\ Request /\ Room
  /\ generation' = generation + 1
  /\ phase' = "stopping"
  /\ stopper' = [stopper EXCEPT ![generation + 1] = "begun"]
  /\ UNCHANGED <<stackVars, checked, starter, monitorVars, poll>>

StopKills(g) ==
  /\ stopper[g] = "begun" /\ ProcessLockFree
  /\ stopper' = [stopper EXCEPT ![g] = "killed"]
  /\ StopProcess
  /\ UNCHANGED <<webVars, checked, starter, monitorVars, poll, requests>>

\* The last section writes the phase without asking for the generation.
StopEnds(g) ==
  /\ stopper[g] = "killed"
  /\ stopper' = [stopper EXCEPT ![g] = "returned"]
  /\ \/ ExitWaitClean(g) /\ phase' = "idle"
     \/ ~StackGone /\ phase' = "error"
  /\ UNCHANGED <<generation, stackVars, checked, starter, monitorVars, poll, requests>>

\* An OSError before the kill (the record of a mapping task), out of it, or in
\* the wait for the exit: the phase stays.
StopCrashes(g) ==
  /\ \/ stopper[g] = "begun" /\ ProcessLockFree /\ (StopBreaks \/ UNCHANGED stackVars)
     \/ stopper[g] = "killed" /\ process = "none" /\ UNCHANGED stackVars
  /\ stopper' = [stopper EXCEPT ![g] = "crashed"]
  /\ UNCHANGED <<webVars, checked, starter, monitorVars, poll, requests>>

-----------------------------------------------------------------------------
(* _monitor_navigation_start *)

MonitorAt(g, from, to) ==
  /\ monitor[g] = from
  /\ monitor' = [monitor EXCEPT ![g] = to]

\* The loops look at the generation: a monitor that was overtaken returns.
MonitorLeaves(g) ==
  /\ g # generation
  /\ \E from \in {"watching", "delaying"} : MonitorAt(g, from, "returned")
  /\ UNCHANGED <<webVars, stackVars, routeVars, retries, poll, requests>>

MonitorSeesReady(g) ==
  /\ process = "alive" /\ stack = "ready"
  /\ MonitorAt(g, "watching", "returned")
  /\ SetPhase(g, "ready")
  /\ UNCHANGED <<generation, stackVars, routeVars, retries, poll, requests>>

\* The process died, or time ran out between two looks at the stack, and a
\* retry is left.
MonitorRetries(g) ==
  /\ retries[g] < RetryCount
  /\ MonitorAt(g, "watching", IF g = generation THEN "cleaning" ELSE "returned")
  /\ retries' = [retries EXCEPT ![g] = @ + 1]
  /\ SetPhase(g, "retrying")
  /\ UNCHANGED <<generation, stackVars, routeVars, poll, requests>>

MonitorGivesUp(g) ==
  /\ retries[g] >= RetryCount
  /\ MonitorAt(g, "watching", "giving_up")
  /\ SetPhase(g, "stopping")
  /\ UNCHANGED <<generation, stackVars, routeVars, retries, poll, requests>>

\* Mutant: the monitor trusts the look it had before the delay.
StillCurrentBefore(g) == TRUE

StillCurrent(g) == g = generation

\* The look at the generation with which each section under the process lock
\* begins.  An overtaken clean-up counts as done; the loops then leave.
MonitorChecks(g) ==
  /\ ProcessLockFree
  /\ IF StillCurrent(g)
     THEN \/ MonitorAt(g, "cleaning", "killing")
          \/ MonitorAt(g, "relaunching", "launching")
          \/ MonitorAt(g, "giving_up", "ending")
     ELSE \/ MonitorAt(g, "cleaning", "delaying")
          \/ MonitorAt(g, "relaunching", "returned")
          \/ MonitorAt(g, "giving_up", "reporting")
  /\ UNCHANGED <<webVars, stackVars, routeVars, retries, poll, requests>>

\* The rest of _stop_failed_navigation_start's section.
MonitorKills(g) ==
  /\ \/ MonitorAt(g, "killing", "delaying")
     \/ MonitorAt(g, "ending", "reporting")
  /\ StopProcess
  /\ UNCHANGED <<webVars, routeVars, retries, poll, requests>>

\* The wait for the exit, then the delay; a stack that stays is an error.
MonitorDelays(g) ==
  /\ \/ ExitWaitClean(g) /\ MonitorAt(g, "delaying", "relaunching")
     \/ ~StackGone /\ MonitorAt(g, "delaying", "reporting")
  /\ UNCHANGED <<webVars, stackVars, routeVars, retries, poll, requests>>

MonitorLaunches(g) ==
  /\ MonitorAt(g, "launching", "watching")
  /\ Launch(g) /\ stack' = Unready
  /\ UNCHANGED <<webVars, routeVars, retries, poll, requests>>

\* A RuntimeError of the relaunch is reported after the section.
MonitorLaunchFails(g) ==
  /\ MonitorAt(g, "launching", "reporting")
  /\ UNCHANGED <<webVars, stackVars, routeVars, retries, poll, requests>>

\* _fail_navigation_start, after a last wait for the exit where it gave up.
MonitorReports(g) ==
  /\ MonitorAt(g, "reporting", "returned")
  /\ SetPhase(g, "error")
  /\ UNCHANGED <<generation, stackVars, routeVars, retries, poll, requests>>

\* Only a RuntimeError is caught: an OSError of a look at a dead process, of the
\* kill or of the relaunch ends the thread, and the phase stays.
MonitorCrashes(g) ==
  /\ \/ /\ \E from \in {"watching", "delaying", "reporting"} : MonitorAt(g, from, "crashed")
        /\ process = "none" /\ UNCHANGED stackVars
     \/ /\ \E from \in {"killing", "ending"} : MonitorAt(g, from, "crashed")
        /\ StopBreaks
     \/ MonitorAt(g, "launching", "crashed") /\ LaunchBreaks(g) /\ UNCHANGED stack
  /\ UNCHANGED <<webVars, routeVars, retries, poll, requests>>

-----------------------------------------------------------------------------
(* The stack itself, outside the server. *)

StackComesUp ==
  /\ process = "alive" /\ stack # "ready"
  /\ stack' = IF stack = "down" THEN "up" ELSE "ready"
  /\ UNCHANGED <<webVars, process, launcher, routeVars, monitorVars, poll, requests>>

ProcessDies ==
  /\ process = "alive"
  /\ process' = "none"
  /\ UNCHANGED <<webVars, stack, launcher, routeVars, monitorVars, poll, requests>>

NodesLeave ==
  /\ process = "none" /\ stack # "down"
  /\ stack' = "down"
  /\ UNCHANGED <<webVars, process, launcher, routeVars, monitorVars, poll, requests>>

-----------------------------------------------------------------------------
Starter(g) == StartLaunches(g) \/ StartFails(g) \/ StartCrashes(g)
Stopper(g) == StopKills(g) \/ StopEnds(g) \/ StopCrashes(g)
Monitor(g) ==
  \/ MonitorLeaves(g) \/ MonitorSeesReady(g) \/ MonitorRetries(g) \/ MonitorGivesUp(g)
  \/ MonitorChecks(g) \/ MonitorKills(g) \/ MonitorDelays(g) \/ MonitorLaunches(g)
  \/ MonitorLaunchFails(g) \/ MonitorReports(g) \/ MonitorCrashes(g)

Next ==
  \/ RuntimeStatus \/ StartChecks \/ StartBegins \/ StopBegins
  \/ \E g \in Generations : Starter(g) \/ Stopper(g) \/ Monitor(g)
  \/ StackComesUp \/ ProcessDies \/ NodesLeave

\* Threads that have begun go on, or crash; the pages keep polling.  The stack need not
\* come up, die or leave, and nobody need send a request.
Fairness ==
  /\ WF_vars(RuntimeStatus) /\ WF_vars(StartBegins)
  /\ \A g \in Generations : WF_vars(Starter(g)) /\ WF_vars(Stopper(g)) /\ WF_vars(Monitor(g))

Spec == Init /\ [][Next]_vars
FairSpec == Spec /\ Fairness

-----------------------------------------------------------------------------
(* Properties. *)

\* The shape of every variable; a monitor never counts more than its retries.
TypeOK ==
  /\ generation \in 0 .. MaxGeneration
  /\ phase \in Phases
  /\ process \in {"none", "alive"} /\ stack \in {"down", "up", "ready"}
  /\ launcher \in 0 .. MaxGeneration
  /\ poll \in {"none", "running", "exited", "adopting"}
  /\ checked \in 0 .. MaxChecked
  /\ starter \in [Generations -> {"none", "begun", "returned", "crashed"}]
  /\ stopper \in [Generations -> {"none", "begun", "killed", "returned", "crashed"}]
  /\ monitor \in [Generations -> {"none", "returned", "crashed"} \cup WatchPositions]
  /\ retries \in [Generations -> 0 .. RetryCount]
  /\ requests \in {"serial", "overlapping"}

\* stop_navigation "stops the navigation stack": as long as requests came one
\* at a time, once a stop has shown the stack as idle no process of it runs,
\* and no monitor of an earlier start brings it back, until the next start.
IdleMeansStopped ==
  phase = "idle" /\ generation > 0 /\ requests = "serial" => process = "none"

\* A thread of this generation was ended by an OSError.
Crashed(g) == "crashed" \in {starter[g], stopper[g], monitor[g]}

\* A page that shows a start in progress has somebody working on it: the
\* route, or the monitor of the current generation; unless just that thread
\* was ended by an OSError, the one way in which a start is left alone.
StartIsAttended ==
  phase \in {"starting", "retrying"} /\ generation > 0 =>
    \/ starter[generation] = "begun"
    \/ monitor[generation] \in WatchPositions
    \/ Crashed(generation)

\* One start's clean-up does not take down the stack of a later one, although
\* a later start may draw its generation between the monitor's look and its
\* kill: what a monitor kills was launched by its own start or an earlier one.
LaterStackIsLeftAlone ==
  [][\A g \in Generations :
       (process = "alive" /\ process' = "none" /\ monitor[g] # monitor'[g])
       => launcher <= g]_vars

\* "Stops the navigation stack", for requests that overlap: under a page that
\* shows navigation as ended no start that the stop has overtaken launches
\* the stack.
StoppedStaysStopped ==
  [][(phase = "idle" /\ process = "none" /\ process' = "alive")
       => launcher' = generation]_vars

\* Whatever requests overlap, starting, retrying and stopping come to an end,
\* or the thread that was at it was ended by an OSError.
TransitionsEnd ==
  phase \in {"starting", "retrying", "stopping"} ~>
    \/ phase \in {"idle", "ready", "error"}
    \/ generation > 0 /\ Crashed(generation)
=============================================================================
