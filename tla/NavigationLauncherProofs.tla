------------------------ MODULE NavigationLauncherProofs ------------------------
(***************************************************************************)
(* Proofs about NavigationLauncher, for any number of starts, stops and     *)
(* retries.  What a stop promises holds as long as requests do not overlap; *)
(* that a start in progress is attended holds for overlapping ones too.     *)
(***************************************************************************)
EXTENDS NavigationLauncher, TLAPS

Untouched(g) == starter[g] = "none" /\ stopper[g] = "none" /\ monitor[g] = "none"

\* The current generation's part: a start in progress is attended, and a phase
\* other than the resting ones belongs to some request.
AttendedInv ==
  /\ TypeOK
  /\ \A g \in Generations : g > generation => Untouched(g)
  /\ generation + checked \in 0 .. MaxGeneration
  /\ StartIsAttended

-----------------------------------------------------------------------------
\* Nothing is in progress at first.
LEMMA AttendedInit == Init => AttendedInv
BY NavigationLauncherAssumption
DEF Init, AttendedInv, TypeOK, Untouched, StartIsAttended, Phases, MaxChecked, Generations

\* All a poll can write: a phase at rest, and that the stack is not ready.
LEMMA PollWrites ==
  ASSUME TypeOK, RuntimeStatus
  PROVE  /\ phase' \in {phase, "error", "ready"}
         /\ phase = "starting" \/ phase = "retrying" \/ phase = "stopping" => phase' = phase
         /\ stack' \in {"down", "up", "ready"}
         /\ poll' \in {"none", "running", "exited", "adopting"}
         /\ UNCHANGED <<generation, process, launcher, routeVars, monitorVars, requests>>
<1>1. CASE PollReads
  BY <1>1 DEF PollReads, TypeOK, webVars, stackVars
<1>2. CASE PollFindsExit
  BY <1>2 DEF PollFindsExit, TypeOK, Unready
<1>3. CASE PollFindsRunning
  BY <1>3 DEF PollFindsRunning, TypeOK, webVars, stackVars
<1>4. CASE PollAdopts
  BY <1>4 DEF PollAdopts, TypeOK, stackVars
<1>5. QED
  BY <1>1, <1>2, <1>3, <1>4 DEF RuntimeStatus

\* The routes and the polls of the page keep every start attended.
LEMMA RoutesAttended ==
  ASSUME AttendedInv, RuntimeStatus \/ StartChecks \/ StartBegins \/ StopBegins
  PROVE  AttendedInv'
<1> USE NavigationLauncherAssumption
    DEF AttendedInv, TypeOK, Untouched, Generations, Crashed
<1>1. CASE RuntimeStatus
  <2>1. TypeOK'
    BY <1>1, PollWrites DEF Phases, routeVars, monitorVars
  <2>2. QED
    BY <1>1, <2>1, PollWrites DEF StartIsAttended, routeVars, monitorVars
<1>2. CASE StartChecks
  BY <1>2
  DEF StartChecks, Request, Room, StartIsAttended, Phases, MaxChecked, stackVars, monitorVars
<1>3. CASE StartBegins
  BY <1>3 DEF StartBegins, StartIsAttended, Phases, MaxChecked, stackVars, monitorVars
<1>4. CASE StopBegins
  BY <1>4
  DEF StopBegins, Request, Room, StartIsAttended, Phases, MaxChecked, stackVars, monitorVars
<1>5. QED
  BY <1>1, <1>2, <1>3, <1>4

\* So do a start and a stop that have begun.
LEMMA ThreadsAttended ==
  ASSUME AttendedInv, NEW g \in Generations, Starter(g) \/ Stopper(g)
  PROVE  AttendedInv'
<1> USE NavigationLauncherAssumption DEF AttendedInv, TypeOK, Untouched, Generations
<1>1. CASE StartLaunches(g)
  BY <1>1
  DEF StartLaunches, Launch, Unready, StartIsAttended, Crashed, WatchPositions, webVars
<1>2. CASE StartFails(g)
  BY <1>2
  DEF StartFails, SetPhase, StartIsAttended, Crashed, Phases, stackVars, monitorVars
<1>3. CASE StartCrashes(g)
  BY <1>3
  DEF StartCrashes, LaunchBreaks, Launch, StartIsAttended, Crashed, webVars, monitorVars
<1>4. CASE StopKills(g)
  BY <1>4
  DEF StopKills, StopProcess, Unready, StartIsAttended, Crashed, webVars, monitorVars
<1>5. CASE StopEnds(g)
  BY <1>5 DEF StopEnds, StartIsAttended, Phases, stackVars, monitorVars
<1>6. CASE StopCrashes(g)
  BY <1>6
  DEF StopCrashes, StopBreaks, StartIsAttended, Crashed, webVars, stackVars, monitorVars
<1>7. QED
  BY <1>1, <1>2, <1>3, <1>4, <1>5, <1>6 DEF Starter, Stopper

\* What every step of a monitor has in common.
LEMMA MonitorMoves ==
  ASSUME AttendedInv, NEW g \in Generations, Monitor(g)
  PROVE  /\ monitor[g] \in WatchPositions
         /\ \E to \in {"returned", "crashed"} \cup WatchPositions :
              /\ monitor' = [monitor EXCEPT ![g] = to]
              /\ g = generation /\ to = "returned"
                   => phase' \notin {"starting", "retrying"}
         /\ g # generation => phase' = phase
         /\ phase' \in Phases
         /\ process' \in {"none", "alive"} /\ stack' \in {"down", "up", "ready"}
         /\ launcher' \in {launcher, g}
         /\ retries' \in [Generations -> 0 .. RetryCount]
         /\ UNCHANGED <<generation, poll, routeVars, requests>>
<1> USE DEF AttendedInv, TypeOK, MonitorAt, SetPhase, WatchPositions, LockedPositions, Phases
<1>1. CASE MonitorLeaves(g)
  BY <1>1 DEF MonitorLeaves, webVars, stackVars
<1>2. CASE MonitorSeesReady(g)
  BY <1>2 DEF MonitorSeesReady, stackVars
<1>3. CASE MonitorRetries(g)
  <2>1. retries' \in [Generations -> 0 .. RetryCount]
    BY <1>3, NavigationLauncherAssumption DEF MonitorRetries
  <2>2. CASE g = generation
    BY <1>3, <2>1, <2>2 DEF MonitorRetries, stackVars
  <2>3. CASE g # generation
    BY <1>3, <2>1, <2>3 DEF MonitorRetries, stackVars
  <2>4. QED
    BY <2>2, <2>3
<1>4. CASE MonitorGivesUp(g)
  BY <1>4 DEF MonitorGivesUp, stackVars
<1>5. CASE MonitorChecks(g)
  <2>1. CASE g = generation
    BY <1>5, <2>1 DEF MonitorChecks, StillCurrent, webVars, stackVars
  <2>2. CASE g # generation
    BY <1>5, <2>2 DEF MonitorChecks, StillCurrent, webVars, stackVars
  <2>3. QED
    BY <2>1, <2>2
<1>6. CASE MonitorKills(g)
  BY <1>6 DEF MonitorKills, StopProcess, Unready, webVars
<1>7. CASE MonitorDelays(g)
  BY <1>7 DEF MonitorDelays, webVars, stackVars
<1>8. CASE MonitorLaunches(g)
  BY <1>8 DEF MonitorLaunches, Launch, Unready, webVars
<1>9. CASE MonitorLaunchFails(g)
  BY <1>9 DEF MonitorLaunchFails, webVars, stackVars
<1>10. CASE MonitorReports(g)
  BY <1>10 DEF MonitorReports, stackVars
<1>11. CASE MonitorCrashes(g)
  BY <1>11 DEF MonitorCrashes, StopBreaks, LaunchBreaks, Launch, webVars, stackVars
<1>12. QED
  BY <1>1, <1>2, <1>3, <1>4, <1>5, <1>6, <1>7, <1>8, <1>9, <1>10, <1>11 DEF Monitor

\* Every step keeps the invariant.
LEMMA AttendedStep == AttendedInv /\ [Next]_vars => AttendedInv'
<1> SUFFICES ASSUME AttendedInv, [Next]_vars
             PROVE  AttendedInv'
  OBVIOUS
<1>1. ASSUME NEW g \in Generations, Monitor(g)
      PROVE  AttendedInv'
  <2>1. PICK to \in {"returned", "crashed"} \cup WatchPositions :
          /\ monitor' = [monitor EXCEPT ![g] = to]
          /\ g = generation /\ to = "returned" => phase' \notin {"starting", "retrying"}
    BY <1>1, MonitorMoves
  <2>2. /\ monitor[g] \in WatchPositions
        /\ g # generation => phase' = phase
        /\ UNCHANGED <<generation, poll, checked, starter, stopper, requests>>
    BY <1>1, MonitorMoves DEF routeVars
  <2>3. TypeOK'
    BY <1>1, <2>1, <2>2, MonitorMoves, NavigationLauncherAssumption
    DEF AttendedInv, TypeOK, Generations
  <2>4. (\A h \in Generations : h > generation => Untouched(h))'
    BY <2>1, <2>2 DEF AttendedInv, TypeOK, Untouched, WatchPositions, LockedPositions
  <2>5. StartIsAttended'
    <3>1. CASE g = generation
      BY <2>1, <2>2, <3>1 DEF AttendedInv, TypeOK, StartIsAttended, Crashed
    <3>2. CASE g # generation
      BY <2>1, <2>2, <3>2 DEF AttendedInv, TypeOK, StartIsAttended, Crashed
    <3>3. QED
      BY <3>1, <3>2
  <2>6. QED
    BY <2>2, <2>3, <2>4, <2>5 DEF AttendedInv
<1>2. CASE StackComesUp \/ ProcessDies \/ NodesLeave
  BY <1>2
  DEF StackComesUp, ProcessDies, NodesLeave, AttendedInv, TypeOK, Untouched,
      StartIsAttended, Crashed, webVars, routeVars, monitorVars
<1>3. CASE UNCHANGED vars
  BY <1>3
  DEF vars, AttendedInv, TypeOK, Untouched, StartIsAttended, Crashed, webVars, stackVars,
      routeVars, monitorVars
<1>4. QED
  BY <1>1, <1>2, <1>3, RoutesAttended, ThreadsAttended DEF Next

\* It holds of every behaviour.
LEMMA AttendedHolds == Spec => []AttendedInv
  BY AttendedInit, AttendedStep, PTL DEF Spec

\* Every variable keeps its shape and no monitor retries too often.
THEOREM LauncherTypes == Spec => []TypeOK
<1>1. AttendedInv => TypeOK
  BY DEF AttendedInv
<1>2. QED
  BY <1>1, AttendedHolds, PTL

\* A start in progress always has its route or its monitor at work, unless just
\* that thread was ended by an OSError.
THEOREM Attended == Spec => []StartIsAttended
<1>1. AttendedInv => StartIsAttended
  BY DEF AttendedInv
<1>2. QED
  BY <1>1, AttendedHolds, PTL

-----------------------------------------------------------------------------
Closed(g) == starter[g] # "begun" /\ stopper[g] \notin {"begun", "killed"}

\* With one request at a time: only the current generation's request may be
\* open, a generation is a start or a stop, whoever may launch the stack works
\* under a phase other than "idle", and behind a stop that has had the process
\* lock no overtaken monitor is about to launch.
Serial ==
  /\ \A g \in Generations : g # generation => Closed(g)
  /\ checked > 0 => checked = 1 /\ \A g \in Generations : Closed(g)
  /\ \A g \in Generations :
       /\ stopper[g] # "none" => starter[g] = "none" /\ monitor[g] = "none"
       /\ starter[g] = "begun" => phase = "starting" /\ monitor[g] = "none"
       /\ g = generation /\ monitor[g] \in WatchPositions
            => phase \in {"starting", "retrying", "stopping"}
  /\ (\E h \in Generations : stopper[h] = "killed") \/ (phase = "idle" /\ generation > 0)
       => \A g \in Generations : monitor[g] # "launching"
  /\ phase = "idle" /\ generation > 0 => process = "none"

SerialInv == AttendedInv /\ (requests = "serial" => Serial)

\* Nothing is open at first.
LEMMA SerialInit == Init => SerialInv
BY AttendedInit
DEF Init, SerialInv, Serial, Closed, WatchPositions, LockedPositions, Generations

\* The routes and polls keep serial requests serial.
LEMMA SerialRoutes ==
  ASSUME AttendedInv, Serial, AttendedInv', requests' = "serial",
         RuntimeStatus \/ StartChecks \/ StartBegins \/ StopBegins
  PROVE  Serial'
<1> USE DEF Serial, AttendedInv, TypeOK, Untouched, Closed
<1>1. CASE RuntimeStatus
  <2>1. UNCHANGED <<generation, process, checked, starter, stopper, monitor>>
    BY <1>1, PollWrites DEF routeVars, monitorVars
  <2>2. phase' = "idle" => phase = "idle"
    BY <1>1, PollWrites
  <2>3. (\A g \in Generations :
           /\ stopper[g] # "none" => starter[g] = "none" /\ monitor[g] = "none"
           /\ starter[g] = "begun" => phase = "starting" /\ monitor[g] = "none"
           /\ g = generation /\ monitor[g] \in WatchPositions
                => phase \in {"starting", "retrying", "stopping"})'
    BY <1>1, <2>1, PollWrites
  <2>4. QED
    BY <2>1, <2>2, <2>3
<1>2. CASE StartChecks
  BY <1>2 DEF StartChecks, Request, NoRequestOpen, WatchPositions, stackVars, monitorVars
<1>3. CASE StartBegins
  BY <1>3
  DEF StartBegins, WatchPositions, LockedPositions, Generations, stackVars, monitorVars
<1>4. CASE StopBegins
  BY <1>4
  DEF StopBegins, Request, NoRequestOpen, WatchPositions, LockedPositions, Generations,
      stackVars, monitorVars
<1>5. QED
  BY <1>1, <1>2, <1>3, <1>4

\* So do a start and a stop that have begun.
LEMMA SerialThreads ==
  ASSUME AttendedInv, Serial, AttendedInv', NEW g \in Generations, Starter(g) \/ Stopper(g)
  PROVE  Serial'
<1> USE DEF Serial, AttendedInv, TypeOK, Closed
<1>1. CASE StartLaunches(g)
  BY <1>1 DEF StartLaunches, Launch, WatchPositions, LockedPositions, webVars
<1>2. CASE StartFails(g)
  BY <1>2 DEF StartFails, SetPhase, WatchPositions, LockedPositions, stackVars, monitorVars
<1>3. CASE StartCrashes(g)
  BY <1>3 DEF StartCrashes, LaunchBreaks, Launch, webVars, monitorVars
<1>4. CASE StopKills(g)
  BY <1>4
  DEF StopKills, StopProcess, ProcessLockFree, WatchPositions, LockedPositions, webVars,
      monitorVars
<1>5. CASE StopEnds(g)
  BY <1>5
  DEF StopEnds, ExitWaitClean, StackGone, WatchPositions, LockedPositions, stackVars,
      monitorVars
<1>6. CASE StopCrashes(g)
  BY <1>6 DEF StopCrashes, StopBreaks, webVars, stackVars, monitorVars
<1>7. QED
  BY <1>1, <1>2, <1>3, <1>4, <1>5, <1>6 DEF Starter, Stopper

\* A monitor that has the process lock launches, but not behind a stop's kill;
\* it takes the lock only as the current generation, so not under "idle".
LEMMA SerialMonitors ==
  ASSUME AttendedInv, Serial, AttendedInv', NEW g \in Generations, Monitor(g)
  PROVE  Serial'
<1>1. PICK to \in {"returned", "crashed"} \cup WatchPositions :
        monitor' = [monitor EXCEPT ![g] = to]
  BY MonitorMoves
<1>2. /\ monitor[g] \in WatchPositions
      /\ g # generation => phase' = phase
      /\ UNCHANGED <<generation, checked, starter, stopper>>
  BY MonitorMoves DEF routeVars
<1>3. stopper[g] = "none" /\ starter[g] # "begun"
  BY <1>2 DEF Serial, WatchPositions, LockedPositions
<1>4. g = generation => phase' # "idle" /\ (to \in WatchPositions
                           => phase' \in {"starting", "retrying", "stopping"})
  <2>1. SUFFICES ASSUME g = generation
                 PROVE  /\ phase' # "idle"
                        /\ monitor'[g] \in WatchPositions
                             => phase' \in {"starting", "retrying", "stopping"}
    BY <1>1 DEF AttendedInv, TypeOK
  <2>2. phase \in {"starting", "retrying", "stopping"}
    BY <1>2, <2>1 DEF Serial
  <2>3. QED
    BY <2>1, <2>2
    DEF Monitor, MonitorLeaves, MonitorSeesReady, MonitorRetries, MonitorGivesUp,
        MonitorChecks, MonitorKills, MonitorDelays, MonitorLaunches, MonitorLaunchFails,
        MonitorReports, MonitorCrashes, MonitorAt, SetPhase, WatchPositions,
        LockedPositions, AttendedInv, TypeOK, webVars
<1>5. process' = process \/ process' = "none" \/ monitor[g] = "launching"
  BY DEF Monitor, MonitorLeaves, MonitorSeesReady, MonitorRetries, MonitorGivesUp,
         MonitorChecks, MonitorKills, MonitorDelays, MonitorLaunches, MonitorLaunchFails,
         MonitorReports, MonitorCrashes, MonitorAt, StopProcess, StopBreaks, stackVars
<1>6. (phase = "idle" /\ generation > 0 => process = "none")'
  <2> SUFFICES ASSUME phase' = "idle", generation > 0
               PROVE  process' = "none"
    BY <1>2
  <2>1. phase = "idle"
    BY <1>2, <1>4
  <2>2. QED
    BY <1>5, <2>1 DEF Serial
<1>7. monitor'[g] = "launching" => g = generation \/ monitor[g] = "launching"
  BY DEF Monitor, MonitorLeaves, MonitorSeesReady, MonitorRetries, MonitorGivesUp,
         MonitorChecks, StillCurrent, MonitorKills, MonitorDelays, MonitorLaunches,
         MonitorLaunchFails, MonitorReports, MonitorCrashes, MonitorAt, AttendedInv, TypeOK
<1>8. ((\E h \in Generations : stopper[h] = "killed") \/ (phase = "idle" /\ generation > 0)
         => \A h \in Generations : monitor[h] # "launching")'
  <2> SUFFICES ASSUME (\E h \in Generations : stopper[h] = "killed")
                        \/ (phase' = "idle" /\ generation > 0)
               PROVE  \A h \in Generations : monitor'[h] # "launching"
    BY <1>2
  <2>1. (\E h \in Generations : stopper[h] = "killed")
          \/ (phase = "idle" /\ generation > 0 /\ g # generation)
    BY <1>2, <1>4
  <2>2. \A h \in Generations : monitor[h] # "launching"
    BY <2>1 DEF Serial
  <2>3. g # generation
    BY <1>3, <2>1 DEF Serial, Closed
  <2>4. QED
    BY <1>1, <1>7, <2>2, <2>3 DEF AttendedInv, TypeOK
<1>9. QED
  BY <1>1, <1>2, <1>3, <1>4, <1>6, <1>8
  DEF Serial, AttendedInv, TypeOK, Closed, WatchPositions, LockedPositions

\* A history without overlaps had none before its last step.
LEMMA OverlapsStay == [Next]_vars /\ requests' = "serial" => requests = "serial"
<1>1. ASSUME NEW g \in Generations, Monitor(g), requests' = "serial"
      PROVE  requests = "serial"
  BY <1>1
  DEF Monitor, MonitorLeaves, MonitorSeesReady, MonitorRetries, MonitorGivesUp,
      MonitorChecks, MonitorKills, MonitorDelays, MonitorLaunches, MonitorLaunchFails,
      MonitorReports, MonitorCrashes
<1>2. ASSUME NEW g \in Generations, Starter(g) \/ Stopper(g), requests' = "serial"
      PROVE  requests = "serial"
  BY <1>2
  DEF Starter, Stopper, StartLaunches, StartFails, StartCrashes, StopKills, StopEnds,
      StopCrashes
<1>3. QED
  BY <1>1, <1>2
  DEF Next, vars, RuntimeStatus, PollReads, PollFindsExit, PollFindsRunning, PollAdopts,
      StartChecks, StartBegins, StopBegins, Request, StackComesUp, ProcessDies, NodesLeave

\* Every step keeps the invariant.
LEMMA SerialStep == SerialInv /\ [Next]_vars => SerialInv'
<1> SUFFICES ASSUME SerialInv, [Next]_vars
             PROVE  SerialInv'
  OBVIOUS
<1>1. AttendedInv'
  BY AttendedStep DEF SerialInv
<1>2. SUFFICES ASSUME requests' = "serial"
               PROVE  Serial'
  BY <1>1 DEF SerialInv
<1>3. Serial /\ AttendedInv
  BY <1>2, OverlapsStay DEF SerialInv
<1>4. CASE StackComesUp \/ ProcessDies \/ NodesLeave
  BY <1>3, <1>4
  DEF StackComesUp, ProcessDies, NodesLeave, Serial, Closed, webVars, routeVars, monitorVars
<1>5. CASE UNCHANGED vars
  BY <1>3, <1>5
  DEF vars, Serial, Closed, webVars, stackVars, routeVars, monitorVars
<1>6. QED
  BY <1>1, <1>2, <1>3, <1>4, <1>5, SerialRoutes, SerialThreads, SerialMonitors DEF Next

\* As long as requests do not overlap, a stack shown as idle stays stopped:
\* neither a monitor in its retry nor a late clean-up brings it back.
THEOREM IdleStaysStopped == Spec => []IdleMeansStopped
<1>1. SerialInv => IdleMeansStopped
  BY DEF SerialInv, Serial, IdleMeansStopped
<1>2. QED
  BY <1>1, SerialInit, SerialStep, PTL DEF Spec

-----------------------------------------------------------------------------
(* Whose stack a monitor kills. *)

\* One monitor at most has the process lock, and the one about to kill has it
\* since before any later start could launch.
OwnerInv ==
  /\ AttendedInv
  /\ launcher <= generation
  /\ \A g, h \in Generations :
       monitor[g] \in LockedPositions /\ monitor[h] \in LockedPositions => g = h
  /\ \A g \in Generations : monitor[g] \in {"killing", "ending"} => launcher <= g

\* Nobody has the lock at first, and the process is no start's.
LEMMA OwnerInit == Init => OwnerInv
BY AttendedInit, NavigationLauncherAssumption
DEF Init, OwnerInv, LockedPositions, Generations

\* A monitor takes a free lock, as the current generation, and launches with it.
LEMMA LockMoves ==
  ASSUME AttendedInv, NEW g \in Generations, Monitor(g)
  PROVE  \E to :
           /\ monitor' = [monitor EXCEPT ![g] = to]
           /\ to \in LockedPositions
                => ProcessLockFree /\ g = generation /\ launcher' = launcher
           /\ launcher' # launcher => monitor[g] \in LockedPositions /\ launcher' = g
<1> USE DEF MonitorAt, LockedPositions
<1>1. CASE MonitorChecks(g)
  BY <1>1 DEF MonitorChecks, StillCurrent, stackVars
<1>2. CASE MonitorKills(g) \/ MonitorLaunches(g) \/ MonitorLaunchFails(g) \/ MonitorCrashes(g)
  BY <1>2
  DEF MonitorKills, MonitorLaunches, MonitorLaunchFails, MonitorCrashes, StopProcess,
      StopBreaks, LaunchBreaks, Launch, stackVars
<1>3. CASE MonitorRetries(g)
  <2>1. launcher' = launcher
    BY <1>3 DEF MonitorRetries, stackVars
  <2>2. QED
    BY <1>3, <2>1 DEF MonitorRetries
<1>4. CASE \/ MonitorLeaves(g) \/ MonitorSeesReady(g) \/ MonitorGivesUp(g)
           \/ MonitorDelays(g) \/ MonitorReports(g)
  <2>1. launcher' = launcher
    BY <1>4
    DEF MonitorLeaves, MonitorSeesReady, MonitorGivesUp, MonitorDelays, MonitorReports,
        stackVars
  <2>2. \E to : monitor' = [monitor EXCEPT ![g] = to] /\ to \notin LockedPositions
    BY <1>4
    DEF MonitorLeaves, MonitorSeesReady, MonitorGivesUp, MonitorDelays, MonitorReports
  <2>3. QED
    BY <2>1, <2>2
<1>5. QED
  BY <1>1, <1>2, <1>3, <1>4 DEF Monitor

\* A route launches only while the lock is free, and takes none for a monitor.
LEMMA RouteMoves ==
  ASSUME AttendedInv, NEW g \in Generations, Starter(g) \/ Stopper(g)
  PROVE  /\ generation' = generation
         /\ \/ UNCHANGED <<launcher, monitor>>
            \/ /\ ProcessLockFree /\ launcher' = g /\ g <= generation
               /\ \/ monitor' = monitor
                  \/ monitor' = [monitor EXCEPT ![g] = "watching"]
<1>1. starter[g] = "begun" => g <= generation
  BY NavigationLauncherAssumption DEF AttendedInv, TypeOK, Untouched, Generations
<1>2. CASE StartLaunches(g) \/ StartCrashes(g)
  BY <1>1, <1>2
  DEF StartLaunches, StartCrashes, LaunchBreaks, Launch, webVars, monitorVars
<1>3. CASE StartFails(g) \/ Stopper(g)
  BY <1>3
  DEF StartFails, Stopper, StopKills, StopEnds, StopCrashes, StopProcess, StopBreaks,
      webVars, stackVars, monitorVars
<1>4. QED
  BY <1>2, <1>3 DEF Starter

\* Every step keeps the invariant.
LEMMA OwnerStep == OwnerInv /\ [Next]_vars => OwnerInv'
<1> SUFFICES ASSUME OwnerInv, [Next]_vars
             PROVE  OwnerInv'
  OBVIOUS
<1> USE DEF OwnerInv
<1>1. AttendedInv'
  BY AttendedStep
<1>2. /\ generation \in Nat /\ launcher \in Nat /\ Generations \subseteq Nat
      /\ DOMAIN monitor = Generations
  BY NavigationLauncherAssumption DEF AttendedInv, TypeOK, Generations
<1>3. ASSUME NEW g \in Generations, Monitor(g) PROVE OwnerInv'
  <2>1. PICK to :
          /\ monitor' = [monitor EXCEPT ![g] = to]
          /\ to \in LockedPositions
               => ProcessLockFree /\ g = generation /\ launcher' = launcher
          /\ launcher' # launcher => monitor[g] \in LockedPositions /\ launcher' = g
    BY <1>3, LockMoves
  <2>2. generation' = generation /\ g <= generation
    BY <1>2, <1>3, MonitorMoves
    DEF AttendedInv, Untouched, WatchPositions, LockedPositions
  <2>3. CASE to \in LockedPositions
    BY <1>1, <1>2, <2>1, <2>2, <2>3 DEF ProcessLockFree, LockedPositions
  <2>4. CASE to \notin LockedPositions /\ launcher' = launcher
    BY <1>1, <1>2, <2>1, <2>2, <2>4 DEF LockedPositions
  <2>5. CASE to \notin LockedPositions /\ launcher' # launcher
    <3>1. \A h \in Generations : monitor'[h] \notin LockedPositions
      BY <1>2, <2>1, <2>5
    <3>2. QED
      BY <1>1, <1>2, <2>1, <2>2, <2>5, <3>1 DEF LockedPositions
  <2>6. QED
    BY <2>3, <2>4, <2>5
<1>4. ASSUME NEW g \in Generations, Starter(g) \/ Stopper(g) PROVE OwnerInv'
  BY <1>1, <1>2, <1>4, RouteMoves DEF ProcessLockFree, LockedPositions
<1>5. CASE \/ RuntimeStatus \/ StartChecks \/ StartBegins \/ StopBegins
           \/ StackComesUp \/ ProcessDies \/ NodesLeave \/ UNCHANGED vars
  <2>1. UNCHANGED <<launcher, monitor>> /\ generation' \in {generation, generation + 1}
    BY <1>5
    DEF RuntimeStatus, PollReads, PollFindsExit, PollFindsRunning, PollAdopts, StartChecks,
        StartBegins, StopBegins, StackComesUp, ProcessDies, NodesLeave, vars, webVars,
        stackVars, monitorVars
  <2>2. QED
    BY <1>1, <1>2, <2>1
<1>6. QED
  BY <1>3, <1>4, <1>5 DEF Next

\* However starts, stops and retries overlap, the clean-up of an overtaken start
\* never takes down the stack of a later one: a later start may draw its
\* generation, but not launch, between the look at the generation and the kill.
THEOREM LaterStackSurvives == Spec => LaterStackIsLeftAlone
<1> DEFINE Fenced ==
      \A g \in Generations :
        (process = "alive" /\ process' = "none" /\ monitor[g] # monitor'[g])
        => launcher <= g
<1>1. OwnerInv /\ [Next]_vars => [Fenced]_vars
  <2> SUFFICES ASSUME OwnerInv, Next, NEW g \in Generations,
                      process = "alive", process' = "none", monitor[g] # monitor'[g]
               PROVE  launcher <= g
    OBVIOUS
  <2>1. PICK h \in Generations : Starter(h) \/ Stopper(h) \/ Monitor(h)
    <3>1. ~RuntimeStatus
      BY PollWrites DEF OwnerInv, AttendedInv
    <3>2. ~(StartChecks \/ StartBegins \/ StopBegins)
      BY DEF StartChecks, StartBegins, StopBegins, monitorVars
    <3>3. ~(StackComesUp \/ ProcessDies \/ NodesLeave)
      BY DEF StackComesUp, ProcessDies, NodesLeave, monitorVars
    <3> QED
      BY <3>1, <3>2, <3>3 DEF Next
  <2>2. ~Starter(h) /\ ~Stopper(h)
    BY DEF Starter, Stopper, StartLaunches, StartFails, StartCrashes, StopKills, StopEnds,
           StopCrashes, LaunchBreaks, Launch, stackVars, monitorVars
  <2>3. monitor[h] \in {"killing", "ending"}
    BY <2>1, <2>2
    DEF Monitor, MonitorLeaves, MonitorSeesReady, MonitorRetries, MonitorGivesUp,
        MonitorChecks, MonitorKills, MonitorDelays, MonitorLaunches, MonitorLaunchFails,
        MonitorReports, MonitorCrashes, MonitorAt, LaunchBreaks, Launch, stackVars
  <2>4. g = h
    BY <2>1, <2>2, MonitorMoves DEF OwnerInv, AttendedInv, TypeOK
  <2> QED
    BY <2>3, <2>4 DEF OwnerInv
<1>2. QED
  BY <1>1, OwnerInit, OwnerStep, PTL DEF Spec, LaterStackIsLeftAlone
=============================================================================
