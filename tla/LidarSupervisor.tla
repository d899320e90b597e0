----------------------------- MODULE LidarSupervisor -----------------------------
(***************************************************************************)
(* The supervisor of the lidar driver: once the chassis has been seen, the  *)
(* serial port exists and the lidar board is connected, the driver is       *)
(* started after a delay; it is stopped when one of them goes, and started  *)
(* again after a growing pause when it exits or sends no scan.  Time is     *)
(* counted in supervision periods.                                          *)
(***************************************************************************)
EXTENDS Integers

CONSTANTS
  TcpTimeout,  \* tcp_state_timeout_sec
  StartDelay,
  InitialScanTimeout, ScanTimeout,
  BaseBackoff, MaxBackoff,
  StopTime     \* the longest stop of a driver

ASSUME LidarAssumption ==
  /\ {TcpTimeout, StartDelay, InitialScanTimeout, ScanTimeout, StopTime} \subseteq Nat
  /\ BaseBackoff \in Nat \ {0} /\ MaxBackoff \in Nat \ {0}
  /\ StartDelay <= BaseBackoff /\ BaseBackoff <= MaxBackoff
  /\ ScanTimeout <= InitialScanTimeout

NoStart == -1 \* _pending_start_at is None

Smaller(a, b) == IF a < b THEN a ELSE b

VARIABLES
  serving,   \* laser_tcp_server runs: its pseudo terminal exists
  client,    \* the lidar board is connected to it
  connected, \* the last report received
  reportAge, \* and its age
  seen,      \* _chassis_seen
  driver,    \* "none", "running", or "exited" and not yet noticed
  startIn,   \* periods until the planned start
  backoff,   \* _current_restart_backoff
  scanSeen,  \* a scan since the start
  quiet,     \* periods since the last scan, or since the start
  busy,      \* periods for which a stop still blocks the node
  due,       \* the timer of this period has not run
  calm       \* history: periods since a look found something missing

lidarVars == <<serving, client, connected, reportAge, seen, driver, startIn,
               backoff, scanSeen, quiet, busy, due, calm>>

LidarInit ==
  /\ serving = FALSE /\ client = FALSE
  /\ connected = FALSE /\ reportAge = TcpTimeout + 1
  /\ seen = FALSE
  /\ driver = "none"
  /\ startIn = NoStart
  /\ backoff = BaseBackoff
  /\ scanSeen = FALSE
  /\ quiet = 0
  /\ busy = 0
  /\ due = TRUE
  /\ calm = 0

TcpRecent == connected /\ reportAge <= TcpTimeout
Missing == ~seen \/ ~serving \/ ~TcpRecent

supervised == <<driver, startIn, backoff, scanSeen, quiet, busy, due, calm>>

(* The TCP server: every change is published, and the state again each second. *)
Report ==
  /\ busy = 0
  /\ serving
  /\ connected' = client
  /\ reportAge' = 0
  /\ UNCHANGED <<serving, client, seen, supervised>>

ClientChanges ==
  /\ serving
  /\ client' = ~client
  /\ UNCHANGED <<serving, connected, reportAge, seen, supervised>>

\* A server that ends in order says that the link is down; one that is killed
\* takes its pseudo terminal with it all the same.
ServerChanges ==
  /\ serving' = ~serving
  /\ client' = FALSE
  /\ connected' \in {connected} \cup (IF busy = 0 THEN {FALSE} ELSE {})
  /\ UNCHANGED <<reportAge, seen, supervised>>

(* The other callbacks of the supervisor. *)
ChassisSeen ==
  /\ busy = 0
  /\ ~seen
  /\ seen' = TRUE
  /\ UNCHANGED <<serving, client, connected, reportAge, supervised>>

\* A driver whose exit is still unnoticed counts as running.
Scan ==
  /\ busy = 0
  /\ driver # "none"
  /\ scanSeen' = TRUE
  /\ backoff' = IF scanSeen THEN backoff ELSE BaseBackoff
  /\ quiet' = 0
  /\ UNCHANGED <<serving, client, connected, reportAge, seen, driver, startIn, busy, due, calm>>

DriverExits ==
  /\ driver = "running"
  /\ driver' = "exited"
  /\ UNCHANGED <<serving, client, connected, reportAge, seen, startIn, backoff,
                 scanSeen, quiet, busy, due, calm>>

(* _supervise, after _reap_driver has dropped a driver that exited. *)
DriverRuns == driver = "running"
Planned == IF driver = "exited" THEN Smaller(backoff, MaxBackoff) ELSE startIn
Doubled == Smaller(2 * Smaller(backoff, MaxBackoff), MaxBackoff)
Backoff == IF driver = "exited" THEN Doubled ELSE backoff

Supervising ==
  /\ due
  /\ busy = 0
  /\ due' = FALSE
  /\ UNCHANGED <<serving, client, connected, reportAge, seen>>

\* SIGINT, SIGTERM and SIGKILL one after the other.
StopDriver ==
  /\ driver' = "none"
  /\ scanSeen' = FALSE
  /\ busy' \in IF DriverRuns THEN 0..StopTime ELSE {0}

\* Mutant: a planned start survives the loss of the port.
WaitKeepsPlan ==
  /\ Missing
  /\ Supervising
  /\ startIn' = IF seen /\ ~serving THEN Planned ELSE NoStart
  /\ backoff' = IF seen /\ serving THEN BaseBackoff ELSE Backoff
  /\ calm' = 0
  /\ StopDriver
  /\ UNCHANGED quiet

\* Chassis, port or link is missing; only the link's loss resets the pause.
Wait ==
  /\ Missing
  /\ Supervising
  /\ startIn' = NoStart
  /\ backoff' = IF seen /\ serving THEN BaseBackoff ELSE Backoff
  /\ calm' = 0
  /\ StopDriver
  /\ UNCHANGED quiet

StartAfter == IF Planned = NoStart THEN StartDelay ELSE Planned

\* Mutant: every look plans anew.
PlanAnew ==
  /\ ~Missing /\ ~DriverRuns
  /\ StartDelay > 0
  /\ Supervising
  /\ driver' = "none"
  /\ startIn' = StartDelay
  /\ backoff' = Backoff
  /\ UNCHANGED <<quiet, busy, calm, scanSeen>>

PlanStart ==
  /\ ~Missing /\ ~DriverRuns
  /\ StartAfter > 0
  /\ Supervising
  /\ driver' = "none"
  /\ startIn' = StartAfter
  /\ backoff' = Backoff
  /\ scanSeen' = FALSE
  /\ UNCHANGED <<quiet, busy, calm>>

StartDriver ==
  /\ ~Missing /\ ~DriverRuns
  /\ StartAfter = 0
  /\ Supervising
  /\ driver' = "running"
  /\ startIn' = NoStart
  /\ scanSeen' = FALSE
  /\ quiet' = 0
  /\ UNCHANGED <<backoff, busy, calm>>

\* Popen raises OSError.
StartFails ==
  /\ ~Missing /\ ~DriverRuns
  /\ StartAfter = 0
  /\ Supervising
  /\ startIn' = Smaller(backoff, MaxBackoff)
  /\ backoff' = Doubled
  /\ UNCHANGED <<driver, scanSeen, quiet, busy, calm>>

TimedOut == quiet > IF scanSeen THEN ScanTimeout ELSE InitialScanTimeout

\* The pause counts from the beginning of the stop.
ScanTimesOut ==
  /\ ~Missing /\ DriverRuns
  /\ TimedOut
  /\ Supervising
  /\ startIn' = Smaller(backoff, MaxBackoff)
  /\ backoff' = Doubled
  /\ StopDriver
  /\ UNCHANGED <<quiet, calm>>

LeaveRunning ==
  /\ ~Missing /\ DriverRuns
  /\ ~TimedOut
  /\ Supervising
  /\ UNCHANGED <<driver, startIn, backoff, scanSeen, quiet, busy, calm>>

Supervise ==
  \/ Wait \/ PlanStart \/ StartDriver \/ StartFails \/ ScanTimesOut \/ LeaveRunning

\* The timer runs once in every period in which no stop blocks the node.
Tick ==
  /\ due => busy > 0
  /\ due' = TRUE
  /\ busy' = IF busy = 0 THEN 0 ELSE busy - 1
  /\ reportAge' = Smaller(reportAge + 1, TcpTimeout + 1)
  /\ quiet' = Smaller(quiet + 1, InitialScanTimeout + 1)
  /\ startIn' = IF startIn > 0 THEN startIn - 1 ELSE startIn
  /\ calm' = Smaller(calm + 1, StartDelay)
  /\ UNCHANGED <<serving, client, connected, seen, driver, backoff, scanSeen>>

LidarNext ==
  \/ Report \/ ClientChanges \/ ServerChanges \/ ChassisSeen
  \/ Scan \/ DriverExits \/ Supervise \/ Tick

LidarSpec == LidarInit /\ [][LidarNext]_lidarVars

LidarTypeOK ==
  /\ {serving, client, connected, seen, scanSeen, due} \subseteq BOOLEAN
  /\ reportAge \in 0..(TcpTimeout + 1)
  /\ driver \in {"none", "running", "exited"}
  /\ startIn \in NoStart..MaxBackoff
  /\ backoff \in BaseBackoff..MaxBackoff
  /\ quiet \in 0..(InitialScanTimeout + 1)
  /\ busy \in 0..StopTime
  /\ calm \in 0..StartDelay

\* The driver is started only after every look at chassis, port and link for the
\* start delay has found them there, whatever was planned before the last loss
\* (_supervise, _schedule_restart).
NoEarlyStart ==
  [][driver # "running" /\ driver' = "running" => calm >= StartDelay]_lidarVars

\* A link that stays up is driven again and again, however often the driver exits,
\* falls silent or cannot be started (_supervise).
ReadyLinkIsDriven == <>[]~Missing => []<>DriverRuns
=============================================================================
