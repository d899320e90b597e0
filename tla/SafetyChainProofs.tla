--------------------------- MODULE SafetyChainProofs ----------------------------
(***************************************************************************)
(* Proofs about SafetyChain: two programs and the operator around one stop  *)
(* lock, for any number of sessions and retries.                            *)
(***************************************************************************)
EXTENDS SafetyChain, TLAPS

(* The invariant. *)

\* The steps through which a session holds the lock that it will give back,
\* those from its release to the end of its route or drive, and those at whose
\* end the car is to be locked.
HoldingSteps == {"see", "checks", "countdown", "release"}
OpenSteps == {"confirm"} \cup DrivingSteps
LockedSteps == {"seen", "halt", "stopped"}

\* Before it drives, a session has the lock or has lost it to the operator.
HeldToDrive ==
  \A p \in Programs : step[p] \in HoldingSteps => holder \in {p, Operator}

\* A collector that has heard the lock since a calibration's countdown began
\* knows of the countdown, and one that has heard the calibrator knows of it.
CountdownIsHeard ==
  At("countdown") /\ Collector \notin waiting => view[Collector] \in {Calibrator, Operator}

CalibrationIsKnown ==
  step[Calibrator] \in CalibratingSteps =>
    calibrating \/ (At("countdown") /\ Activity \in waiting)

\* Until it has heard one of them, Nav2 stays away as the calibrator saw it.
Nav2StaysAway ==
  At("countdown") /\ {Collector, Activity} \subseteq waiting => returned \/ ~nav2

\* So no retry that asks the planner during a calibration is told of a way.
NoWayFound == goal = "path" => returned \/ step[Calibrator] \notin CalibratingSteps

\* A countdown knows of a collector in a step without a look.
BlindIsKnown == At("countdown") /\ step[Collector] \in BlindSteps => returned \/ blind

\* A program about to give its lock back is alone.
ReleasesAlone ==
  /\ At("release") => returned \/ step[Collector] \notin OpenSteps
  /\ step[Collector] \in {"countdown", "release"} => step[Calibrator] \notin {"confirm", "drive"}

\* So is one that has given it back, until it has stopped.
OpensAlone ==
  step[Calibrator] \in {"confirm", "drive"} => returned \/ step[Collector] \notin OpenSteps

\* What a program gave back it neither holds nor, once it drives, sees held by it.
GaveBack ==
  \A p \in Programs :
    /\ step[p] \in {"confirm"} \cup RouteSteps => holder # p
    /\ step[p] \in RouteSteps => view[p] # p

\* The calibrator stands still under another's lock.
FoundLocked(p) ==
  p = Calibrator /\ step[p] = "stopping" /\ waiting = {} /\ view[p] # Free

\* A session that has its lock again leaves it; the calibrator may have found
\* another's lock in its second of zero commands.
Relocked ==
  \A p \in Programs :
    (step[p] \in LockedSteps \/ FoundLocked(p)) => (holder # Free \/ p \in freed)

\* In that second it waits for its own sight of the lock only.
StopsBySight == At("stopping") => waiting \subseteq {Calibrator}

\* Where the collector is while the planner or Nav2 has a goal of its.
GoalIsKnown ==
  /\ goal = "path" => nav2 /\ Is("plan")
  /\ goal = "sent" => Awaits
  /\ goal = "live" => Awaits \/ step[Collector] \in {"follow", "stopping"}

LockTypes ==
  /\ holder \in Holders
  /\ view \in [Listeners -> Holders]
  /\ step \in [Programs -> Steps]
  /\ waiting \subseteq Programs \cup {Activity}
  /\ blind \in BOOLEAN
  /\ freed \subseteq Programs
  /\ calibrating \in BOOLEAN
  /\ nav2 \in BOOLEAN
  /\ returned \in BOOLEAN

NavTypes ==
  /\ goal \in GoalStates
  /\ worn \in BOOLEAN
  /\ tries \in 0..NavRetries
  /\ good \in BOOLEAN

\* What one program's steps keep whatever the other does, what keeps the two
\* apart, and what is known of the goal.
LockInv == LockTypes /\ HeldToDrive /\ GaveBack /\ StopsBySight /\ Relocked

ApartInv ==
  /\ CountdownIsHeard /\ CalibrationIsKnown /\ Nav2StaysAway /\ NoWayFound
  /\ BlindIsKnown /\ ReleasesAlone /\ OpensAlone

NavInv == NavTypes /\ GoalIsKnown

Inv == LockInv /\ ApartInv /\ NavInv

-----------------------------------------------------------------------------
(* What a step of either program may do to the lock. *)

\* It moves nobody but itself, and grants are CarMove's.
MovesAlone(p) ==
  /\ step' = [step EXCEPT ![p] = step'[p]]
  /\ step'[p] \in Steps
  /\ waiting' \subseteq Programs \cup {Activity}
  /\ blind' \in BOOLEAN
  /\ view' = view
  /\ \/ holder' = holder
     \/ holder \in {Free, p} /\ holder' \in {Free, p}
  /\ freed' \subseteq Programs
  /\ freed \ {p} \subseteq freed'
  /\ holder' = Free /\ holder # Free => Programs \ {p} \subseteq freed'

\* What it must have done to come to its next step.
Arrives(p) ==
  /\ step'[p] \in HoldingSteps =>
       IF step[p] \in HoldingSteps THEN holder' = holder ELSE holder' = p
  /\ step'[p] = "confirm" => step[p] = "release" /\ holder \in {Free, p} /\ holder' = Free
  /\ step'[p] \in RouteSteps =>
       /\ holder' = holder
       /\ step[p] \in RouteSteps \/ (step[p] = "confirm" /\ view[p] = Free)
  /\ step'[p] \in LockedSteps =>
       /\ freed' = freed
       /\ holder' = p \/ (holder' = holder /\ (step[p] \in LockedSteps \/ FoundLocked(p)))

\* The calibrator counts down, releases and drives after its looks.
CalArrives ==
  /\ At("countdown")' =>
       /\ waiting' = {Collector, Activity} /\ ~nav2
       /\ step[Collector] \in BlindSteps => blind'
  /\ At("release")' =>
       /\ At("countdown") /\ waiting = {} /\ ~blind
       /\ step[Collector] \in WatchingSteps => view[Collector] = Free
  /\ At("drive")' => At("confirm")
  /\ At("stopping")' => waiting' = {Calibrator}

\* The collector counts down after its look at the calibrator, and drives what it
\* was allowed to drive or what it has a plan for.
ColArrives ==
  /\ waiting' = waiting
  /\ Is("countdown")' => ~calibrating
  /\ Is("release")' => Is("countdown")
  /\ step'[Collector] \in DrivingSteps =>
       step[Collector] \in OpenSteps \/ (Is("plan") /\ goal = "path")
  /\ Is("await")' => Is("plan") /\ goal = "path"

\* A session given up: the calibrator has yet to hear the lock.
LEMMA AbortMoves ==
  ASSUME LockTypes, NEW p \in Programs, Abort(p)
  PROVE  /\ step' = [step EXCEPT ![p] = "stopping"] /\ step'[p] = "stopping"
         /\ blind' = FALSE
         /\ waiting' = IF p = Calibrator THEN {Calibrator} ELSE waiting
  BY DEF Abort, Go, LockTypes, Programs

\* Giving up meets the contract, when the lock is left alone or was taken.
LEMMA AbortKeepsContract ==
  ASSUME LockTypes, NEW p \in Programs, Abort(p), UNCHANGED view,
         \/ UNCHANGED <<holder, freed>>
         \/ UNCHANGED holder /\ freed' = freed \cup {p}
         \/ holder \in {Free, p} /\ holder' = p /\ UNCHANGED freed
         \/ holder \in {Free, p} /\ holder' = Free /\ freed' = freed \cup (Programs \ {p})
  PROVE  /\ MovesAlone(p) /\ Arrives(p)
         /\ p = Calibrator => CalArrives
         /\ p = Collector => ColArrives
<1>1. MovesAlone(p)
  BY AbortMoves
  DEF MovesAlone, LockTypes, Steps, Programs, Calibrator, Collector, Free
<1>2. Arrives(p)
  BY AbortMoves DEF Arrives, HoldingSteps, LockedSteps, RouteSteps, DrivingSteps, WatchingSteps
<1>3. p = Calibrator => CalArrives
  BY AbortMoves DEF CalArrives, At
<1>4. p = Collector => ColArrives
  BY AbortMoves DEF ColArrives, Is, DrivingSteps, WatchingSteps, Calibrator, Collector
<1> QED
  BY <1>1, <1>2, <1>3, <1>4

\* Every step of the calibrator meets the contract.
LEMMA CalibratorKeepsContract ==
  ASSUME LockTypes, CalBegins \/ CalAdvances
  PROVE  MovesAlone(Calibrator) /\ Arrives(Calibrator) /\ CalArrives
<1> USE DEF LockTypes, Programs, Listeners, Holders, Steps, RestSteps, HoldingSteps,
        LockedSteps, DrivingSteps, WatchingSteps, RouteSteps, BlindSteps, Calibrator,
        Collector, Operator, Free, Activity, MovesAlone, Arrives, CalArrives, At, CalGo, Go
<1>1. CASE CalBegins
  <2>1. CASE Abort(Calibrator)
    BY <1>1, <2>1, AbortKeepsContract DEF CalBegins, Begin
  <2>2. CASE ~Abort(Calibrator)
    BY <1>1, <2>2 DEF CalBegins, Begin
  <2> QED
    BY <2>1, <2>2
<1>2. CASE CalEngages
  <2>1. CASE Abort(Calibrator)
    BY <1>2, <2>1, AbortKeepsContract
    DEF CalEngages, CallEStop, Grant, Granted
  <2>2. CASE ~Abort(Calibrator)
    BY <1>2, <2>2 DEF CalEngages, CallEStop, Grant, Granted
  <2> QED
    BY <2>1, <2>2
<1>3. CASE CalSeesLock
  <2>1. CASE Abort(Calibrator)
    BY <1>3, <2>1, AbortKeepsContract DEF CalSeesLock
  <2>2. CASE ~Abort(Calibrator)
    BY <1>3, <2>2 DEF CalSeesLock
  <2> QED
    BY <2>1, <2>2
<1>4. CASE CalChecks
  <2>1. CASE Abort(Calibrator)
    BY <1>4, <2>1, AbortKeepsContract DEF CalChecks
  <2>2. CASE ~Abort(Calibrator)
    <3>1. /\ step[Calibrator] = "checks" /\ ~nav2 /\ waiting' = {Collector, Activity}
          /\ step' = [step EXCEPT ![Calibrator] = "countdown"]
          /\ UNCHANGED <<holder, view, freed>>
      BY <1>4, <2>2 DEF CalChecks, CountdownBegins
    <3>2. CASE step[Collector] \in BlindSteps
      <4>1. blind' = TRUE
        BY <1>4, <2>2, <3>2 DEF CalChecks, CountdownBegins
      <4> QED
        BY <3>1, <3>2, <4>1
    <3>3. CASE step[Collector] \notin BlindSteps
      <4>1. blind' = FALSE
        BY <1>4, <2>2, <3>3 DEF CalChecks, CountdownBegins
      <4> QED
        BY <3>1, <3>3, <4>1
    <3> QED
      BY <3>2, <3>3
  <2> QED
    BY <2>1, <2>2
<1>5. CASE CalCountsDown
  <2>1. CASE Abort(Calibrator)
    BY <1>5, <2>1, AbortKeepsContract DEF CalCountsDown
  <2>2. CASE ~Abort(Calibrator)
    BY <1>5, <2>2 DEF CalCountsDown
  <2> QED
    BY <2>1, <2>2
<1>6. CASE CalReleases
  <2>1. CASE Abort(Calibrator)
    BY <1>6, <2>1, AbortKeepsContract
    DEF CalReleases, CallEStop, Grant, Granted
  <2>2. CASE ~Abort(Calibrator)
    BY <1>6, <2>2 DEF CalReleases, CallEStop, Grant, Granted
  <2> QED
    BY <2>1, <2>2
<1>7. CASE CalSeesUnlock
  <2>1. CASE Abort(Calibrator) /\ UNCHANGED freed
    BY <1>7, <2>1, AbortKeepsContract DEF CalSeesUnlock
  <2>2. CASE ~(Abort(Calibrator) /\ UNCHANGED freed)
    BY <1>7, <2>2 DEF CalSeesUnlock, Drive
  <2> QED
    BY <2>1, <2>2
<1>8. CASE CalDriveEnds
  BY <1>8 DEF CalDriveEnds, Abort
<1>9. CASE CalStops
  BY <1>9 DEF CalStops, FoundLocked
<1>10. CASE CalLocks
  BY <1>10 DEF CalLocks, CallEStop, Grant, Granted
<1>11. CASE CalSeesOwnLock
  BY <1>11 DEF CalSeesOwnLock
<1>12. CASE CalEnds
  BY <1>12 DEF CalEnds
<1> QED
  BY <1>1, <1>2, <1>3, <1>4, <1>5, <1>6, <1>7, <1>8, <1>9, <1>10, <1>11, <1>12
  DEF CalAdvances

\* Every step of the collector does.
LEMMA CollectorKeepsContract ==
  ASSUME LockTypes, ColBegins \/ ColAdvances
  PROVE  MovesAlone(Collector) /\ Arrives(Collector) /\ ColArrives
<1> USE DEF LockTypes, Programs, Listeners, Holders, Steps, RestSteps, HoldingSteps,
        LockedSteps, OpenSteps, DrivingSteps, WatchingSteps, RouteSteps, BlindSteps,
        Calibrator, Collector, Operator, Free, Activity, MovesAlone, Arrives, ColArrives,
        Is, ColGo, Go
<1>1. CASE ColBegins
  <2>1. CASE Abort(Collector)
    BY <1>1, <2>1, AbortKeepsContract DEF ColBegins, Begin
  <2>2. CASE ~Abort(Collector)
    BY <1>1, <2>2 DEF ColBegins, Begin
  <2> QED
    BY <2>1, <2>2
<1>2. CASE ColEngages
  BY <1>2 DEF ColEngages, CallEStop, Grant, Granted
<1>3. CASE ColChecks
  BY <1>3 DEF ColChecks
<1>4. CASE ColCountsDown
  BY <1>4 DEF ColCountsDown
<1>5. CASE ColReleases
  BY <1>5 DEF ColReleases, CallEStop, Grant, Granted
<1>6. CASE ColSeesUnlock
  BY <1>6 DEF ColSeesUnlock, Drive
<1>7. CASE ColSends
  BY <1>7 DEF ColSends
<1>8. CASE RetryPlans
  BY <1>8 DEF RetryPlans, ColStops
<1>9. CASE RetrySends
  BY <1>9 DEF RetrySends, ColStops, Drive
<1>10. CASE GoalAccepted
  BY <1>10 DEF GoalAccepted, Awaits
<1>11. CASE GoalRejected \/ SendTimesOut \/ GoalFailed
  BY <1>11 DEF GoalRejected, SendTimesOut, GoalFailed, NavigationFails, ColStops, Awaits
<1>12. CASE GoalReached
  BY <1>12 DEF GoalReached
<1>13. CASE SafetyFails \/ QualityReady
  BY <1>13 DEF SafetyFails, QualityReady, ColStops
<1>14. CASE ColCancels \/ CancelThrows
  BY <1>14 DEF ColCancels, CancelThrows
<1>15. CASE ColLocks
  BY <1>15 DEF ColLocks, CallEStop, Grant, Granted, StopFails
<1>16. CASE ColEnds
  BY <1>16 DEF ColEnds, StopFails
<1> QED
  BY <1>1, <1>2, <1>3, <1>4, <1>5, <1>6, <1>7, <1>8, <1>9, <1>10, <1>11, <1>12, <1>13,
     <1>14, <1>15, <1>16 DEF ColAdvances, ColDrives

-----------------------------------------------------------------------------
(* The lock's part of the invariant. *)

\* A step of one program keeps the lock's invariant, whatever the other does.
LEMMA ContractKeepsLock ==
  ASSUME LockInv, NEW p \in Programs, MovesAlone(p), Arrives(p),
         p = Calibrator => CalArrives /\ CalKeeps,
         p = Collector => ColArrives /\ UNCHANGED seenVars
  PROVE  LockInv'
<1> USE DEF LockInv, LockTypes, MovesAlone, Arrives
<1>1. UNCHANGED <<calibrating, nav2>> /\ returned' \in BOOLEAN
  <2>1. CASE p = Calibrator
    BY <2>1 DEF CalKeeps
  <2>2. CASE p = Collector
    BY <2>2 DEF seenVars
  <2> QED
    BY <2>1, <2>2 DEF Programs
<1>2. LockTypes'
  BY <1>1 DEF Programs, Calibrator, Collector, Listeners, Holders
<1>3. \A q \in Programs \ {p} :
        /\ step'[q] = step[q]
        /\ q \in freed => q \in freed'
        /\ holder' = Free => holder = Free \/ q \in freed'
        /\ holder' # holder => holder # q /\ holder # Operator /\ holder' # q
  BY DEF Programs, Calibrator, Collector, Operator, Free
<1>4. HeldToDrive'
  BY <1>3 DEF HeldToDrive, HoldingSteps, Programs, Calibrator, Collector, Operator, Free
<1>5. GaveBack'
  BY <1>3 DEF GaveBack, RouteSteps, DrivingSteps, WatchingSteps, Programs, Calibrator,
              Collector, Free
<1>6. StopsBySight'
  <2>1. CASE p = Calibrator
    BY <2>1 DEF CalArrives, StopsBySight
  <2>2. CASE p = Collector
    BY <1>3, <2>2 DEF ColArrives, StopsBySight, At, Programs, Calibrator, Collector
  <2> QED
    BY <2>1, <2>2 DEF Programs
<1>7. Relocked'
  <2>1. ASSUME NEW q \in Programs \ {p}, step[q] \in LockedSteps \/ FoundLocked(q)
        PROVE  holder' # Free \/ q \in freed'
    BY <1>3, <2>1 DEF Relocked
  <2>2. ~FoundLocked(p)'
    BY DEF FoundLocked, CalArrives, At
  <2>3. step'[p] \in LockedSteps => holder' # Free \/ p \in freed'
    BY DEF Relocked, Programs, Calibrator, Collector, Free
  <2>4. ASSUME NEW q \in Programs \ {p}, FoundLocked(q)' PROVE FoundLocked(q)
    BY <1>3, <2>4 DEF FoundLocked, ColArrives, Programs
  <2> QED
    BY <1>3, <2>1, <2>2, <2>3, <2>4 DEF Relocked
<1> QED
  BY <1>2, <1>4, <1>5, <1>6, <1>7

\* So do the delivery of a status and the operator's button.
LEMMA LockMovesKeepLock ==
  ASSUME LockInv, LockMoves, UNCHANGED seenVars
  PROVE  LockInv'
<1> USE DEF LockInv, LockTypes, seenVars
<1>1. ASSUME NEW l \in Listeners, HearLock(l) PROVE LockInv'
  <2>1. /\ UNCHANGED <<holder, step, blind, freed>>
        /\ view' = [view EXCEPT ![l] = holder]
        /\ waiting' = waiting \ {l}
    BY <1>1 DEF HearLock
  <2>2. LockTypes'
    BY <2>1 DEF Holders
  <2>3. HeldToDrive'
    BY <2>1 DEF HeldToDrive
  <2>4. GaveBack'
    BY <2>1 DEF GaveBack, Listeners
  <2>5. StopsBySight'
    BY <2>1 DEF StopsBySight, At
  <2>6. ASSUME NEW p \in Programs, FoundLocked(p)', holder = Free
        PROVE  p \in freed
    <3>1. p = Calibrator /\ step[p] = "stopping" /\ waiting' = {} /\ view'[p] # Free
      BY <2>1, <2>6 DEF FoundLocked
    <3>2. l # p /\ view[p] # Free
      BY <2>1, <2>6, <3>1
    <3>3. waiting = {}
      BY <2>1, <3>1, <3>2 DEF StopsBySight, At
    <3> QED
      BY <2>6, <3>1, <3>2, <3>3 DEF Relocked, FoundLocked
  <2>7. Relocked'
    BY <2>1, <2>6 DEF Relocked
  <2> QED
    BY <2>2, <2>3, <2>4, <2>5, <2>7
<1>2. CASE OperatorStops
  BY <1>2
  DEF OperatorStops, Grant, HeldToDrive, GaveBack, StopsBySight, Relocked, FoundLocked, At,
      Holders, Listeners, Programs, Operator, Calibrator, Collector, Free
<1>3. CASE OperatorReleases
  <2>1. \A p \in Programs : step[p] \in {"rest", "stopped"}
    BY <1>3 DEF OperatorReleases, Active
  <2>2. holder' = Free /\ freed' = Programs /\ UNCHANGED <<view, step, waiting, blind>>
    BY <1>3 DEF OperatorReleases, Grant
  <2>3. LockTypes'
    BY <2>2 DEF Holders
  <2> QED
    BY <2>1, <2>2, <2>3
    DEF HeldToDrive, GaveBack, StopsBySight, Relocked, At, HoldingSteps, RouteSteps,
        DrivingSteps, WatchingSteps, Programs
<1> QED
  BY <1>1, <1>2, <1>3 DEF LockMoves

-----------------------------------------------------------------------------
(* What keeps the two programs apart. *)

\* The exception is forgotten only when the calibration is over.
LEMMA ExceptionLasts ==
  ASSUME CalKeeps
  PROVE  /\ returned' => returned
         /\ returned /\ step'[Calibrator] \in CalibratingSteps => returned'
  BY DEF CalKeeps

\* A step of the calibrator keeps them apart.
LEMMA CalibratorKeepsApart ==
  ASSUME Inv, CalBegins \/ CalAdvances, CalKeeps
  PROVE  ApartInv'
<1>1. /\ MovesAlone(Calibrator) /\ Arrives(Calibrator) /\ CalArrives
      /\ UNCHANGED <<calibrating, nav2, navVars>>
  BY CalibratorKeepsContract DEF Inv, LockInv, CalKeeps
<1>2. /\ step'[Collector] = step[Collector] /\ view' = view
      /\ holder \in {Collector, Operator} => holder' = holder
  BY <1>1 DEF MovesAlone, Inv, LockInv, LockTypes, Programs, Calibrator, Collector, Operator,
              Free
<1> USE <1>1, <1>2 DEF ApartInv, At, CalibratingSteps
<1>3. CountdownIsHeard' /\ Nav2StaysAway'
  BY DEF CalArrives, CountdownIsHeard, Nav2StaysAway
<1>4. At("countdown") => CalibrationIsKnown /\ (waiting = {} => calibrating)
  BY DEF Inv, CalibrationIsKnown
<1>5. step'[Calibrator] = "confirm" => step[Calibrator] = "release"
  BY DEF Arrives
<1>6. CalibrationIsKnown'
  BY <1>4, <1>5 DEF Inv, CalibrationIsKnown, CalArrives
<1>7. NoWayFound'
  <2>1. ASSUME goal = "path", step'[Calibrator] \in CalibratingSteps PROVE returned'
    <3>1. step[Calibrator] \in CalibratingSteps
      BY <1>5, <2>1 DEF CalArrives, Inv, NavInv, GoalIsKnown
    <3> QED
      BY <2>1, <3>1, ExceptionLasts DEF Inv, NoWayFound
  <2> QED
    BY <2>1 DEF NoWayFound, navVars
<1>8. BlindIsKnown'
  BY DEF BlindIsKnown, CalArrives
<1>9. ReleasesAlone'
  <2>1. ASSUME step'[Calibrator] = "release", step[Collector] \in OpenSteps PROVE returned'
    <3>1. view[Collector] \in {Calibrator, Operator}
      BY <2>1 DEF CalArrives, Inv, CountdownIsHeard
    <3>2. step[Collector] \in BlindSteps
      BY <2>1, <3>1 DEF CalArrives, OpenSteps, DrivingSteps, BlindSteps, Calibrator, Operator,
                        Free
    <3> QED
      BY <2>1, <3>2, ExceptionLasts DEF CalArrives, Inv, BlindIsKnown
  <2>2. ASSUME step[Collector] \in {"countdown", "release"},
               step'[Calibrator] \in {"confirm", "drive"}
        PROVE  FALSE
    <3>1. holder \in {Collector, Operator}
      BY <2>2 DEF Inv, LockInv, HeldToDrive, HoldingSteps, Programs
    <3>2. step'[Calibrator] # "confirm"
      BY <3>1 DEF Arrives, Calibrator, Collector, Operator, Free
    <3> QED
      BY <2>2, <3>2 DEF CalArrives, Inv, ReleasesAlone
  <2> QED
    BY <2>1, <2>2 DEF ReleasesAlone
<1>10. OpensAlone'
  BY <1>5, ExceptionLasts DEF CalArrives, Inv, OpensAlone, ReleasesAlone
<1> QED
  BY <1>3, <1>6, <1>7, <1>8, <1>9, <1>10

\* The collector learns of a way only on a look that shows neither lock nor
\* calibration, with Nav2 there.
LEMMA CollectorFindsWay ==
  ASSUME NavInv, ColBegins \/ ColAdvances, goal' = "path"
  PROVE  view[Collector] = Free /\ ~calibrating /\ nav2
<1> USE DEF NavInv, GoalIsKnown, Is, ColGo, Go, navVars
<1>1. CASE RetryPlans
  BY <1>1 DEF RetryPlans
<1>2. CASE ColBegins \/ ColEngages \/ ColChecks \/ ColCountsDown \/ ColReleases \/ ColSeesUnlock
  BY <1>2 DEF ColBegins, ColEngages, ColChecks, ColCountsDown, ColReleases, ColSeesUnlock, Begin
<1>3. CASE ColSends \/ RetrySends \/ GoalAccepted \/ GoalReached \/ SafetyFails
  BY <1>3 DEF ColSends, RetrySends, GoalAccepted, GoalReached, SafetyFails, Awaits
<1>4. CASE GoalRejected \/ SendTimesOut \/ GoalFailed
  BY <1>4 DEF GoalRejected, SendTimesOut, GoalFailed, NavigationFails
<1>5. CASE QualityReady \/ ColCancels \/ CancelThrows \/ ColLocks \/ ColEnds
  BY <1>5 DEF QualityReady, ColCancels, CancelThrows, ColLocks, ColEnds, Canceled
<1> QED
  BY <1>1, <1>2, <1>3, <1>4, <1>5 DEF ColAdvances, ColDrives

\* A step of the collector keeps them apart.
LEMMA CollectorKeepsApart ==
  ASSUME Inv, ColBegins \/ ColAdvances, UNCHANGED seenVars
  PROVE  ApartInv'
<1>1. /\ MovesAlone(Collector) /\ Arrives(Collector) /\ ColArrives
      /\ UNCHANGED <<calibrating, nav2, returned>>
  BY CollectorKeepsContract DEF Inv, LockInv, seenVars
<1>2. /\ step'[Calibrator] = step[Calibrator] /\ view' = view /\ waiting' = waiting
      /\ step[Calibrator] \in HoldingSteps => holder \in {Calibrator, Operator}
  BY <1>1 DEF MovesAlone, ColArrives, Inv, LockInv, LockTypes, HeldToDrive, Programs,
              Calibrator, Collector
<1> USE <1>1, <1>2 DEF ApartInv, At, Is, CalibratingSteps
<1>3. CountdownIsHeard' /\ Nav2StaysAway' /\ CalibrationIsKnown'
  BY DEF Inv, CountdownIsHeard, Nav2StaysAway, CalibrationIsKnown
<1>4. NoWayFound'
  <2>1. ASSUME goal' = "path", step[Calibrator] \in CalibratingSteps PROVE returned
    <3>1. view[Collector] = Free /\ ~calibrating /\ nav2
      BY <2>1, CollectorFindsWay DEF Inv
    <3>2. step[Calibrator] = "countdown" /\ {Collector, Activity} \subseteq waiting
      BY <2>1, <3>1
      DEF Inv, CalibrationIsKnown, CountdownIsHeard, Free, Calibrator, Operator
    <3> QED
      BY <3>1, <3>2 DEF Inv, Nav2StaysAway
  <2> QED
    BY <2>1 DEF NoWayFound
<1>5. step[Calibrator] \in {"countdown", "release"} => step'[Collector] # "confirm"
  BY DEF Arrives, HoldingSteps, Calibrator, Collector, Operator, Free
<1>6. BlindIsKnown'
  BY <1>5 DEF ColArrives, Inv, BlindIsKnown, NoWayFound, BlindSteps
<1>7. ReleasesAlone'
  BY <1>5 DEF ColArrives, Inv, ReleasesAlone, NoWayFound, CalibrationIsKnown, OpenSteps
<1>8. OpensAlone'
  <2>1. step'[Collector] \in OpenSteps =>
          step[Collector] \in OpenSteps \cup {"release"} \/ goal = "path"
    BY DEF ColArrives, Arrives, OpenSteps
  <2> QED
    BY <2>1 DEF Inv, OpensAlone, ReleasesAlone, NoWayFound
<1> QED
  BY <1>3, <1>4, <1>6, <1>7, <1>8

\* The delivery of a status and the operator's button keep them apart.
LEMMA LockMovesKeepApart ==
  ASSUME Inv, LockMoves, UNCHANGED <<seenVars, navVars>>
  PROVE  ApartInv'
<1> USE DEF ApartInv, seenVars, navVars
<1>1. UNCHANGED <<step, blind, goal, calibrating, nav2, returned>>
  BY DEF LockMoves, HearLock, OperatorStops, OperatorReleases
<1>2. NoWayFound' /\ BlindIsKnown' /\ ReleasesAlone' /\ OpensAlone'
  BY <1>1 DEF Inv, NoWayFound, BlindIsKnown, ReleasesAlone, OpensAlone, At
<1>3. ASSUME NEW l \in Listeners, HearLock(l)
      PROVE  CountdownIsHeard' /\ CalibrationIsKnown' /\ Nav2StaysAway'
  <2>1. view' = [view EXCEPT ![l] = holder] /\ waiting' = waiting \ {l}
    BY <1>3 DEF HearLock
  <2>2. l # Activity
    BY DEF Listeners, Programs, Calibrator, Collector, Operator, Activity
  <2>3. At("countdown") => holder \in {Calibrator, Operator}
    BY DEF Inv, LockInv, HeldToDrive, HoldingSteps, At, Programs
  <2>4. CountdownIsHeard'
    <3>1. ASSUME At("countdown"), Collector \notin waiting'
          PROVE  view'[Collector] \in {Calibrator, Operator}
      BY <2>1, <2>3, <3>1 DEF Inv, LockInv, LockTypes, CountdownIsHeard, Listeners, Programs
    <3> QED
      BY <1>1, <3>1 DEF CountdownIsHeard, At
  <2>5. CalibrationIsKnown' /\ Nav2StaysAway'
    BY <1>1, <2>1, <2>2 DEF Inv, CalibrationIsKnown, Nav2StaysAway, At
  <2> QED
    BY <2>4, <2>5
<1>4. CASE OperatorStops \/ OperatorReleases
  <2>1. UNCHANGED <<view, waiting>>
    BY <1>4 DEF OperatorStops, OperatorReleases
  <2> QED
    BY <1>1, <1>2, <2>1 DEF Inv, CountdownIsHeard, CalibrationIsKnown, Nav2StaysAway, At
<1> QED
  BY <1>2, <1>3, <1>4 DEF LockMoves

\* What the collector hears of the calibrator keeps the whole invariant.
LEMMA HearingKeepsInv ==
  ASSUME Inv, HearCalibration, UNCHANGED navVars
  PROVE  Inv'
<1> USE DEF Inv, LockInv, LockTypes, ApartInv, NavInv
<1>1. /\ UNCHANGED <<holder, view, step, blind, freed, nav2, returned>>
      /\ UNCHANGED <<goal, worn, tries, good>>
      /\ waiting' = waiting \ {Activity}
  BY DEF HearCalibration, navVars
<1>9. calibrating' \in BOOLEAN /\ (step[Calibrator] \notin {"rest", "stopped"} => calibrating')
  <2>1. calibrating' \in BOOLEAN
    BY DEF HearCalibration
  <2>2. ASSUME step[Calibrator] \notin {"rest", "stopped"} PROVE calibrating'
    <3>1. Calibrator \in Active
      BY <2>2 DEF Active, Programs
    <3> QED
      BY <3>1 DEF HearCalibration
  <2> QED
    BY <2>1, <2>2
<1>2. Activity # Collector /\ Activity # Calibrator
  BY DEF Activity, Collector, Calibrator
<1>3. LockTypes' /\ HeldToDrive' /\ GaveBack'
  BY <1>9, <1>1 DEF HeldToDrive, GaveBack
<1>4. StopsBySight' /\ Relocked'
  <2>1. At("stopping") => waiting' = waiting
    BY <1>1, <1>2 DEF StopsBySight
  <2> QED
    BY <1>1, <2>1 DEF StopsBySight, Relocked, FoundLocked, At
<1>5. CountdownIsHeard' /\ Nav2StaysAway'
  BY <1>1, <1>2 DEF CountdownIsHeard, Nav2StaysAway, At
<1>6. CalibrationIsKnown'
  BY <1>9, <1>1 DEF CalibrationIsKnown, CalibratingSteps
<1>7. NoWayFound' /\ BlindIsKnown' /\ ReleasesAlone' /\ OpensAlone'
  BY <1>1 DEF NoWayFound, BlindIsKnown, ReleasesAlone, OpensAlone, At
<1>8. NavTypes' /\ GoalIsKnown'
  BY <1>1 DEF NavTypes, GoalIsKnown, Is, Awaits
<1> QED
  BY <1>3, <1>4, <1>5, <1>6, <1>7, <1>8

\* So do Nav2's leaving and its coming.
LEMMA Nav2KeepsInv ==
  ASSUME Inv, Nav2Leaves \/ Nav2Comes
  PROVE  Inv'
<1> USE DEF Inv, LockInv, LockTypes, ApartInv, NavInv
<1>1. /\ UNCHANGED <<holder, view, step, waiting, blind, freed, calibrating, worn, tries, good>>
      /\ goal' \in {goal, "lost", "dead", "none"}
      /\ returned => returned'
      /\ \/ nav2' = FALSE /\ goal' # "path"
         \/ /\ nav2' = TRUE /\ goal' = goal
            /\ At("countdown") /\ {Collector, Activity} \subseteq waiting => returned'
  <2>1. CASE Nav2Leaves
    BY <2>1 DEF Nav2Leaves, lockVars
  <2>2. CASE Nav2Comes
    BY <2>2 DEF Nav2Comes, lockVars, navVars, At
  <2> QED
    BY <2>1, <2>2
<1>2. returned' \in BOOLEAN
  <2>1. CASE Nav2Leaves
    BY <2>1 DEF Nav2Leaves
  <2>2. CASE Nav2Comes
    <3>1. returned' = (returned \/ (step[Calibrator] = "countdown"
                                     /\ {Collector, Activity} \subseteq waiting))
      BY <2>2 DEF Nav2Comes
    <3> QED
      BY <3>1
  <2> QED
    BY <2>1, <2>2
<1>3. LockTypes' /\ HeldToDrive' /\ GaveBack' /\ StopsBySight' /\ Relocked'
  BY <1>1, <1>2 DEF HeldToDrive, GaveBack, StopsBySight, Relocked, FoundLocked, At
<1>4. CountdownIsHeard' /\ CalibrationIsKnown' /\ Nav2StaysAway'
  BY <1>1 DEF CountdownIsHeard, CalibrationIsKnown, Nav2StaysAway, At
<1>5. NoWayFound' /\ BlindIsKnown' /\ ReleasesAlone' /\ OpensAlone'
  BY <1>1 DEF NoWayFound, BlindIsKnown, ReleasesAlone, OpensAlone, At
<1>6. NavTypes' /\ GoalIsKnown'
  BY <1>1 DEF NavTypes, GoalIsKnown, GoalStates, Is, Awaits
<1> QED
  BY <1>3, <1>4, <1>5, <1>6

-----------------------------------------------------------------------------
(* The goal's part of the invariant. *)

\* The lock's moves and the calibrator leave the collector where it is.
LEMMA OthersLeaveCollector ==
  ASSUME LockTypes, LockMoves \/ CalBegins \/ CalAdvances
  PROVE  step'[Collector] = step[Collector]
<1>1. CASE LockMoves
  BY <1>1 DEF LockMoves, HearLock, OperatorStops, OperatorReleases
<1>2. CASE CalBegins \/ CalAdvances
  BY <1>2, CalibratorKeepsContract
  DEF MovesAlone, LockTypes, Programs, Calibrator, Collector
<1> QED
  BY <1>1, <1>2

\* Every step of the collector keeps track of the last goal.
LEMMA CollectorKeepsGoal ==
  ASSUME LockTypes, NavInv, ColBegins \/ ColAdvances, UNCHANGED seenVars
  PROVE  NavInv'
<1> USE RetriesAssumption
    DEF LockTypes, NavInv, NavTypes, GoalIsKnown, GoalStates, Programs, Is, ColGo, Go, navVars,
        Awaits, seenVars
<1>1. CASE ColBegins
  BY <1>1 DEF ColBegins, Begin, Abort
<1>2. CASE ColEngages \/ ColChecks \/ ColCountsDown \/ ColReleases \/ ColSeesUnlock
  BY <1>2 DEF ColEngages, ColChecks, ColCountsDown, ColReleases, ColSeesUnlock, Drive
<1>3. CASE ColSends
  BY <1>3 DEF ColSends
<1>4. CASE RetryPlans
  BY <1>4 DEF RetryPlans, ColStops
<1>5. CASE RetrySends
  BY <1>5 DEF RetrySends, ColStops, Drive
<1>6. CASE SafetyFails
  BY <1>6 DEF SafetyFails, ColStops
<1>7. CASE GoalAccepted
  BY <1>7 DEF GoalAccepted
<1>8. CASE GoalRejected \/ SendTimesOut \/ GoalFailed
  <2>1. NavigationFails
    BY <1>8 DEF GoalRejected, SendTimesOut, GoalFailed
  <2>2. goal' = "none" /\ worn' = worn /\ good' = good
    BY <2>1 DEF NavigationFails
  <2>3. tries' \in 0..NavRetries
    BY <2>1 DEF NavigationFails, ColStops
  <2> QED
    BY <2>2, <2>3
<1>9. CASE GoalReached
  BY <1>9 DEF GoalReached
<1>10. CASE QualityReady
  <2>1. good' \in BOOLEAN
    <3>1. good' = TRUE \/ good' = (goal # "told")
      BY <1>10 DEF QualityReady
    <3> QED
      BY <3>1
  <2>2. goal' = Canceled \/ goal' = "none"
    BY <1>10 DEF QualityReady
  <2>3. worn' = worn /\ tries' = 0
    BY <1>10 DEF QualityReady, ColStops
  <2>4. goal \notin {"sent", "path"}
    BY <1>10 DEF QualityReady
  <2> QED
    BY <2>1, <2>2, <2>3, <2>4 DEF Canceled
<1>11. CASE ColCancels \/ CancelThrows
  BY <1>11 DEF ColCancels, CancelThrows, Canceled
<1>12. CASE ColLocks \/ ColEnds
  BY <1>12 DEF ColLocks, ColEnds, StopFails
<1> QED
  BY <1>1, <1>2, <1>3, <1>4, <1>5, <1>6, <1>7, <1>8, <1>9, <1>10, <1>11, <1>12
  DEF ColAdvances, ColDrives

\* A goal that Nav2 or its client ends or accepts disturbs nothing else.
LEMMA AnswersKeepInv ==
  ASSUME Inv, Nav2Answers \/ Nav2Ends \/ ResultArrives, UNCHANGED seenVars
  PROVE  Inv'
<1> USE DEF Inv, LockInv, ApartInv, NavInv
<1>1. /\ UNCHANGED <<lockVars, seenVars, worn, tries, good>>
      /\ \/ goal = "sent" /\ goal' = "live"
         \/ goal' \in {"over", "none", "told"}
  BY DEF Nav2Answers, Nav2Ends, ResultArrives
<1>2. LockTypes' /\ HeldToDrive' /\ GaveBack' /\ StopsBySight' /\ Relocked'
  BY <1>1 DEF LockTypes, HeldToDrive, GaveBack, StopsBySight, Relocked, FoundLocked, At,
              lockVars, seenVars
<1>3. CountdownIsHeard' /\ CalibrationIsKnown' /\ Nav2StaysAway' /\ NoWayFound'
  BY <1>1 DEF CountdownIsHeard, CalibrationIsKnown, Nav2StaysAway, NoWayFound, At,
              lockVars, seenVars
<1>4. BlindIsKnown' /\ ReleasesAlone' /\ OpensAlone'
  BY <1>1 DEF BlindIsKnown, ReleasesAlone, OpensAlone, At, lockVars, seenVars
<1>5. NavTypes' /\ GoalIsKnown'
  BY <1>1 DEF NavTypes, GoalIsKnown, GoalStates, Is, Awaits, lockVars
<1> QED
  BY <1>2, <1>3, <1>4, <1>5

-----------------------------------------------------------------------------
(* The whole. *)

\* Both programs begin at rest, with the lock free.
LEMMA InitInv == Init => Inv
<1> SUFFICES ASSUME Init PROVE Inv
  OBVIOUS
<1> USE DEF Init, LockInit, NavInit
<1>1. LockTypes
  BY DEF LockTypes, Holders, Listeners, Steps, RestSteps, Programs, Free
<1>2. HeldToDrive /\ GaveBack
  BY DEF HeldToDrive, GaveBack, HoldingSteps, RouteSteps, DrivingSteps, WatchingSteps
<1>3. StopsBySight /\ Relocked
  BY DEF StopsBySight, Relocked, Programs
<1>4. ApartInv
  BY DEF ApartInv, CountdownIsHeard, CalibrationIsKnown, Nav2StaysAway, NoWayFound,
         BlindIsKnown, ReleasesAlone, OpensAlone, At, CalibratingSteps, Programs
<1>5. NavTypes
  <2>1. tries \in 0..NavRetries
    BY RetriesAssumption
  <2> QED
    BY <2>1 DEF NavTypes, GoalStates
<1>6. GoalIsKnown
  BY DEF GoalIsKnown
<1> QED
  BY <1>1, <1>2, <1>3, <1>4, <1>5, <1>6 DEF Inv, LockInv, NavInv

\* Every step keeps the invariant.
LEMMA NextInv == Inv /\ [Next]_vars => Inv'
<1> SUFFICES ASSUME Inv, [Next]_vars PROVE Inv'
  OBVIOUS
<1>1. LockInv /\ LockTypes /\ NavInv
  BY DEF Inv, LockInv
<1>2. CASE LockMoves /\ UNCHANGED <<seenVars, navVars>>
  <2>1. step'[Collector] = step[Collector] /\ UNCHANGED <<nav2, navVars>>
    BY <1>1, <1>2, OthersLeaveCollector DEF seenVars
  <2>2. NavInv'
    BY <1>1, <2>1 DEF NavInv, NavTypes, GoalIsKnown, Is, Awaits, navVars
  <2> QED
    BY <1>1, <1>2, <2>2, LockMovesKeepLock, LockMovesKeepApart DEF Inv
<1>3. CASE HearCalibration /\ UNCHANGED navVars
  BY <1>3, HearingKeepsInv
<1>4. CASE (CalBegins \/ CalAdvances) /\ CalKeeps
  <2>1. step'[Collector] = step[Collector] /\ UNCHANGED <<nav2, navVars>>
    BY <1>1, <1>4, OthersLeaveCollector DEF CalKeeps
  <2>2. NavInv'
    BY <1>1, <2>1 DEF NavInv, NavTypes, GoalIsKnown, Is, Awaits, navVars
  <2>3. LockInv'
    BY <1>1, <1>4, CalibratorKeepsContract, ContractKeepsLock
    DEF Programs, Calibrator, Collector
  <2> QED
    BY <1>4, <2>2, <2>3, CalibratorKeepsApart DEF Inv
<1>5. CASE (ColBegins \/ ColAdvances) /\ UNCHANGED seenVars
  <2>1. LockInv'
    BY <1>1, <1>5, CollectorKeepsContract, ContractKeepsLock
    DEF Programs, Calibrator, Collector
  <2> QED
    BY <1>1, <1>5, <2>1, CollectorKeepsApart, CollectorKeepsGoal DEF Inv
<1>6. CASE (Nav2Answers \/ Nav2Ends \/ ResultArrives) /\ UNCHANGED seenVars
  BY <1>6, AnswersKeepInv
<1>7. CASE Nav2Leaves \/ Nav2Comes
  BY <1>7, Nav2KeepsInv
<1>8. CASE UNCHANGED vars
  BY <1>8
  DEF vars, lockVars, seenVars, navVars, Inv, LockInv, LockTypes, HeldToDrive, GaveBack,
      StopsBySight, Relocked, FoundLocked, ApartInv, CountdownIsHeard, CalibrationIsKnown,
      Nav2StaysAway, NoWayFound, BlindIsKnown, ReleasesAlone, OpensAlone, NavInv, NavTypes,
      GoalIsKnown, Is, At, Awaits
<1> QED
  BY <1>2, <1>3, <1>4, <1>5, <1>6, <1>7, <1>8 DEF Next

\* Whatever the programs, the operator and Nav2 do, the invariant holds.
LEMMA SpecInv == Spec => []Inv
  BY InitInv, NextInv, PTL DEF Spec

\* Type correctness of the safety chain (StopLock.tla, CollectionSession.tla).
THEOREM ChainTypes == Spec => []TypeOK
<1>1. Inv => TypeOK
  BY DEF Inv, LockInv, LockTypes, NavInv, NavTypes, TypeOK
<1> QED
  BY <1>1, SpecInv, PTL

\* A session that says "stopped" leaves a locked car behind, unless somebody
\* else has opened the lock since it last drove (_safe_stop, safe_stop).
THEOREM ChainLeavesLock == Spec => []StoppedMeansLocked
<1>1. Inv => StoppedMeansLocked
  BY DEF Inv, LockInv, Relocked, LockedSteps, StoppedMeansLocked
<1> QED
  BY <1>1, SpecInv, PTL

\* Calibrator and collector never drive together, for any number of sessions and
\* retries, a retry that has not looked at the lock for longer than the countdown
\* included (_preflight, preflight, call_estop, check_path); the exception is the
\* one that the property names.
THEOREM ChainExcludes == Spec => []OneProgramDrives
<1>1. Inv => OneProgramDrives
  BY DEF Inv, ApartInv, OpensAlone, OpenSteps, OneProgramDrives, At
<1> QED
  BY <1>1, SpecInv, PTL

\* No program mistakes the lock it gave back for an emergency stop (call_estop
\* waits for a status without it).
THEOREM ChainKnowsOwnLock == Spec => []OwnLockIsNoAlarm
<1>1. Inv => OwnLockIsNoAlarm
  BY DEF Inv, LockInv, GaveBack, RouteSteps, OwnLockIsNoAlarm
<1> QED
  BY <1>1, SpecInv, PTL

\* A collector at rest has no goal that it still thinks alive (safe_stop).
THEOREM ChainForgetsNoGoal == Spec => []NoGoalIsForgotten
<1>1. Inv => NoGoalIsForgotten
  BY DEF Inv, NavInv, GoalIsKnown, NoGoalIsForgotten, RestSteps, Is, Awaits
<1> QED
  BY <1>1, SpecInv, PTL
=============================================================================
