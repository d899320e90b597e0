-------------------------------- MODULE StopLock --------------------------------
(***************************************************************************)
(* The stop lock as its users see it.  The calibrator and the collector     *)
(* take it before and after a session and give it back to drive; the        *)
(* operator takes and releases it on the web page.  All three know who      *)
(* holds it only from CarStatus, which arrives later.                       *)
(*                                                                         *)
(* The lock grants requests as CarMove does; the stale-observer latch is    *)
(* left to that module, since no program dies here.  Beside the lock the     *)
(* programs look at each other: the collector at the calibrator's status,   *)
(* the calibrator at Nav2's nodes.                                          *)
(***************************************************************************)

Free == ""
Operator == "car_web"
Calibrator == "car_calibrate"
Collector == "car_observation_collect"
Programs == {Calibrator, Collector}
Listeners == Programs \cup {Operator}
Holders == Listeners \cup {Free}
Activity == "car_calibrate/status" \* what the collector hears of the calibrator

VARIABLES
  holder,  \* e_stop_source_ of the lock, Free when it is open
  view,    \* the holder in the last CarStatus each listener received
  step,    \* where the session of each program is
  waiting, \* who has not heard the lock, and whether the collector has not heard
           \* the calibrator, since a timed step of the calibrator began
  blind,   \* the collector is in a step without a look that it was in already
           \* when the calibrator's countdown began
  freed,   \* the programs that have not driven since their session began or since
           \* somebody else opened the lock
  calibrating, \* the collector's last word of the calibrator: it is active
  nav2,        \* Nav2's nodes are there
  returned     \* history: Nav2 came back after this calibration's checks, when the
               \* collector had heard neither the lock nor the calibrator since

lockVars == <<holder, view, step, waiting, blind, freed>>
seenVars == <<calibrating, nav2, returned>>

\* At rest no session runs: none yet or its stop failed; it stopped; or the
\* calibrator could not confirm its stop and stays active.  A program that
\* drives looks at the lock within the three seconds of an answer; only a goal
\* sent on a plan is awaited (await) after a longer time without a look.
WatchingSteps == {"drive", "send", "answer", "follow"}
DrivingSteps == WatchingSteps \cup {"await"}
BlindSteps == {"confirm", "await"}
RestSteps == {"rest", "stopped", "lockout"}
Steps == RestSteps \cup DrivingSteps \cup
  {"engage", "see", "checks", "countdown", "release", "confirm",
   "delay", "plan", "stopping", "lock", "seen", "halt", "unsure"}

\* The programs whose status says active.
Active == {p \in Programs : step[p] \notin {"rest", "stopped"}}

LockInit ==
  /\ holder = Free
  /\ view = [l \in Listeners |-> Free]
  /\ step = [p \in Programs |-> "rest"]
  /\ waiting = {}
  /\ blind = FALSE
  /\ freed = Programs
  /\ calibrating = FALSE
  /\ nav2 = FALSE
  /\ returned = FALSE

\* A program's request is refused while anybody else holds the lock, and
\* only the holder gives it back.
Granted(s, stop) == (s \in Programs \/ ~stop) => holder \in {Free, s}

Grant(s, stop) == Granted(s, stop) /\ holder' = IF stop THEN s ELSE Free

\* A call of /car/e_stop by a program: granted and answered in time, or not;
\* an answer that is late does not undo what car_move did.
CallEStop(p, stop, ok) ==
  \/ /\ Grant(p, stop)
     /\ freed' = IF stop THEN freed ELSE freed \cup (Programs \ {p})
  \/ ~ok /\ UNCHANGED <<holder, freed>>

Go(p, s) ==
  /\ step' = [step EXCEPT ![p] = s]
  /\ blind' = (p = Calibrator /\ s = "countdown" /\ step[Collector] \in BlindSteps)

\* A session is given up; the calibrator first commands zero for a second, in
\* which a status arrives.
Abort(p) ==
  /\ Go(p, "stopping")
  /\ waiting' = IF p = Calibrator THEN {Calibrator} ELSE waiting

\* A session begins with a look at the status it has.
Begin(p) ==
  /\ step[p] \in {"rest", "stopped"}
  /\ \/ view[p] = Free /\ Go(p, "engage") /\ UNCHANGED waiting
     \/ view[p] # Free /\ Abort(p)
  /\ freed' = freed \cup {p}

Drive(p, s) ==
  /\ freed' = freed \ {p}
  /\ Go(p, s)

HearLock(l) ==
  /\ view' = [view EXCEPT ![l] = holder]
  /\ waiting' = waiting \ {l}
  /\ UNCHANGED <<holder, step, blind, freed>>

HearCalibration ==
  /\ calibrating' = (Calibrator \in Active)
  /\ waiting' = waiting \ {Activity}
  /\ UNCHANGED <<holder, view, step, blind, freed, nav2, returned>>

OperatorStops ==
  /\ Grant(Operator, TRUE)
  /\ UNCHANGED <<view, step, waiting, blind, freed>>

\* Mutant: the page always names itself.
ReleaseByPage == Operator

\* The source a release names: the program's when the page last heard that
\* the lock is that program's, the page's own otherwise.
ReleaseSource == IF view[Operator] \in Programs THEN view[Operator] ELSE Operator

\* Refused while a session is active.
OperatorReleases ==
  /\ Active = {}
  /\ holder # Free
  /\ Grant(ReleaseSource, FALSE)
  /\ freed' = Programs
  /\ UNCHANGED <<view, step, waiting, blind>>
=============================================================================
