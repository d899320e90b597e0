--------------------------- MODULE CollectionSession ----------------------------
(***************************************************************************)
(* A session of the observation collector: lock the car, check it, count    *)
(* down, unlock, have Nav2 drive from waypoint to waypoint, cancel the goal *)
(* it has, and lock again.  Goals are asynchronous: Nav2 answers, runs and  *)
(* ends them when it likes.                                                 *)
(***************************************************************************)
EXTENDS StopLock, Naturals

CONSTANT NavRetries \* nav_retry_count

ASSUME RetriesAssumption == NavRetries \in Nat

VARIABLES
  goal,  \* the last goal sent, unless it was given up unanswered
  worn,  \* active_nav_goal_ is a goal whose result the client has had
  tries, \* failed_attempts at the current waypoint
  good   \* the samples suffice: execute is past its route

navVars == <<goal, worn, tries, good>>

\* path: a way to it was asked of the planner; lost: sent while no Nav2 was there;
\* dead: the Nav2 that ran it has gone; over: Nav2 has ended the goal; told: the
\* client has the result and has forgotten the goal.
GoalStates == {"none", "path", "sent", "lost", "live", "dead", "canceling", "over", "told"}

Is(s) == step[Collector] = s
ColGo(s) == Go(Collector, s)

NavInit ==
  /\ goal = "none"
  /\ worn = FALSE
  /\ tries = 0
  /\ good = FALSE

ColBegins ==
  /\ Begin(Collector)
  /\ good' = FALSE
  /\ UNCHANGED <<holder, view, goal, worn, tries>>

ColEngages ==
  /\ Is("engage")
  /\ \E ok \in BOOLEAN :
       CallEStop(Collector, TRUE, ok) /\ ColGo(IF ok THEN "checks" ELSE "stopping")
  /\ UNCHANGED <<view, waiting, navVars>>

\* No calibration, no other goal, Nav2 there, and whatever else may fail.
ColChecks ==
  /\ Is("checks")
  /\ \/ /\ ~calibrating
        /\ nav2
        /\ goal = "none"
        /\ ColGo("countdown")
     \/ ColGo("stopping")
  /\ UNCHANGED <<holder, view, waiting, freed, navVars>>

ColCountsDown ==
  /\ Is("countdown")
  /\ ColGo("release") \/ ColGo("stopping")
  /\ UNCHANGED <<holder, view, waiting, freed, navVars>>

ColReleases ==
  /\ Is("release")
  /\ \E ok \in BOOLEAN :
       CallEStop(Collector, FALSE, ok) /\ ColGo(IF ok THEN "confirm" ELSE "stopping")
  /\ UNCHANGED <<view, waiting, navVars>>

\* Mutant: the collector drives on the answer alone.
DriveOnAnswer ==
  /\ Is("confirm")
  /\ Drive(Collector, "send")
  /\ UNCHANGED <<holder, view, waiting, navVars>>

\* The rest of call_estop(false): a status without a lock, another's lock, or
\* a second with neither.
ColSeesUnlock ==
  /\ Is("confirm")
  /\ \/ view[Collector] = Free /\ Drive(Collector, "send")
     \/ view[Collector] # Free /\ ColGo("stopping") /\ UNCHANGED freed
  /\ UNCHANGED <<holder, view, waiting, navVars>>

ColSends ==
  /\ Is("send")
  /\ goal' = IF nav2 THEN "sent" ELSE "lost"
  /\ ColGo("answer")
  /\ UNCHANGED <<holder, view, waiting, freed, worn, tries, good>>

\* failed_attempts is gone with the waypoint.
ColStops ==
  /\ tries' = 0
  /\ ColGo("stopping")

\* A retry waits for the wheels, and for two seconds checks safety; what it sees
\* last is what it acts on when it then asks the planner, for up to eleven
\* seconds, and sends the goal.
RetryPlans ==
  /\ Is("delay")
  /\ \/ /\ view[Collector] = Free /\ ~calibrating
        /\ goal' = IF nav2 THEN "path" ELSE "none"
        /\ ColGo("plan")
        /\ UNCHANGED tries
     \/ ColStops /\ UNCHANGED goal
  /\ UNCHANGED <<holder, view, waiting, freed, worn, good>>

RetrySends ==
  /\ Is("plan")
  /\ \/ goal = "path" /\ goal' = "sent" /\ Drive(Collector, "await") /\ UNCHANGED tries
     \/ goal' = "none" /\ ColStops /\ UNCHANGED freed
  /\ UNCHANGED <<holder, view, waiting, worn, good>>

NavigationFails ==
  /\ goal' = "none"
  /\ \/ tries < NavRetries /\ tries' = tries + 1 /\ ColGo("delay")
     \/ tries >= NavRetries /\ ColStops
  /\ UNCHANGED <<holder, view, waiting, freed, worn, good>>

\* The answer to the goal: accepted, rejected, or not within three seconds.
Awaits == Is("answer") \/ Is("await")

GoalAccepted ==
  /\ Awaits
  /\ goal \notin {"sent", "lost"}
  /\ worn' = FALSE
  /\ ColGo("follow")
  /\ UNCHANGED <<holder, view, waiting, freed, goal, tries, good>>

GoalRejected ==
  /\ Awaits
  /\ goal = "sent"
  /\ NavigationFails

SendTimesOut ==
  /\ Awaits
  /\ NavigationFails

\* navigate_once: the result ends it, whichever it is.
GoalReached ==
  /\ Is("follow")
  /\ goal = "told"
  /\ goal' = "none"
  /\ tries' = 0
  /\ ColGo("send")
  /\ UNCHANGED <<holder, view, waiting, freed, worn, good>>

GoalFailed ==
  /\ Is("follow")
  /\ goal = "told"
  /\ NavigationFails

\* Mutant: the safety check does not look at the lock.
SafetyIgnoresLock ==
  /\ Is("follow")
  /\ view[Collector] = Free
  /\ ColStops
  /\ UNCHANGED <<holder, view, waiting, freed, goal, worn, good>>

\* check_runtime_safety: a lock, a calibration, a cancel, stale or bad input.
SafetyFails ==
  /\ Is("follow")
  /\ ColStops
  /\ UNCHANGED <<holder, view, waiting, freed, goal, worn, good>>

Canceled ==
  IF goal = "live" THEN "canceling" ELSE IF goal \in {"over", "dead"} THEN "none" ELSE goal

\* Enough samples: the goal has ended, or is cancelled and forgotten before its
\* end.  When its result has just arrived the cancel throws.
QualityReady ==
  /\ Is("follow")
  /\ \/ goal = "told" /\ goal' = "none" /\ good' = TRUE
     \/ goal' = Canceled /\ good' = (goal # "told")
  /\ ColStops
  /\ UNCHANGED <<holder, view, waiting, freed, worn>>

\* The goal that safe_stop would cancel is unknown to the client.
UnknownGoal == goal = "told" \/ worn

\* Mutant: the lock is taken, the goal is left to Nav2.
LockWithoutCancel ==
  /\ Is("stopping")
  /\ ~UnknownGoal
  /\ ColGo("lock")
  /\ UNCHANGED <<holder, view, waiting, freed, navVars>>

\* safe_stop: first the goal.  The client throws for a goal that it does not
\* know: the rest of safe_stop is skipped and active_nav_goal_ stays.
ColCancels ==
  /\ Is("stopping")
  /\ ~UnknownGoal
  /\ goal' = Canceled
  /\ ColGo("lock")
  /\ UNCHANGED <<holder, view, waiting, freed, worn, tries, good>>

CancelThrows ==
  /\ Is("stopping")
  /\ UnknownGoal
  /\ goal' = "none"
  /\ worn' = TRUE
  /\ good' = FALSE
  /\ ColGo("rest")
  /\ UNCHANGED <<holder, view, waiting, freed, tries>>

\* A stop that fails at the end of a good run is tried once more.
StopFails ==
  /\ good' = FALSE
  /\ ColGo(IF good THEN "stopping" ELSE "rest")

ColLocks ==
  /\ Is("lock")
  /\ \/ CallEStop(Collector, TRUE, TRUE) /\ ColGo("halt") /\ UNCHANGED good
     \/ CallEStop(Collector, TRUE, FALSE) /\ StopFails
  /\ UNCHANGED <<view, waiting, goal, worn, tries>>

\* The wheels stop in time or not, and the results are written or not.
ColEnds ==
  /\ Is("halt")
  /\ \/ ColGo("stopped") /\ good' = FALSE
     \/ StopFails
  /\ UNCHANGED <<holder, view, waiting, freed, goal, worn, tries>>

(* Nav2 and its action client. *)
Nav2Answers ==
  /\ goal = "sent"
  /\ goal' = "live"
  /\ UNCHANGED <<lockVars, worn, tries, good>>

Nav2Ends ==
  /\ \/ goal = "live" /\ goal' = "over"
     \/ goal = "canceling" /\ goal' = "none"
  /\ UNCHANGED <<lockVars, worn, tries, good>>

ResultArrives ==
  /\ goal = "over"
  /\ goal' = "told"
  /\ UNCHANGED <<lockVars, worn, tries, good>>

\* Nav2's nodes end with their goals; what was sent is not answered.
Nav2Leaves ==
  /\ nav2
  /\ nav2' = FALSE
  /\ goal' = CASE goal = "sent" -> "lost"
               [] goal = "live" -> "dead"
               [] goal \in {"path", "canceling"} -> "none"
               [] OTHER -> goal
  /\ UNCHANGED <<lockVars, calibrating, returned, worn, tries, good>>

Nav2Comes ==
  /\ ~nav2
  /\ nav2' = TRUE
  /\ returned' = (returned \/
       (step[Calibrator] = "countdown" /\ {Collector, Activity} \subseteq waiting))
  /\ UNCHANGED <<lockVars, calibrating, navVars>>

\* The steps of a route that has begun, and those before and after it.
ColDrives ==
  \/ ColSends \/ RetryPlans \/ RetrySends \/ GoalAccepted \/ GoalRejected
  \/ SendTimesOut \/ GoalReached \/ GoalFailed \/ SafetyFails \/ QualityReady

ColAdvances ==
  \/ ColEngages \/ ColChecks \/ ColCountsDown \/ ColReleases \/ ColSeesUnlock
  \/ ColDrives
  \/ ColCancels \/ CancelThrows \/ ColLocks \/ ColEnds
=============================================================================
