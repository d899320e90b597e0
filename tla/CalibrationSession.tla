--------------------------- MODULE CalibrationSession ---------------------------
(***************************************************************************)
(* A session of the calibrator: lock the car, check it, count down, unlock, *)
(* drive the trials with its own commands, stop and lock again.  A stop it  *)
(* cannot confirm leaves the node reserved and active for good.             *)
(***************************************************************************)
EXTENDS StopLock

At(s) == step[Calibrator] = s
CalGo(s) == Go(Calibrator, s)

CalBegins == Begin(Calibrator) /\ UNCHANGED <<holder, view>>

CalEngages ==
  /\ At("engage")
  /\ \/ CallEStop(Calibrator, TRUE, TRUE) /\ CalGo("see") /\ UNCHANGED waiting
     \/ CallEStop(Calibrator, TRUE, FALSE) /\ Abort(Calibrator)
  /\ UNCHANGED view

\* The wait for a status with a lock, or its timeout.
CalSeesLock ==
  /\ At("see")
  /\ \/ view[Calibrator] # Free /\ CalGo("checks") /\ UNCHANGED waiting
     \/ Abort(Calibrator)
  /\ UNCHANGED <<holder, view, freed>>

CountdownBegins ==
  /\ waiting' = {Collector, Activity}
  /\ CalGo("countdown")

\* Mutant: the look at the nodes is left out.
CalChecksNoNodes ==
  /\ At("checks")
  /\ CountdownBegins
  /\ UNCHANGED <<holder, view, freed>>

\* Fresh topics, no mapping or navigation nodes, one publisher, healthy, still.
CalChecks ==
  /\ At("checks")
  /\ \/ ~nav2 /\ CountdownBegins
     \/ Abort(Calibrator)
  /\ UNCHANGED <<holder, view, freed>>

\* The countdown, five seconds, outlasts the delivery of a status, the answer
\* that a driving collector waits for (three seconds, then it looks at the lock)
\* and its wait for an open lock.  It does not outlast a retry.
CalCountsDown ==
  /\ At("countdown")
  /\ \/ /\ waiting = {} /\ ~blind
        /\ step[Collector] \in WatchingSteps => view[Collector] = Free
        /\ CalGo("release")
        /\ UNCHANGED waiting
     \/ Abort(Calibrator)
  /\ UNCHANGED <<holder, view, freed>>

CalReleases ==
  /\ At("release")
  /\ \/ CallEStop(Calibrator, FALSE, TRUE) /\ CalGo("confirm") /\ UNCHANGED waiting
     \/ CallEStop(Calibrator, FALSE, FALSE) /\ Abort(Calibrator)
  /\ UNCHANGED view

CalSeesUnlock ==
  /\ At("confirm")
  /\ \/ view[Calibrator] = Free /\ Drive(Calibrator, "drive") /\ UNCHANGED waiting
     \/ Abort(Calibrator) /\ UNCHANGED freed
  /\ UNCHANGED <<holder, view>>

\* A0, A1 and the trials end, or the safety check finds a lock or another fault.
CalDriveEnds ==
  /\ At("drive")
  /\ Abort(Calibrator)
  /\ UNCHANGED <<holder, view, freed>>

\* After a second of zero commands: a lock that is not its own is left alone
\* and counts as confirmed.
CalStops ==
  /\ At("stopping")
  /\ waiting = {}
  /\ CalGo(IF view[Calibrator] \in {Free, Calibrator} THEN "lock" ELSE "halt")
  /\ UNCHANGED <<holder, view, waiting, freed>>

\* Mutant: a lock that could not be taken counts as confirmed.
LockFailureForgotten ==
  /\ At("lock")
  /\ \E ok \in BOOLEAN :
       CallEStop(Calibrator, TRUE, ok) /\ CalGo(IF ok THEN "seen" ELSE "halt")
  /\ UNCHANGED <<view, waiting>>

CalLocks ==
  /\ At("lock")
  /\ \E ok \in BOOLEAN :
       CallEStop(Calibrator, TRUE, ok) /\ CalGo(IF ok THEN "seen" ELSE "unsure")
  /\ UNCHANGED <<view, waiting>>

CalSeesOwnLock ==
  /\ At("seen")
  /\ \/ view[Calibrator] # Free /\ CalGo("halt")
     \/ CalGo("unsure")
  /\ UNCHANGED <<holder, view, waiting, freed>>

\* The wheels stop in time or not; results are written; the end is announced.
CalEnds ==
  /\ At("halt") \/ At("unsure")
  /\ \/ At("halt") /\ CalGo("stopped")
     \/ CalGo("lockout")
  /\ UNCHANGED <<holder, view, waiting, freed>>

CalAdvances ==
  \/ CalEngages \/ CalSeesLock \/ CalChecks \/ CalCountsDown \/ CalReleases
  \/ CalSeesUnlock \/ CalDriveEnds \/ CalStops \/ CalLocks \/ CalSeesOwnLock
  \/ CalEnds
=============================================================================
