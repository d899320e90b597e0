-------------------------------- MODULE LongTask --------------------------------
(***************************************************************************)
(* How the web page starts a calibration or a collection and keeps its      *)
(* other routes locked meanwhile, and how stop_navigation ends a collection.*)
(* The page knows the task by its handle, by the last status it has heard,  *)
(* and, before both, by a window of five seconds.                           *)
(***************************************************************************)
EXTENDS Integers

CONSTANTS
  Starters, \* start requests that may be served at once
  MaxTasks  \* bound: tasks accepted

ASSUME LongTaskAssumption == MaxTasks \in Nat

TaskNumbers == 1..MaxTasks
NoTask == 0

\* A start route, beside the task it was told of.
Quiet == 0
Flying == -1
Rejected == -2

VARIABLES
  kind,      \* "calibration" or "observation"
  starting,  \* the window of the last start is open
  asking,    \* start routes: Quiet, Flying, Rejected, or the task accepted
  late,      \* a request whose route has given up is still on its way
  handle,    \* the task whose goal handle the bridge holds
  heard,     \* the last status: "idle", "active" or "over"
  session,   \* where the node is with its task
  ran,       \* tasks accepted so far
  shown,     \* the status it published last
  canceling, \* the goal is being canceled
  owner,     \* who holds the stop lock of car_move: "free", "task" or "other"
  stopAt,    \* the position of stop_navigation
  told,      \* history: the last task whose start was answered with success
  crossed    \* history: starts overlapped, one was given up unanswered, or
             \* stop_navigation came

nodeVars == <<session, ran, shown, canceling, owner>>
pageVars == <<starting, asking, late, handle, heard, stopAt>>
taskVars == <<kind, nodeVars, pageVars, told, crossed>>

TaskInit ==
  /\ kind \in {"calibration", "observation"}
  /\ starting = FALSE /\ asking = [r \in Starters |-> Quiet] /\ late = FALSE
  /\ handle = NoTask /\ heard = "idle"
  /\ session = "none" /\ ran = 0 /\ shown = "idle" /\ canceling = FALSE
  /\ owner = "free"
  /\ stopAt = "idle"
  /\ told = NoTask /\ crossed = FALSE

\* A handle counts only before the first status of the first task.
TaskActive == heard = "active" \/ (handle # NoTask /\ heard = "idle")
PageLocked == TaskActive \/ starting

(* The start routes. *)

\* A collection needs navigation to be ready, which stop_navigation ends.
StartRoute(r) ==
  /\ ~PageLocked
  /\ stopAt = "idle"
  /\ asking[r] = Quiet
  /\ asking' = [asking EXCEPT ![r] = Flying]
  /\ starting' = TRUE
  /\ crossed' = (crossed \/ \E s \in Starters : asking[s] # Quiet)
  /\ UNCHANGED <<kind, nodeVars, late, handle, heard, stopAt, told>>

\* A second request that was checked before the first had opened the window.
StartOverlaps(r) ==
  /\ starting /\ ~TaskActive
  /\ stopAt = "idle"
  /\ asking[r] = Quiet
  /\ \E s \in Starters : asking[s] = Flying
  /\ asking' = [asking EXCEPT ![r] = Flying]
  /\ crossed' = TRUE
  /\ UNCHANGED <<kind, nodeVars, starting, late, handle, heard, stopAt, told>>

StartAccepted(r) ==
  /\ asking[r] \in TaskNumbers
  /\ asking' = [asking EXCEPT ![r] = Quiet]
  /\ handle' = asking[r]
  /\ told' = asking[r]
  /\ UNCHANGED <<kind, nodeVars, starting, late, heard, stopAt, crossed>>

\* Rejected, or no answer within two seconds.
StartRefused(r) ==
  /\ asking[r] # Quiet
  /\ asking' = [asking EXCEPT ![r] = Quiet]
  /\ starting' = FALSE
  /\ late' = (late \/ asking[r] = Flying)
  /\ crossed' = (crossed \/ asking[r] # Rejected)
  /\ UNCHANGED <<kind, nodeVars, handle, heard, stopAt, told>>

(* The node. *)
AcceptsTask ==
  /\ session = "none"
  /\ ran < MaxTasks
  /\ session' = "begun"
  /\ ran' = ran + 1
  /\ UNCHANGED <<shown, canceling, owner>>

RequestArrives(r) ==
  /\ asking[r] = Flying
  /\ \/ AcceptsTask /\ asking' = [asking EXCEPT ![r] = ran']
     \/ asking' = [asking EXCEPT ![r] = Rejected] /\ UNCHANGED nodeVars
  /\ UNCHANGED <<kind, starting, late, handle, heard, stopAt, told, crossed>>

LateRequestArrives ==
  /\ late
  /\ late' = FALSE
  /\ AcceptsTask \/ UNCHANGED nodeVars
  /\ UNCHANGED <<kind, starting, asking, handle, heard, stopAt, told, crossed>>

TaskGoes(at, next) ==
  /\ session = at
  /\ session' = next
  /\ UNCHANGED <<kind, ran, canceling, pageVars, told, crossed>>

TaskShows ==
  /\ TaskGoes("begun", "checks")
  /\ shown' = "active"
  /\ UNCHANGED owner

Engaged == IF owner = "free" THEN "task" ELSE owner

TaskLocks ==
  /\ TaskGoes("checks", "held")
  /\ owner # "other"
  /\ owner' = "task"
  /\ UNCHANGED shown

\* The countdown outlasts the delivery of a status.
TaskDrives ==
  /\ TaskGoes("held", "drives")
  /\ ~canceling
  /\ owner # "other"
  /\ heard = "active"
  /\ owner' = "free"
  /\ UNCHANGED shown

\* Done, failed or canceled; the lock of the safe stop is granted or not.  The
\* stop outlasts the delivery of a status.
TaskEnds ==
  /\ session \in {"checks", "held", "drives"}
  /\ heard = "active"
  /\ session' = "none"
  /\ shown' = "over"
  /\ canceling' = FALSE
  /\ owner' \in {owner, Engaged}
  /\ UNCHANGED <<kind, ran, pageVars, told, crossed>>

(* What the page hears and what it shows. *)
HearStatus ==
  /\ heard # shown
  /\ heard' = shown
  /\ UNCHANGED <<kind, nodeVars, starting, asking, late, handle, stopAt, told, crossed>>

ResultArrives ==
  /\ handle # NoTask
  /\ handle < ran \/ session = "none"
  /\ handle' = NoTask
  /\ UNCHANGED <<kind, nodeVars, starting, asking, late, heard, stopAt, told, crossed>>

\* Mutant: a poll closes the window as soon as the goal is accepted.
StatusClosesWindow ==
  /\ starting /\ handle # NoTask
  /\ starting' = FALSE
  /\ UNCHANGED <<kind, nodeVars, asking, late, handle, heard, stopAt, told, crossed>>

\* A poll of the page closes the window once the task shows as active.
StatusRoute ==
  /\ starting /\ TaskActive
  /\ starting' = FALSE
  /\ UNCHANGED <<kind, nodeVars, asking, late, handle, heard, stopAt, told, crossed>>

\* Five seconds outlast the answer and the delivery of the first status.
WindowEnds ==
  /\ starting
  /\ \A r \in Starters : asking[r] = Quiet
  /\ session # "begun" /\ heard = shown
  /\ starting' = FALSE
  /\ UNCHANGED <<kind, nodeVars, asking, late, handle, heard, stopAt, told, crossed>>

\* An emergency stop and its release, which the running task refuses.
EStopRoute ==
  /\ \/ owner' = "other"
     \/ ~PageLocked /\ owner # "free" /\ owner' = "free"
  /\ UNCHANGED <<kind, session, ran, shown, canceling, pageVars, told, crossed>>

(* stop_navigation. *)
StopGoes(at, next) ==
  /\ stopAt = at
  /\ stopAt' = next
  /\ UNCHANGED <<kind, session, ran, shown, asking, late, handle, heard, told>>

StopNavigationBegins ==
  /\ kind = "observation"
  /\ StopGoes("idle", IF PageLocked THEN "cancel" ELSE "release")
  /\ crossed' = TRUE
  /\ UNCHANGED <<starting, canceling, owner>>

\* The handle's goal or, without one, every goal the node has accepted.
StopCancels ==
  /\ \/ /\ StopGoes("cancel", "wait")
        /\ canceling' = (session # "none")
     \/ StopGoes("cancel", "again") /\ UNCHANGED canceling
  /\ UNCHANGED <<starting, owner, crossed>>

\* _wait_observation_inactive, before the stack is stopped and after it.
StopSeesEnd ==
  /\ ~TaskActive
  /\ StopGoes("wait", "release") \/ StopGoes("again", "release")
  /\ starting' = FALSE
  /\ UNCHANGED <<canceling, owner, crossed>>

StopTimesOut ==
  /\ TaskActive
  /\ StopGoes("wait", "again") \/ StopGoes("again", "idle")
  /\ UNCHANGED <<starting, canceling, owner, crossed>>

\* The release names the collector as its source.
StopReleases ==
  /\ StopGoes("release", "idle")
  /\ IF TaskActive \/ owner = "other" THEN UNCHANGED owner ELSE owner' = "free"
  /\ UNCHANGED <<starting, canceling, crossed>>

TaskNext ==
  \/ \E r \in Starters :
       \/ StartRoute(r) \/ StartOverlaps(r) \/ StartAccepted(r) \/ StartRefused(r)
       \/ RequestArrives(r)
  \/ LateRequestArrives
  \/ TaskShows \/ TaskLocks \/ TaskDrives \/ TaskEnds
  \/ HearStatus \/ ResultArrives \/ StatusRoute \/ WindowEnds \/ EStopRoute
  \/ StopNavigationBegins \/ StopCancels \/ StopSeesEnd \/ StopTimesOut \/ StopReleases

TaskSpec == TaskInit /\ [][TaskNext]_taskVars

TaskTypeOK ==
  /\ kind \in {"calibration", "observation"}
  /\ {starting, late, canceling, crossed} \subseteq BOOLEAN
  /\ asking \in [Starters -> {Quiet, Flying, Rejected} \cup TaskNumbers]
  /\ {handle, told} \subseteq TaskNumbers \cup {NoTask}
  /\ ran \in 0..MaxTasks
  /\ {heard, shown} \subseteq {"idle", "active", "over"}
  /\ session \in {"none", "begun", "checks", "held", "drives"}
  /\ owner \in {"free", "task", "other"}
  /\ stopAt \in {"idle", "cancel", "wait", "again", "release"}

\* From the moment its request is on its way until its end, an accepted task
\* keeps the page's other routes locked, unless starts overlap, one is given up
\* unanswered or stop_navigation comes (the two windows, _long_task_locks).
AcceptedTaskLocksPage ==
  session # "none" /\ ~crossed /\ (told = ran \/ \E r \in Starters : asking[r] = ran)
    => PageLocked

\* stop_navigation opens only the lock of a collection that has ended
\* (_release_observation_lock_after_navigation_stop).
OnlyEndedLockIsReleased ==
  [][stopAt = "release" /\ stopAt' = "idle" /\ owner = "task" /\ owner' = "free"
       => session = "none"]_taskVars
=============================================================================
