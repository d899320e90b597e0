------------------------------- MODULE PageProofs -------------------------------
(***************************************************************************)
(* Proofs about what the web page keeps of the tasks it has started: the     *)
(* locks around a calibration or a collection, for any number of requests,   *)
(* and the queue of goals, for any number of goals and runs.                 *)
(***************************************************************************)
EXTENDS LongTask, GoalQueue, SequenceTheorems, TLAPS

(* The page's locks around a starting task. *)

TaskTypes ==
  /\ asking \in [Starters -> {Quiet, Flying, Rejected} \cup TaskNumbers]
  /\ handle \in 0..MaxTasks /\ ran \in 0..MaxTasks
  /\ session \in {"none", "begun", "checks", "held", "drives"}
  /\ {heard, shown} \subseteq {"idle", "active", "over"}

\* What the statuses say of the tasks there have been, whatever the requests do:
\* "idle" is published until the first task shows, and heard in order.
StatusFits ==
  /\ shown = "active" <=> session \in {"checks", "held", "drives"}
  /\ shown = "idle" => ran = IF session = "none" THEN 0 ELSE 1
  /\ heard = "idle" => shown # "over" /\ ran <= 1
  /\ heard \in {"active", "over"} => shown # "idle"

\* A start that nothing crosses is the only one, begins when no task is known, and
\* keeps the window open until the task it began has shown.
StartIsAlone ==
  /\ ~late /\ stopAt = "idle"
  /\ \A r, s \in Starters : asking[r] # Quiet /\ asking[s] # Quiet => r = s
  /\ \A r \in Starters :
       /\ asking[r] = Flying => starting /\ ~TaskActive /\ heard = shown
       /\ asking[r] \in {Flying, Rejected} => session = "none"
  /\ session = "begun" => heard = shown
  /\ session # "none" => PageLocked

TaskInv == TaskTypes /\ StatusFits /\ (~crossed => StartIsAlone)

\* The marks of a start route are no tasks.
LEMMA TaskNumbersKnown ==
  /\ MaxTasks \in Nat /\ TaskNumbers = 1..MaxTasks /\ NoTask = 0
  /\ Quiet = 0 /\ Flying = -1 /\ Rejected = -2
BY LongTaskAssumption DEF TaskNumbers, NoTask, Quiet, Flying, Rejected

\* Every step keeps the types.
LEMMA TaskStepKeepsTypes ==
  ASSUME TaskTypes, [TaskNext]_taskVars
  PROVE  TaskTypes'
<1> USE TaskNumbersKnown
<1>1. CASE \E r \in Starters : StartRoute(r) \/ StartOverlaps(r) \/ StartRefused(r)
  BY <1>1 DEF StartRoute, StartOverlaps, StartRefused, TaskTypes, nodeVars
<1>2. CASE \E r \in Starters : StartAccepted(r)
  BY <1>2 DEF StartAccepted, TaskTypes, nodeVars
<1>3. CASE \E r \in Starters : RequestArrives(r)
  BY <1>3 DEF RequestArrives, AcceptsTask, TaskTypes, nodeVars
<1>4. CASE LateRequestArrives
  BY <1>4 DEF LateRequestArrives, AcceptsTask, TaskTypes, nodeVars
<1>5. CASE TaskShows \/ TaskLocks \/ TaskDrives \/ TaskEnds
  BY <1>5 DEF TaskShows, TaskLocks, TaskDrives, TaskEnds, TaskGoes, TaskTypes, pageVars
<1>6. CASE HearStatus \/ ResultArrives \/ StatusRoute \/ WindowEnds
  BY <1>6 DEF HearStatus, ResultArrives, StatusRoute, WindowEnds, TaskTypes, nodeVars
<1>7. CASE EStopRoute
  BY <1>7 DEF EStopRoute, TaskTypes, pageVars
<1>8. CASE StopNavigationBegins \/ StopCancels \/ StopSeesEnd \/ StopTimesOut \/ StopReleases
  BY <1>8 DEF StopNavigationBegins, StopCancels, StopSeesEnd, StopTimesOut, StopReleases,
              StopGoes, TaskTypes
<1>9. CASE UNCHANGED taskVars
  BY <1>9 DEF taskVars, nodeVars, pageVars, TaskTypes
<1> QED
  BY <1>1, <1>2, <1>3, <1>4, <1>5, <1>6, <1>7, <1>8, <1>9 DEF TaskNext

\* A task is accepted when none runs: the statuses fit the first as every later one.
LEMMA AcceptedTaskFits ==
  ASSUME TaskTypes, StatusFits, AcceptsTask, heard' = heard
  PROVE  StatusFits'
BY TaskNumbersKnown DEF TaskTypes, StatusFits, AcceptsTask

\* Every step keeps the statuses in order with the tasks there have been.
LEMMA TaskStepFits ==
  ASSUME TaskTypes, StatusFits, [TaskNext]_taskVars
  PROVE  StatusFits'
<1> USE TaskNumbersKnown
<1>1. CASE UNCHANGED <<session, ran, shown, heard>>
  BY <1>1 DEF StatusFits
<1>2. CASE AcceptsTask /\ heard' = heard
  BY <1>2, AcceptedTaskFits
<1>3. CASE TaskShows \/ TaskLocks \/ TaskDrives \/ TaskEnds
  BY <1>3 DEF TaskShows, TaskLocks, TaskDrives, TaskEnds, TaskGoes, TaskTypes, StatusFits,
     pageVars
<1>4. CASE HearStatus
  BY <1>4 DEF HearStatus, TaskTypes, StatusFits, nodeVars
<1>5. CASE \E r \in Starters :
             StartRoute(r) \/ StartOverlaps(r) \/ StartAccepted(r) \/ StartRefused(r)
  BY <1>1, <1>5 DEF StartRoute, StartOverlaps, StartAccepted, StartRefused, nodeVars
<1>6. CASE (\E r \in Starters : RequestArrives(r)) \/ LateRequestArrives
  BY <1>1, <1>2, <1>6 DEF RequestArrives, LateRequestArrives, nodeVars
<1>7. CASE ResultArrives \/ StatusRoute \/ WindowEnds
  BY <1>1, <1>7 DEF ResultArrives, StatusRoute, WindowEnds, nodeVars
<1>8. CASE EStopRoute
  BY <1>1, <1>8 DEF EStopRoute, pageVars
<1>9. CASE StopNavigationBegins \/ StopCancels \/ StopSeesEnd \/ StopTimesOut \/ StopReleases
  BY <1>1, <1>9 DEF StopNavigationBegins, StopCancels, StopSeesEnd, StopTimesOut, StopReleases,
              StopGoes
<1>10. CASE UNCHANGED taskVars
  BY <1>1, <1>10 DEF taskVars, nodeVars, pageVars
<1> QED
  BY <1>3, <1>4, <1>5, <1>6, <1>7, <1>8, <1>9, <1>10 DEF TaskNext

\* What has crossed a start is not forgotten.
LEMMA CrossedStays ==
  ASSUME [TaskNext]_taskVars, crossed
  PROVE  crossed'
<1>1. CASE \E r \in Starters : StartRoute(r) \/ StartOverlaps(r) \/ StartAccepted(r)
                                 \/ StartRefused(r) \/ RequestArrives(r)
  BY <1>1 DEF StartRoute, StartOverlaps, StartAccepted, StartRefused, RequestArrives
<1>2. CASE LateRequestArrives \/ TaskShows \/ TaskLocks \/ TaskDrives \/ TaskEnds
  BY <1>2 DEF LateRequestArrives, TaskShows, TaskLocks, TaskDrives, TaskEnds, TaskGoes
<1>3. CASE HearStatus \/ ResultArrives \/ StatusRoute \/ WindowEnds \/ EStopRoute
  BY <1>3 DEF HearStatus, ResultArrives, StatusRoute, WindowEnds, EStopRoute
<1>4. CASE StopNavigationBegins \/ StopCancels \/ StopSeesEnd \/ StopTimesOut \/ StopReleases
  BY <1>4 DEF StopNavigationBegins, StopCancels, StopSeesEnd, StopTimesOut, StopReleases
<1>5. CASE UNCHANGED taskVars
  BY <1>5 DEF taskVars
<1> QED
  BY <1>1, <1>2, <1>3, <1>4, <1>5 DEF TaskNext

\* A step of a start route or of its request leaves a lone start alone.
LEMMA RoutesLeaveStartAlone ==
  ASSUME TaskTypes, StatusFits, StartIsAlone, ~crossed, ~crossed', NEW r \in Starters,
         StartRoute(r) \/ StartOverlaps(r) \/ StartAccepted(r) \/ StartRefused(r)
           \/ RequestArrives(r)
  PROVE  StartIsAlone'
<1> USE TaskNumbersKnown
<1>1. CASE StartRoute(r)
  <2>1. ~PageLocked /\ session = "none" /\ ~TaskActive /\ heard = shown
    BY <1>1 DEF StartRoute, StartIsAlone, PageLocked, TaskTypes, StatusFits, TaskActive
  <2> QED
    BY <1>1, <2>1 DEF StartRoute, StartIsAlone, PageLocked, TaskTypes, TaskActive, nodeVars
<1>2. CASE StartOverlaps(r)
  BY <1>2 DEF StartOverlaps
<1>3. CASE StartAccepted(r)
  BY <1>3 DEF StartAccepted, StartIsAlone, PageLocked, TaskTypes, TaskActive, nodeVars
<1>4. CASE StartRefused(r)
  <2>1. asking[r] = Rejected
    BY <1>4 DEF StartRefused
  <2>2. session = "none" /\ ~late /\ late' = FALSE
    BY <1>4, <2>1 DEF StartRefused, StartIsAlone
  <2>3. \A s \in Starters : asking'[s] = IF s = r THEN Quiet ELSE asking[s]
    BY <1>4 DEF StartRefused, TaskTypes
  <2>4. \A s \in Starters : asking'[s] = Quiet
    BY <2>1, <2>3 DEF StartIsAlone
  <2>5. session' = "none" /\ stopAt' = "idle"
    BY <1>4, <2>2 DEF StartRefused, StartIsAlone, nodeVars
  <2> QED
    BY <2>2, <2>4, <2>5 DEF StartIsAlone
<1>5. CASE RequestArrives(r) /\ AcceptsTask
  <2>1. session' = "begun" /\ ran' \in Nat \ {0} /\ shown' = shown
    BY <1>5 DEF AcceptsTask, TaskTypes
  <2>2. asking[r] = Flying
    BY <1>5 DEF RequestArrives
  <2>3. asking' = [asking EXCEPT ![r] = ran']
    BY <1>5, <2>1 DEF RequestArrives, AcceptsTask, nodeVars
  <2>4. \A s \in Starters : asking'[s] = IF s = r THEN ran' ELSE asking[s]
    BY <2>3 DEF TaskTypes
  <2>5. \A s \in Starters : s # r => asking'[s] = Quiet
    BY <2>2, <2>4 DEF StartIsAlone
  <2>6. starting' /\ heard' = shown' /\ late' = late /\ stopAt' = "idle" /\ ~late
    BY <1>5, <2>1, <2>2 DEF RequestArrives, StartIsAlone
  <2>7. asking'[r] \notin {Quiet, Flying, Rejected}
    BY <2>1, <2>4
  <2> QED
    BY <2>5, <2>6, <2>7 DEF StartIsAlone, PageLocked
<1>6. CASE RequestArrives(r) /\ ~AcceptsTask
  BY <1>6 DEF RequestArrives, StartIsAlone, PageLocked, TaskTypes, TaskActive, nodeVars
<1> QED
  BY <1>1, <1>2, <1>3, <1>4, <1>5, <1>6

\* So does a step of the node or of the page.
LEMMA OthersLeaveStartAlone ==
  ASSUME TaskTypes, StatusFits, StartIsAlone, ~crossed, ~crossed',
         \/ TaskShows \/ TaskLocks \/ TaskDrives \/ TaskEnds
         \/ HearStatus \/ ResultArrives \/ StatusRoute \/ WindowEnds \/ EStopRoute
  PROVE  StartIsAlone'
<1> USE TaskNumbersKnown
<1>1. CASE TaskShows \/ TaskLocks \/ TaskDrives \/ TaskEnds
  BY <1>1 DEF TaskShows, TaskLocks, TaskDrives, TaskEnds, TaskGoes, StartIsAlone, PageLocked,
              TaskTypes, StatusFits, TaskActive, pageVars
<1>2. CASE HearStatus
  BY <1>2 DEF HearStatus, StartIsAlone, PageLocked, TaskTypes, StatusFits, TaskActive, nodeVars
<1>3. CASE ResultArrives
  BY <1>3 DEF ResultArrives, StartIsAlone, PageLocked, TaskTypes, StatusFits, TaskActive, nodeVars
<1>4. CASE StatusRoute
  BY <1>4 DEF StatusRoute, StartIsAlone, PageLocked, TaskTypes, StatusFits, TaskActive, nodeVars
<1>5. CASE WindowEnds
  BY <1>5 DEF WindowEnds, StartIsAlone, PageLocked, TaskTypes, StatusFits, TaskActive, nodeVars
<1>6. CASE EStopRoute
  BY <1>6 DEF EStopRoute, StartIsAlone, PageLocked, TaskActive, pageVars
<1> QED
  BY <1>1, <1>2, <1>3, <1>4, <1>5, <1>6

\* Every step keeps a start that nothing crosses alone.
LEMMA TaskStepLeavesStartAlone ==
  ASSUME TaskInv, [TaskNext]_taskVars, ~crossed'
  PROVE  StartIsAlone'
<1>1. TaskTypes /\ StatusFits /\ ~crossed /\ StartIsAlone
  BY CrossedStays DEF TaskInv
<1>2. CASE LateRequestArrives
  BY <1>1, <1>2 DEF LateRequestArrives, StartIsAlone
<1>3. CASE StopNavigationBegins \/ StopCancels \/ StopSeesEnd \/ StopTimesOut \/ StopReleases
  BY <1>1, <1>3 DEF StopNavigationBegins, StopCancels, StopSeesEnd, StopTimesOut, StopReleases,
              StopGoes, StartIsAlone
<1>4. CASE UNCHANGED taskVars
  BY <1>1, <1>4 DEF taskVars, nodeVars, pageVars, StartIsAlone, PageLocked, TaskActive
<1> QED
  BY <1>1, <1>2, <1>3, <1>4, RoutesLeaveStartAlone, OthersLeaveStartAlone DEF TaskNext

\* An accepted task locks the page's other routes, or the bridge has lost count of
\* its starts (_long_task_locks and the two windows).
THEOREM TaskLocksPage == TaskSpec => []AcceptedTaskLocksPage
<1>1. TaskInit => TaskInv
  BY TaskNumbersKnown DEF TaskInit, TaskInv, TaskTypes, StatusFits, StartIsAlone
<1>2. TaskInv /\ [TaskNext]_taskVars => TaskInv'
  BY TaskStepKeepsTypes, TaskStepFits, TaskStepLeavesStartAlone DEF TaskInv
<1>3. TaskInv => AcceptedTaskLocksPage
  BY DEF TaskInv, StartIsAlone, AcceptedTaskLocksPage
<1> QED
  BY <1>1, <1>2, <1>3, PTL DEF TaskSpec

-----------------------------------------------------------------------------
(* The queue of goals. *)

\* The latest run's route is the one that Nav2 drives.
OnTask == current /\ driving = generation

\* A goal was reached, joined the queue late, is listed as missed, was given up
\* without a word or was given up on the route under way.
Accounted(i) ==
  \/ goals[i] \in visited \cup joined \cup untold
  \/ i - 1 \in nav.missed
  \/ OnTask /\ (i - 1) - offset \in missed

UpTo(n) == n <= Len(goals) /\ \A i \in 1..n : Accounted(i)

NavStates == Unfinished \cup
  {"idle", "rejected", "failed", "canceled", "succeeded", "partial"}

NavRecords ==
  [state : NavStates, current : Nat, completed : Nat, total : Nat, missed : SUBSET Int]

QueueTypes ==
  /\ goals \in Seq(1..MaxGoals) /\ added \in 0..MaxGoals
  /\ nav \in NavRecords
  /\ offset \in Nat /\ generation \in 0..MaxRuns
  /\ checked \subseteq Routes
  /\ plan \in [goals : Seq(1..MaxGoals), completed : Nat]
  /\ "run" \notin checked => plan = NoPlan
  /\ owed \in [Edits -> Nat \cup {NoNews}]
  /\ driving \in 0..generation
  /\ route \in Seq(1..MaxGoals) /\ leg \in Nat /\ missed \subseteq Int
  /\ feedback \in [Runs -> Nat \cup {NoNews}]
  /\ current => generation > 0
  /\ \A r \in Runs : r > generation => feedback[r] = NoNews

\* A task is under way exactly while Nav2 drives the latest run's route.
OneTask ==
  /\ nav.state \in ActiveStates <=> OnTask
  /\ nav.state = "paused" => driving = NoRun

\* What an edit has still to tell is so.
LengthsAreTrue == \A r \in Edits : owed[r] # NoNews => owed[r] = Len(goals)

\* What a run has read is still so, and what came later joined.
PlanIsTrue ==
  /\ UpTo(plan.completed)
  /\ Len(plan.goals) <= Len(goals)
  /\ \A i \in 1..Len(plan.goals) : plan.goals[i] = goals[i]
  /\ HasRead => plan.completed < Len(plan.goals)
  /\ HasRead => \A i \in 1..Len(goals) : i > Len(plan.goals) => goals[i] \in joined

\* Nav2 drives to goals of the queue; those before are accounted for, those after joined.
RouteIsTrue ==
  OnTask =>
    /\ Len(route) > 0 /\ offset + Len(route) <= Len(goals)
    /\ \A k \in 1..Len(route) : route[k] = goals[offset + k]
    /\ \A i \in 1..Len(goals) : i > offset + Len(route) => goals[i] \in joined
    /\ leg <= Len(route) /\ missed \subseteq 0..(leg - 1)
    /\ UpTo(offset + leg)

\* So is what the feedback under way would count as completed.
FeedbackIsTrue ==
  current /\ feedback[generation] # NoNews => UpTo(offset + feedback[generation])

ProgressIsTrue ==
  /\ nav.current <= nav.completed
  /\ \A i \in 1..Len(goals) : i <= nav.completed => Accounted(i)
  /\ ~Shrinking => /\ nav.completed <= Len(goals)
                   /\ OnTask => nav.total <= Len(goals)

Truths ==
  LengthsAreTrue /\ PlanIsTrue /\ RouteIsTrue /\ FeedbackIsTrue /\ ProgressIsTrue

QueueInv == QueueTypes /\ OneTask /\ (~outran => Truths)

-----------------------------------------------------------------------------
\* Shortening the queue leaves its beginning as it was, and progress within it.
LEMMA ResizedFits ==
  ASSUME QueueTypes, NEW n \in Nat
  PROVE  /\ Resized(n).state = nav.state /\ Resized(n).total = n
         /\ Resized(n).completed = Least(nav.completed, n)
         /\ Resized(n).current = Least(nav.current, Most(n - 1, 0))
         /\ Resized(n).missed = {i \in nav.missed : i < n}
         /\ Resized(n) \in NavRecords
<1> USE DEF QueueTypes, Resized
<1>1. Least(nav.completed, n) \in Nat /\ Least(nav.current, Most(n - 1, 0)) \in Nat
  BY DEF Least, Most, NavRecords
<1> QED
  BY <1>1 DEF NavRecords

\* A result leaves progress and waypoints that are numbers.
LEMMA RecordedFits ==
  ASSUME QueueTypes, NEW status \in {"succeeded", "canceled", "failed"},
         NEW listed \in SUBSET Int
  PROVE  LET new == Recorded(status, listed)
             blames == new.state = "failed" /\ nav.total > 0
             all == nav.missed \cup {offset + i : i \in listed}
                    \cup (IF blames THEN {Blamed} ELSE {})
             done == new.state \in {"succeeded", "partial"} /\ nav.total > 0
         IN  /\ new \in NavRecords
             /\ new.state \in {"succeeded", "partial", "canceled", "failed", "paused"}
             /\ new.state \in {"succeeded", "partial"} <=> status = "succeeded"
             /\ new.total = nav.total /\ new.missed = all
             /\ new.completed = IF done THEN nav.total
                                ELSE IF blames THEN Most(nav.completed, Blamed + 1)
                                ELSE nav.completed
             /\ new.current = IF done THEN nav.total - 1 ELSE nav.current
<1> USE DEF QueueTypes
<1> DEFINE state == IF status # "succeeded" /\ pausing THEN "paused" ELSE status
           blames == state = "failed" /\ nav.total > 0
           all == nav.missed \cup {offset + i : i \in listed}
                  \cup (IF blames THEN {Blamed} ELSE {})
           done == state = "succeeded" /\ nav.total > 0
           completed == IF done THEN nav.total
                        ELSE IF blames THEN Most(nav.completed, Blamed + 1)
                        ELSE nav.completed
           last == IF state = "succeeded" /\ all # {} THEN "partial" ELSE state
           cur == IF done THEN nav.total - 1 ELSE nav.current
<1>1. Recorded(status, listed) =
        [nav EXCEPT !.state = last, !.missed = all, !.completed = completed, !.current = cur]
  BY DEF Recorded
<1>2. nav.total > 0 => Blamed \in Nat
  BY DEF Blamed, Least, NavRecords
<1>3. completed \in Nat /\ cur \in Nat
  BY <1>2 DEF Most, NavRecords
<1>4. all \subseteq Int
  BY <1>2 DEF NavRecords
<1>5. last \in {"succeeded", "partial", "canceled", "failed", "paused"}
  OBVIOUS
<1>6. /\ last \in {"succeeded", "partial"} <=> status = "succeeded"
      /\ state = "succeeded" <=> last \in {"succeeded", "partial"}
      /\ state = "failed" <=> last = "failed"
  OBVIOUS
<1> HIDE DEF all, completed, last, cur, state
<1>7. Recorded(status, listed).state = last /\ Recorded(status, listed).missed = all
      /\ Recorded(status, listed).completed = completed
      /\ Recorded(status, listed).total = nav.total
      /\ Recorded(status, listed).current = cur
  BY <1>1
<1>8. last \in NavStates
  BY <1>5 DEF NavStates, Unfinished
<1>9. Recorded(status, listed) \in NavRecords
  BY <1>1, <1>3, <1>4, <1>8 DEF NavRecords
<1> QED
  BY <1>5, <1>6, <1>7, <1>9 DEF all, completed, cur

\* A part of a sequence.
LEMMA PartOfSequence ==
  ASSUME NEW S, NEW s \in Seq(S), NEW m \in Nat, NEW n \in Int, n <= Len(s)
  PROVE  /\ SubSeq(s, m + 1, n) \in Seq(S)
         /\ Len(SubSeq(s, m + 1, n)) = IF m < n THEN n - m ELSE 0
         /\ \A i \in 1..(n - m) : SubSeq(s, m + 1, n)[i] = s[m + i]
<1>1. m + 1 \in Int /\ \A i \in (m + 1)..n : s[i] \in S
  OBVIOUS
<1>2. /\ SubSeq(s, m + 1, n) \in Seq(S)
      /\ Len(SubSeq(s, m + 1, n)) = IF m + 1 <= n THEN n - (m + 1) + 1 ELSE 0
      /\ \A i \in 1..(n - (m + 1) + 1) : SubSeq(s, m + 1, n)[i] = s[m + 1 + i - 1]
  BY <1>1, SubSeqProperties
<1> QED
  BY <1>2

\* Looking at the state and editing the queue keep the types.
LEMMA EditsKeepTypes ==
  ASSUME QueueTypes,
         \/ \E r \in Routes : RouteChecks(r)
         \/ AddGoal \/ RemoveLastGoal \/ RemoveRefused \/ ClearGoals \/ ForgetsGoals
  PROVE  QueueTypes'
<1> USE QueueAssumption DEF QueueTypes, RouteActs, Edits, Routes
<1>0. NoPlan \in [goals : Seq(1..MaxGoals), completed : Nat]
  BY DEF NoPlan
<1>1. ASSUME NEW r \in Routes, RouteChecks(r) PROVE QueueTypes'
  <2>1. plan' \in [goals : Seq(1..MaxGoals), completed : Nat]
    BY <1>0, <1>1 DEF RouteChecks, NavRecords
  <2>2. "run" \notin checked' => plan' = NoPlan
    BY <1>1 DEF RouteChecks
  <2> QED
    BY SMTT(20), <1>1, <2>1, <2>2 DEF RouteChecks, navVars, driveVars
<1>2. CASE AddGoal
  <2>1. goals' \in Seq(1..MaxGoals) /\ added' \in 0..MaxGoals /\ Len(goals') \in Nat
    BY <1>2 DEF AddGoal
  <2> QED
    BY <1>2, <2>1 DEF AddGoal, navVars, driveVars
<1>3. CASE RemoveLastGoal
  <2>1. goals' = SubSeq(goals, 0 + 1, Len(goals) - 1)
    BY <1>3 DEF RemoveLastGoal
  <2>2. goals' \in Seq(1..MaxGoals) /\ Len(goals') \in Nat
    BY <2>1, PartOfSequence
  <2> QED
    BY <1>3, <2>2 DEF RemoveLastGoal, navVars, driveVars
<1>4. CASE RemoveRefused
  BY <1>4 DEF RemoveRefused, navVars, driveVars
<1>5. CASE ClearGoals
  BY <1>5 DEF ClearGoals, navVars, driveVars
<1>6. CASE ForgetsGoals
  BY <1>6 DEF ForgetsGoals, navVars, driveVars
<1> QED
  BY <1>1, <1>2, <1>3, <1>4, <1>5, <1>6

\* A reset leaves a state of the right type.
LEMMA ResetKeepsTypes ==
  ASSUME QueueTypes, Reset
  PROVE  /\ nav' \in NavRecords /\ offset' \in Nat /\ generation' \in 0..MaxRuns
         /\ current' = FALSE /\ generation' = generation
<1>1. InitialNav \in NavRecords
  BY DEF InitialNav, NavStates, NavRecords
<1> QED
  BY <1>1 DEF Reset, QueueTypes

\* Telling the bridge, and running the queue, keep the types.
LEMMA RunsKeepTypes ==
  ASSUME QueueTypes,
         \/ \E r \in Edits : TellsBridge(r)
         \/ ReadsGoals \/ Navigate \/ NavigateRefused
  PROVE  QueueTypes'
<1> USE QueueAssumption DEF QueueTypes, RouteActs
<1>0. NoPlan \in [goals : Seq(1..MaxGoals), completed : Nat]
  BY DEF NoPlan
<1>1. ASSUME NEW r \in Edits, TellsBridge(r) PROVE QueueTypes'
  <2>1. owed' \in [Edits -> Nat \cup {NoNews}] /\ owed[r] \in Nat
    BY <1>1 DEF TellsBridge
  <2>2. UNCHANGED <<goals, added, checked, plan, driveVars>>
    BY <1>1 DEF TellsBridge
  <2>3. CASE Reset
    BY <2>1, <2>2, <2>3, ResetKeepsTypes DEF driveVars
  <2>4. CASE nav' = Resized(owed[r]) /\ UNCHANGED <<offset, generation, current>>
    <3>1. nav' \in NavRecords
      BY <2>1, <2>4, ResizedFits
    <3> QED
      BY <2>1, <2>2, <2>4, <3>1 DEF driveVars
  <2> QED
    BY <1>1, <2>3, <2>4 DEF TellsBridge
<1>2. CASE ReadsGoals
  <2>1. plan' \in [goals : Seq(1..MaxGoals), completed : Nat]
    BY <1>0, <1>2 DEF ReadsGoals
  <2>2. checked' \subseteq Routes /\ ("run" \notin checked' => plan' = NoPlan)
    BY <1>2 DEF ReadsGoals
  <2> QED
    BY <1>2, <2>1, <2>2 DEF ReadsGoals, navVars, driveVars
<1>3. CASE Navigate
  <2>1. generation' = generation + 1 /\ generation' \in 0..MaxRuns
    BY <1>3 DEF Navigate
  <2>2. nav' \in NavRecords
    BY <1>3 DEF Navigate, NavStates, Unfinished, ActiveStates, NavRecords
  <2>3. driving' \in 0..generation' /\ route' \in Seq(1..MaxGoals) /\ leg' \in Nat
        /\ missed' \subseteq Int
    <3>1. SubSeq(plan.goals, plan.completed + 1, Len(plan.goals)) \in Seq(1..MaxGoals)
      BY PartOfSequence
    <3>2. \/ /\ driving' = generation' /\ leg' = 0 /\ missed' = {}
             /\ route' = SubSeq(plan.goals, plan.completed + 1, Len(plan.goals))
          \/ UNCHANGED <<driving, route, leg, missed>>
      <4>1. PICK state \in {"running", "rejected", "failed"} :
              IF state = "running"
              THEN /\ driving' = generation'
                   /\ route' = SubSeq(plan.goals, plan.completed + 1, Len(plan.goals))
                   /\ leg' = 0 /\ missed' = {}
              ELSE UNCHANGED <<driving, route, leg, missed>>
        BY <1>3, Zenon DEF Navigate
      <4> QED
        BY <4>1, Zenon
    <3>3. driving' \in {driving, generation'}
      BY <3>2
    <3>4. route' \in Seq(1..MaxGoals)
      BY <3>1, <3>2
    <3>5. driving' \in 0..generation'
      BY <2>1, <3>3
    <3>6. leg' \in Nat
      BY <3>2
    <3>7. missed' \subseteq Int
      BY <3>2
    <3> QED
      BY <3>4, <3>5, <3>6, <3>7
  <2>4. checked' \subseteq Routes /\ plan' = NoPlan /\ offset' = plan.completed
        /\ UNCHANGED <<goals, added, owed, feedback>>
    BY <1>3 DEF Navigate
  <2>5. \A r \in Runs : r > generation' => feedback'[r] = NoNews
    BY <2>1, <2>4 DEF Runs
  <2>6. current' => generation' > 0
    BY <2>1
  <2>7. plan' \in [goals : Seq(1..MaxGoals), completed : Nat]
    BY <1>0, <2>4
  <2>8. /\ goals' \in Seq(1..MaxGoals) /\ added' \in 0..MaxGoals /\ offset' \in Nat
        /\ owed' \in [Edits -> Nat \cup {NoNews}]
        /\ feedback' \in [Runs -> Nat \cup {NoNews}]
    BY <2>4
  <2> QED
    BY Zenon, <2>1, <2>2, <2>3, <2>4, <2>5, <2>6, <2>7, <2>8
<1>4. CASE NavigateRefused
  BY <1>0, <1>4 DEF NavigateRefused, navVars, driveVars
<1> QED
  BY <1>1, <1>2, <1>3, <1>4

\* So do the other steps of the page, of Nav2 and of the messages under way.
LEMMA OthersKeepTypes ==
  ASSUME QueueTypes,
         \/ Pause \/ Cancel \/ StackGoes \/ Reaches \/ GivesUp \/ ReportsProgress
         \/ \E r \in Runs : HearsFeedback(r)
         \/ ResultComes
  PROVE  QueueTypes'
<1> USE QueueAssumption DEF QueueTypes, NoRun, NoNews
<1>1. CASE Pause \/ Cancel
  <2>1. nav' \in NavRecords
    <3>1. PICK new \in NavStates : nav' = [nav EXCEPT !.state = new]
      BY <1>1 DEF Pause, Cancel, NavStates, Unfinished, ActiveStates
    <3> QED
      BY <3>1 DEF NavRecords
  <2>2. UNCHANGED <<queueVars, offset, generation, current, driveVars>>
    BY <1>1 DEF Pause, Cancel
  <2> QED
    BY <2>1, <2>2 DEF queueVars, driveVars
<1>2. CASE StackGoes
  <2>1. /\ nav' \in NavRecords /\ offset' \in Nat
        /\ current' = FALSE /\ generation' = generation
    BY <1>2, ResetKeepsTypes DEF StackGoes
  <2> QED
    BY <1>2, <2>1 DEF StackGoes
<1>3. CASE Reaches
  BY <1>3 DEF Reaches, queueVars, navVars
<1>4. CASE GivesUp
  BY <1>4 DEF GivesUp, queueVars, navVars
<1>5. CASE ReportsProgress
  BY <1>5 DEF ReportsProgress, OnTheWay, Runs, queueVars, navVars
<1>6. ASSUME NEW r \in Runs, HearsFeedback(r) PROVE QueueTypes'
  <2>1. nav' \in NavRecords
    <3>1. feedback[r] \in Nat
      BY <1>6 DEF HearsFeedback
    <3>2. offset + feedback[r] \in Nat
      BY <3>1
    <3>3. \/ nav' = nav
          \/ nav' = [nav EXCEPT !.current = offset + feedback[r],
                                !.completed = offset + feedback[r]]
      BY <1>6 DEF HearsFeedback
    <3> QED
      BY <3>2, <3>3 DEF NavRecords
  <2> QED
    BY <1>6, <2>1 DEF HearsFeedback, queueVars
<1>7. CASE ResultComes
  <2>1. PICK status \in {"succeeded", "canceled", "failed"}, named \in {missed, {}} :
          nav' = Recorded(status, named) \/ nav' = nav
    BY <1>7 DEF ResultComes
  <2>2. nav' \in NavRecords
    <3>1. named \in SUBSET Int
      BY <2>1
    <3> QED
      BY <2>1, <3>1, RecordedFits
  <2> QED
    BY <1>7, <2>2 DEF ResultComes, queueVars
<1> QED
  BY <1>1, <1>2, <1>3, <1>4, <1>5, <1>6, <1>7

-----------------------------------------------------------------------------
\* What the length told makes of the progress.
LEMMA ResizeFits ==
  ASSUME QueueTypes, NEW n \in Nat, nav' = Resized(n)
  PROVE  /\ nav'.state = nav.state /\ nav'.total = n
         /\ nav'.completed <= nav.completed /\ nav'.completed <= n
         /\ nav.current <= nav.completed => nav'.current <= nav'.completed
         /\ nav'.missed = {i \in nav.missed : i < n}
<1>1. nav.completed \in Nat /\ nav.current \in Nat
  BY DEF QueueTypes, NavRecords
<1>2. /\ nav'.state = nav.state /\ nav'.total = n
      /\ nav'.completed = Least(nav.completed, n)
      /\ nav'.current = Least(nav.current, Most(n - 1, 0))
      /\ nav'.missed = {i \in nav.missed : i < n}
  BY ResizedFits
<1> QED
  BY <1>1, <1>2 DEF Least, Most

\* A result ends the task.
LEMMA ResultEnds ==
  ASSUME QueueTypes, OneTask, ResultComes
  PROVE  /\ ~OnTask' /\ driving' = NoRun
         /\ ~OnTask => UNCHANGED nav
         /\ nav'.state \notin ActiveStates
<1>1. driving # NoRun /\ driving' = NoRun /\ UNCHANGED <<current, generation>>
  BY DEF ResultComes
<1>2. ~OnTask'
  BY <1>1 DEF OnTask, QueueTypes, NoRun
<1>3. CASE OnTask
  <2>1. PICK status \in {"succeeded", "canceled", "failed"}, named \in {missed, {}} :
          nav' = Recorded(status, named)
    BY <1>3 DEF ResultComes, OnTask
  <2>2. named \in SUBSET Int
    BY <2>1 DEF QueueTypes
  <2>3. nav'.state \in {"succeeded", "partial", "canceled", "failed", "paused"}
    BY <2>1, <2>2, RecordedFits
  <2> QED
    BY <1>1, <1>2, <1>3, <2>3 DEF ActiveStates
<1>4. CASE ~OnTask
  <2>1. UNCHANGED nav
    BY <1>4 DEF ResultComes, OnTask
  <2> QED
    BY <1>1, <1>2, <1>4, <2>1 DEF OneTask
<1> QED
  BY <1>3, <1>4

\* Every step leaves a task under way exactly while Nav2 drives its route.
LEMMA StepKeepsTask ==
  ASSUME QueueTypes, OneTask, GoalNext
  PROVE  OneTask'
<1> USE DEF OneTask, OnTask, ActiveStates, Unfinished, NoRun
<1>1. CASE \/ \E r \in Routes : RouteChecks(r)
           \/ AddGoal \/ RemoveLastGoal \/ RemoveRefused \/ ClearGoals \/ ForgetsGoals
           \/ ReadsGoals \/ NavigateRefused \/ Reaches \/ GivesUp \/ ReportsProgress
  <2>1. UNCHANGED <<nav, current, generation, driving>>
    BY <1>1 DEF RouteChecks, AddGoal, RemoveLastGoal, RemoveRefused, ClearGoals,
       ForgetsGoals, ReadsGoals, NavigateRefused, Reaches, GivesUp, ReportsProgress,
       navVars, driveVars
  <2> QED
    BY <2>1
<1>2. ASSUME Reset PROVE OneTask'
  BY <1>2 DEF Reset, InitialNav
<1>3. ASSUME NEW r \in Edits, TellsBridge(r) PROVE OneTask'
  <2>1. CASE nav' = Resized(owed[r]) /\ UNCHANGED <<generation, current>>
    <3>1. owed[r] \in Nat
      BY <1>3 DEF TellsBridge, QueueTypes
    <3>2. nav'.state = nav.state /\ driving' = driving
      BY <1>3, <2>1, <3>1, ResizeFits DEF TellsBridge, driveVars
    <3> QED
      BY <2>1, <3>2
  <2> QED
    BY <1>2, <1>3, <2>1 DEF TellsBridge
<1>4. CASE Navigate
  <2>1. nav.state \notin ActiveStates /\ driving \in 0..generation /\ generation \in Nat
    BY <1>4 DEF Navigate, QueueTypes
  <2>2. generation' = generation + 1 /\ current' = TRUE
    BY <1>4 DEF Navigate
  <2>3. PICK state \in {"running", "rejected", "failed"} :
          /\ nav'.state = state
          /\ IF state = "running" THEN driving' = generation' ELSE driving' = driving
    BY <1>4 DEF Navigate
  <2> QED
    BY <2>1, <2>2, <2>3
<1>5. CASE Pause \/ Cancel
  <2>1. UNCHANGED <<driving, current, generation>> /\ nav.state \in Unfinished
    BY <1>5 DEF Pause, Cancel, driveVars
  <2>2. current => generation > 0
    BY DEF QueueTypes
  <2>3. nav.state \in ActiveStates => driving # NoRun
    BY <2>2
  <2>4. /\ nav'.state \in ActiveStates <=> driving # NoRun
        /\ nav'.state # "paused"
    BY <1>5, <2>3 DEF Pause, Cancel, QueueTypes, NavRecords
  <2> QED
    BY <2>1, <2>3, <2>4
<1>6. CASE StackGoes
  BY <1>2, <1>6 DEF StackGoes
<1>7. ASSUME NEW r \in Runs, HearsFeedback(r) PROVE OneTask'
  <2>1. nav'.state = nav.state
    <3>1. PICK c : nav' = nav \/ nav' = [nav EXCEPT !.current = c, !.completed = c]
      BY <1>7 DEF HearsFeedback
    <3> QED
      BY <3>1 DEF QueueTypes, NavRecords
  <2> QED
    BY <1>7, <2>1 DEF HearsFeedback
<1>8. CASE ResultComes
  BY <1>8, ResultEnds
<1> QED
  BY <1>1, <1>3, <1>4, <1>5, <1>6, <1>7, <1>8 DEF GoalNext

-----------------------------------------------------------------------------
\* The queue has a length.
LEMMA LengthsAreNumbers ==
  /\ QueueTypes => Len(goals) \in Nat
  /\ QueueTypes' => Len(goals') \in Nat
<1>1. QueueTypes => goals \in Seq(1..MaxGoals)
  BY Zenon DEF QueueTypes
<1>2. QueueTypes' => goals' \in Seq(1..MaxGoals)
  BY Zenon DEF QueueTypes
<1> QED
  BY <1>1, <1>2

\* Feedback that is under way is a number.
LEMMA FeedbackCounts ==
  ASSUME QueueTypes, current, feedback[generation] # NoNews
  PROVE  /\ offset + feedback[generation] \in Nat /\ feedback[generation] \in Nat
         /\ generation \in Runs
<1>1. generation \in Runs
  <2>1. generation \in 0..MaxRuns /\ generation > 0
    BY Zenon DEF QueueTypes
  <2> QED
    BY <2>1, QueueAssumption DEF Runs
<1>2. feedback \in [Runs -> Nat \cup {NoNews}] /\ offset \in Nat
  BY Zenon DEF QueueTypes
<1> QED
  BY <1>1, <1>2

\* With the same goals, or more behind them, what was accounted for still is.
LEMMA AccountsStay ==
  ASSUME QueueTypes, QueueTypes', NEW n \in Int, UpTo(n), n <= Len(goals'),
         \A i \in 1..Len(goals) : i <= Len(goals') /\ Accounted(i) => Accounted(i)'
  PROVE  n <= Len(goals') /\ \A i \in 1..n : Accounted(i)'
<1>1. Len(goals) \in Nat /\ Len(goals') \in Nat
  BY LengthsAreNumbers
<1> QED
  BY <1>1 DEF UpTo

\* After a reset nothing is passed over.
LEMMA ResetIsTrue ==
  ASSUME QueueTypes, QueueTypes', ~outran => Truths, Reset, ~outran',
         UNCHANGED <<goals, plan, checked, visited, joined, untold>>,
         \A r \in Edits : owed'[r] \in {owed[r], NoNews}
  PROVE  Truths'
<1>1. nav'.completed = 0 /\ nav'.current = 0 /\ current' = FALSE
  BY DEF Reset, InitialNav
<1>2. RouteIsTrue' /\ FeedbackIsTrue'
  BY <1>1 DEF RouteIsTrue, FeedbackIsTrue, OnTask
<1>3. ProgressIsTrue'
  BY <1>1, LengthsAreNumbers DEF ProgressIsTrue, OnTask
<1>4. plan'.completed \in Nat
  BY DEF QueueTypes
<1>5. CASE Settled'
  <2>1. plan' = NoPlan /\ LengthsAreTrue'
    BY <1>5 DEF Settled, QueueTypes, LengthsAreTrue
  <2>2. PlanIsTrue'
    BY <2>1, LengthsAreNumbers DEF PlanIsTrue, NoPlan, UpTo, HasRead
  <2> QED
    BY <1>2, <1>3, <2>1, <2>2 DEF Truths
<1>6. CASE ~Settled'
  <2>1. ~outran /\ plan.completed = 0
    <3>1. ~(outran \/ plan.completed > 0)
      BY Zenon, <1>6 DEF Reset
    <3>2. ~(plan.completed > 0)
      BY Zenon, <3>1
    <3>3. plan.completed = 0
      BY <1>4, <3>2
    <3> QED
      BY Zenon, <3>1, <3>3
  <2>2. PlanIsTrue /\ LengthsAreTrue
    BY <2>1 DEF Truths
  <2>3. LengthsAreTrue'
    BY <2>2 DEF LengthsAreTrue
  <2>4. PlanIsTrue'
    BY <2>1, <2>2, LengthsAreNumbers DEF PlanIsTrue, UpTo, HasRead
  <2> QED
    BY <1>2, <1>3, <2>3, <2>4 DEF Truths
<1> QED
  BY <1>5, <1>6

\* Goals are removed that nothing under way counts.
LEMMA RemovalIsTrue ==
  ASSUME QueueTypes, QueueTypes', Truths, NEW n \in Nat, Len(goals') = n,
         n <= Len(goals), \A i \in 1..n : goals'[i] = goals[i], ~Outruns(n),
         UNCHANGED <<plan, navVars, driveVars, joined, untold>>,
         \A r \in Edits : owed'[r] # NoNews => owed'[r] = n,
         Shrinking' \/ (nav.completed = 0 /\ n = 0)
  PROVE  Truths'
<1> USE DEF navVars, driveVars
<1>1. Len(goals) \in Nat /\ Len(goals') \in Nat
  BY LengthsAreNumbers
<1>2. \A i \in 1..n : Accounted(i) => Accounted(i)'
  BY DEF Accounted, OnTask
<1>3. LengthsAreTrue'
  BY DEF LengthsAreTrue
<1>4. plan.completed \in Nat /\ Len(plan.goals) \in Nat
  BY DEF QueueTypes
<1>5. PlanIsTrue'
  <2>1. PlanIsTrue /\ plan.completed <= n /\ Len(plan.goals) <= n
    BY <1>4 DEF Truths, Outruns
  <2>2. UpTo(plan.completed)'
    BY <1>1, <1>2, <1>4, <2>1 DEF PlanIsTrue, UpTo
  <2>3. \A i \in 1..Len(plan.goals) : plan.goals[i] = goals'[i]
    BY <1>1, <1>4, <2>1 DEF PlanIsTrue
  <2>4. HasRead => \A i \in 1..n : i > Len(plan.goals) => goals'[i] \in joined
    BY <1>1, <2>1 DEF PlanIsTrue
  <2> QED
    BY <2>1, <2>2, <2>3, <2>4 DEF PlanIsTrue, HasRead
<1>6. /\ offset \in Nat /\ leg \in Nat /\ Len(route) \in Nat
      /\ nav.completed \in Nat /\ nav.current \in Nat
  BY DEF QueueTypes, NavRecords
<1>7. RouteIsTrue'
  <2> SUFFICES ASSUME OnTask PROVE RouteIsTrue'
    BY DEF RouteIsTrue, OnTask
  <2>1. RouteIsTrue /\ offset + Len(route) <= n
    BY <1>6 DEF Truths, Outruns, OnTask
  <2>2. UpTo(offset + leg)'
    BY <1>1, <1>2, <1>6, <2>1 DEF RouteIsTrue, UpTo
  <2>3. \A k \in 1..Len(route) : route[k] = goals'[offset + k]
    <3> SUFFICES ASSUME NEW k \in 1..Len(route) PROVE route[k] = goals'[offset + k]
      OBVIOUS
    <3>1. route[k] = goals[offset + k]
      BY <2>1 DEF RouteIsTrue
    <3>2. offset + k \in 1..n
      BY <1>6, <2>1
    <3> QED
      BY <3>1, <3>2
  <2>4. \A i \in 1..n : i > offset + Len(route) => goals'[i] \in joined
    BY <1>1, <2>1 DEF RouteIsTrue
  <2> QED
    BY <2>1, <2>2, <2>3, <2>4 DEF RouteIsTrue, OnTask
<1>8. FeedbackIsTrue'
  <2> SUFFICES ASSUME current, feedback[generation] # NoNews
               PROVE  UpTo(offset + feedback[generation])'
    BY DEF FeedbackIsTrue
  <2>1. offset + feedback[generation] \in Nat /\ generation \in Runs
    BY FeedbackCounts
  <2>2. UpTo(offset + feedback[generation]) /\ offset + feedback[generation] <= n
    BY <2>1 DEF Truths, FeedbackIsTrue, Outruns
  <2> QED
    BY <1>1, <1>2, <2>1, <2>2 DEF UpTo
<1>9. ProgressIsTrue'
  <2>1. ProgressIsTrue
    BY DEF Truths
  <2>2. \A i \in 1..n : i <= nav.completed => Accounted(i)'
    BY <1>1, <1>2, <2>1 DEF ProgressIsTrue
  <2>3. ~Shrinking' => ~OnTask
    <3> SUFFICES ASSUME OnTask, n = 0 PROVE FALSE
      OBVIOUS
    <3>1. RouteIsTrue /\ offset + Len(route) <= 0
      BY <1>6 DEF Truths, Outruns, OnTask
    <3> QED
      BY <1>6, <3>1 DEF RouteIsTrue
  <2> QED
    BY <1>1, <1>6, <2>1, <2>2, <2>3 DEF ProgressIsTrue, OnTask
<1> QED
  BY <1>3, <1>5, <1>7, <1>8, <1>9 DEF Truths

\* Removing, clearing and forgetting goals falsify nothing, unless something still
\* counts them.
LEMMA RemovalsAreTrue ==
  ASSUME QueueTypes, ~outran => Truths, ~outran',
         RemoveLastGoal \/ ClearGoals \/ ForgetsGoals
  PROVE  Truths'
<1>1. QueueTypes'
  BY EditsKeepTypes
<1>2. ~outran /\ Truths
  BY DEF RemoveLastGoal, ClearGoals, ForgetsGoals
<1>3. Len(goals) \in Nat /\ owed \in [Edits -> Nat \cup {NoNews}]
  BY LengthsAreNumbers DEF QueueTypes
<1>4. ASSUME NEW n \in Nat, ~Outruns(n), n <= Len(goals)
      PROVE  \A r \in Edits : owed[r] # NoNews => owed[r] <= n
  BY <1>3, <1>4 DEF Outruns
<1>5. LengthsAreTrue
  BY <1>2 DEF Truths
<1>6. CASE RemoveLastGoal
  <2>1. goals' = SubSeq(goals, 0 + 1, Len(goals) - 1) /\ goals # <<>>
    BY <1>6 DEF RemoveLastGoal
  <2>2. PICK n \in Nat : n = Len(goals) - 1
    <3>1. goals \in Seq(1..MaxGoals)
      BY Zenon DEF QueueTypes
    <3>2. Len(goals) # 0
      BY <2>1, <3>1, EmptySeq
    <3>3. Len(goals) - 1 \in Nat
      BY <1>3, <3>2
    <3> QED
      BY <3>3
  <2>3. Len(goals') = n /\ \A i \in 1..n : goals'[i] = goals[i]
    <3>1. goals \in Seq(1..MaxGoals) /\ 0 \in Nat /\ Len(goals) - 1 <= Len(goals)
      BY <1>3 DEF QueueTypes
    <3>2. /\ Len(goals') = IF 0 < Len(goals) - 1 THEN Len(goals) - 1 - 0 ELSE 0
          /\ \A i \in 1..(Len(goals) - 1 - 0) : goals'[i] = goals[0 + i]
      BY <1>3, <2>1, <3>1, PartOfSequence
    <3> QED
      BY <1>3, <2>2, <3>2
  <2>4. ~Outruns(n)
    BY <1>6, <2>2, <2>3 DEF RemoveLastGoal
  <2>5. owed' = [owed EXCEPT !["remove"] = n]
    BY <1>6, <2>3 DEF RemoveLastGoal
  <2>6. \A r \in Edits : owed'[r] # NoNews => owed'[r] = n
    <3> SUFFICES ASSUME NEW r \in Edits, r # "remove", owed[r] # NoNews PROVE FALSE
      BY <1>3, <2>5
    <3>1. owed[r] = Len(goals)
      BY <1>5 DEF LengthsAreTrue
    <3> QED
      BY <1>3, <1>4, <2>2, <2>4, <3>1
  <2>7. Shrinking'
    BY <1>3, <2>2, <2>5 DEF Shrinking, NoNews, Edits
  <2>8. UNCHANGED <<plan, navVars, driveVars, joined, untold>>
    BY <1>6 DEF RemoveLastGoal, RouteActs
  <2> QED
    BY <1>1, <1>2, <1>3, <2>2, <2>3, <2>4, <2>6, <2>7, <2>8, RemovalIsTrue
<1>7. CASE ClearGoals \/ ForgetsGoals
  <2>1. goals' = <<>> /\ Len(goals') = 0 /\ ~Outruns(0)
    BY <1>7 DEF ClearGoals, ForgetsGoals
  <2>2. owed' = [owed EXCEPT !["clear"] = 0] \/ owed' = owed
    BY <1>7 DEF ClearGoals, ForgetsGoals
  <2>3. \A r \in Edits : owed'[r] # NoNews => owed'[r] = 0
    BY <1>3, <1>4, <2>1, <2>2
  <2>4. Shrinking' \/ nav.completed = 0
    <3>1. CASE ClearGoals
      BY <1>3, <3>1 DEF ClearGoals, Shrinking, NoNews, Edits
    <3>2. CASE ForgetsGoals
      <4>1. ~(nav.completed > 0)
        BY Zenon, <3>2 DEF ForgetsGoals
      <4>2. nav.completed \in Nat
        BY DEF QueueTypes, NavRecords
      <4> QED
        BY <4>1, <4>2
    <3> QED
      BY <1>7, <3>1, <3>2
  <2>5. UNCHANGED <<plan, navVars, driveVars, joined, untold>>
    BY <1>7 DEF ClearGoals, ForgetsGoals, RouteActs
  <2> QED
    BY <1>1, <1>2, <1>3, <2>1, <2>3, <2>4, <2>5, RemovalIsTrue
<1> QED
  BY <1>6, <1>7

\* A goal that is added is passed over only if it joined late.
LEMMA AddIsTrue ==
  ASSUME QueueTypes, OneTask, ~outran => Truths, ~outran', AddGoal
  PROVE  Truths'
<1>1. QueueTypes'
  BY EditsKeepTypes
<1>2. ~outran /\ Truths /\ ~Shrinking
  BY DEF AddGoal
<1>3. UNCHANGED <<plan, navVars, driveVars, untold>>
  BY DEF AddGoal, RouteActs
<1>4. goals' = Append(goals, added') /\ Len(goals) \in Nat /\ Len(goals') \in Nat
  BY <1>1, LengthsAreNumbers DEF AddGoal
<1>5. /\ Len(goals') = Len(goals) + 1 /\ \A i \in 1..Len(goals) : goals'[i] = goals[i]
      /\ goals'[Len(goals')] = added'
  BY <1>4 DEF QueueTypes
<1>6. joined \subseteq joined' /\ (OnTask \/ HasRead => added' \in joined')
  BY DEF AddGoal, OneTask
<1>7. \A i \in 1..Len(goals) : Accounted(i) => Accounted(i)'
  BY <1>3, <1>5, <1>6 DEF Accounted, OnTask, navVars, driveVars
<1>8. ASSUME NEW n \in Int, UpTo(n) PROVE UpTo(n)'
  BY <1>4, <1>5, <1>7, <1>8 DEF UpTo
<1>9. LengthsAreTrue'
  <2>1. owed' = [owed EXCEPT !["add"] = Len(goals')] /\ owed \in [Edits -> Nat \cup {NoNews}]
    BY DEF AddGoal, QueueTypes
  <2> QED
    BY <1>2, <2>1 DEF Shrinking, LengthsAreTrue, Edits
<1>10. PlanIsTrue'
  <2>1. PlanIsTrue /\ plan.completed \in Nat /\ Len(plan.goals) \in Nat
    BY <1>2 DEF Truths, QueueTypes
  <2>2. \A i \in 1..Len(plan.goals) : plan.goals[i] = goals'[i]
    BY <1>4, <1>5, <2>1 DEF PlanIsTrue
  <2>3. HasRead => \A i \in 1..Len(goals') : i > Len(plan.goals) => goals'[i] \in joined'
    BY <1>4, <1>5, <1>6, <2>1 DEF PlanIsTrue
  <2>4. UpTo(plan.completed)'
    BY <1>3, <1>8, <2>1 DEF PlanIsTrue, UpTo
  <2> QED
    BY <1>3, <1>4, <1>5, <2>1, <2>2, <2>3, <2>4 DEF PlanIsTrue, HasRead
<1>11. RouteIsTrue'
  <2> SUFFICES ASSUME OnTask PROVE RouteIsTrue'
    BY <1>3 DEF RouteIsTrue, OnTask, navVars, driveVars
  <2>1. RouteIsTrue /\ offset \in Nat /\ leg \in Nat /\ Len(route) \in Nat
    BY <1>2 DEF Truths, QueueTypes
  <2>2. UNCHANGED <<offset, route, leg, missed>>
    BY <1>3 DEF navVars, driveVars
  <2>3. UpTo(offset + leg)'
    BY <1>8, <2>1, <2>2 DEF RouteIsTrue, UpTo
  <2>4. \A k \in 1..Len(route) : route[k] = goals'[offset + k]
    <3> SUFFICES ASSUME NEW k \in 1..Len(route) PROVE route[k] = goals'[offset + k]
      OBVIOUS
    <3>1. route[k] = goals[offset + k] /\ offset + Len(route) <= Len(goals)
      BY <2>1 DEF RouteIsTrue
    <3>2. offset + k \in 1..Len(goals)
      BY <1>4, <2>1, <3>1
    <3> QED
      BY <1>5, <3>1, <3>2
  <2>5. \A i \in 1..Len(goals') : i > offset + Len(route) => goals'[i] \in joined'
    <3>1. \A i \in 1..Len(goals) : i > offset + Len(route) => goals[i] \in joined
      BY <2>1 DEF RouteIsTrue
    <3>2. added' \in joined'
      BY <1>6
    <3> QED
      BY <1>4, <1>5, <1>6, <3>1, <3>2
  <2>6. /\ Len(route) > 0 /\ offset + Len(route) <= Len(goals)
        /\ leg <= Len(route) /\ missed \subseteq 0..(leg - 1)
    BY <2>1 DEF RouteIsTrue
  <2>7. offset + Len(route) <= Len(goals')
    BY <1>4, <1>5, <2>1, <2>6
  <2> QED
    BY <2>2, <2>3, <2>4, <2>5, <2>6, <2>7 DEF RouteIsTrue
<1>12. FeedbackIsTrue'
  <2> SUFFICES ASSUME current, feedback[generation] # NoNews
               PROVE  UpTo(offset + feedback[generation])'
    BY <1>3 DEF FeedbackIsTrue, navVars, driveVars
  <2>1. offset + feedback[generation] \in Nat
    BY FeedbackCounts
  <2>2. UpTo(offset + feedback[generation])
    BY <1>2 DEF Truths, FeedbackIsTrue
  <2> QED
    BY <1>3, <1>8, <2>1, <2>2 DEF UpTo, navVars, driveVars
<1>13. ProgressIsTrue'
  <2>1. /\ ProgressIsTrue /\ nav.completed \in Nat /\ nav.completed <= Len(goals)
        /\ nav.total \in Nat /\ (OnTask => nav.total <= Len(goals))
    BY <1>2 DEF Truths, ProgressIsTrue, QueueTypes, NavRecords
  <2>2. \A i \in 1..Len(goals') : i <= nav.completed => Accounted(i)'
    BY <1>4, <1>5, <1>7, <2>1 DEF ProgressIsTrue
  <2> QED
    BY <1>3, <1>4, <1>5, <2>1, <2>2 DEF ProgressIsTrue, OnTask, navVars, driveVars
<1> QED
  BY <1>9, <1>10, <1>11, <1>12, <1>13 DEF Truths

\* A step that keeps the goals and what is behind them.
LEMMA SameGoals ==
  ASSUME NEW n, UpTo(n), goals' = goals, \A i \in 1..n : Accounted(i) => Accounted(i)'
  PROVE  n <= Len(goals') /\ \A i \in 1..n : Accounted(i)'
  BY DEF UpTo

\* The length told is the queue's.
LEMMA TellIsTrue ==
  ASSUME QueueTypes, ~outran => Truths, ~outran', NEW r \in Edits, TellsBridge(r)
  PROVE  Truths'
<1>1. QueueTypes'
  BY RunsKeepTypes
<1>2. /\ UNCHANGED <<goals, checked, plan, driveVars, joined, untold>>
      /\ owed' = [owed EXCEPT ![r] = NoNews] /\ owed \in [Edits -> Nat \cup {NoNews}]
      /\ owed[r] # NoNews
  BY DEF TellsBridge, QueueTypes
<1>3. \A e \in Edits : owed'[e] \in {owed[e], NoNews}
  BY <1>2
<1>4. CASE Reset
  BY <1>1, <1>2, <1>3, <1>4, ResetIsTrue DEF driveVars
<1>5. CASE nav' = Resized(owed[r]) /\ UNCHANGED <<offset, generation, current, pausing, outran>>
  <2>1. Truths /\ UNCHANGED <<offset, generation, current>>
    BY <1>5
  <2>2. owed[r] = Len(goals) /\ owed[r] \in Nat
    BY <1>2, <2>1 DEF Truths, LengthsAreTrue
  <2>3. /\ nav'.total = Len(goals) /\ nav'.completed <= Len(goals)
        /\ nav'.completed <= nav.completed
        /\ nav.current <= nav.completed => nav'.current <= nav'.completed
        /\ nav'.missed = {i \in nav.missed : i < Len(goals)}
    BY <1>5, <2>2, ResizeFits
  <2>4. /\ UNCHANGED <<driving, route, leg, missed, feedback, visited>>
        /\ nav'.completed \in Nat /\ nav.completed \in Nat
    BY <1>1, <1>2 DEF driveVars, QueueTypes, NavRecords
  <2>5. \A i \in 1..Len(goals) : Accounted(i) => Accounted(i)'
    <3> SUFFICES ASSUME NEW i \in 1..Len(goals), Accounted(i) PROVE Accounted(i)'
      OBVIOUS
    <3>1. i - 1 < Len(goals)
      BY <2>2
    <3> QED
      BY <1>2, <2>1, <2>3, <2>4, <3>1 DEF Accounted, OnTask
  <2>6. LengthsAreTrue'
    BY <1>2, <1>3, <2>1 DEF Truths, LengthsAreTrue
  <2>7. ASSUME NEW n \in Int, UpTo(n) PROVE UpTo(n)'
    BY <1>2, <2>2, <2>5, <2>7 DEF UpTo
  <2>8. PlanIsTrue'
    <3>1. PlanIsTrue /\ plan.completed \in Nat
      BY <2>1 DEF Truths, QueueTypes
    <3>2. UpTo(plan.completed)'
      BY <1>2, <2>7, <3>1 DEF PlanIsTrue, UpTo
    <3> QED
      BY <1>2, <3>1, <3>2 DEF PlanIsTrue, HasRead
  <2>9. RouteIsTrue'
    <3> SUFFICES ASSUME OnTask PROVE RouteIsTrue'
      BY <2>1, <2>4 DEF RouteIsTrue, OnTask
    <3>1. RouteIsTrue /\ offset \in Nat /\ leg \in Nat
      BY <2>1 DEF Truths, QueueTypes
    <3>2. UpTo(offset + leg)'
      BY <2>1, <2>4, <2>7, <3>1 DEF RouteIsTrue, UpTo
    <3> QED
      BY <1>2, <2>1, <2>4, <3>1, <3>2 DEF RouteIsTrue
  <2>10. FeedbackIsTrue'
    <3> SUFFICES ASSUME current, feedback[generation] # NoNews
                 PROVE  UpTo(offset + feedback[generation])'
      BY <2>1, <2>4 DEF FeedbackIsTrue
    <3>1. offset + feedback[generation] \in Nat
      BY FeedbackCounts
    <3>2. UpTo(offset + feedback[generation])
      BY <2>1 DEF Truths, FeedbackIsTrue
    <3> QED
      BY <2>1, <2>4, <2>7, <3>1, <3>2 DEF UpTo
  <2>11. ProgressIsTrue'
    <3>1. ProgressIsTrue
      BY <2>1 DEF Truths
    <3>2. \A i \in 1..Len(goals) : i <= nav'.completed => Accounted(i)'
      BY <2>2, <2>3, <2>4, <2>5, <3>1 DEF ProgressIsTrue
    <3> QED
      BY <1>2, <2>2, <2>3, <3>1, <3>2 DEF ProgressIsTrue
  <2> QED
    BY <2>6, <2>8, <2>9, <2>10, <2>11 DEF Truths
<1> QED
  BY <1>4, <1>5 DEF TellsBridge

\* Nothing but the requests being served has changed.
LEMMA RestStaysTrue ==
  ASSUME Truths, PlanIsTrue',
         UNCHANGED <<goals, owed, navVars, driveVars, joined, untold>>
  PROVE  Truths'
  BY DEF navVars, driveVars, Truths, LengthsAreTrue, RouteIsTrue, FeedbackIsTrue,
     ProgressIsTrue, UpTo, Accounted, OnTask, Shrinking

\* What a request reads is so when it reads it, and one that leaves holds nothing.
LEMMA ReadsAreTrue ==
  ASSUME QueueTypes, ~outran => Truths, ~outran',
         \/ \E r \in Routes : RouteChecks(r)
         \/ ReadsGoals \/ NavigateRefused \/ RemoveRefused
  PROVE  Truths'
<1>1. UNCHANGED <<goals, owed, navVars, driveVars, joined, untold>>
  BY DEF RouteChecks, ReadsGoals, NavigateRefused, RemoveRefused, pastVars
<1>2. ~outran /\ Truths /\ PlanIsTrue /\ ProgressIsTrue
  <2>1. ~outran
    <3>1. ASSUME NEW r \in Routes, RouteChecks(r) PROVE ~outran
      BY Zenon, <3>1 DEF RouteChecks
    <3>2. CASE ReadsGoals \/ NavigateRefused \/ RemoveRefused
      BY <3>2 DEF ReadsGoals, NavigateRefused, RemoveRefused, pastVars
    <3> QED
      BY <3>1, <3>2
  <2> QED
    BY <2>1 DEF Truths
<1>3. Len(goals) \in Nat /\ nav.completed \in Nat /\ plan.completed \in Nat
  BY LengthsAreNumbers DEF QueueTypes, NavRecords
<1>4. \A i : Accounted(i) <=> Accounted(i)'
  BY <1>1 DEF Accounted, OnTask, navVars, driveVars
<1>5. CASE plan' = plan
  BY <1>1, <1>2, <1>4, <1>5, RestStaysTrue DEF PlanIsTrue, UpTo, HasRead
<1>6. CASE plan' = NoPlan
  <2>1. PlanIsTrue'
    BY <1>1, <1>3, <1>6 DEF PlanIsTrue, NoPlan, UpTo, HasRead
  <2> QED
    BY <1>1, <1>2, <2>1, RestStaysTrue
<1>7. CASE plan' = [NoPlan EXCEPT !.completed = nav.completed] /\ ~Shrinking
  <2>1. plan'.completed = nav.completed /\ plan'.goals = <<>>
    BY <1>7 DEF NoPlan
  <2>2. nav.completed <= Len(goals) /\ \A i \in 1..nav.completed : Accounted(i)
    BY <1>2, <1>3, <1>7 DEF ProgressIsTrue
  <2>3. PlanIsTrue'
    BY <1>1, <1>3, <1>4, <2>1, <2>2 DEF PlanIsTrue, UpTo, HasRead
  <2> QED
    BY <1>1, <1>2, <2>3, RestStaysTrue
<1>8. CASE plan' = [plan EXCEPT !.goals = goals] /\ plan.completed < Len(goals)
  <2>1. plan'.completed = plan.completed /\ plan'.goals = goals
    BY <1>8 DEF QueueTypes
  <2>2. PlanIsTrue'
    BY <1>1, <1>2, <1>3, <1>4, <1>8, <2>1 DEF PlanIsTrue, UpTo, HasRead
  <2> QED
    BY <1>1, <1>2, <2>2, RestStaysTrue
<1>9. ASSUME NEW r \in Routes, RouteChecks(r) PROVE Truths'
  <2>1. r = "run" => ~Shrinking
    BY Zenon, <1>9 DEF RouteChecks
  <2>2. \/ plan' = plan
        \/ plan' = [NoPlan EXCEPT !.completed = nav.completed] /\ ~Shrinking
    BY <1>9, <2>1 DEF RouteChecks
  <2> QED
    BY <1>5, <1>7, <2>2
<1>10. CASE ReadsGoals
  BY <1>6, <1>8, <1>10 DEF ReadsGoals, RouteActs
<1>11. CASE NavigateRefused \/ RemoveRefused
  BY <1>5, <1>6, <1>11 DEF NavigateRefused, RemoveRefused, RouteActs
<1> QED
  BY <1>9, <1>10, <1>11

\* A run that starts, or fails to, drives to the rest of the goals it has read.
LEMMA RunIsTrue ==
  ASSUME QueueTypes, OneTask, Truths, Navigate
  PROVE  Truths'
<1>1. /\ UNCHANGED <<goals, owed, feedback, visited, joined, untold>>
      /\ current' = TRUE /\ plan' = NoPlan
      /\ generation' = generation + 1 /\ offset' = plan.completed
  BY DEF Navigate, RouteActs, pastVars
<1>2. ~OnTask
  BY DEF Navigate, OneTask
<1>3. /\ PlanIsTrue /\ HasRead /\ LengthsAreTrue
      /\ plan.completed \in Nat /\ Len(goals) \in Nat /\ Len(plan.goals) \in Nat
      /\ plan.completed < Len(plan.goals) /\ Len(plan.goals) <= Len(goals)
  BY LengthsAreNumbers DEF Navigate, Truths, PlanIsTrue, QueueTypes
<1>4. PICK state \in {"running", "rejected", "failed"} :
        /\ nav' = [state |-> state, current |-> plan.completed,
                   completed |-> plan.completed, total |-> Len(plan.goals),
                   missed |-> {i \in nav.missed : i < plan.completed}]
        /\ IF state = "running"
           THEN /\ driving' = generation'
                /\ route' = SubSeq(plan.goals, plan.completed + 1, Len(plan.goals))
                /\ leg' = 0 /\ missed' = {}
           ELSE UNCHANGED <<driving, route, leg, missed>>
  BY Zenon DEF Navigate
<1>5. \A i \in 1..plan.completed : Accounted(i)'
  <2> SUFFICES ASSUME NEW i \in 1..plan.completed
               PROVE  goals'[i] \in (visited \cup joined \cup untold)' \/ i - 1 \in nav'.missed
    BY DEF Accounted
  <2>1. Accounted(i)
    BY <1>3 DEF PlanIsTrue, UpTo
  <2>2. goals[i] \in visited \cup joined \cup untold \/ i - 1 \in nav.missed
    BY <1>2, <2>1 DEF Accounted
  <2>3. i - 1 < plan.completed
    BY <1>3
  <2> QED
    BY <1>1, <1>4, <2>2, <2>3
<1>6. LengthsAreTrue'
  BY <1>1, <1>3 DEF LengthsAreTrue
<1>7. PlanIsTrue'
  BY <1>1, <1>3 DEF PlanIsTrue, NoPlan, UpTo, HasRead
<1>8. ProgressIsTrue'
  <2>1. /\ nav'.current = plan.completed /\ nav'.completed = plan.completed
        /\ nav'.total = Len(plan.goals)
    BY <1>4
  <2> QED
    BY <1>1, <1>3, <1>5, <2>1 DEF ProgressIsTrue
<1>9. FeedbackIsTrue'
  <2>1. generation' \in Runs /\ generation' > generation
    <3>1. generation \in 0..MaxRuns /\ generation < MaxRuns
      BY Zenon DEF QueueTypes, Navigate
    <3> QED
      BY <1>1, <3>1, QueueAssumption DEF Runs
  <2>2. feedback[generation'] = NoNews
    BY <2>1 DEF QueueTypes
  <2> QED
    BY <1>1, <2>2 DEF FeedbackIsTrue
<1>10. RouteIsTrue'
  <2>1. CASE state # "running"
    <3>1. driving' = driving /\ driving \in 0..generation /\ generation \in Nat
      BY <1>4, <2>1 DEF QueueTypes
    <3> QED
      BY <1>1, <3>1 DEF RouteIsTrue, OnTask
  <2>2. CASE state = "running"
    <3>1. route' = SubSeq(plan.goals, plan.completed + 1, Len(plan.goals))
          /\ leg' = 0 /\ missed' = {}
      BY <1>4, <2>2
    <3>2. /\ Len(route') = Len(plan.goals) - plan.completed
          /\ \A k \in 1..Len(route') : route'[k] = plan.goals[plan.completed + k]
      <4> DEFINE s == plan.goals
                 part == SubSeq(s, plan.completed + 1, Len(s))
      <4>1. s \in Seq(1..MaxGoals) /\ plan.completed \in Nat /\ Len(s) \in Int
        BY <1>3 DEF QueueTypes
      <4>2. route' = part /\ plan.completed < Len(s)
        BY <1>3, <3>1
      <4> HIDE DEF s
      <4>3. /\ Len(part) = IF plan.completed < Len(s) THEN Len(s) - plan.completed ELSE 0
            /\ \A k \in 1..(Len(s) - plan.completed) : part[k] = s[plan.completed + k]
        BY <4>1, PartOfSequence
      <4> HIDE DEF part
      <4>4. /\ Len(route') = Len(s) - plan.completed
            /\ \A k \in 1..Len(route') : route'[k] = s[plan.completed + k]
        BY <4>2, <4>3
      <4> QED
        BY <4>4 DEF s
    <3>3. \A k \in 1..Len(route') : route'[k] = goals[plan.completed + k]
      <4> SUFFICES ASSUME NEW k \in 1..Len(route')
                   PROVE  plan.goals[plan.completed + k] = goals[plan.completed + k]
        BY <3>2
      <4>1. plan.completed + k \in 1..Len(plan.goals)
        BY <1>3, <3>2
      <4> QED
        BY <1>3, <4>1 DEF PlanIsTrue
    <3>4. \A i \in 1..Len(goals) : i > Len(plan.goals) => goals[i] \in joined
      BY <1>3 DEF PlanIsTrue
    <3>5. UpTo(offset + leg)'
      <4>1. offset' + leg' = plan.completed
        BY <1>1, <1>3, <3>1
      <4> QED
        BY <1>1, <1>3, <1>5, <4>1 DEF UpTo
    <3>6. offset' + Len(route') = Len(plan.goals) /\ Len(route') > 0 /\ leg' <= Len(route')
      <4>1. Len(route') = Len(plan.goals) - plan.completed
        BY <3>2
      <4>2. offset' = plan.completed /\ leg' = 0
        BY <1>1, <3>1
      <4> QED
        BY <1>3, <4>1, <4>2
    <3> QED
      BY <1>1, <1>3, <3>1, <3>3, <3>4, <3>5, <3>6 DEF RouteIsTrue
  <2> QED
    BY <2>1, <2>2
<1> QED
  BY <1>6, <1>7, <1>8, <1>9, <1>10 DEF Truths

\* Pausing and canceling change the state of the task alone.
LEMMA InterruptsAreTrue ==
  ASSUME QueueTypes, Truths, Pause \/ Cancel
  PROVE  Truths'
<1>1. UNCHANGED <<goals, owed, plan, offset, generation, current, driving, route, leg,
                  missed, feedback, visited, joined, untold>>
  BY DEF Pause, Cancel, queueVars, driveVars, pastVars
<1>2. /\ nav'.completed = nav.completed /\ nav'.total = nav.total
      /\ nav'.missed = nav.missed /\ nav'.current = nav.current
  BY DEF Pause, Cancel, QueueTypes, NavRecords
<1> QED
  BY <1>1, <1>2
  DEF Truths, LengthsAreTrue, PlanIsTrue, RouteIsTrue, FeedbackIsTrue, ProgressIsTrue,
      UpTo, Accounted, OnTask, Shrinking, HasRead

\* A goal that Nav2 reaches or gives up is accounted for.
LEMMA DriveIsTrue ==
  ASSUME QueueTypes, Truths, Reaches \/ GivesUp
  PROVE  Truths'
<1>1. /\ leg < Len(route) /\ leg' = leg + 1
      /\ UNCHANGED <<goals, plan, owed, nav, offset, generation, current, driving, route,
                     feedback, joined, untold>>
  BY DEF Reaches, GivesUp, OnTheWay, queueVars, navVars, pastVars
<1>2. /\ leg \in Nat /\ offset \in Nat /\ Len(goals) \in Nat /\ Len(route) \in Nat
      /\ nav.completed \in Nat /\ plan.completed \in Nat
  BY LengthsAreNumbers DEF QueueTypes, NavRecords
<1>3. \/ visited' = visited \cup {route[leg + 1]} /\ missed' = missed
      \/ visited' = visited /\ missed' = missed \cup {leg}
  BY DEF Reaches, GivesUp
<1>4. \A i : Accounted(i) => Accounted(i)'
  BY <1>1, <1>3 DEF Accounted, OnTask
<1>5. RouteIsTrue'
  <2> SUFFICES ASSUME OnTask PROVE RouteIsTrue'
    BY <1>1 DEF RouteIsTrue, OnTask
  <2>1. /\ Len(route) > 0 /\ offset + Len(route) <= Len(goals) /\ UpTo(offset + leg)
        /\ \A k \in 1..Len(route) : route[k] = goals[offset + k]
        /\ \A i \in 1..Len(goals) : i > offset + Len(route) => goals[i] \in joined
        /\ missed \subseteq 0..(leg - 1)
    BY DEF Truths, RouteIsTrue
  <2>2. PICK next \in Nat : next = offset + leg + 1
    BY <1>2
  <2>3. goals[next] = route[leg + 1] /\ (next - 1) - offset = leg
    <3>1. /\ next = offset + (leg + 1) /\ leg + 1 \in 1..Len(route)
          /\ (next - 1) - offset = leg
      BY <1>1, <1>2, <2>2
    <3>2. route[leg + 1] = goals[offset + (leg + 1)]
      BY <2>1, <3>1
    <3> QED
      BY <3>1, <3>2
  <2>4. Accounted(next)'
    BY <1>1, <1>3, <2>3 DEF Accounted, OnTask
  <2>5. ASSUME NEW i \in 1..next PROVE Accounted(i)'
    <3>1. CASE i = next
      BY <2>4, <3>1
    <3>2. CASE i # next
      <4>1. i \in 1..(offset + leg)
        BY <1>2, <2>2, <3>2
      <4> QED
        BY <1>4, <2>1, <4>1 DEF UpTo
    <3> QED
      BY <3>1, <3>2
  <2>6. next <= Len(goals') /\ next = offset' + leg'
    BY <1>1, <1>2, <2>1, <2>2
  <2>7. UpTo(offset + leg)'
    BY <2>5, <2>6 DEF UpTo
  <2>8. leg' <= Len(route') /\ missed' \subseteq 0..(leg' - 1)
    <3>1. leg' <= Len(route')
      BY <1>1, <1>2
    <3>2. missed' \subseteq missed \cup {leg}
      BY <1>3
    <3>3. missed \cup {leg} \subseteq 0..leg
      BY <1>2, <2>1
    <3>4. leg' - 1 = leg
      BY <1>1, <1>2
    <3> QED
      BY <3>1, <3>2, <3>3, <3>4
  <2> QED
    BY <1>1, <2>1, <2>7, <2>8 DEF RouteIsTrue
<1>6. LengthsAreTrue' /\ PlanIsTrue' /\ ProgressIsTrue'
  BY <1>1, <1>4
  DEF Truths, LengthsAreTrue, PlanIsTrue, ProgressIsTrue, UpTo, HasRead, Shrinking, OnTask
<1>7. FeedbackIsTrue'
  BY <1>1, <1>4 DEF Truths, FeedbackIsTrue, UpTo
<1> QED
  BY <1>5, <1>6, <1>7 DEF Truths

\* Feedback counts only legs that are behind, when it is sent and when it is heard.
LEMMA FeedbackStaysTrue ==
  ASSUME QueueTypes, Truths, ReportsProgress \/ \E r \in Runs : HearsFeedback(r)
  PROVE  Truths'
<1>1. CASE ReportsProgress
  <2>1. /\ driving # NoRun /\ feedback' = [feedback EXCEPT ![driving] = leg]
        /\ UNCHANGED <<goals, plan, owed, nav, offset, generation, current, driving,
                       route, leg, missed, visited, joined, untold>>
    BY <1>1 DEF ReportsProgress, OnTheWay, queueVars, navVars, pastVars
  <2>2. \A i : Accounted(i) <=> Accounted(i)'
    BY <2>1 DEF Accounted, OnTask
  <2>3. LengthsAreTrue' /\ PlanIsTrue' /\ RouteIsTrue' /\ ProgressIsTrue'
    BY <2>1, <2>2 DEF Truths, LengthsAreTrue, PlanIsTrue, RouteIsTrue, ProgressIsTrue,
       UpTo, HasRead, Shrinking, OnTask
  <2>4. FeedbackIsTrue'
    <3> SUFFICES ASSUME current, feedback'[generation] # NoNews
                 PROVE  UpTo(offset + feedback'[generation])
      BY <2>1, <2>2 DEF FeedbackIsTrue, UpTo
    <3>1. generation \in Runs /\ generation > 0
      <4>1. generation \in 0..MaxRuns /\ generation > 0
        BY Zenon DEF QueueTypes
      <4> QED
        BY <4>1, QueueAssumption DEF Runs
    <3>2. CASE driving = generation
      <4>1. feedback'[generation] = leg
        BY <2>1, <3>1, <3>2 DEF QueueTypes
      <4> QED
        BY <3>2, <4>1 DEF Truths, RouteIsTrue, OnTask
    <3>3. CASE driving # generation
      <4>1. feedback'[generation] = feedback[generation]
        BY <2>1, <3>1, <3>3 DEF QueueTypes
      <4> QED
        BY <4>1 DEF Truths, FeedbackIsTrue
    <3> QED
      BY <3>2, <3>3
  <2> QED
    BY <2>3, <2>4 DEF Truths
<1>2. ASSUME NEW r \in Runs, HearsFeedback(r) PROVE Truths'
  <2>1. /\ feedback[r] # NoNews /\ feedback' = [feedback EXCEPT ![r] = NoNews]
        /\ UNCHANGED <<goals, plan, owed, offset, generation, current, driving,
                       route, leg, missed, visited, joined, untold>>
    BY <1>2 DEF HearsFeedback, queueVars, pastVars
  <2>2. \/ nav' = nav
        \/ /\ current /\ r = generation
           /\ nav' = [nav EXCEPT !.current = offset + feedback[r],
                                 !.completed = offset + feedback[r]]
    BY <1>2 DEF HearsFeedback
  <2>3. \/ nav'.completed = nav.completed /\ nav'.current = nav.current
        \/ /\ UpTo(offset + feedback[generation])
           /\ nav'.completed = offset + feedback[generation]
           /\ nav'.current = offset + feedback[generation]
           /\ nav'.completed \in Nat
    <3>1. CASE nav' = nav
      BY <3>1
    <3>2. CASE nav' # nav
      <4>1. current /\ r = generation
        BY <2>2, <3>2
      <4>2. /\ UpTo(offset + feedback[generation])
            /\ offset + feedback[generation] \in Nat
        BY <2>1, <4>1, FeedbackCounts DEF Truths, FeedbackIsTrue
      <4>3. /\ nav'.completed = offset + feedback[generation]
            /\ nav'.current = offset + feedback[generation]
        BY <2>2, <3>2, <4>1 DEF QueueTypes, NavRecords
      <4> QED
        BY <4>2, <4>3
    <3> QED
      BY <3>1, <3>2
  <2>4. nav'.missed = nav.missed /\ nav'.total = nav.total
    BY <2>2 DEF QueueTypes, NavRecords
  <2>5. \A i : Accounted(i) <=> Accounted(i)'
    BY <2>1, <2>4 DEF Accounted, OnTask
  <2>6. LengthsAreTrue' /\ PlanIsTrue' /\ RouteIsTrue'
    BY <2>1, <2>5 DEF Truths, LengthsAreTrue, PlanIsTrue, RouteIsTrue, UpTo, HasRead, OnTask
  <2>7. ProgressIsTrue'
    BY <2>1, <2>3, <2>4, <2>5 DEF Truths, ProgressIsTrue, UpTo, Shrinking, OnTask
  <2>8. FeedbackIsTrue'
    <3>1. feedback'[generation'] \in {feedback[generation], NoNews}
      BY <2>1 DEF QueueTypes
    <3> QED
      BY <2>1, <2>5, <3>1 DEF Truths, FeedbackIsTrue, UpTo
  <2> QED
    BY <2>6, <2>7, <2>8 DEF Truths
<1> QED
  BY <1>1, <1>2

\* A result counts the whole queue only when the route has come to its end.
LEMMA ResultIsTrue ==
  ASSUME QueueTypes, OneTask, Truths, ResultComes
  PROVE  Truths'
<1>1. /\ driving' = NoRun /\ ~OnTask'
      /\ UNCHANGED <<goals, plan, owed, offset, generation, current, feedback, visited,
                     joined>>
      /\ untold \subseteq untold'
  BY ResultEnds DEF ResultComes, queueVars
<1>2. LengthsAreTrue' /\ RouteIsTrue'
  BY <1>1 DEF Truths, LengthsAreTrue, RouteIsTrue
<1>3. /\ offset \in Nat /\ leg \in Nat /\ nav.completed \in Nat /\ nav.current \in Nat
      /\ nav.total \in Nat /\ Len(goals) \in Nat /\ Len(route) \in Nat
      /\ missed \subseteq Int /\ plan.completed \in Nat
  BY LengthsAreNumbers DEF QueueTypes, NavRecords
<1>4. ASSUME \A i \in 1..Len(goals) : Accounted(i) => Accounted(i)'
      PROVE  PlanIsTrue' /\ FeedbackIsTrue'
  <2>1. PlanIsTrue'
    BY <1>1, <1>3, <1>4 DEF Truths, PlanIsTrue, UpTo, HasRead
  <2>2. FeedbackIsTrue'
    <3> SUFFICES ASSUME current, feedback[generation] # NoNews
                 PROVE  UpTo(offset + feedback[generation])'
      BY <1>1 DEF FeedbackIsTrue
    <3>1. UpTo(offset + feedback[generation]) /\ offset + feedback[generation] \in Nat
      BY FeedbackCounts DEF Truths, FeedbackIsTrue
    <3> QED
      BY <1>1, <1>3, <1>4, <3>1 DEF UpTo
  <2> QED
    BY <2>1, <2>2
<1>5. CASE ~OnTask
  <2>1. nav' = nav
    BY <1>5, ResultEnds
  <2>2. \A i \in 1..Len(goals) : Accounted(i) => Accounted(i)'
    BY <1>1, <1>5, <2>1 DEF Accounted
  <2>3. ProgressIsTrue'
    BY <1>1, <2>1, <2>2 DEF Truths, ProgressIsTrue, Shrinking
  <2> QED
    BY <1>2, <1>4, <2>2, <2>3 DEF Truths
<1>6. CASE OnTask
  <2>1. PICK status \in {"succeeded", "canceled", "failed"}, named \in {missed, {}} :
          /\ status = "succeeded" <=> leg = Len(route)
          /\ status = "succeeded" => named = missed
          /\ nav' = Recorded(status, named)
          /\ untold' = untold \cup {route[i + 1] : i \in missed \ named}
    BY <1>6 DEF ResultComes, OnTask
  <2> DEFINE blames == nav'.state = "failed" /\ nav.total > 0
             done == nav'.state \in {"succeeded", "partial"} /\ nav.total > 0
  <2>2. /\ nav'.state \in {"succeeded", "partial"} => status = "succeeded"
        /\ nav'.total = nav.total
        /\ nav'.missed = nav.missed \cup {offset + i : i \in named}
                         \cup (IF blames THEN {Blamed} ELSE {})
        /\ nav'.completed = IF done THEN nav.total
                            ELSE IF blames THEN Most(nav.completed, Blamed + 1)
                            ELSE nav.completed
        /\ nav'.current = IF done THEN nav.total - 1 ELSE nav.current
    <3>1. named \in SUBSET Int
      BY <1>3, <2>1
    <3> QED
      BY <2>1, <3>1, RecordedFits
  <2>3. /\ Len(route) > 0 /\ offset + Len(route) <= Len(goals) /\ UpTo(offset + leg)
        /\ \A k \in 1..Len(route) : route[k] = goals[offset + k]
        /\ \A i \in 1..Len(goals) : i > offset + Len(route) => goals[i] \in joined
        /\ leg <= Len(route) /\ missed \subseteq 0..(leg - 1)
    BY <1>6 DEF Truths, RouteIsTrue
  <2>4. /\ nav.current <= nav.completed
        /\ \A i \in 1..Len(goals) : i <= nav.completed => Accounted(i)
        /\ ~Shrinking => nav.completed <= Len(goals) /\ nav.total <= Len(goals)
    BY <1>6 DEF Truths, ProgressIsTrue
  <2>5. ASSUME NEW i \in 1..Len(goals), Accounted(i) PROVE Accounted(i)'
    <3>1. CASE goals[i] \in visited \cup joined \cup untold \/ i - 1 \in nav.missed
      BY <1>1, <2>2, <3>1 DEF Accounted
    <3>2. CASE (i - 1) - offset \in missed
      <4>1. PICK m \in missed : m = (i - 1) - offset
        BY <3>2
      <4>2. m + 1 \in 1..Len(route) /\ i = offset + (m + 1) /\ offset + m = i - 1
        <5>1. m \in 0..(leg - 1)
          BY <2>3
        <5>2. leg <= Len(route)
          BY <2>3
        <5> QED
          BY <1>3, <4>1, <5>1, <5>2
      <4>3. CASE m \in named
        BY <2>2, <4>2, <4>3 DEF Accounted
      <4>4. CASE m \notin named
        <5>1. route[m + 1] \in untold'
          BY <2>1, <4>4
        <5>2. route[m + 1] = goals[i]
          BY <2>3, <4>2
        <5> QED
          BY <1>1, <5>1, <5>2 DEF Accounted
      <4> QED
        BY <4>3, <4>4
    <3> QED
      BY <2>5, <3>1, <3>2 DEF Accounted
  <2>6. nav'.completed \in Nat /\ nav'.current \in Nat
    BY OthersKeepTypes DEF QueueTypes, NavRecords
  <2>7. blames /\ ~done => Blamed \in Int /\ Blamed <= nav.current /\ Blamed + 1 <= nav.total
    BY <1>3 DEF Blamed, Least
  <2>8. ASSUME NEW i \in 1..Len(goals), i <= nav'.completed PROVE Accounted(i)'
    <3>1. CASE i <= nav.completed
      BY <2>4, <2>5, <3>1
    <3>2. CASE ~(i <= nav.completed) /\ done
      <4>1. leg = Len(route)
        BY <2>1, <2>2, <3>2
      <4>2. CASE i <= offset + Len(route)
        BY <1>3, <2>3, <2>5, <4>1, <4>2 DEF UpTo
      <4>3. CASE i > offset + Len(route)
        BY <1>1, <2>3, <4>3 DEF Accounted
      <4> QED
        BY <1>3, <4>2, <4>3
    <3>3. CASE ~(i <= nav.completed) /\ ~done
      <4>1. blames /\ nav'.completed = Most(nav.completed, Blamed + 1)
        BY <2>2, <2>8, <3>3
      <4>2. i = Blamed + 1 /\ Blamed \in Int
        BY <1>3, <2>4, <2>7, <2>8, <3>3, <4>1 DEF Most
      <4>3. i - 1 \in nav'.missed
        BY <2>2, <4>1, <4>2
      <4> QED
        BY <4>3 DEF Accounted
    <3> QED
      BY <3>1, <3>2, <3>3
  <2>9. ~Shrinking => nav'.completed <= Len(goals)
    BY <1>3, <2>2, <2>4, <2>7 DEF Most
  <2>10. nav'.current <= nav'.completed
    <3>1. nav.completed <= nav'.completed \/ done
      BY <1>3, <2>2, <2>7 DEF Most
    <3> QED
      BY <1>3, <2>2, <2>4, <2>6, <3>1
  <2>11. ProgressIsTrue'
    BY <1>1, <2>8, <2>9, <2>10 DEF ProgressIsTrue, Shrinking
  <2> QED
    BY <1>2, <1>4, <2>5, <2>11 DEF Truths
<1> QED
  BY <1>5, <1>6

-----------------------------------------------------------------------------
\* The queue begins empty.
LEMMA QueueInit == GoalInit => QueueInv
<1> SUFFICES ASSUME GoalInit PROVE QueueInv
  OBVIOUS
<1> USE QueueAssumption DEF GoalInit, InitialNav
<1>1. QueueTypes
  BY DEF QueueTypes, NavStates, NoRun, NoNews, NoPlan, NavRecords
<1>2. OneTask
  BY DEF OneTask, OnTask, ActiveStates
<1>3. Truths
  BY DEF Truths, LengthsAreTrue, PlanIsTrue, RouteIsTrue, FeedbackIsTrue, ProgressIsTrue,
     UpTo, OnTask, NoPlan, HasRead
<1> QED
  BY <1>1, <1>2, <1>3 DEF QueueInv

\* Every step keeps the invariant.
LEMMA QueueStep == QueueInv /\ [GoalNext]_goalVars => QueueInv'
<1> SUFFICES ASSUME QueueInv, [GoalNext]_goalVars PROVE QueueInv'
  OBVIOUS
<1> USE DEF QueueInv
<1>1. ASSUME GoalNext PROVE QueueTypes' /\ OneTask'
  BY <1>1, EditsKeepTypes, RunsKeepTypes, OthersKeepTypes, StepKeepsTask DEF GoalNext
<1>2. ASSUME GoalNext, ~outran' PROVE Truths'
  <2>1. CASE \/ \E r \in Routes : RouteChecks(r)
             \/ ReadsGoals \/ NavigateRefused \/ RemoveRefused
    BY <1>2, <2>1, ReadsAreTrue
  <2>2. CASE AddGoal
    BY <1>2, <2>2, AddIsTrue
  <2>3. CASE RemoveLastGoal \/ ClearGoals \/ ForgetsGoals
    BY <1>2, <2>3, RemovalsAreTrue
  <2>4. CASE \E r \in Edits : TellsBridge(r)
    BY <1>2, <2>4, TellIsTrue
  <2>5. CASE StackGoes
    <3>1. /\ Reset /\ UNCHANGED <<goals, plan, checked, owed, visited, joined, untold>>
          /\ \A r \in Edits : owed'[r] \in {owed[r], NoNews}
      BY <2>5 DEF StackGoes
    <3> QED
      BY <1>1, <1>2, <3>1, ResetIsTrue
  <2>6. CASE \/ Navigate \/ Pause \/ Cancel \/ Reaches \/ GivesUp \/ ReportsProgress
             \/ (\E r \in Runs : HearsFeedback(r)) \/ ResultComes
    <3>1. outran' = outran
      BY <2>6 DEF Navigate, Pause, Cancel, Reaches, GivesUp, ReportsProgress,
         HearsFeedback, ResultComes, pastVars
    <3>2. Truths
      BY <1>2, <3>1
    <3> QED
      BY <2>6, <3>2, RunIsTrue, InterruptsAreTrue, DriveIsTrue, FeedbackStaysTrue,
         ResultIsTrue
  <2> QED
    BY <1>2, <2>1, <2>2, <2>3, <2>4, <2>5, <2>6 DEF GoalNext
<1>3. CASE UNCHANGED goalVars
  BY <1>3
  DEF goalVars, queueVars, navVars, driveVars, pastVars, QueueTypes, OneTask, Truths,
      LengthsAreTrue, PlanIsTrue, RouteIsTrue, FeedbackIsTrue, ProgressIsTrue, UpTo,
      Accounted, OnTask, HasRead, Shrinking
<1> QED
  BY <1>1, <1>2, <1>3

\* Whenever no task is under way, every goal of the queue that the next run passes over
\* was reached, is listed as missed, joined late or was given up without a word, unless
\* goals were removed that something under way counts (_multi_feedback,
\* _navigation_result, resize_navigation_queue).
THEOREM QueueAccounted == GoalSpec => []QueueIsAccounted
<1>1. QueueInv => QueueIsAccounted
  <2> SUFFICES ASSUME QueueInv, nav.state \notin ActiveStates, ~Shrinking, ~outran,
                      NEW i \in PassedOver
               PROVE  goals[i] \in visited \cup joined \cup untold \/ i - 1 \in nav.missed
    BY DEF QueueIsAccounted
  <2>1. ~OnTask
    BY DEF QueueInv, OneTask
  <2>2. Accounted(i)
    BY DEF QueueInv, Truths, ProgressIsTrue, PassedOver
  <2> QED
    BY <2>1, <2>2 DEF Accounted
<1> QED
  BY <1>1, QueueInit, QueueStep, PTL DEF GoalSpec
=============================================================================
