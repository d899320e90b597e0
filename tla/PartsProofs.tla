------------------------------ MODULE PartsProofs ------------------------------
(***************************************************************************)
(* Proofs about the parts that replace files, launch processes, start the    *)
(* lidar and watch the wheels, for any number of maps, snapshots, archives,  *)
(* process groups and frames and for any delays; and that the parts, moved   *)
(* one at a time, are what they are alone.                                   *)
(***************************************************************************)
EXTENDS IndependentParts, TLAPS

(* The saved map. *)

\* Whether an image may stand beside a YAML.
Fits(y, i) == y # None => i \in {y, None}

\* What lies under the final names and in the backups at each operation.
MapPlaces ==
  /\ Fits(yaml, image)
  /\ Fits(oldYaml, oldImage)
  /\ Resting \/ mapAt = "takeYaml" => oldYaml = None /\ oldImage = None
  /\ mapAt = "takeImage" => yaml = None /\ oldImage = None /\ Fits(oldYaml, image)
  /\ mapAt \in {"putImage", "giveYaml"} => yaml = None /\ image = None
  /\ mapAt = "putYaml" => yaml = None /\ image = newMap
  /\ mapAt = "dropImage" => yaml = None
  /\ mapAt = "giveImage" => image = None /\ Fits(yaml, oldImage)

\* One step of a replacement, a failing operation or a power cut keeps the places.
LEMMA MapStepKeeps == MapPlaces /\ [MapNext]_mapVars => MapPlaces'
<1>1. SUFFICES ASSUME MapPlaces, [MapNext]_mapVars PROVE MapPlaces'
  OBVIOUS
<1> USE <1>1 DEF MapPlaces, Fits, Resting, MapStep, DropBackups
<1>2. CASE BeginReplacement BY <1>2 DEF BeginReplacement
<1>3. CASE TakeYaml BY <1>3 DEF TakeYaml
<1>4. CASE TakeImage BY <1>4 DEF TakeImage
<1>5. CASE PutImage BY <1>5 DEF PutImage
<1>6. CASE PutYaml BY <1>6 DEF PutYaml
<1>7. CASE SyncMap BY <1>7 DEF SyncMap
<1>8. CASE DropYaml BY <1>8 DEF DropYaml
<1>9. CASE DropImage BY <1>9 DEF DropImage
<1>10. CASE GiveYaml BY <1>10 DEF GiveYaml
<1>11. CASE GiveImage BY <1>11 DEF GiveImage
<1>12. CASE MapOperationFails BY <1>12 DEF MapOperationFails, Forwards, Backwards
<1>13. CASE PowerCut BY <1>13 DEF PowerCut
<1>14. CASE UNCHANGED mapVars BY <1>14 DEF mapVars
<1> QED
  BY <1>1, <1>2, <1>3, <1>4, <1>5, <1>6, <1>7, <1>8, <1>9, <1>10, <1>11, <1>12, <1>13,
     <1>14 DEF MapNext

\* However often maps are saved, whatever fails and whenever the power goes, a
\* YAML never stands beside the image of another map (replace_saved_map).
THEOREM MapsNeverMix == MapSpec => []NoMixedMap
<1>1. MapInit => MapPlaces
  BY DEF MapInit, MapPlaces, Fits, Resting
<1>2. MapPlaces => NoMixedMap
  BY DEF MapPlaces, Fits, NoMixedMap
<1> QED
  BY <1>1, <1>2, MapStepKeeps, PTL DEF MapSpec

(* The calibration snapshot. *)

\* The last snapshot reported, or a newer one, is where the next publishing
\* looks for it.
Findable == IF latest = Absent THEN previous >= reported ELSE latest >= reported

\* What the flags and the two places say at each operation, unless the removal of a
\* new snapshot was cut short.
SnapPlaces ==
  /\ Findable
  /\ snapAt \in {"stage", "tidy", "shelve"} => ~installed /\ ~previousSaved
  /\ snapAt = "shelve" => previous = Absent
  /\ snapAt = "install" => latest = Absent /\ ~installed
  /\ snapAt \in {"sync", "clean"} => previous >= reported
  /\ snapAt = "remove" => /\ installed => previous >= reported
                          /\ previousSaved => installed \/ latest = Absent
  /\ snapAt = "restore" => (previousSaved => latest = Absent)

SnapInv ==
  /\ latest \in Int /\ previous \in Int /\ published \in Nat /\ reported \in Nat
  /\ reported <= published
  /\ snapAt \in {"sync", "clean"} => latest = published /\ installed
  /\ snapAt # "idle" => reported < published
  /\ ~undoBroken => SnapPlaces

\* The first snapshot can be found.
LEMMA SnapInitially == SnapInit => SnapInv
  BY DEF SnapInit, SnapInv, Absent, SnapPlaces, Findable

\* One operation, a failing one or the calibrator's death keeps the places.
LEMMA SnapStepKeeps == SnapInv /\ [SnapNext]_snapVars => SnapInv'
<1>1. SUFFICES ASSUME SnapInv, [SnapNext]_snapVars PROVE SnapInv'
  OBVIOUS
<1> USE <1>1 DEF SnapInv, Torn, Absent, SnapPlaces, Findable, SnapGo
<1>2. CASE BeginPublishing BY <1>2 DEF BeginPublishing
<1>3. CASE Stage BY <1>3 DEF Stage
<1>4. CASE Tidy BY <1>4 DEF Tidy
<1>5. CASE MoveOut BY <1>5 DEF MoveOut
<1>6. CASE MoveIn BY <1>6 DEF MoveIn
<1>7. CASE SyncSnapshot BY <1>7 DEF SyncSnapshot
<1>8. CASE TidyFails BY <1>8 DEF TidyFails
<1>9. CASE SnapOperationFails BY <1>9 DEF SnapOperationFails
<1>10. CASE RemoveInstalled BY <1>10 DEF RemoveInstalled
<1>11. CASE RestorePrevious BY <1>11 DEF RestorePrevious
<1>12. CASE CleanPrevious BY <1>12 DEF CleanPrevious
<1>13. CASE UndoEnds
  <2>1. CASE snapAt = "remove" /\ installed
    <3>1. undoBroken'
      BY <1>13, <2>1, Zenon DEF UndoEnds
    <3>2. latest' = -1
      BY <1>13, <2>1 DEF UndoEnds
    <3>3. snapAt' = "idle" /\ UNCHANGED <<previous, published, reported>>
      BY <1>13 DEF UndoEnds
    <3> QED BY <3>1, <3>2, <3>3
  <2>2. CASE ~(snapAt = "remove" /\ installed)
    <3>1. undoBroken => undoBroken'
      BY <1>13, Zenon DEF UndoEnds
    <3>2. latest' = latest
      BY <1>13, <2>2 DEF UndoEnds
    <3> QED BY <1>13, <3>1, <3>2 DEF UndoEnds
  <2> QED BY <2>1, <2>2
<1>14. CASE Dies BY <1>14 DEF Dies
<1>15. CASE UNCHANGED snapVars BY <1>15 DEF snapVars
<1> QED
  BY <1>1, <1>2, <1>3, <1>4, <1>5, <1>6, <1>7, <1>8, <1>9, <1>10, <1>11, <1>12, <1>13,
     <1>14, <1>15 DEF SnapNext

\* However often snapshots are published, whatever fails and whenever the calibrator
\* dies, the last one reported or a newer one survives, unless the removal of a new
\* one was cut short (publish_calibration_snapshot).
THEOREM LastSnapshotSurvives == SnapSpec => []SnapshotSurvives
<1>1. SnapInv => SnapshotSurvives
  BY DEF SnapInv, SnapPlaces, Findable, SnapshotSurvives
<1> QED
  BY <1>1, SnapInitially, SnapStepKeeps, PTL DEF SnapSpec

(* The deployed model. *)

DeployInv ==
  /\ deployAt \in {"check", "record"} => target = archive
  /\ ~cutShort =>
       IF deployAt \in {"idle", "look", "shelve"} THEN receipt = target
       ELSE receipt = aside

\* Every step of a deployment, a failure or a crash keeps the invariant.
LEMMA DeployStepKeeps == DeployInv /\ [DeployNext]_deployVars => DeployInv'
<1>1. SUFFICES ASSUME DeployInv, [DeployNext]_deployVars PROVE DeployInv'
  OBVIOUS
<1> USE <1>1 DEF DeployInv, DeployGo
<1>2. CASE BeginDeploy BY <1>2 DEF BeginDeploy
<1>3. CASE AlreadyDeployed BY <1>3 DEF AlreadyDeployed
<1>4. CASE PrepareBundle BY <1>4 DEF PrepareBundle
<1>5. CASE MoveModelOut BY <1>5 DEF MoveModelOut
<1>6. CASE MoveModelIn BY <1>6 DEF MoveModelIn
<1>7. CASE PutModelBack BY <1>7 DEF PutModelBack
<1>8. CASE CheckModel BY <1>8 DEF CheckModel
<1>9. CASE WriteReceipt BY <1>9 DEF WriteReceipt
<1>10. CASE RollOut BY <1>10 DEF RollOut
<1>11. CASE RollIn BY <1>11 DEF RollIn
<1>12. CASE DeployBreaks BY <1>12 DEF DeployBreaks
<1>13. CASE UNCHANGED deployVars BY <1>13 DEF deployVars
<1> QED
  BY <1>1, <1>2, <1>3, <1>4, <1>5, <1>6, <1>7, <1>8, <1>9, <1>10, <1>11, <1>12, <1>13
  DEF DeployNext

\* Between calls the receipt names the deployed model, for any archives, unless a
\* call was cut short (deploy, rollback_bundle).
THEOREM ReceiptIsTrue == DeploySpec => []ReceiptNamesModel
<1>1. DeployInit => DeployInv
  BY DEF DeployInit, DeployInv
<1>2. DeployInv => ReceiptNamesModel
  BY DEF DeployInv, ReceiptNamesModel
<1> QED
  BY <1>1, <1>2, DeployStepKeeps, PTL DEF DeploySpec

(* The launched processes. *)

\* What is alive has its launch process or is a stray; a server that runs has the
\* rest in its record, one that is down has it in the file.
ProcInv ==
  /\ launched \in 0..MaxGroups
  /\ alive \subseteq Groups
  /\ alive \ leading \subseteq strays
  /\ up => alive \subseteq {record} \cup strays
  /\ up /\ ~unfiled => record \in {filed, NoGroup}
  /\ ~up => /\ alive \subseteq {filed} \cup strays
            /\ ~unfiled
            /\ stopping = NoGroup
  /\ stopping # NoGroup => record \in {stopping, NoGroup} \cup strays

\* Every launch, stop, death and restart keeps the invariant.
LEMMA ProcStepKeeps == ProcInv /\ [ProcNext]_procVars => ProcInv'
<1>1. SUFFICES ASSUME ProcInv, [ProcNext]_procVars PROVE ProcInv'
  OBVIOUS
<1> USE <1>1, GroupsAssumption DEF ProcInv, Groups, NoGroup, RecordAlive, File
<1>2. CASE StartTask BY <1>2 DEF StartTask
<1>3. CASE DropDead BY <1>3 DEF DropDead
<1>4. CASE StopBegins BY <1>4 DEF StopBegins
<1>5. CASE StopEnds BY <1>5 DEF StopEnds
<1>6. CASE StopGivesUp BY <1>6 DEF StopGivesUp
<1>7. CASE LeaderDies BY <1>7 DEF LeaderDies
<1>8. CASE GroupDies BY <1>8 DEF GroupDies
<1>9. CASE ServerDies BY <1>9 DEF ServerDies
<1>10. CASE ServerDiesStarting BY <1>10 DEF ServerDiesStarting
<1>11. CASE ServerRestarts BY <1>11 DEF ServerRestarts, Loaded
<1>12. CASE UNCHANGED procVars BY <1>12 DEF procVars
<1> QED
  BY <1>1, <1>2, <1>3, <1>4, <1>5, <1>6, <1>7, <1>8, <1>9, <1>10, <1>11, <1>12 DEF ProcNext

\* A server that runs knows every group launched by it or its predecessors, but for
\* the strays, however many are launched and however often it dies
\* (OwnedProcessManager).
THEOREM StacksAreKnown == ProcSpec => []NoUnknownStack
<1>1. ProcInit => ProcInv
  BY GroupsAssumption DEF ProcInit, ProcInv, Groups, NoGroup
<1>2. ProcInv => NoUnknownStack
  BY DEF ProcInv, NoUnknownStack
<1> QED
  BY <1>1, <1>2, ProcStepKeeps, PTL DEF ProcSpec

(* The supervisor of the lidar. *)

\* A planned start is at least as far away as the rest of the start delay.
LidarPlans ==
  /\ startIn \in NoStart..MaxBackoff
  /\ backoff \in BaseBackoff..MaxBackoff
  /\ calm \in 0..StartDelay
  /\ startIn # NoStart => calm + startIn >= StartDelay

\* The pause before the next start and the one after it stay within their bounds.
LEMMA PausesAreBounded ==
  ASSUME LidarPlans
  PROVE  /\ Smaller(backoff, MaxBackoff) = backoff
         /\ Doubled \in BaseBackoff..MaxBackoff
         /\ Planned \in NoStart..MaxBackoff /\ Backoff \in BaseBackoff..MaxBackoff
         /\ StartAfter \in 0..MaxBackoff
         /\ calm + StartAfter >= StartDelay
<1> USE LidarAssumption DEF LidarPlans, NoStart, Smaller
<1>1. Smaller(backoff, MaxBackoff) = backoff
  OBVIOUS
<1>2. Doubled \in BaseBackoff..MaxBackoff
  BY DEF Doubled
<1>3. Planned \in NoStart..MaxBackoff /\ Backoff \in BaseBackoff..MaxBackoff
  BY <1>1, <1>2 DEF Planned, Backoff
<1>4. StartAfter \in 0..MaxBackoff /\ calm + StartAfter >= StartDelay
  BY <1>1, <1>3 DEF Planned, StartAfter
<1> QED
  BY <1>1, <1>2, <1>3, <1>4

\* Every step of the supervisor, the server and the driver keeps the plan.
LEMMA LidarStepKeeps == LidarPlans /\ [LidarNext]_lidarVars => LidarPlans'
<1> SUFFICES ASSUME LidarPlans, [LidarNext]_lidarVars PROVE LidarPlans'
  OBVIOUS
<1> USE LidarAssumption DEF LidarPlans, NoStart
<1>1. CASE Report \/ ClientChanges \/ ServerChanges \/ ChassisSeen \/ DriverExits
  BY <1>1 DEF Report, ClientChanges, ServerChanges, ChassisSeen, DriverExits, supervised
<1>2. CASE Scan
  BY <1>2 DEF Scan
<1>3. CASE Wait
  BY <1>3, PausesAreBounded DEF Wait
<1>4. CASE PlanStart \/ StartDriver
  BY <1>4, PausesAreBounded DEF PlanStart, StartDriver
<1>5. CASE StartFails \/ ScanTimesOut
  BY <1>5, PausesAreBounded DEF StartFails, ScanTimesOut
<1>6. CASE LeaveRunning
  BY <1>6 DEF LeaveRunning
<1>7. CASE Tick
  BY <1>7 DEF Tick, Smaller
<1>8. CASE UNCHANGED lidarVars
  BY <1>8 DEF lidarVars
<1> QED
  BY <1>1, <1>2, <1>3, <1>4, <1>5, <1>6, <1>7, <1>8 DEF LidarNext, Supervise

\* However often ports, links and drivers come and go, the driver is started only
\* after the whole start delay without a loss (_supervise, _schedule_restart).
THEOREM StartsAreLate == LidarSpec => NoEarlyStart
<1>1. LidarInit => LidarPlans
  BY LidarAssumption DEF LidarInit, LidarPlans, NoStart
<1>2. LidarPlans /\ [LidarNext]_lidarVars =>
        [driver # "running" /\ driver' = "running" => calm >= StartDelay]_lidarVars
  <2> SUFFICES ASSUME LidarPlans, LidarNext, driver # "running", driver' = "running"
               PROVE  calm >= StartDelay
    OBVIOUS
  <2>1. StartDriver
    BY DEF LidarNext, Supervise, Report, ClientChanges, ServerChanges, ChassisSeen, Scan,
           DriverExits, Wait, PlanStart, StartFails, ScanTimesOut, LeaveRunning, Tick,
           StopDriver, supervised
  <2>2. StartAfter = 0
    BY <2>1 DEF StartDriver
  <2>3. calm \in Int
    BY DEF LidarPlans
  <2> QED
    BY <2>2, <2>3, PausesAreBounded
<1> QED
  BY <1>1, <1>2, LidarStepKeeps, PTL DEF LidarSpec, NoEarlyStart

(* The wheel monitor. *)

FrameSet == [at : 0..MaxTime, wheels : Frames \cup {<<0, 0>>}]

\* The frame looked at last, and the position at which its overspeed began.
LastFrame == looked[Len(looked)]
Began(k) ==
  /\ looked[k].at = overSince
  /\ \A i \in k..Len(looked) : Overspeed(looked[i].wheels)
  /\ k > 1 => ~Overspeed(looked[k - 1].wheels)

WheelTypes ==
  /\ frame \in FrameSet
  /\ looked \in Seq(FrameSet)
  /\ {lastSample, overSince} \subseteq NaN..MaxTime

\* Frames are looked at in their order.
InOrder ==
  /\ \A i, j \in 1..Len(looked) : i <= j => looked[i].at <= looked[j].at
  /\ \A i \in 1..Len(looked) : looked[i].at <= frame.at

WheelInv ==
  /\ WheelTypes
  /\ InOrder
  /\ looked = <<>> => overSince = NaN /\ verdict = "ok"
  /\ looked # <<>> =>
       /\ overSince # NaN <=> Overspeed(LastFrame.wheels)
       /\ verdict = "sustained" <=> overSince # NaN /\ LastFrame.at - overSince >= HoldTime
  /\ overSince # NaN => \E k \in 1..Len(looked) : Began(k)

\* The frames looked at are numbered and have their times.
LEMMA TimesOfFrames ==
  ASSUME WheelTypes
  PROVE  Len(looked) \in Nat /\ \A i \in 1..Len(looked) : looked[i].at \in 0..MaxTime
<1>1. Len(looked) \in Nat /\ \A i \in 1..Len(looked) : looked[i] \in FrameSet
  BY DEF WheelTypes
<1> QED
  BY <1>1 DEF FrameSet

\* Looking at a frame begins, continues or ends an overspeed.
LEMMA CheckKeepsWheels ==
  ASSUME WheelInv, CheckWheels
  PROVE  WheelInv'
<1> DEFINE n == Len(looked)
<1> USE WheelAssumption DEF WheelInv, WheelTypes
<1>1. n \in Nat /\ looked' = Append(looked, frame) /\ frame' = frame
  BY DEF CheckWheels
<1>2. /\ Len(looked') = n + 1 /\ looked' \in Seq(FrameSet)
      /\ \A i \in 1..n : looked'[i] = looked[i]
      /\ looked'[n + 1] = frame
  BY <1>1
<1>3. frame.at \in 0..MaxTime
  BY DEF FrameSet
<1>4. overSince' \in NaN..MaxTime /\ lastSample' \in NaN..MaxTime
  BY <1>3 DEF CheckWheels, Since, NaN
<1>5. WheelTypes'
  BY <1>1, <1>2, <1>4
<1>6. InOrder'
  <2>1. \A i \in 1..n : looked[i].at <= frame.at
    BY DEF InOrder
  <2>2. \A i \in 1..(n + 1) : looked'[i].at <= frame'.at
    BY SMTT(20), <1>1, <1>2, <1>3, <2>1
  <2>3. ASSUME NEW i \in 1..(n + 1), NEW j \in 1..(n + 1), i <= j
        PROVE  looked'[i].at <= looked'[j].at
    <3>1. CASE j = n + 1
      BY <1>1, <1>2, <2>2, <3>1
    <3>2. CASE j # n + 1
      BY <1>1, <1>2, <2>3, <3>2 DEF InOrder
    <3> QED
      BY <3>1, <3>2
  <2> QED
    BY <1>2, <2>2, <2>3 DEF InOrder
<1>7. /\ overSince' = Since
      /\ overSince' # NaN <=> Overspeed(frame.wheels)
  BY <1>3 DEF CheckWheels, Since, NaN
<1>8. verdict' = "sustained" <=> Overspeed(frame.wheels) /\ frame.at - Since >= HoldTime
  BY DEF CheckWheels, Overspeed
<1>9. LastFrame' = frame /\ looked' # <<>>
  BY <1>1, <1>2 DEF LastFrame
<1>10. ASSUME overSince' # NaN
       PROVE  \E k \in 1..Len(looked') : Began(k)'
  <2>1. Overspeed(frame.wheels)
    BY <1>7, <1>10
  <2>2. CASE overSince = NaN
    <3>1. overSince' = frame.at
      BY <1>7, <2>1, <2>2 DEF Since
    <3>2. n > 0 => ~Overspeed(looked[n].wheels)
      BY <1>1, <2>2 DEF LastFrame
    <3>3. n + 1 \in 1..Len(looked') /\ looked'[n + 1].at = overSince'
      BY <1>1, <1>2, <3>1
    <3>4. \A i \in (n + 1)..Len(looked') : Overspeed(looked'[i].wheels)
      BY <1>1, <1>2, <2>1
    <3>5. n + 1 > 1 => ~Overspeed(looked'[n].wheels)
      BY <1>1, <1>2, <3>2
    <3>6. (n + 1) - 1 = n
      BY <1>1
    <3> QED
      BY <3>3, <3>4, <3>5, <3>6 DEF Began
  <2>3. CASE overSince # NaN
    <3>1. overSince' = overSince
      BY <1>7, <2>1, <2>3 DEF Since
    <3>2. PICK k \in 1..n : Began(k)
      BY <2>3
    <3>3. Began(k)'
      <4>1. \A i \in k..(n + 1) : Overspeed(looked'[i].wheels)
        BY <1>1, <1>2, <2>1, <3>2 DEF Began
      <4>2. looked'[k].at = overSince'
        BY <1>1, <1>2, <3>1, <3>2 DEF Began
      <4>3. k > 1 => ~Overspeed(looked'[k - 1].wheels)
        BY <1>1, <1>2, <3>2 DEF Began
      <4> QED
        BY <1>2, <4>1, <4>2, <4>3 DEF Began
    <3> QED
      BY <1>1, <1>2, <3>3
  <2> QED
    BY <2>2, <2>3
<1> QED
  BY <1>1, <1>5, <1>6, <1>7, <1>8, <1>9, <1>10

\* Every frame, every look at one and every reset keeps the invariant.
LEMMA WheelStepKeeps == WheelInv /\ [WheelNext]_wheelVars => WheelInv'
<1> SUFFICES ASSUME WheelInv, [WheelNext]_wheelVars PROVE WheelInv'
  OBVIOUS
<1>1. CASE FrameArrives
  <2> USE <1>1 DEF WheelInv, WheelTypes
  <2>1. UNCHANGED <<lastSample, overSince, verdict, looked>>
    BY DEF FrameArrives
  <2>2. frame' \in FrameSet /\ frame'.at = frame.at + 1
    BY WheelAssumption DEF FrameArrives, FrameSet
  <2>3. frame.at \in Int /\ \A i \in 1..Len(looked) : looked[i].at \in Int
    BY TimesOfFrames, WheelAssumption DEF FrameSet
  <2>4. InOrder'
    BY <2>1, <2>2, <2>3 DEF InOrder
  <2> QED
    BY <2>1, <2>2, <2>4 DEF LastFrame, Began
<1>2. CASE CheckWheels
  BY <1>2, CheckKeepsWheels
<1>3. CASE ResetMonitor
  BY <1>3, WheelAssumption DEF ResetMonitor, WheelInv, WheelTypes, InOrder, NaN
<1>4. CASE UNCHANGED wheelVars
  BY <1>4 DEF wheelVars, WheelInv, WheelTypes, InOrder, LastFrame, Began
<1> QED
  BY <1>1, <1>2, <1>3, <1>4 DEF WheelNext

\* Whatever frames arrive and whichever of them are looked at, the verdict is
\* "sustained" exactly after the hold time over the limit
\* (WheelSpeedSafetyMonitor::update).
THEOREM OverspeedHeld == WheelSpec => []OverspeedIsHeld
<1>1. WheelInit => WheelInv
  BY WheelAssumption
  DEF WheelInit, WheelInv, WheelTypes, InOrder, FrameSet, NaN
<1>2. WheelInv => OverspeedIsHeld
  <2> SUFFICES ASSUME WheelInv PROVE OverspeedIsHeld
    OBVIOUS
  <2> USE WheelAssumption DEF WheelInv, WheelTypes
  <2>1. Len(looked) \in Nat /\ \A i \in 1..Len(looked) : looked[i].at \in Int
    BY TimesOfFrames, WheelAssumption DEF FrameSet
  <2>2. ASSUME verdict = "sustained"
        PROVE  \E first \in 1..Len(looked) :
                 /\ \A i \in first..Len(looked) : Overspeed(looked[i].wheels)
                 /\ looked[Len(looked)].at - looked[first].at >= HoldTime
    <3>1. looked # <<>> /\ overSince # NaN /\ LastFrame.at - overSince >= HoldTime
      BY <2>2
    <3>2. PICK k \in 1..Len(looked) : Began(k)
      BY <3>1
    <3> QED
      BY <3>1, <3>2 DEF Began, LastFrame
  <2>3. ASSUME NEW first \in 1..Len(looked),
               \A i \in first..Len(looked) : Overspeed(looked[i].wheels),
               looked[Len(looked)].at - looked[first].at >= HoldTime
        PROVE  verdict = "sustained"
    <3>1. looked # <<>> /\ overSince # NaN
      BY <2>1, <2>3 DEF LastFrame
    <3>2. PICK k \in 1..Len(looked) : Began(k)
      BY <3>1
    <3>3. k <= first
      BY <2>1, <2>3, <3>2 DEF Began
    <3>4. looked[k].at <= looked[first].at /\ overSince = looked[k].at
      BY <3>2, <3>3 DEF Began, InOrder
    <3>5. LastFrame.at - overSince >= HoldTime
      <4>1. looked[Len(looked)].at \in Int /\ looked[first].at \in Int /\ looked[k].at \in Int
        BY <2>1, <2>3, <3>1
      <4> QED
        BY SMTT(20), <2>3, <3>4, <4>1 DEF LastFrame
    <3> QED
      BY <3>1, <3>5
  <2> QED
    BY <2>2, <2>3 DEF OverspeedIsHeld
<1> QED
  BY <1>1, <1>2, WheelStepKeeps, PTL DEF WheelSpec

(* The parts beside each other. *)

\* Moving the parts one at a time adds nothing to any of them: what is proved of a
\* part alone holds in IndependentParts.
THEOREM PartsAreTheirOwn ==
  Spec => /\ MapSpec /\ SnapSpec /\ DeploySpec /\ ProcSpec
          /\ LidarSpec /\ TaskSpec /\ WheelSpec /\ GoalSpec
<1> USE DEF vars, fileVars, MapMoves, SnapshotMoves, ModelMoves, ProcessMoves, LidarMoves,
            TaskMoves, WheelsMove, GoalsMove
<1>1. Init => /\ MapInit /\ SnapInit /\ DeployInit /\ ProcInit
              /\ LidarInit /\ TaskInit /\ WheelInit /\ GoalInit
  BY DEF Init
<1>2. [Next]_vars => [MapNext]_mapVars
  BY DEF Next
<1>3. [Next]_vars => [SnapNext]_snapVars
  BY DEF Next
<1>4. [Next]_vars => [DeployNext]_deployVars
  BY DEF Next
<1>5. [Next]_vars => [ProcNext]_procVars
  BY DEF Next
<1>6. [Next]_vars => [LidarNext]_lidarVars
  BY DEF Next
<1>7. [Next]_vars => [TaskNext]_taskVars
  BY DEF Next
<1>8. [Next]_vars => [WheelNext]_wheelVars
  BY DEF Next
<1>9. [Next]_vars => [GoalNext]_goalVars
  BY DEF Next
<1> QED
  BY <1>1, <1>2, <1>3, <1>4, <1>5, <1>6, <1>7, <1>8, <1>9, PTL
  DEF Spec, MapSpec, SnapSpec, DeploySpec, ProcSpec, LidarSpec, TaskSpec, WheelSpec, GoalSpec
=============================================================================
