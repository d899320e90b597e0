----------------------------- MODULE SnapshotPublish -----------------------------
(***************************************************************************)
(* publish_calibration_snapshot: the directory of the latest calibration is *)
(* exchanged for a staged copy; the previous one waits beside it until the  *)
(* new one is safe.  Operations fail, the calibrator dies, and the next     *)
(* publishing repairs what it finds.                                        *)
(***************************************************************************)
EXTENDS Integers

CONSTANT MaxSnapshots \* bound: calibrations published

ASSUME SnapshotsAssumption == MaxSnapshots \in Nat

Absent == 0
Torn == -1 \* a directory that rmtree has begun to remove
Snapshots == Torn..MaxSnapshots

VARIABLES
  latest,     \* the snapshot at destination
  previous,   \* the one at backup
  published,  \* the snapshot being published, or the last one that was
  reported,   \* the last one whose publishing returned
  installed, previousSaved,
  snapAt,     \* the next operation
  undoBroken  \* the removal of a new snapshot was cut short, by another failure or
              \* by a crash, and none has been published since

snapVars ==
  <<latest, previous, published, reported, installed, previousSaved, snapAt, undoBroken>>

SnapSteps ==
  {"idle", "stage", "tidy", "shelve", "install", "sync", "remove", "restore", "clean"}

SnapInit ==
  /\ latest = Absent /\ previous = Absent
  /\ published = 0 /\ reported = 0
  /\ installed = FALSE /\ previousSaved = FALSE
  /\ snapAt = "idle"
  /\ undoBroken = FALSE

SnapGo(at, next) ==
  /\ snapAt = at
  /\ snapAt' = next
  /\ UNCHANGED <<published, undoBroken>>

BeginPublishing ==
  /\ snapAt = "idle"
  /\ published < MaxSnapshots
  /\ published' = published + 1
  /\ installed' = FALSE /\ previousSaved' = FALSE
  /\ snapAt' = "stage"
  /\ UNCHANGED <<latest, previous, reported, undoBroken>>

\* The copy is complete and on the disk; a failure leaves nothing behind.
Stage ==
  /\ \/ SnapGo("stage", "tidy")
     \/ SnapGo("stage", "idle")
  /\ UNCHANGED <<latest, previous, reported, installed, previousSaved>>

\* Mutant: what an interrupted publishing left at backup is thrown away.
ThrowAway ==
  /\ SnapGo("tidy", "shelve")
  /\ previous' = Absent
  /\ UNCHANGED <<latest, reported, installed, previousSaved>>

\* A snapshot found at backup is what an interrupted publishing left.
Tidy ==
  /\ SnapGo("tidy", "shelve")
  /\ previous' = Absent
  /\ latest' = IF latest = Absent THEN previous ELSE latest
  /\ UNCHANGED <<reported, installed, previousSaved>>

MoveOut ==
  /\ SnapGo("shelve", "install")
  /\ latest' = Absent
  /\ previous' = IF latest # Absent THEN latest ELSE previous
  /\ previousSaved' = (latest # Absent)
  /\ UNCHANGED <<reported, installed>>

MoveIn ==
  /\ SnapGo("install", "sync")
  /\ latest' = published
  /\ installed' = TRUE
  /\ UNCHANGED <<previous, reported, previousSaved>>

SyncSnapshot ==
  /\ SnapGo("sync", "clean")
  /\ UNCHANGED <<latest, previous, reported, installed, previousSaved>>

\* A failing operation; a removal leaves a part.
TidyFails ==
  /\ SnapGo("tidy", "remove")
  /\ previous' = IF previous # Absent /\ latest # Absent THEN Torn ELSE previous
  /\ UNCHANGED <<latest, reported, installed, previousSaved>>

SnapOperationFails ==
  /\ \/ SnapGo("shelve", "remove") \/ SnapGo("install", "remove") \/ SnapGo("sync", "remove")
  /\ UNCHANGED <<latest, previous, reported, installed, previousSaved>>

RemoveInstalled ==
  /\ SnapGo("remove", "restore")
  /\ latest' = IF installed THEN Absent ELSE latest
  /\ UNCHANGED <<previous, reported, installed, previousSaved>>

RestorePrevious ==
  /\ SnapGo("restore", "idle")
  /\ IF previousSaved /\ previous # Absent
       THEN latest' = previous /\ previous' = Absent
       ELSE UNCHANGED <<latest, previous>>
  /\ UNCHANGED <<reported, installed, previousSaved>>

\* Outside the try block: a failure is reported, the snapshot stays.
CleanPrevious ==
  /\ snapAt = "clean"
  /\ snapAt' = "idle"
  /\ previous' \in {Absent, IF previous = Absent THEN Absent ELSE Torn}
  /\ reported' = published
  /\ undoBroken' = FALSE
  /\ UNCHANGED <<latest, published, installed, previousSaved>>

\* A failure during the undoing, or the calibrator's death there.
UndoEnds ==
  /\ snapAt \in {"remove", "restore"}
  /\ latest' = IF snapAt = "remove" /\ installed THEN Torn ELSE latest
  /\ snapAt' = "idle"
  /\ undoBroken' = (undoBroken \/ (snapAt = "remove" /\ installed))
  /\ UNCHANGED <<previous, published, reported, installed, previousSaved>>

\* The calibrator dies; so may a removal in the middle.
Dies ==
  /\ snapAt \in {"stage", "tidy", "shelve", "install", "sync", "clean"}
  /\ previous' \in {previous} \cup
       (IF snapAt = "clean" \/ (snapAt = "tidy" /\ latest # Absent)
          THEN {IF previous = Absent THEN Absent ELSE Torn} ELSE {})
  /\ snapAt' = "idle"
  /\ UNCHANGED <<latest, published, reported, installed, previousSaved, undoBroken>>

SnapNext ==
  \/ BeginPublishing \/ Stage \/ Tidy \/ MoveOut \/ MoveIn \/ SyncSnapshot
  \/ TidyFails \/ SnapOperationFails \/ RemoveInstalled \/ RestorePrevious
  \/ CleanPrevious \/ UndoEnds \/ Dies

SnapSpec == SnapInit /\ [][SnapNext]_snapVars

SnapTypeOK ==
  /\ {latest, previous} \subseteq Snapshots
  /\ {published, reported} \subseteq 0..MaxSnapshots
  /\ installed \in BOOLEAN /\ previousSaved \in BOOLEAN /\ undoBroken \in BOOLEAN
  /\ snapAt \in SnapSteps

\* The last calibration that was published, or a newer one, is complete in one
\* of the two places, whenever the calibrator dies and whatever fails, unless the
\* removal of a new snapshot is cut short (publish_calibration_snapshot: a failed
\* publishing keeps the old snapshot, the next one repairs).
SnapshotSurvives == ~undoBroken => latest >= reported \/ previous >= reported
=============================================================================
