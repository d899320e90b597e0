----------------------------- MODULE MapReplacement -----------------------------
(***************************************************************************)
(* replace_saved_map: the YAML and the image of the saved map are exchanged *)
(* for new ones by four renames, which a failing rename undoes.  Any file   *)
(* operation may fail, and the power may go at any moment.                  *)
(***************************************************************************)
EXTENDS Naturals

CONSTANT MaxMaps \* bound: maps made

ASSUME MapsAssumption == MaxMaps \in Nat

None == 0
Maps == 0..MaxMaps

VARIABLES
  yaml,      \* the map whose YAML is at map_path, None without one
  image,     \* the map whose image is beside it
  oldYaml,   \* backup_yaml of the replacement in progress
  oldImage,  \* backup_image
  newMap,    \* the map being saved, or the last one that was
  mapAt,     \* the next file operation
  mapFaults, \* operations of this replacement that failed
  held       \* yaml and image before it

mapVars == <<yaml, image, oldYaml, oldImage, newMap, mapAt, mapFaults, held>>

Forwards == {"takeYaml", "takeImage", "putImage", "putYaml", "sync"}
Backwards == {"dropYaml", "dropImage", "giveYaml", "giveImage"}

MapInit ==
  /\ yaml = None /\ image = None
  /\ oldYaml = None /\ oldImage = None
  /\ newMap = 0
  /\ mapAt = "saved"
  /\ mapFaults = 0
  /\ held = <<None, None>>

Resting == mapAt \in {"saved", "failed", "lost"}

\* Both temporary files are complete and on the disk.
BeginReplacement ==
  /\ Resting
  /\ newMap < MaxMaps
  /\ newMap' = newMap + 1
  /\ mapAt' = "takeYaml"
  /\ mapFaults' = 0
  /\ held' = <<yaml, image>>
  /\ UNCHANGED <<yaml, image, oldYaml, oldImage>>

MapStep(at, next) ==
  /\ mapAt = at
  /\ mapAt' = next
  /\ UNCHANGED <<newMap, mapFaults, held>>

\* Mutant: the old YAML is left to be overwritten.
YamlOverwritten ==
  /\ MapStep("takeYaml", "takeImage")
  /\ UNCHANGED <<yaml, image, oldYaml, oldImage>>

TakeYaml ==
  /\ MapStep("takeYaml", "takeImage")
  /\ yaml' = None
  /\ oldYaml' = yaml
  /\ UNCHANGED <<image, oldImage>>

TakeImage ==
  /\ MapStep("takeImage", "putImage")
  /\ image' = None
  /\ oldImage' = image
  /\ UNCHANGED <<yaml, oldYaml>>

PutImage ==
  /\ MapStep("putImage", "putYaml")
  /\ image' = newMap
  /\ UNCHANGED <<yaml, oldYaml, oldImage>>

PutYaml ==
  /\ MapStep("putYaml", "sync")
  /\ yaml' = newMap
  /\ UNCHANGED <<image, oldYaml, oldImage>>

DropBackups == oldYaml' = None /\ oldImage' = None

SyncMap ==
  /\ MapStep("sync", "saved")
  /\ DropBackups
  /\ UNCHANGED <<yaml, image>>

DropYaml ==
  /\ MapStep("dropYaml", "dropImage")
  /\ yaml' = None
  /\ UNCHANGED <<image, oldYaml, oldImage>>

DropImage ==
  /\ MapStep("dropImage", "giveYaml")
  /\ image' = None
  /\ UNCHANGED <<yaml, oldYaml, oldImage>>

GiveYaml ==
  /\ MapStep("giveYaml", "giveImage")
  /\ yaml' = IF oldYaml # None THEN oldYaml ELSE yaml
  /\ oldYaml' = None
  /\ UNCHANGED <<image, oldImage>>

GiveImage ==
  /\ MapStep("giveImage", "failed")
  /\ image' = IF oldImage # None THEN oldImage ELSE image
  /\ DropBackups
  /\ UNCHANGED yaml

\* An OSError: the first leads to the undoing, which removes what it finds under
\* the final names; one there ends it.  Either way the backups go at the end.
MapOperationFails ==
  /\ \/ mapAt \in Forwards /\ mapAt' = "dropYaml" /\ UNCHANGED <<oldYaml, oldImage>>
     \/ mapAt \in Backwards /\ mapAt' = "failed" /\ DropBackups
  /\ mapFaults' = mapFaults + 1
  /\ UNCHANGED <<yaml, image, newMap, held>>

\* The names of the backups are never used again.
PowerCut ==
  /\ ~Resting
  /\ mapAt' = "lost"
  /\ DropBackups
  /\ UNCHANGED <<yaml, image, newMap, mapFaults, held>>

MapNext ==
  \/ BeginReplacement
  \/ TakeYaml \/ TakeImage \/ PutImage \/ PutYaml \/ SyncMap
  \/ DropYaml \/ DropImage \/ GiveYaml \/ GiveImage
  \/ MapOperationFails \/ PowerCut

MapSpec == MapInit /\ [][MapNext]_mapVars

MapTypeOK ==
  /\ {yaml, image, oldYaml, oldImage, newMap} \subseteq Maps
  /\ mapAt \in Forwards \cup Backwards \cup {"saved", "failed", "lost"}
  /\ mapFaults \in 0..2
  /\ held \in Maps \X Maps

\* Whatever fails and whenever the power goes, a YAML never stands beside the
\* image of another map (the order of the renames and removals in
\* replace_saved_map).
NoMixedMap == yaml # None => image \in {yaml, None}

\* A replacement of which one operation failed leaves a complete map as it was
\* (replace_saved_map: complete and atomic).
FailedSaveKeepsMap ==
  mapAt = "failed" /\ mapFaults = 1 /\ held[1] # None => <<yaml, image>> = held
=============================================================================
