------------------------------- MODULE ModelDeploy -------------------------------
(***************************************************************************)
(* get_model_worker: a verified archive becomes the deployed model, and a   *)
(* receipt remembers which archive that was, so that a second call has      *)
(* nothing to do.  A failure rolls back.  Calls exclude each other (flock). *)
(***************************************************************************)
EXTENDS Naturals

CONSTANT Archives \* archives that may be deployed

ASSUME ArchivesAssumption == 0 \notin Archives

NoModel == 0 \* no directory, or only its .gitkeep
Models == Archives \cup {NoModel}

VARIABLES
  target,   \* the model in models_root
  aside,    \* backup: the model this call has moved away
  receipt,  \* archive_sha256 in the receipt, NoModel without one
  archive,  \* the archive this call deploys, NoModel before the first
  deployAt,
  cutShort  \* a call died, or failed to roll back, after it had moved the model,
            \* and none has written a receipt since

deployVars == <<target, aside, receipt, archive, deployAt, cutShort>>

DeploySteps ==
  {"idle", "look", "shelve", "install", "giveBack", "check", "record",
   "rollOut", "rollIn"}

DeployInit ==
  /\ target = NoModel /\ aside = NoModel /\ receipt = NoModel
  /\ archive = NoModel
  /\ deployAt = "idle"
  /\ cutShort = FALSE

DeployGo(at, next) ==
  /\ deployAt = at
  /\ deployAt' = next
  /\ UNCHANGED <<archive, cutShort>>

BeginDeploy ==
  /\ deployAt = "idle"
  /\ archive' \in Archives
  /\ aside' = NoModel
  /\ deployAt' = "look"
  /\ UNCHANGED <<target, receipt, cutShort>>

\* The receipt names this archive and model_tool finds a model available.
AlreadyDeployed ==
  /\ receipt = archive
  /\ target # NoModel
  /\ DeployGo("look", "idle")
  /\ UNCHANGED <<target, aside, receipt>>

\* Extracted, verified, normalised, built for the backend and copied, or not.
\* A model named by the receipt may have become unavailable.
PrepareBundle ==
  /\ \/ DeployGo("look", "shelve")
     \/ DeployGo("look", "idle")
  /\ UNCHANGED <<target, aside, receipt>>

MoveModelOut ==
  /\ \/ /\ DeployGo("shelve", "install")
        /\ target' = NoModel
        /\ aside' = target
     \/ DeployGo("shelve", "idle") /\ UNCHANGED <<target, aside>>
  /\ UNCHANGED receipt

MoveModelIn ==
  /\ \/ DeployGo("install", "check") /\ target' = archive
     \/ DeployGo("install", "giveBack") /\ UNCHANGED target
  /\ UNCHANGED <<aside, receipt>>

PutModelBack ==
  /\ DeployGo("giveBack", "idle")
  /\ target' = aside
  /\ UNCHANGED <<aside, receipt>>

CheckModel ==
  /\ \/ DeployGo("check", "record")
     \/ DeployGo("check", "rollOut")
  /\ UNCHANGED <<target, aside, receipt>>

\* Mutant: a receipt that cannot be written does not roll back.
ReceiptOptional ==
  /\ deployAt = "record"
  /\ deployAt' = "idle"
  /\ receipt' \in {receipt, archive}
  /\ cutShort' = FALSE
  /\ UNCHANGED <<target, aside, archive>>

WriteReceipt ==
  /\ deployAt = "record"
  /\ \/ deployAt' = "idle" /\ receipt' = archive /\ cutShort' = FALSE
     \/ deployAt' = "rollOut" /\ UNCHANGED <<receipt, cutShort>>
  /\ UNCHANGED <<target, aside, archive>>

RollOut ==
  /\ DeployGo("rollOut", "rollIn")
  /\ target' = NoModel
  /\ UNCHANGED <<aside, receipt>>

RollIn ==
  /\ DeployGo("rollIn", "idle")
  /\ target' = aside
  /\ UNCHANGED <<aside, receipt>>

\* The process dies, or a step that undoes fails.
DeployBreaks ==
  /\ deployAt \notin {"idle", "look", "shelve"}
  /\ deployAt' = "idle"
  /\ cutShort' = TRUE
  /\ UNCHANGED <<target, aside, receipt, archive>>

DeployNext ==
  \/ BeginDeploy \/ AlreadyDeployed \/ PrepareBundle
  \/ MoveModelOut \/ MoveModelIn \/ PutModelBack
  \/ CheckModel \/ WriteReceipt \/ RollOut \/ RollIn \/ DeployBreaks

DeploySpec == DeployInit /\ [][DeployNext]_deployVars

DeployTypeOK ==
  /\ {target, aside, receipt} \subseteq Models
  /\ archive \in Models
  /\ deployAt \in DeploySteps
  /\ cutShort \in BOOLEAN

\* Between calls the receipt names the deployed model, whatever failed, unless a
\* call was cut short (deploy): otherwise "already deployed" would be said of
\* another model than the one that runs.
ReceiptNamesModel == deployAt = "idle" /\ ~cutShort => receipt = target
=============================================================================
