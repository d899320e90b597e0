----------------------------- MODULE ProcessManager -----------------------------
(***************************************************************************)
(* One launched task of the web server, "mapping" or "navigation": its      *)
(* process groups, the record the server keeps and the one in its state     *)
(* file.  The server may die at any moment; what it launched lives on.      *)
(***************************************************************************)
EXTENDS Naturals

CONSTANT MaxGroups \* bound: process groups launched

ASSUME GroupsAssumption == MaxGroups \in Nat

NoGroup == 0
Groups == 1..MaxGroups

VARIABLES
  task,
  alive,    \* groups with a live process
  leading,  \* those whose launch process lives
  launched, \* groups launched so far
  up,       \* the server runs
  record,   \* self._processes[task]
  filed,    \* the record in the state file
  unfiled,  \* the last attempt to write the file failed
  stopping, \* the record that a stop is waiting for, without the lock
  strays    \* groups whose launch process died before them, whose record was not
            \* written before the server died, or, of mapping, that were launched
            \* while a stop was waiting

procVars ==
  <<task, alive, leading, launched, up, record, filed, unfiled, stopping, strays>>

ProcInit ==
  /\ task \in {"mapping", "navigation"}
  /\ alive = {} /\ leading = {} /\ launched = 0
  /\ up = TRUE
  /\ record = NoGroup /\ filed = NoGroup /\ unfiled = FALSE
  /\ stopping = NoGroup
  /\ strays = {}

RecordAlive(r) == r \in leading

\* _save_state of the record r, which may fail.
File(r) ==
  \/ filed' = r /\ unfiled' = FALSE
  \/ filed' = filed /\ unfiled' = TRUE

\* Popen, the identity and the record.  The routes of navigation exclude each
\* other; start_mapping takes no lock.
StartTask ==
  /\ up
  /\ ~RecordAlive(record)
  /\ task = "navigation" => stopping = NoGroup
  /\ launched < MaxGroups
  /\ launched' = launched + 1
  /\ alive' = alive \cup {launched'}
  /\ leading' = leading \cup {launched'}
  /\ record' = launched'
  /\ File(launched')
  /\ strays' = IF stopping = NoGroup THEN strays ELSE strays \cup {launched'}
  /\ UNCHANGED <<task, up, stopping>>

\* running: a record whose launch process is gone is dropped.
DropDead ==
  /\ up
  /\ record # NoGroup
  /\ ~RecordAlive(record)
  /\ record' = NoGroup
  /\ File(NoGroup)
  /\ UNCHANGED <<task, alive, leading, launched, up, stopping, strays>>

StopBegins ==
  /\ up
  /\ record # NoGroup
  /\ stopping = NoGroup
  /\ stopping' = record
  /\ UNCHANGED <<task, alive, leading, launched, up, record, filed, unfiled, strays>>

\* _signal_and_wait has seen the group gone; the record is removed by its name.
StopEnds ==
  /\ stopping # NoGroup
  /\ stopping \notin alive
  /\ stopping' = NoGroup
  /\ record' = NoGroup
  /\ File(NoGroup)
  /\ UNCHANGED <<task, alive, leading, launched, up, strays>>

\* Mutant: the record goes although the group lives.
StopForgets ==
  /\ stopping \in alive
  /\ stopping' = NoGroup
  /\ record' = NoGroup
  /\ UNCHANGED <<task, alive, leading, launched, up, filed, unfiled, strays>>

\* Even SIGKILL has not ended the group in time.
StopGivesUp ==
  /\ stopping \in alive
  /\ stopping' = NoGroup
  /\ UNCHANGED <<task, alive, leading, launched, up, record, filed, unfiled, strays>>

LeaderDies ==
  /\ \E g \in leading :
       /\ leading' = leading \ {g}
       /\ strays' = strays \cup {g}
  /\ UNCHANGED <<task, alive, launched, up, record, filed, unfiled, stopping>>

GroupDies ==
  /\ \E g \in alive : alive' = alive \ {g} /\ leading' = leading \ {g}
  /\ UNCHANGED <<task, launched, up, record, filed, unfiled, stopping, strays>>

ServerDies ==
  /\ up
  /\ up' = FALSE
  /\ record' = NoGroup
  /\ stopping' = NoGroup
  /\ unfiled' = FALSE
  /\ strays' = IF unfiled THEN strays \cup ({record} \cap Groups) ELSE strays
  /\ UNCHANGED <<task, alive, leading, launched, filed>>

\* Between Popen and the state file.
ServerDiesStarting ==
  /\ up
  /\ ~RecordAlive(record)
  /\ launched < MaxGroups
  /\ launched' = launched + 1
  /\ alive' = alive \cup {launched'}
  /\ leading' = leading \cup {launched'}
  /\ strays' = strays \cup {launched'}
  /\ up' = FALSE
  /\ record' = NoGroup
  /\ stopping' = NoGroup
  /\ unfiled' = FALSE
  /\ UNCHANGED <<task, filed>>

Loaded == IF RecordAlive(filed) THEN filed ELSE NoGroup

\* The constructor: a record that lives is taken over; if another launch of the
\* robot wrote it, its group is ended and the record removed; then, of mapping,
\* every launch process without a parent is ended with its group.
ServerRestarts ==
  /\ ~up
  /\ up' = TRUE
  /\ \E stale, orphaned \in BOOLEAN :
       /\ stale => Loaded # NoGroup
       /\ orphaned => task = "mapping"
       /\ record' = IF stale THEN NoGroup ELSE Loaded
       /\ filed' = IF stale THEN NoGroup ELSE filed
       /\ LET ended == IF orphaned THEN leading ELSE IF stale THEN {Loaded} ELSE {}
          IN  alive' = alive \ ended /\ leading' = leading \ ended
  /\ UNCHANGED <<task, launched, unfiled, stopping, strays>>

ProcNext ==
  \/ StartTask \/ DropDead \/ StopBegins \/ StopEnds \/ StopGivesUp
  \/ LeaderDies \/ GroupDies \/ ServerDies \/ ServerDiesStarting \/ ServerRestarts

ProcSpec == ProcInit /\ [][ProcNext]_procVars

ProcTypeOK ==
  /\ task \in {"mapping", "navigation"}
  /\ leading \subseteq alive /\ alive \subseteq Groups /\ strays \subseteq Groups
  /\ launched \in 0..MaxGroups
  /\ {record, filed, stopping} \subseteq Groups \cup {NoGroup}
  /\ up \in BOOLEAN /\ unfiled \in BOOLEAN

\* A server that runs knows every group it or its predecessors launched, so a stop
\* ends it and a second is not launched beside it; the exceptions are the strays
\* (ProcessManager.start, stop and the constructor).
NoUnknownStack == up => alive \subseteq {record} \cup strays
=============================================================================
