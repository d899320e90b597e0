----------------------------- MODULE MotionInterlock -----------------------------
(***************************************************************************)
(* What the car's safety interlock promises, without commands, timeouts or  *)
(* arbitration: who holds the stop lock, when the stale-observer latch is   *)
(* set, and that the wheels are commanded to move only when neither holds.  *)
(*                                                                         *)
(* Requests are answered one at a time; the last answer stays visible, so   *)
(* the contract can say who may change the lock.                            *)
(***************************************************************************)
CONSTANTS
  Sources,  \* every value of a request's source field
  Programs, \* the sources that are programs: the calibrator and the collector
  NoSource  \* the empty source

VARIABLES
  holders,   \* the source that holds the stop lock: at most one
  latch,     \* the observer was lost while it was being watched
  confirmed, \* the observer has since reported that it is inactive
  moving,    \* the last command published is not a stop
  answer     \* the last request answered: [stop, source, success]

vars == <<holders, latch, confirmed, moving, answer>>

Locked == holders # {} \/ latch

TypeOK ==
  /\ holders \subseteq Sources
  /\ latch \in BOOLEAN
  /\ confirmed \in BOOLEAN
  /\ moving \in BOOLEAN
  /\ answer \in [stop : BOOLEAN, source : Sources, success : BOOLEAN]

Init ==
  /\ holders = {}
  /\ latch = FALSE
  /\ confirmed = FALSE
  /\ moving = FALSE
  /\ answer \in [stop : {FALSE}, source : Sources, success : {FALSE}]

\* A program may take the lock when it is free, its own or unattributed;
\* anybody else may always take it.  The wheels are stopped at once.
Engage(s) ==
  /\ s \in Programs => holders \subseteq {NoSource, s}
  /\ holders' = {s}
  /\ moving' = FALSE
  /\ answer' = [stop |-> TRUE, source |-> s, success |-> TRUE]
  /\ UNCHANGED <<latch, confirmed>>

\* Only the holder gives the lock back, and a latch needs its confirmation.
Release(s) ==
  /\ holders \subseteq {s}
  /\ latch => confirmed
  /\ holders' = {}
  /\ latch' = FALSE
  /\ confirmed' = FALSE
  /\ answer' = [stop |-> FALSE, source |-> s, success |-> TRUE]
  /\ UNCHANGED moving

\* A refused request changes nothing but its answer.
Refuse(s) ==
  /\ answer' \in [stop : BOOLEAN, source : {s}, success : {FALSE}]
  /\ UNCHANGED <<holders, latch, confirmed, moving>>

\* The observer was lost: the latch closes and the wheels stop in one step.
Trip ==
  /\ ~latch
  /\ latch' = TRUE
  /\ confirmed' = FALSE
  /\ moving' = FALSE
  /\ UNCHANGED <<holders, answer>>

\* The observer is heard from again, active or not.
Report ==
  /\ confirmed' \in {FALSE, latch}
  /\ UNCHANGED <<holders, latch, moving, answer>>

\* A control cycle: motion only while nothing is locked.
Cycle ==
  /\ moving' \in BOOLEAN
  /\ Locked => ~moving'
  /\ UNCHANGED <<holders, latch, confirmed, answer>>

Next ==
  \/ \E s \in Sources : Engage(s) \/ Release(s) \/ Refuse(s)
  \/ Trip \/ Report \/ Cycle

Spec == Init /\ [][Next]_vars

=============================================================================
