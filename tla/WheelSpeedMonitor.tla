--------------------------- MODULE WheelSpeedMonitor ----------------------------
(***************************************************************************)
(* WheelSpeedSafetyMonitor of the collector: wheels over the limit for a    *)
(* while, or far over it at once, end a run.  Frames of the ESP32 arrive at *)
(* their own pace; the safety check looks at the latest one, often twice at *)
(* the same and never at some.  Receive times are of a steady clock, so     *)
(* they never go back.                                                      *)
(***************************************************************************)
EXTENDS Integers, Sequences

CONSTANTS
  SustainedLimit, ImmediateLimit, HoldTime,
  Frames,  \* pairs of wheel speeds, a value outside Int for one not finite
  MaxTime  \* bound: frames received

ASSUME WheelAssumption ==
  /\ {SustainedLimit, ImmediateLimit, HoldTime, MaxTime} \subseteq Nat
  /\ SustainedLimit < ImmediateLimit

NaN == -1 \* no time

VARIABLES
  frame,      \* the latest frame: its time and its wheels
  lastSample, \* last_sample_time_sec_
  overSince,  \* overspeed_started_sec_
  verdict,    \* last_result_: its state
  looked      \* history: the frames the check has seen since the reset

wheelVars == <<frame, lastSample, overSince, verdict, looked>>

Verdicts == {"ok", "pending", "sustained", "immediate", "invalid"}

WheelInit ==
  /\ frame = [at |-> 0, wheels |-> <<0, 0>>]
  /\ lastSample = NaN /\ overSince = NaN
  /\ verdict = "ok"
  /\ looked = <<>>

FrameArrives ==
  /\ frame.at < MaxTime
  /\ \E w \in Frames : frame' = [at |-> frame.at + 1, wheels |-> w]
  /\ UNCHANGED <<lastSample, overSince, verdict, looked>>

Finite(w) == w[1] \in Int /\ w[2] \in Int
AtLeast(w, limit) == \E i \in 1..2 : w[i] >= limit \/ -w[i] >= limit
TooFast(w) == Finite(w) /\ AtLeast(w, ImmediateLimit)
Overspeed(w) == Finite(w) /\ ~TooFast(w) /\ AtLeast(w, SustainedLimit + 1)

\* Mutant: a frame within the limit does not end the overspeed.
KeptSince ==
  IF ~Finite(frame.wheels) \/ TooFast(frame.wheels) THEN NaN
  ELSE IF overSince = NaN /\ Overspeed(frame.wheels) THEN frame.at ELSE overSince

Since ==
  IF ~Overspeed(frame.wheels) THEN NaN
  ELSE IF overSince = NaN THEN frame.at ELSE overSince

\* update: a frame already checked changes nothing.
CheckWheels ==
  /\ frame.at # lastSample
  /\ lastSample' = frame.at
  /\ overSince' = Since
  /\ verdict' =
       CASE ~Finite(frame.wheels) -> "invalid"
         [] TooFast(frame.wheels) -> "immediate"
         [] Overspeed(frame.wheels) ->
              IF frame.at - Since >= HoldTime THEN "sustained" ELSE "pending"
         [] OTHER -> "ok"
  /\ looked' = Append(looked, frame)
  /\ UNCHANGED frame

\* A new run of the collector.
ResetMonitor ==
  /\ lastSample' = NaN /\ overSince' = NaN
  /\ verdict' = "ok"
  /\ looked' = <<>>
  /\ UNCHANGED frame

WheelNext == FrameArrives \/ CheckWheels \/ ResetMonitor

WheelSpec == WheelInit /\ [][WheelNext]_wheelVars

WheelTypeOK ==
  /\ frame.at \in 0..MaxTime
  /\ {lastSample, overSince} \subseteq NaN..MaxTime
  /\ verdict \in Verdicts

\* A sustained overspeed is announced exactly when every frame looked at for the
\* hold time, up to the last one, was over the limit, however often one frame is
\* looked at (WheelSpeedSafetyMonitor::update).
OverspeedIsHeld ==
  verdict = "sustained" <=>
    \E first \in 1..Len(looked) :
      /\ \A i \in first..Len(looked) : Overspeed(looked[i].wheels)
      /\ looked[Len(looked)].at - looked[first].at >= HoldTime
=============================================================================
