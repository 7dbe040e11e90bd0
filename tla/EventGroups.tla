---------------------------- MODULE EventGroups ----------------------------
(***************************************************************************)
(* The event state machine driven by frames, one call of update for each   *)
(* (src/src/event.cpp, called at src/src/runtime.cpp:1242), and what the   *)
(* grouping means, stated on the frames alone: which frames start an       *)
(* event, which end it and which are recorded.                             *)
(***************************************************************************)
EXTENDS EventStateMachine, Sequences, FiniteSets, SequencesExt

CONSTANTS
  MaxFrames,   (* bound on the number of frames                            *)
  MaxStep      (* bound on the time from one frame to the next             *)

ASSUME FramesAssumption == MaxFrames \in Nat /\ MaxStep \in Nat

VARIABLES
  machine,     (* the EventStateMachine                                    *)
  now,         (* the steady clock at the last frame                       *)
  frames,      (* history: the inputs of update so far                     *)
  starts,      (* history: the frames whose decision started an event      *)
  ends,        (* history: the frames whose decision ended one             *)
  recorded     (* history: the frames whose decision was to record         *)

vars == <<machine, now, frames, starts, ends, recorded>>

Init ==
  /\ machine = Idle(0)
  /\ now = 0
  /\ frames = <<>>
  /\ starts = {} /\ ends = {} /\ recorded = {}

(* A frame comes after some time.  The camera worker forces only with      *)
(* motion: an ONVIF edge makes the frame qualify.                          *)
Frame(step, motion, force) ==
  LET n == Len(frames) + 1
      outcome == Update(machine, motion, now + step, force)
  IN /\ Len(frames) < MaxFrames
     /\ force => motion
     /\ machine' = outcome.machine
     /\ now' = now + step
     /\ frames' = Append(frames, [at |-> now + step, motion |-> motion, force |-> force])
     /\ starts' = starts \cup {i \in {n} : outcome.started}
     /\ ends' = ends \cup {i \in {n} : outcome.ended}
     /\ recorded' = recorded \cup {i \in {n} : outcome.record}

Next == \E step \in 0..MaxStep, motion, force \in BOOLEAN : Frame(step, motion, force)

Spec == Init /\ [][Next]_vars

-----------------------------------------------------------------------------
(* What the grouping means, on the frames.                                 *)

Frames == 1..Len(frames)

(* The last frame before i that ended an event, or 0.  Nothing before it   *)
(* counts towards a run of motion.                                         *)
Barrier(i) == Max({0} \cup {e \in ends : e < i})

(* Frame i completes a run: every frame since j moves, and either j was    *)
(* forced or the run is long enough.                                       *)
Completes(i) ==
  \E j \in (Barrier(i) + 1)..i :
    /\ \A k \in j..i : frames[k].motion
    /\ frames[j].force \/ i - j + 1 >= MinimumMotionFrames

(* Frame i ends the event that frame s started: it comes max duration      *)
(* after it, or the gap after the last frame that moved.                   *)
Terminates(s, i) ==
  \/ MaxEventDuration > 0 /\ frames[i].at - frames[s].at >= MaxEventDuration
  \/ \A k \in s..i : frames[k].motion =>
       k < i /\ frames[i].at - frames[k].at >= EventGap

(* The start of the event that frame i falls in, or 0: an event covers the *)
(* frames from its start to the one before its end.                        *)
EventOf(i) ==
  LET s == Max({0} \cup {j \in starts : j <= i})
  IN IF \E e \in ends : s < e /\ e <= i THEN 0 ELSE s

(* The machine is typed, and its times and counts agree with active_: an   *)
(* event has a start and a last motion, an idle machine has neither.       *)
TypeOK ==
  /\ machine.active \in BOOLEAN
  /\ machine.consecutive \in 0..MinimumMotionFrames
  /\ machine.post \in 0..PostCapture
  /\ machine.number \in Nat
  /\ now \in Nat
  /\ IF machine.active
     THEN /\ machine.startedAt \in 0..now
          /\ machine.lastMotion \in machine.startedAt..now
     ELSE machine.startedAt = NoTime /\ machine.lastMotion = NoTime

(* Whatever motion and forcing come, after each frame an active event is   *)
(* younger than its maximum, and either the last frame moved or the gap    *)
(* since the last motion has not passed (update's cut and event_gap).      *)
EventIsBounded ==
  machine.active =>
    /\ MaxEventDuration > 0 => now - machine.startedAt < MaxEventDuration
    /\ now = machine.lastMotion \/ now - machine.lastMotion < EventGap

(* Events start exactly at the frames outside an event that complete a run *)
(* of motion, and end exactly at the first frame after the start that is   *)
(* too late or too quiet: no event is missed, split or merged otherwise.   *)
(* Recorded are exactly the frames of an event that complete a run, and    *)
(* the PostCapture frames that follow each of them without completing one. *)
GroupsFrames ==
  \A i \in Frames :
    LET before == IF i = 1 THEN 0 ELSE EventOf(i - 1)
    IN /\ i \in starts <=> before = 0 /\ Completes(i)
       /\ i \in ends <=> before # 0 /\ Terminates(before, i)
       /\ i \in recorded <=>
            /\ EventOf(i) # 0
            /\ \E c \in EventOf(i)..i : Completes(c) /\ i - c <= PostCapture
=============================================================================
