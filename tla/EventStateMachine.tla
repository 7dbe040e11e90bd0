------------------------- MODULE EventStateMachine -------------------------
(***************************************************************************)
(* The state machine that groups motion frames into events                 *)
(* (src/src/event.cpp, src/include/vibe_motion/event.hpp) as operators:    *)
(* Update and Stop take the machine to the outcome of one call, that is    *)
(* the next machine and the flags of its EventDecision.  Times are         *)
(* readings of the steady clock.                                           *)
(***************************************************************************)
EXTENDS Integers

CONSTANTS
  MinimumMotionFrames,  (* EventSettings::minimum_motion_frames            *)
  EventGap,             (* EventSettings::event_gap                        *)
  PostCapture,          (* EventSettings::post_capture_frames              *)
  MaxEventDuration      (* EventSettings::max_event_duration, 0: no limit  *)

(* The constructor refuses any other settings.                             *)
ASSUME SettingsAssumption ==
  /\ MinimumMotionFrames \in Nat \ {0}
  /\ EventGap \in Nat
  /\ PostCapture \in Nat
  /\ MaxEventDuration \in Nat

(* std::nullopt of last_motion_ and event_started_at_.                     *)
NoTime == -1

(* The machine with no event active, after its n-th event.                 *)
Idle(n) == [active |-> FALSE, consecutive |-> 0, post |-> 0,
            lastMotion |-> NoTime, startedAt |-> NoTime, number |-> n]

Ends(m) == [machine |-> Idle(m.number), started |-> FALSE, ended |-> m.active,
            record |-> FALSE]

(* The event has lasted max_event_duration: it is cut whatever the frame.  *)
OverdueLater(m, now) ==
  m.active /\ MaxEventDuration > 0 /\ now - m.startedAt > MaxEventDuration
Overdue(m, now) ==
  m.active /\ MaxEventDuration > 0 /\ now - m.startedAt >= MaxEventDuration

(* consecutive_motion_ after a frame.                                      *)
RunUnforced(m, motion, force) ==
  IF ~motion THEN 0
  ELSE IF m.consecutive + 1 >= MinimumMotionFrames
       THEN MinimumMotionFrames ELSE m.consecutive + 1
MotionRun(m, motion, force) ==
  IF ~motion THEN 0
  ELSE IF force \/ m.consecutive + 1 >= MinimumMotionFrames
       THEN MinimumMotionFrames ELSE m.consecutive + 1

Confirmed(m, motion, force) ==
  motion /\ MotionRun(m, motion, force) >= MinimumMotionFrames

(* No motion for event_gap: the event ends.  The frame's own motion would  *)
(* have refreshed last_motion_.                                            *)
Quiet(m, motion, now) ==
  m.active /\ ~motion /\ now - m.lastMotion >= EventGap

(* A frame that post_capture_frames still records.                         *)
TrailingWhenStill(m, motion, force) == m.active /\ ~motion /\ m.post > 0
Trailing(m, motion, force) ==
  m.active /\ ~Confirmed(m, motion, force) /\ m.post > 0

(* One frame within an event, or before one.                               *)
RefreshedByConfirmed(m, motion, now, force) ==
  LET confirmed == Confirmed(m, motion, force)
      starts == confirmed /\ ~m.active
      trailing == Trailing(m, motion, force)
  IN [machine |->
        [active |-> m.active \/ confirmed,
         consecutive |-> MotionRun(m, motion, force),
         post |-> IF confirmed THEN PostCapture
                  ELSE IF trailing THEN m.post - 1 ELSE m.post,
         lastMotion |-> IF confirmed THEN now ELSE m.lastMotion,
         startedAt |-> IF starts THEN now ELSE m.startedAt,
         number |-> IF starts THEN m.number + 1 ELSE m.number],
      started |-> starts, ended |-> FALSE, record |-> confirmed \/ trailing]
Continued(m, motion, now, force) ==
  LET confirmed == Confirmed(m, motion, force)
      starts == confirmed /\ ~m.active
      trailing == Trailing(m, motion, force)
  IN [machine |->
        [active |-> m.active \/ confirmed,
         consecutive |-> MotionRun(m, motion, force),
         post |-> IF confirmed THEN PostCapture
                  ELSE IF trailing THEN m.post - 1 ELSE m.post,
         lastMotion |-> IF confirmed \/ (m.active /\ motion) THEN now
                        ELSE m.lastMotion,
         startedAt |-> IF starts THEN now ELSE m.startedAt,
         number |-> IF starts THEN m.number + 1 ELSE m.number],
      started |-> starts, ended |-> FALSE, record |-> confirmed \/ trailing]

(* EventStateMachine::update                                               *)
Update(m, motion, now, force) ==
  IF Overdue(m, now) \/ Quiet(m, motion, now)
  THEN Ends(m)
  ELSE Continued(m, motion, now, force)

(* EventStateMachine::stop                                                 *)
Stop(m) == Ends(m)
=============================================================================
