---------------------------- MODULE FrameDecode -----------------------------
(***************************************************************************)
(* Which frames of a camera are decoded: the policy that turns the full    *)
(* decoding on for HTTP consumers (FrameDecodeController, src/src/         *)
(* decode.cpp), the decoder it steers (libavcodec, as media.cpp uses it)   *)
(* and the choice of the decoded frames that are analysed.                 *)
(***************************************************************************)
EXTENDS Integers, Sequences, SequencesExt

CONSTANTS
  Grace           (* grace_period_ of the controller                       *)

ASSUME GraceAssumption == Grace \in Nat

(* FrameDecodeController::FrameDecodeController                            *)
Controller(idle) == [idle |-> idle, active |-> idle, requested |-> idle, until |-> 0]

(* FrameDecodeController::update.  With "all" as idle mode nothing ever    *)
(* changes.  Going to "all" waits for a keyframe, going back does not.     *)
UpdatedAtOnce(c, needed, boundary, now) ==
  LET until == IF needed THEN now + Grace ELSE c.until
      requested == IF needed \/ now < until THEN "all" ELSE c.idle
  IN IF c.idle = "all" THEN c
     ELSE [c EXCEPT !.until = until, !.requested = requested, !.active = requested]
Updated(c, needed, boundary, now) ==
  LET until == IF needed THEN now + Grace ELSE c.until
      requested == IF needed \/ now < until THEN "all" ELSE c.idle
      waits == requested = "all" /\ c.active = "keyframes" /\ ~boundary
  IN IF c.idle = "all" THEN c
     ELSE [c EXCEPT !.until = until, !.requested = requested,
                    !.active = IF waits THEN @ ELSE requested]

-----------------------------------------------------------------------------
(* The decoder: the frames it holds in decoding order, and the number of   *)
(* the last packet it decoded.  A frame is whole when every packet it      *)
(* refers to was decoded.                                                  *)
NewDecoder == [held |-> <<>>, last |-> 0]

(* avcodec_send_packet under skip_frame: a skipped packet leaves no trace, *)
(* for the decoder is opened without threads of its own.                   *)
Sent(decoder, packet, mode) ==
  IF mode = "keyframes" /\ ~packet.key THEN decoder
  ELSE [last |-> packet.n,
        held |-> Append(decoder.held,
                        [n |-> packet.n, key |-> packet.key, dts |-> packet.dts,
                         whole |-> packet.key \/ decoder.last = packet.n - 1])]

(* avcodec_receive_frame: a frame leaves once more than delay frames are   *)
(* held, once a keyframe follows it, or when the decoder is flushed.       *)
HasFrame(decoder, delay, flushed) ==
  /\ decoder.held # <<>>
  /\ \/ flushed
     \/ Len(decoder.held) > delay
     \/ \E i \in 2..Len(decoder.held) : decoder.held[i].key
Taken(decoder) == [decoder EXCEPT !.held = Tail(@)]

-----------------------------------------------------------------------------
(* Impl::should_analyze: at most one frame per interval of the camera's    *)
(* own clock, starting again when that clock jumps back; every frame when  *)
(* the interval is 0.                                                      *)
Analysed(stamp, next, none, interval) ==
  \/ interval = 0
  \/ next = none
  \/ stamp >= next
  \/ stamp + interval * 2 < next
=============================================================================
