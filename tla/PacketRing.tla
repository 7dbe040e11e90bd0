----------------------------- MODULE PacketRing -----------------------------
(***************************************************************************)
(* PacketRing (src/src/media.cpp): the compressed packets a camera keeps   *)
(* for the opening of its next movie.  A ring is a sequence of packets;    *)
(* a packet is a record whose field "key" says that it is a keyframe and   *)
(* whose field "at" is the time it was received.                           *)
(***************************************************************************)
EXTENDS Integers, Sequences, SequencesExt

CONSTANTS
  Preroll,        (* preroll_: how far back a movie should begin           *)
  MaxRing         (* maximum_packets_: the hard limit                      *)

ASSUME RingAssumption == Preroll \in Nat /\ MaxRing \in Nat \ {0}

(* The newest keyframe at or before the boundary, else the oldest one; 0   *)
(* when the ring has no keyframe.                                          *)
OldestKey(ring) == SelectInSeq(ring, LAMBDA p : p.key)
AlignedBegin(ring, cutoff) ==
  LET aligned == SelectLastInSeq(ring, LAMBDA p : p.key /\ p.at <= cutoff)
  IN IF aligned # 0 THEN aligned ELSE OldestKey(ring)

(* What is left of a ring over its limit: from its first keyframe on.      *)
LastOf(ring) == SubSeq(ring, Len(ring) - MaxRing + 1, Len(ring))
Limited(ring) ==
  IF Len(ring) <= MaxRing THEN ring
  ELSE LET key == OldestKey(LastOf(ring))
       IN SubSeq(LastOf(ring), IF key # 0 THEN key ELSE 1, MaxRing)

(* PacketRing::push                                                        *)
PushUnaligned(ring, packet) == Limited(Append(ring, packet))
Push(ring, packet) ==
  LET all == Append(ring, packet)
      begin == AlignedBegin(all, packet.at - Preroll)
  IN Limited(IF begin # 0 THEN SubSeq(all, begin, Len(all)) ELSE all)

(* PacketRing::snapshot                                                    *)
Snapshot(ring) ==
  LET begin == OldestKey(ring)
  IN IF begin = 0 THEN <<>> ELSE SubSeq(ring, begin, Len(ring))
=============================================================================
