-------------------------- MODULE PacketTimestamps --------------------------
(***************************************************************************)
(* PacketTimestampNormalizer (src/src/media.cpp): how the decoding time    *)
(* stamps of camera packets are rebased into a movie.  Normalize gives the *)
(* next state of a normalizer; its field "last" is the stamp it returns.   *)
(* Stamps and arrival times count ticks of the output's time base.         *)
(***************************************************************************)
EXTENDS Integers

CONSTANTS
  TicksPerSecond, (* ticks_per_second_; reset() raises a smaller one to 1  *)
  NoStamp         (* std::nullopt: a packet with neither dts nor pts       *)

ASSUME TicksAssumption == TicksPerSecond \in Nat \ {0} /\ NoStamp \notin Int

Larger(a, b) == IF a >= b THEN a ELSE b
Clamp(x, low, high) == IF x < low THEN low ELSE IF x > high THEN high ELSE x

(* How far the stamps may run from the arrival clock: two seconds.         *)
SkewAllowance == TicksPerSecond * 2

(* PacketTimestampNormalizer::reset                                        *)
Reset(repair) ==
  [repair |-> repair, started |-> FALSE, firstInput |-> NoStamp, lastInput |-> NoStamp,
   firstArrival |-> 0, lastArrival |-> 0, last |-> 0]

(* The camera's own step between two packets is believed when it is not    *)
(* too far from the time that passed between their arrivals.               *)
Plausible(step, passed) ==
  LET least == IF passed >= Larger(TicksPerSecond \div 100, 1)
               THEN Larger(passed \div 4, 1) ELSE 1
  IN step >= least /\ step <= Larger(TicksPerSecond * 2, passed * 4)

ArrivalStep(s, arrival) == Larger(arrival - s.lastArrival, 1)

StampStep(s, input, arrival) ==
  IF /\ input # NoStamp
     /\ s.lastInput # NoStamp
     /\ Plausible(input - s.lastInput, ArrivalStep(s, arrival))
  THEN input - s.lastInput ELSE ArrivalStep(s, arrival)

(* The stamp of a packet whose camera's clock is repaired, before and      *)
(* after the accumulated skew is bounded.                                  *)
UnboundedStamp(s, input, arrival) == s.last + StampStep(s, input, arrival)
RepairedStamp(s, input, arrival) ==
  LET elapsed == Larger(arrival - s.firstArrival, 0)
      low == Larger(s.last + 1,
                    IF elapsed > SkewAllowance THEN elapsed - SkewAllowance ELSE 0)
      high == Larger(low, elapsed + SkewAllowance)
  IN Clamp(UnboundedStamp(s, input, arrival), low, high)

(* The stamp of a packet whose source has a clock of its own (Baichuan,    *)
(* an encoded time lapse): rebased, and never repeated.                    *)
RebasedStamp(s, input, first) ==
  IF input = NoStamp THEN s.last + 1 ELSE Larger(input - first, s.last + 1)

(* PacketTimestampNormalizer::normalize                                    *)
Normalize(s, input, arrival) ==
  IF ~s.started
  THEN [s EXCEPT !.started = TRUE, !.firstInput = input, !.lastInput = input,
                 !.firstArrival = arrival, !.lastArrival = arrival, !.last = 0]
  ELSE LET first == IF s.firstInput = NoStamp /\ ~s.repair
                    THEN input ELSE s.firstInput
       IN [s EXCEPT !.firstInput = first, !.lastInput = input, !.lastArrival = arrival,
                    !.last = IF s.repair THEN RepairedStamp(s, input, arrival)
                             ELSE RebasedStamp(s, input, first)]

-----------------------------------------------------------------------------
(* What a repaired stamp promises: it follows the stamp before it, and it  *)
(* is within the allowance of the time that has passed since the movie's   *)
(* first packet, ahead of it only to follow.                               *)
InStep(before, stamp, elapsed) ==
  /\ stamp > before
  /\ stamp >= elapsed - SkewAllowance
  /\ stamp <= elapsed + SkewAllowance \/ stamp = before + 1
=============================================================================
