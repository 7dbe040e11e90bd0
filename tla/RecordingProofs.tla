-------------------------- MODULE RecordingProofs ---------------------------
(***************************************************************************)
(* Proofs about Recording, for every camera and configuration, and with no *)
(* bound on packets, delays and clocks: no frame is decoded whose          *)
(* references were skipped, the choice of a transport is kept, the ring    *)
(* holds the preroll, and a movie is the window of the packets it should   *)
(* be, with stamps that rise and keep the time of arrival.                 *)
(***************************************************************************)
EXTENDS Recording, WellFoundedInduction, TLAPS

(* Frames and packets are kept in sequences, whatever their stamps are.    *)
IsSeq(s) == \E S : s \in Seq(S)

(* A packet joins the packets received; a turn without one leaves them.    *)
LEMMA ConcatOne ==
  ASSUME NEW s, IsSeq(s), NEW e
  PROVE  /\ IsSeq(s \o <<e>>)
         /\ Len(s \o <<e>>) = Len(s) + 1
         /\ s \o <<>> = s
         /\ Len(s) \in Nat
<1>1. PICK S : s \in Seq(S)
  BY DEF IsSeq
<1>2. s \in Seq(S \union {e}) /\ <<e>> \in Seq(S \union {e})
  BY <1>1
<1>3. s \o <<e>> \in Seq(S \union {e}) /\ Len(s \o <<e>>) = Len(s) + 1 /\ Len(s) \in Nat
  BY <1>2
<1>4. s \o <<>> = s
  BY <1>1
<1> QED
  BY <1>3, <1>4 DEF IsSeq

(* A frame enters the decoder behind those it holds.                       *)
LEMMA AppendOne ==
  ASSUME NEW s, IsSeq(s), NEW e
  PROVE  /\ IsSeq(Append(s, e))
         /\ Len(Append(s, e)) = Len(s) + 1
         /\ Len(s) \in Nat
         /\ \A i \in 1..Len(s) : Append(s, e)[i] = s[i]
         /\ Append(s, e)[Len(s) + 1] = e
<1>1. PICK S : s \in Seq(S)
  BY DEF IsSeq
<1>2. s \in Seq(S \union {e})
  BY <1>1
<1> QED
  BY <1>2 DEF IsSeq

(* The oldest frame leaves the decoder.                                    *)
LEMMA TailOne ==
  ASSUME NEW s, IsSeq(s), s # <<>>
  PROVE  /\ IsSeq(Tail(s))
         /\ Len(Tail(s)) = Len(s) - 1
         /\ Len(s) \in Nat \ {0}
         /\ \A i \in 1..Len(Tail(s)) : Tail(s)[i] = s[i + 1]
<1>1. PICK S : s \in Seq(S)
  BY DEF IsSeq
<1> QED
  BY <1>1 DEF IsSeq

-----------------------------------------------------------------------------
(* The decoder is as far as the packets, whenever its next packet may need *)
(* the one before: while everything is decoded, and while it holds a frame *)
(* that is about to leave, for a keyframe that leaves switches full        *)
(* decoding on.                                                            *)
Modes == {"all", "keyframes"}
ModeOK(c, idle) ==
  /\ c = [idle |-> idle, active |-> c.active, requested |-> c.requested, until |-> c.until]
  /\ c.active \in Modes
  /\ idle = "all" => c.active = "all"
ControlOK == camera.idle \in Modes /\ ModeOK(control, camera.idle)
SourceOK ==
  /\ source = [open |-> source.open, eof |-> source.eof, decoder |-> source.decoder,
               next |-> source.next]
  /\ source.open \in BOOLEAN /\ source.eof \in BOOLEAN
  /\ source.decoder = [held |-> source.decoder.held, last |-> source.decoder.last]
  /\ IsSeq(source.decoder.held)
  /\ IsSeq(received)
  /\ ~source.open => source = ClosedSource /\ received = <<>>
KeepsUp ==
  \/ source.eof
  \/ /\ control.active = "all" => source.decoder.last = Len(received)
     /\ HasFrame(source.decoder, camera.delay, FALSE) =>
          source.decoder.last = Len(received)
DecodeInv == ControlOK /\ SourceOK /\ KeepsUp /\ DecodesWhole

(* A turn's packet or its frame is a keyframe.                             *)
Crosses(packet, frame) ==
  \/ packet # <<>> /\ packet[1].key
  \/ frame # <<>> /\ frame[1].key

(* Unless everything is decoded anyway, the controller begins to decode    *)
(* everything at a boundary only.                                          *)
LEMMA UpdatedMode ==
  ASSUME NEW idle \in Modes, NEW c, ModeOK(c, idle),
         NEW wanted \in BOOLEAN, NEW boundary \in BOOLEAN, NEW now
  PROVE  /\ ModeOK(Updated(c, wanted, boundary, now), idle)
         /\ Updated(c, wanted, boundary, now).active = "all" => c.active = "all" \/ boundary
<1> DEFINE d == Updated(c, wanted, boundary, now)
<1>1. CASE c.idle = "all"
  <2>1. d = c
    BY <1>1 DEF Updated
  <2> QED
    BY <2>1, <1>1
<1>2. CASE c.idle # "all"
  <2> DEFINE until == IF wanted THEN now + Grace ELSE c.until
             requested == IF wanted \/ now < until THEN "all" ELSE c.idle
             waits == requested = "all" /\ c.active = "keyframes" /\ ~boundary
  <2>1. d = [c EXCEPT !.until = until, !.requested = requested,
                      !.active = IF waits THEN c.active ELSE requested]
    BY <1>2 DEF Updated
  <2>2. idle = "keyframes" /\ c.idle = idle
    BY <1>2 DEF Modes, ModeOK
  <2>3. requested \in Modes
    BY <2>2 DEF Modes
  <2> HIDE DEF until, requested, d
  <2>4. /\ d = [idle |-> idle, active |-> IF waits THEN c.active ELSE requested,
                requested |-> requested, until |-> until]
    BY <2>1, <2>2 DEF ModeOK
  <2>5. ModeOK(d, idle) /\ (d.active = "all" => c.active = "all" \/ boundary)
    BY <2>2, <2>3, <2>4 DEF Modes, ModeOK
  <2> QED
    BY <2>5 DEF d
<1> QED
  BY <1>1, <1>2

(* What a turn of the loop leaves of the decoder and the controller.       *)
LEMMA SampleFacts ==
  ASSUME NEW top, NEW packet, NEW frame, NEW eof, NEW decoder,
         Sample(top, packet, frame, eof, decoder)
  PROVE  \E wanted, boundary \in BOOLEAN :
           /\ control' = Updated(top, wanted, boundary, clock')
           /\ boundary => Crosses(packet, frame)
           /\ received' = received \o packet
           /\ \E next : source' = [source EXCEPT !.eof = eof, !.decoder = decoder,
                                               !.next = next]
           /\ camera' = camera /\ link' = link
<1>1. PICK usable \in IF frame # <<>> /\ camera.damaged THEN BOOLEAN ELSE {frame # <<>>} :
        LET image == usable /\ Analysed(frame[1].dts, source.next, NoStamp, camera.interval)
            boundary == \/ packet # <<>> /\ packet[1].key
                        \/ usable /\ frame[1].key
        IN /\ received' = received \o packet
           /\ source' = [source EXCEPT
                !.eof = eof, !.decoder = decoder,
                !.next = IF image /\ camera.interval > 0
                         THEN frame[1].dts + camera.interval ELSE @]
           /\ \E wanted \in Wants : control' = Updated(top, wanted, boundary, clock')
           /\ UNCHANGED <<camera, link>>
  BY Zenon DEF Sample
<1> DEFINE boundary == \/ packet # <<>> /\ packet[1].key
                       \/ usable /\ frame[1].key
<1>2. PICK wanted \in Wants : control' = Updated(top, wanted, boundary, clock')
  BY <1>1
<1>3. wanted \in BOOLEAN
  BY <1>2 DEF Wants
<1>4. usable => frame # <<>>
  BY <1>1
<1>5. boundary => Crosses(packet, frame)
  BY <1>4 DEF Crosses
<1>6. \E next : source' = [source EXCEPT !.eof = eof, !.decoder = decoder, !.next = next]
  BY <1>1
<1>7. received' = received \o packet /\ camera' = camera /\ link' = link
  BY <1>1
<1>8. \E b \in BOOLEAN : b = boundary
  OBVIOUS
<1>9. PICK b \in BOOLEAN : b = boundary
  BY <1>8
<1> HIDE DEF boundary
<1>10. control' = Updated(top, wanted, b, clock') /\ (b => Crosses(packet, frame))
  BY <1>2, <1>5, <1>9
<1> QED
  BY <1>3, <1>6, <1>7, <1>9, <1>10

(* The same for a state of which the decoder and the packets are known.    *)
LEMMA SampleKeeps ==
  ASSUME DecodeInv, source.open, NEW top, NEW packet, NEW frame, NEW eof \in BOOLEAN,
         NEW decoder,
         Sample(top, packet, frame, eof, decoder),
         ModeOK(top, camera.idle),
         decoder = [held |-> decoder.held, last |-> decoder.last],
         IsSeq(decoder.held), IsSeq(received \o packet),
         \A i \in 1..Len(decoder.held) : decoder.held[i].whole,
         \/ eof
         \/ /\ (top.active = "all" \/ Crosses(packet, frame)) =>
                 decoder.last = Len(received \o packet)
            /\ HasFrame(decoder, camera.delay, FALSE) =>
                 decoder.last = Len(received \o packet)
  PROVE  DecodeInv'
<1>1. PICK wanted \in BOOLEAN, boundary \in BOOLEAN :
           /\ control' = Updated(top, wanted, boundary, clock')
           /\ boundary => Crosses(packet, frame)
           /\ received' = received \o packet
           /\ \E next : source' = [source EXCEPT !.eof = eof, !.decoder = decoder,
                                               !.next = next]
           /\ camera' = camera /\ link' = link
  BY SampleFacts
<1>2. PICK next : source' = [source EXCEPT !.eof = eof, !.decoder = decoder, !.next = next]
  BY <1>1
<1>3. source' = [open |-> TRUE, eof |-> eof, decoder |-> decoder, next |-> next]
  BY <1>2 DEF DecodeInv, SourceOK
<1>4. camera.idle \in Modes
  BY DEF DecodeInv, ControlOK
<1>5. /\ ModeOK(control', camera.idle)
      /\ control'.active = "all" => top.active = "all" \/ boundary
  BY <1>1, <1>4, UpdatedMode
<1>6. ControlOK'
  BY <1>1, <1>4, <1>5 DEF ControlOK
<1>7. SourceOK'
  BY <1>1, <1>3 DEF SourceOK
<1>8. DecodesWhole'
  BY <1>3 DEF DecodesWhole
<1>9. KeepsUp'
  <2>1. source'.eof = eof /\ source'.decoder = decoder /\ received' = received \o packet
        /\ camera' = camera
    BY <1>1, <1>3
  <2>2. HasFrame(source'.decoder, camera'.delay, FALSE)
          <=> HasFrame(decoder, camera.delay, FALSE)
    BY <2>1
  <2>3. CASE eof
    BY <2>1, <2>3 DEF KeepsUp
  <2>4. CASE ~eof
    <3>1. control'.active = "all" => decoder.last = Len(received \o packet)
      BY <1>1, <1>5, <2>4
    <3>2. HasFrame(decoder, camera.delay, FALSE) => decoder.last = Len(received \o packet)
      BY <2>4
    <3> QED
      BY <2>1, <2>2, <3>1, <3>2 DEF KeepsUp
  <2> QED
    BY <2>3, <2>4
<1> QED
  BY <1>6, <1>7, <1>8, <1>9 DEF DecodeInv

(* The controller at the top of the loop: nothing is switched on there.    *)
LEMMA TopMode ==
  ASSUME DecodeInv, NEW wanted \in Wants
  PROVE  LET top == Updated(control, wanted, FALSE, clock)
         IN ModeOK(top, camera.idle) /\ (top.active = "all" => control.active = "all")
<1>1. wanted \in BOOLEAN /\ FALSE \in BOOLEAN
  BY DEF Wants
<1>2. camera.idle \in Modes /\ ModeOK(control, camera.idle)
  BY DEF DecodeInv, ControlOK
<1> QED
  BY <1>1, <1>2, UpdatedMode

(* What the decoder holds after a frame has left it.                       *)
LEMMA TakenShape ==
  ASSUME NEW h, NEW l
  PROVE  Taken([held |-> h, last |-> l]) = [held |-> Tail(h), last |-> l]
<1> DEFINE d == [held |-> h, last |-> l]
           t == Tail(d.held)
<1>1. Taken(d) = [d EXCEPT !.held = t]
  BY DEF Taken
<1>2. d.held = h
  OBVIOUS
<1>3. t = Tail(h)
  BY <1>2
<1> HIDE DEF t
<1>4. [d EXCEPT !.held = t] = [held |-> t, last |-> l]
  OBVIOUS
<1> QED
  BY <1>1, <1>3, <1>4

(* A frame of earlier packets leaves the decoder, at the end of the stream *)
(* or before.                                                              *)
LEMMA TakenKeeps ==
  ASSUME DecodeInv, source.open, source.decoder.held # <<>>, NEW eof \in BOOLEAN,
         eof \/ (~source.eof /\ HasFrame(source.decoder, camera.delay, FALSE)),
         NEW top,
         ModeOK(top, camera.idle),
         top.active = "all" => control.active = "all",
         Sample(top, <<>>, <<Head(source.decoder.held)>>, eof, Taken(source.decoder))
  PROVE  DecodeInv'
<1> DEFINE decoder == Taken(source.decoder)
           held == source.decoder.held
<1>1. IsSeq(held) /\ source.decoder = [held |-> held, last |-> source.decoder.last]
  BY DEF DecodeInv, SourceOK
<1>2. decoder = [held |-> Tail(held), last |-> source.decoder.last]
  <2> HIDE DEF held
  <2>1. Taken([held |-> held, last |-> source.decoder.last])
          = [held |-> Tail(held), last |-> source.decoder.last]
    BY TakenShape
  <2> QED
    BY <1>1, <2>1 DEF decoder
<1> HIDE DEF decoder
<1>3. /\ IsSeq(Tail(held)) /\ Len(Tail(held)) = Len(held) - 1 /\ Len(held) \in Nat \ {0}
      /\ \A i \in 1..Len(Tail(held)) : Tail(held)[i] = held[i + 1]
  BY <1>1, TailOne
<1>4. \A i \in 1..Len(decoder.held) : decoder.held[i].whole
  <2>1. \A i \in 1..Len(held) : held[i].whole
    BY DEF DecodeInv, DecodesWhole
  <2> HIDE DEF held
  <2>2. decoder.held = Tail(held)
    BY <1>2
  <2> QED
    BY <1>3, <2>1, <2>2
<1>5. received \o <<>> = received /\ IsSeq(received)
  BY ConcatOne DEF DecodeInv, SourceOK
<1>6. \/ eof
      \/ decoder.last = Len(received \o <<>>)
  <2>1. decoder.last = source.decoder.last
    BY <1>2
  <2>2. eof \/ source.decoder.last = Len(received)
    BY DEF DecodeInv, KeepsUp
  <2> QED
    BY <1>5, <2>1, <2>2
<1> HIDE DEF held
<1>7. Sample(top, <<>>, <<Head(held)>>, eof, decoder)
  BY DEF decoder, held
<1>8. decoder = [held |-> decoder.held, last |-> decoder.last] /\ IsSeq(decoder.held)
  BY <1>2, <1>3
<1>9. IsSeq(received \o <<>>)
  BY <1>5
<1> QED
  BY <1>4, <1>6, <1>7, <1>8, <1>9, SampleKeeps

(* A packet that is decoded brings the decoder up to the packets, and what *)
(* it refers to has been decoded; a packet that is skipped leaves nothing. *)
LEMMA SentKeeps ==
  ASSUME DecodeInv, ~source.eof, ~HasFrame(source.decoder, camera.delay, FALSE),
         NEW packet, packet.n = Len(received) + 1, packet.key \in BOOLEAN,
         NEW mode \in Modes, mode = "all" => control.active = "all",
         NEW decoder, decoder = Sent(source.decoder, packet, mode)
  PROVE  /\ decoder = [held |-> decoder.held, last |-> decoder.last]
         /\ IsSeq(decoder.held)
         /\ \A i \in 1..Len(decoder.held) : decoder.held[i].whole
         /\ \/ decoder = source.decoder /\ mode = "keyframes" /\ ~packet.key
            \/ decoder.last = Len(received) + 1 /\ decoder.held # <<>>
<1>1. /\ source.decoder = [held |-> source.decoder.held, last |-> source.decoder.last]
      /\ IsSeq(source.decoder.held)
      /\ \A i \in 1..Len(source.decoder.held) : source.decoder.held[i].whole
  BY DEF DecodeInv, SourceOK, DecodesWhole
<1>2. CASE mode = "keyframes" /\ ~packet.key
  <2>1. decoder = source.decoder
    BY <1>2 DEF Sent
  <2> QED
    BY <1>1, <1>2, <2>1
<1>3. CASE ~(mode = "keyframes" /\ ~packet.key)
  <2> DEFINE held == source.decoder.held
             whole == packet.key \/ source.decoder.last = packet.n - 1
             frame == [n |-> packet.n, key |-> packet.key, dts |-> packet.dts,
                       whole |-> whole]
  <2>1. decoder = [last |-> packet.n, held |-> Append(held, frame)]
    BY <1>3 DEF Sent
  <2>2. IsSeq(received)
    BY DEF DecodeInv, SourceOK
  <2>3. Len(received) \in Nat
    BY <2>2 DEF IsSeq
  <2>4. frame.whole
    <3>1. packet.key \/ mode = "all"
      BY <1>3 DEF Modes
    <3>2. mode = "all" => source.decoder.last = Len(received)
      BY DEF DecodeInv, KeepsUp
    <3>3. whole
      BY <2>3, <3>1, <3>2
    <3> HIDE DEF whole
    <3>4. frame.whole = whole
      OBVIOUS
    <3> QED
      BY <3>3, <3>4
  <2> HIDE DEF frame, held
  <2>5. /\ IsSeq(Append(held, frame)) /\ Len(Append(held, frame)) = Len(held) + 1
        /\ Len(held) \in Nat
        /\ \A i \in 1..Len(held) : Append(held, frame)[i] = held[i]
        /\ Append(held, frame)[Len(held) + 1] = frame
    BY <1>1, AppendOne DEF held
  <2>6. \A i \in 1..Len(held) : held[i].whole
    BY <1>1 DEF held
  <2>7. \A i \in 1..Len(Append(held, frame)) : Append(held, frame)[i].whole
    <3> SUFFICES ASSUME NEW i \in 1..Len(Append(held, frame))
                 PROVE  Append(held, frame)[i].whole
      OBVIOUS
    <3>1. i \in 1..Len(held) \/ i = Len(held) + 1
      BY <2>5
    <3> QED
      BY <2>4, <2>5, <2>6, <3>1
  <2>8. Append(held, frame) # <<>>
    <3> DEFINE grown == Append(held, frame)
    <3>1. Len(grown) = Len(held) + 1 /\ Len(held) \in Nat
      BY <2>5
    <3> HIDE DEF grown
    <3>2. grown # <<>>
      BY <3>1
    <3> QED
      BY <3>2 DEF grown
  <2>9. decoder.held = Append(held, frame) /\ decoder.last = packet.n
    BY <2>1
  <2>10. decoder = [held |-> decoder.held, last |-> decoder.last]
    BY <2>1
  <2> QED
    BY <2>5, <2>7, <2>8, <2>9, <2>10
<1> QED
  BY <1>2, <1>3

(* A packet, and the frame that comes out.                                 *)
LEMMA PacketKeeps ==
  ASSUME DecodeInv, NEW wanted \in Wants, NEW key \in BOOLEAN, NEW gap, NEW step,
         ReadPacket(Updated(control, wanted, FALSE, clock), key, gap, step)
  PROVE  DecodeInv'
<1> DEFINE top == Updated(control, wanted, FALSE, clock)
<1>1. PICK packet :
        /\ packet.n = Len(received) + 1 /\ packet.key = key
        /\ LET decoder == Sent(source.decoder, packet, top.active)
               out == decoder # source.decoder /\ HasFrame(decoder, camera.delay, FALSE)
           IN Sample(top, <<packet>>, IF out THEN <<Head(decoder.held)>> ELSE <<>>, FALSE,
                     IF out THEN Taken(decoder) ELSE decoder)
  <2> DEFINE before == {i \in 1..Len(received) : received[i].dts # NoStamp}
             dts == IF ~Repairs THEN Len(received) * TicksPerSecond
                    ELSE IF step = NoStamp THEN NoStamp
                    ELSE IF before = {} THEN 0 ELSE received[Max(before)].dts + step
             packet == [n |-> Len(received) + 1, key |-> key, at |-> clock + gap,
                        dts |-> dts]
  <2>1. LET decoder == Sent(source.decoder, packet, top.active)
            out == decoder # source.decoder /\ HasFrame(decoder, camera.delay, FALSE)
        IN Sample(top, <<packet>>, IF out THEN <<Head(decoder.held)>> ELSE <<>>, FALSE,
                  IF out THEN Taken(decoder) ELSE decoder)
    BY Zenon DEF ReadPacket
  <2> HIDE DEF dts
  <2>2. packet.n = Len(received) + 1 /\ packet.key = key
    OBVIOUS
  <2> HIDE DEF packet, top
  <2> QED
    BY <2>1, <2>2
<1>2. source.open /\ ~source.eof /\ ~HasFrame(source.decoder, camera.delay, source.eof)
  BY DEF ReadPacket, Reads, HasDrained
<1>3. ~HasFrame(source.decoder, camera.delay, FALSE)
  <2>1. source.eof = FALSE
    BY <1>2 DEF DecodeInv, SourceOK
  <2> QED
    BY <1>2, <2>1
<1>4. ModeOK(top, camera.idle) /\ (top.active = "all" => control.active = "all")
  BY TopMode
<1>5. top.active \in Modes
  BY <1>4 DEF ModeOK
<1> HIDE DEF top
<1> DEFINE decoder == Sent(source.decoder, packet, top.active)
           out == decoder # source.decoder /\ HasFrame(decoder, camera.delay, FALSE)
<1>6. /\ decoder = [held |-> decoder.held, last |-> decoder.last]
      /\ IsSeq(decoder.held)
      /\ \A i \in 1..Len(decoder.held) : decoder.held[i].whole
      /\ \/ decoder = source.decoder /\ top.active = "keyframes" /\ ~packet.key
         \/ decoder.last = Len(received) + 1 /\ decoder.held # <<>>
  BY <1>1, <1>2, <1>3, <1>4, <1>5, SentKeeps
<1>7. Len(received \o <<packet>>) = Len(received) + 1 /\ IsSeq(received \o <<packet>>)
  BY ConcatOne DEF DecodeInv, SourceOK
<1>8. Sample(top, <<packet>>, IF out THEN <<Head(decoder.held)>> ELSE <<>>, FALSE,
             IF out THEN Taken(decoder) ELSE decoder)
  BY <1>1
<1> HIDE DEF decoder
<1>9. CASE ~out
  <2>1. Sample(top, <<packet>>, <<>>, FALSE, decoder)
    BY <1>8, <1>9
  <2>2. \/ decoder.last = Len(received \o <<packet>>)
        \/ /\ top.active # "all" /\ ~Crosses(<<packet>>, <<>>)
           /\ ~HasFrame(decoder, camera.delay, FALSE)
    <3>1. CASE decoder.last = Len(received) + 1
      BY <1>7, <3>1
    <3>2. CASE decoder = source.decoder /\ top.active = "keyframes" /\ ~packet.key
      BY <1>3, <3>2 DEF Crosses
    <3> QED
      BY <1>6, <3>1, <3>2
  <2> QED
    BY <1>2, <1>4, <1>6, <1>7, <2>1, <2>2, SampleKeeps
<1>10. CASE out
  <2> DEFINE taken == Taken(decoder)
  <2>1. Sample(top, <<packet>>, <<Head(decoder.held)>>, FALSE, taken)
    BY <1>8, <1>10
  <2>2. decoder.last = Len(received \o <<packet>>) /\ decoder.held # <<>>
    BY <1>6, <1>7, <1>10
  <2>3. taken = [held |-> Tail(decoder.held), last |-> decoder.last]
    <3> DEFINE h == decoder.held
               l == decoder.last
    <3>1. decoder = [held |-> h, last |-> l]
      BY <1>6
    <3> HIDE DEF h, l
    <3>2. Taken([held |-> h, last |-> l]) = [held |-> Tail(h), last |-> l]
      BY TakenShape
    <3>3. Taken(decoder) = [held |-> Tail(h), last |-> l]
      BY <3>1, <3>2
    <3> QED
      BY <3>3 DEF h, l
  <2> HIDE DEF taken
  <2>4. /\ IsSeq(Tail(decoder.held))
        /\ Len(Tail(decoder.held)) = Len(decoder.held) - 1
        /\ Len(decoder.held) \in Nat \ {0}
        /\ \A i \in 1..Len(Tail(decoder.held)) : Tail(decoder.held)[i] = decoder.held[i + 1]
    BY <1>6, <2>2, TailOne
  <2>5. taken.held = Tail(decoder.held) /\ taken.last = decoder.last
    BY <2>3
  <2>6. \A i \in 1..Len(taken.held) : taken.held[i].whole
    BY <1>6, <2>4, <2>5
  <2>7. taken = [held |-> taken.held, last |-> taken.last]
    BY <2>3, <2>5
  <2> HIDE DEF out
  <2> QED
    BY <1>2, <1>4, <1>7, <2>1, <2>2, <2>4, <2>5, <2>6, <2>7, SampleKeeps
<1> QED
  BY <1>9, <1>10

(* Nothing has been read or decided yet.                                   *)
LEMMA DecodeInit == Init => DecodeInv
<1> SUFFICES ASSUME Init PROVE DecodeInv
  OBVIOUS
<1>1. camera.idle \in Modes
  BY CamerasAssumption DEF Init, CameraType, Modes
<1>2. control = [idle |-> camera.idle, active |-> camera.idle,
                 requested |-> camera.idle, until |-> 0]
  BY DEF Init, Controller
<1>3. ControlOK
  BY <1>1, <1>2 DEF ControlOK, ModeOK
<1>4. IsSeq(<<>>)
  <2>1. <<>> \in Seq({})
    OBVIOUS
  <2> QED
    BY <2>1 DEF IsSeq
<1>5. source = ClosedSource /\ received = <<>>
  BY DEF Init
<1>6. SourceOK
  BY <1>4, <1>5 DEF SourceOK, ClosedSource, NewDecoder
<1>7. source.decoder.last = Len(received) /\ source.decoder.held = <<>>
  BY <1>5 DEF ClosedSource, NewDecoder
<1>8. KeepsUp /\ DecodesWhole
  BY <1>7 DEF KeepsUp, DecodesWhole, HasFrame
<1> QED
  BY <1>3, <1>6, <1>8 DEF DecodeInv

(* A turn of the loop, whatever it reads.                                  *)
LEMMA TurnKeeps == DecodeInv /\ Turn => DecodeInv'
<1> SUFFICES ASSUME DecodeInv, Turn PROVE DecodeInv'
  OBVIOUS
<1>1. PICK wanted \in Wants :
        LET top == Updated(control, wanted, FALSE, clock)
        IN \/ ReadDrained(top) \/ ReadAgain(top) \/ ReadEnd(top)
           \/ \E key \in BOOLEAN, gap \in camera.gaps, step \in camera.steps :
                ReadPacket(top, key, gap, step)
  BY DEF Turn
<1> DEFINE top == Updated(control, wanted, FALSE, clock)
<1>2. ModeOK(top, camera.idle) /\ (top.active = "all" => control.active = "all")
  BY TopMode
<1>3. source.open \in BOOLEAN /\ source.eof \in BOOLEAN
  BY DEF DecodeInv, SourceOK
<1>4. CASE \E key \in BOOLEAN, gap \in camera.gaps, step \in camera.steps :
             ReadPacket(top, key, gap, step)
  BY <1>4, PacketKeeps
<1> HIDE DEF top
<1>5. CASE ReadDrained(top)
  <2>1. /\ source.open /\ source.decoder.held # <<>>
        /\ source.eof \/ HasFrame(source.decoder, camera.delay, FALSE)
        /\ Sample(top, <<>>, <<Head(source.decoder.held)>>, source.eof, Taken(source.decoder))
    BY <1>5 DEF ReadDrained, HasDrained, HasFrame
  <2> QED
    BY <1>2, <1>3, <2>1, TakenKeeps
<1>6. CASE ReadEnd(top)
  <2>1. /\ source.open /\ source.decoder.held # <<>>
        /\ Sample(top, <<>>, <<Head(source.decoder.held)>>, TRUE, Taken(source.decoder))
    BY <1>6 DEF ReadEnd, Reads
  <2> QED
    BY <1>2, <2>1, TakenKeeps
<1>7. CASE ReadAgain(top)
  <2>1. /\ control' = top
        /\ camera' = camera /\ source' = source /\ received' = received
    BY <1>7 DEF ReadAgain
  <2>2. ControlOK'
    BY <1>2, <2>1 DEF DecodeInv, ControlOK
  <2>3. SourceOK' /\ DecodesWhole'
    BY <2>1 DEF DecodeInv, SourceOK, DecodesWhole
  <2>4. HasFrame(source'.decoder, camera'.delay, FALSE)
          <=> HasFrame(source.decoder, camera.delay, FALSE)
    BY <2>1
  <2>5. KeepsUp'
    BY <1>2, <2>1, <2>4 DEF DecodeInv, KeepsUp
  <2> QED
    BY <2>2, <2>3, <2>5 DEF DecodeInv
<1> QED
  BY <1>1, <1>4, <1>5, <1>6, <1>7 DEF top

(* The steps that read nothing: they leave the decoder alone, or begin     *)
(* with a new one.                                                         *)
LEMMA FreshKeeps ==
  ASSUME camera' = camera, camera.idle \in Modes,
         ModeOK(control', camera.idle),
         NEW open \in BOOLEAN,
         source' = [open |-> open, eof |-> FALSE, decoder |-> NewDecoder, next |-> NoStamp],
         received' = <<>>
  PROVE  DecodeInv'
<1>1. ControlOK'
  BY DEF ControlOK
<1>2. IsSeq(<<>>)
  <2>1. <<>> \in Seq({})
    OBVIOUS
  <2> QED
    BY <2>1 DEF IsSeq
<1>3. NewDecoder = [held |-> NewDecoder.held, last |-> NewDecoder.last]
      /\ NewDecoder.held = <<>> /\ NewDecoder.last = 0
  BY DEF NewDecoder
<1>4. ~open => source' = ClosedSource
  BY DEF ClosedSource
<1>5. SourceOK'
  BY <1>2, <1>3, <1>4 DEF SourceOK
<1>6. source'.decoder.last = Len(received') /\ source'.decoder.held = <<>>
  BY <1>3
<1>7. KeepsUp' /\ DecodesWhole'
  BY <1>6 DEF KeepsUp, DecodesWhole, HasFrame
<1> QED
  BY <1>1, <1>5, <1>7 DEF DecodeInv

LEMMA SameKeeps ==
  ASSUME DecodeInv, camera' = camera, control' = control, source' = source,
         received' = received
  PROVE  DecodeInv'
<1>1. ControlOK' /\ SourceOK' /\ DecodesWhole'
  BY DEF DecodeInv, ControlOK, SourceOK, DecodesWhole
<1>2. HasFrame(source'.decoder, camera'.delay, FALSE)
        <=> HasFrame(source.decoder, camera.delay, FALSE)
  OBVIOUS
<1>3. KeepsUp'
  BY <1>2 DEF DecodeInv, KeepsUp
<1> QED
  BY <1>1, <1>3 DEF DecodeInv

LEMMA DecodeStep == DecodeInv /\ [Next]_vars => DecodeInv'
<1> SUFFICES ASSUME DecodeInv, [Next]_vars PROVE DecodeInv'
  OBVIOUS
<1>0. camera.idle \in Modes /\ ModeOK(control, camera.idle)
  BY DEF DecodeInv, ControlOK
<1>1. CASE Turn
  BY <1>1, TurnKeeps
<1>2. CASE Connect
  <2>1. /\ camera' = camera /\ control' = Controller(camera.idle)
        /\ source' = [ClosedSource EXCEPT !.open = TRUE] /\ received' = received
        /\ ~source.open
    BY <1>2 DEF Connect
  <2>2. received' = <<>>
    BY <2>1 DEF DecodeInv, SourceOK
  <2>3. ModeOK(control', camera.idle)
    BY <1>0, <2>1 DEF Controller, ModeOK
  <2>4. source' = [open |-> TRUE, eof |-> FALSE, decoder |-> NewDecoder, next |-> NoStamp]
    BY <2>1 DEF ClosedSource
  <2> QED
    BY <1>0, <2>1, <2>2, <2>3, <2>4, FreshKeeps
<1>3. CASE Disconnect
  <2>1. /\ camera' = camera /\ control' = control
        /\ source' = ClosedSource /\ received' = <<>>
    BY <1>3 DEF Disconnect
  <2>2. source' = [open |-> FALSE, eof |-> FALSE, decoder |-> NewDecoder, next |-> NoStamp]
    BY <2>1 DEF ClosedSource
  <2> QED
    BY <1>0, <2>1, <2>2, FreshKeeps
<1>4. CASE OpenFails
  <2>1. camera' = camera /\ control' = control /\ source' = source /\ received' = received
    BY <1>4 DEF OpenFails, streamVars
  <2> QED
    BY <2>1, SameKeeps
<1>5. CASE \E identified \in BOOLEAN, probe \in {"available", "refused", "unavailable"} :
             Detect(identified, probe)
  <2>1. camera' = camera /\ control' = control /\ source' = source /\ received' = received
    BY <1>5 DEF Detect, streamVars
  <2> QED
    BY <2>1, SameKeeps
<1>6. CASE UNCHANGED vars
  <2>1. camera' = camera /\ control' = control /\ source' = source /\ received' = received
    BY <1>6 DEF vars, streamVars
  <2> QED
    BY <2>1, SameKeeps
<1> QED
  BY <1>1, <1>2, <1>3, <1>4, <1>5, <1>6 DEF Next

(* Full decoding is switched on only where a keyframe lets it begin        *)
(* (FrameDecodeController::update, called with keyframe_boundary from the  *)
(* sample loop): no frame is ever decoded whose references were skipped.   *)
THEOREM NeverHalfDecoded == Spec => []DecodesWhole
<1>1. DecodeInv => DecodesWhole
  BY DEF DecodeInv
<1> QED
  BY <1>1, DecodeInit, DecodeStep, PTL DEF Spec

-----------------------------------------------------------------------------
(* A worker reads natively only over a link that it has established; and a *)
(* refusal leaves no transport selected, so that nothing can be opened.    *)
LinkInv ==
  /\ link = [selected |-> link.selected, skip |-> link.skip,
             established |-> link.established, refused |-> link.refused,
             native |-> link.native]
  /\ link.native => link.established /\ link.selected = "baichuan"
  /\ link.refused => link.selected = "none"
  /\ source.open => link.selected # "none"

LEMMA LinkInit == Init => LinkInv
<1> SUFFICES ASSUME Init PROVE LinkInv
  OBVIOUS
<1>1. \E established : link = FirstLink(established)
  BY DEF Init
<1>2. PICK established : link = FirstLink(established)
  BY <1>1
<1>3. ~source.open
  BY DEF Init, ClosedSource
<1> QED
  BY <1>2, <1>3 DEF LinkInv, FirstLink

(* A turn of the loop leaves the link and the connection alone.            *)
LEMMA TurnLink == DecodeInv /\ Turn => link' = link /\ source'.open = source.open
<1> SUFFICES ASSUME DecodeInv, Turn PROVE link' = link /\ source'.open = source.open
  OBVIOUS
<1>1. ASSUME NEW top, NEW packet, NEW frame, NEW eof, NEW decoder,
             Sample(top, packet, frame, eof, decoder)
      PROVE  link' = link /\ source'.open = source.open
  <2>1. link' = link
    BY <1>1, SampleFacts
  <2>2. \E next : source' = [source EXCEPT !.eof = eof, !.decoder = decoder, !.next = next]
    <3>1. PICK wanted \in BOOLEAN, boundary \in BOOLEAN :
             /\ control' = Updated(top, wanted, boundary, clock')
             /\ boundary => Crosses(packet, frame)
             /\ received' = received \o packet
             /\ \E next : source' = [source EXCEPT !.eof = eof, !.decoder = decoder,
                                                 !.next = next]
             /\ camera' = camera /\ link' = link
      BY <1>1, SampleFacts
    <3> QED
      BY <3>1
  <2>3. PICK next : source' = [source EXCEPT !.eof = eof, !.decoder = decoder, !.next = next]
    BY <2>2
  <2>4. source = [open |-> source.open, eof |-> source.eof, decoder |-> source.decoder,
                  next |-> source.next]
    BY DEF DecodeInv, SourceOK
  <2>5. source'.open = source.open
    BY <2>3, <2>4
  <2> QED
    BY <2>1, <2>5
<1>2. PICK wanted \in Wants :
        LET top == Updated(control, wanted, FALSE, clock)
        IN \/ ReadDrained(top) \/ ReadAgain(top) \/ ReadEnd(top)
           \/ \E key \in BOOLEAN, gap \in camera.gaps, step \in camera.steps :
                ReadPacket(top, key, gap, step)
  BY DEF Turn
<1> DEFINE top == Updated(control, wanted, FALSE, clock)
<1> HIDE DEF top
<1>3. CASE ReadDrained(top)
  BY <1>1, <1>3 DEF ReadDrained
<1>4. CASE ReadEnd(top)
  BY <1>1, <1>4 DEF ReadEnd
<1>5. CASE ReadAgain(top)
  BY <1>5 DEF ReadAgain
<1>6. CASE \E key \in BOOLEAN, gap \in camera.gaps, step \in camera.steps :
             ReadPacket(top, key, gap, step)
  <2>1. PICK key \in BOOLEAN, gap \in camera.gaps, step \in camera.steps :
          ReadPacket(top, key, gap, step)
    BY <1>6
  <2> DEFINE before == {i \in 1..Len(received) : received[i].dts # NoStamp}
             packet == [n |-> Len(received) + 1, key |-> key, at |-> clock + gap,
                        dts |-> IF ~Repairs THEN Len(received) * TicksPerSecond
                                ELSE IF step = NoStamp THEN NoStamp
                                ELSE IF before = {} THEN 0
                                ELSE received[Max(before)].dts + step]
             decoder == Sent(source.decoder, packet, top.active)
             out == decoder # source.decoder /\ HasFrame(decoder, camera.delay, FALSE)
  <2>2. Sample(top, <<packet>>, IF out THEN <<Head(decoder.held)>> ELSE <<>>, FALSE,
               IF out THEN Taken(decoder) ELSE decoder)
    BY <2>1, Zenon DEF ReadPacket
  <2> HIDE DEF packet, decoder, out
  <2> QED
    BY <1>1, <2>2
<1> QED
  BY <1>2, <1>3, <1>4, <1>5, <1>6 DEF top

LEMMA LinkStep == DecodeInv /\ LinkInv /\ [Next]_vars => LinkInv'
<1> SUFFICES ASSUME DecodeInv, LinkInv, [Next]_vars PROVE LinkInv'
  OBVIOUS
<1>1. CASE Turn
  <2>1. link' = link /\ source'.open = source.open
    BY <1>1, TurnLink
  <2> QED
    BY <2>1 DEF LinkInv
<1>2. CASE Connect
  <2>1. CASE link.selected = "baichuan"
    <3>1. link' = [link EXCEPT !.established = TRUE, !.native = TRUE]
      BY <1>2, <2>1 DEF Connect
    <3>2. link' = [selected |-> link.selected, skip |-> link.skip, established |-> TRUE,
                   refused |-> link.refused, native |-> TRUE]
      BY <3>1 DEF LinkInv
    <3> QED
      BY <2>1, <3>2 DEF LinkInv
  <2>2. CASE link.selected # "baichuan"
    <3>1. link' = link /\ link.selected # "none"
      BY <1>2, <2>2 DEF Connect
    <3> QED
      BY <3>1 DEF LinkInv
  <2> QED
    BY <2>1, <2>2
<1>3. CASE Disconnect
  <2>1. link' = link /\ source' = ClosedSource
    BY <1>3 DEF Disconnect
  <2> QED
    BY <2>1 DEF LinkInv, ClosedSource
<1>4. CASE OpenFails
  <2>1. ~source.open /\ source' = source /\ link.selected # "none"
    BY <1>4 DEF OpenFails, streamVars
  <2>2. CASE Reselects
    <3>1. link' = [link EXCEPT !.skip = TRUE, !.selected = "none"]
      BY <1>4, <2>2 DEF OpenFails
    <3>2. link' = [selected |-> "none", skip |-> TRUE, established |-> link.established,
                   refused |-> link.refused, native |-> link.native]
      BY <3>1 DEF LinkInv
    <3>3. ~link.established
      BY <2>2 DEF Reselects
    <3> QED
      BY <2>1, <3>2, <3>3 DEF LinkInv
  <2>3. CASE ~Reselects
    <3>1. link' = link
      BY <1>4, <2>3 DEF OpenFails
    <3> QED
      BY <2>1, <3>1 DEF LinkInv
  <2> QED
    BY <2>2, <2>3
<1>5. CASE \E identified \in BOOLEAN, probe \in {"available", "refused", "unavailable"} :
             Detect(identified, probe)
  <2>1. PICK identified \in BOOLEAN, probe \in {"available", "refused", "unavailable"} :
          Detect(identified, probe)
    BY <1>5
  <2> DEFINE refused == ~link.skip /\ probe = "refused" /\ camera.userpass
             selected == IF ~link.skip /\ probe = "available" THEN "baichuan"
                         ELSE IF refused THEN "none"
                         ELSE IF identified THEN "onvif"
                         ELSE IF camera.url = "onvif" THEN "none" ELSE "direct"
  <2>2. /\ ~source.open /\ source' = source /\ link.selected = "none"
        /\ link' = [link EXCEPT !.refused = refused, !.selected = selected]
    BY <2>1 DEF Detect, streamVars
  <2>3. refused => selected = "none"
    OBVIOUS
  <2> HIDE DEF refused, selected
  <2>4. link' = [selected |-> selected, skip |-> link.skip,
                 established |-> link.established, refused |-> refused,
                 native |-> link.native]
    BY <2>2 DEF LinkInv
  <2>5. ~link.native
    BY <2>2 DEF LinkInv
  <2> QED
    BY <2>2, <2>3, <2>4, <2>5 DEF LinkInv
<1>6. CASE UNCHANGED vars
  BY <1>6 DEF vars, streamVars, LinkInv
<1> QED
  BY <1>1, <1>2, <1>3, <1>4, <1>5, <1>6 DEF Next

(* Once it has read from a camera natively, a worker never leaves it for   *)
(* RTSP (auto_baichuan_open_failure_requires_reselection), and an          *)
(* authentication failure is not silently downgraded                       *)
(* (detect_media_transport): nothing is open while the camera refuses.     *)
THEOREM ChoiceIsKept == Spec => []NotDowngraded
<1>1. LinkInv => NotDowngraded
  BY DEF LinkInv, NotDowngraded
<1> QED
  BY <1>1, DecodeInit, DecodeStep, LinkInit, LinkStep, PTL DEF Spec

-----------------------------------------------------------------------------
(* The ring                                                                *)

(* Any set of numbers has a least element, and a bounded one a greatest.   *)
LEMMA LeastOf ==
  ASSUME NEW T \in SUBSET Nat, T # {}
  PROVE  Min(T) \in T /\ \A y \in T : Min(T) <= y
<1>1. PICK x \in T : \A y \in T : ~ (<<y, x>> \in OpToRel(<, Nat))
  BY NatLessThanWellFounded, WFMin
<1>2. \A y \in T : ~(y < x)
  BY <1>1 DEF OpToRel
<1>3. \A y \in T : x <= y
  BY <1>2
<1> QED
  BY <1>3 DEF Min

LEMMA GreatestOf ==
  ASSUME NEW T \in SUBSET Nat, T # {}, NEW bound \in Nat, \A y \in T : y <= bound
  PROVE  Max(T) \in T /\ \A y \in T : y <= Max(T)
<1> DEFINE above == {u \in Nat : \A y \in T : y <= u}
           x == Min(above)
<1>1. x \in above /\ \A u \in above : x <= u
  <2>1. above \in SUBSET Nat /\ bound \in above
    OBVIOUS
  <2> HIDE DEF above
  <2> QED
    BY <2>1, LeastOf
<1> HIDE DEF x
<1>2. x \in T
  <2> SUFFICES ASSUME x \notin T
               PROVE  FALSE
    OBVIOUS
  <2>1. \A y \in T : y <= x /\ y # x
    BY <1>1
  <2>2. x # 0
    <3>1. PICK y \in T : TRUE
      OBVIOUS
    <3> QED
      BY <2>1, <3>1
  <2>3. x - 1 \in above
    BY <1>1, <2>1, <2>2
  <2> QED
    BY <1>1, <2>3
<1>3. \A y \in T : x >= y
  BY <1>1
<1> QED
  BY <1>2, <1>3 DEF Max

(* Packets with a flag and a time of arrival.                              *)
Packets(s) ==
  IsSeq(s) /\ \A i \in 1..Len(s) : s[i].key \in BOOLEAN /\ s[i].at \in Nat

LEMMA OldestKeyIs ==
  ASSUME NEW s, Len(s) \in Nat
  PROVE  \/ OldestKey(s) = 0 /\ \A i \in 1..Len(s) : ~s[i].key
         \/ /\ OldestKey(s) \in 1..Len(s) /\ s[OldestKey(s)].key
            /\ \A i \in 1..Len(s) : s[i].key => OldestKey(s) <= i
<1> DEFINE T == {i \in 1..Len(s) : s[i].key}
<1>1. OldestKey(s) = IF T # {} THEN Min(T) ELSE 0
  BY DEF OldestKey, SelectInSeq
<1>2. T \in SUBSET Nat
  OBVIOUS
<1>3. \A i : i \in T <=> i \in 1..Len(s) /\ s[i].key
  OBVIOUS
<1> HIDE DEF T
<1>4. T # {} => Min(T) \in T /\ \A y \in T : Min(T) <= y
  BY <1>2, LeastOf
<1> HIDE DEF Min
<1> QED
  BY <1>1, <1>3, <1>4

LEMMA AlignedBeginIs ==
  ASSUME NEW s, Len(s) \in Nat, NEW cutoff
  PROVE  \/ /\ AlignedBegin(s, cutoff) = OldestKey(s)
            /\ \A i \in 1..Len(s) : ~(s[i].key /\ s[i].at <= cutoff)
         \/ LET b == AlignedBegin(s, cutoff)
            IN /\ b \in 1..Len(s) /\ s[b].key /\ s[b].at <= cutoff
               /\ \A i \in 1..Len(s) : s[i].key /\ s[i].at <= cutoff => i <= b
<1> DEFINE T == {i \in 1..Len(s) : s[i].key /\ s[i].at <= cutoff}
           aligned == IF T # {} THEN Max(T) ELSE 0
<1>1. AlignedBegin(s, cutoff) = IF aligned # 0 THEN aligned ELSE OldestKey(s)
  BY DEF AlignedBegin, SelectLastInSeq
<1>2. T \in SUBSET Nat /\ \A y \in T : y <= Len(s)
  OBVIOUS
<1>3. \A i : i \in T <=> i \in 1..Len(s) /\ s[i].key /\ s[i].at <= cutoff
  OBVIOUS
<1> HIDE DEF T
<1>4. T # {} => Max(T) \in T /\ \A y \in T : y <= Max(T)
  BY <1>2, GreatestOf
<1> HIDE DEF Max
<1>5. CASE T = {}
  BY <1>1, <1>3, <1>5
<1>6. CASE T # {}
  <2>1. aligned \in T /\ aligned \in 1..Len(s) /\ \A y \in T : y <= aligned
    BY <1>3, <1>4, <1>6
  <2>2. AlignedBegin(s, cutoff) = aligned
    BY <1>1, <2>1
  <2> QED
    BY <1>3, <2>1, <2>2
<1> QED
  BY <1>5, <1>6

(* What PrerollStart says of the packets.                                  *)
LEMMA PrerollStartIs ==
  ASSUME NEW s, Len(s) \in Nat
  PROVE  LET count == Len(s)
             q == PrerollStart(s)
             Early(i) == s[i].at <= s[count].at - Preroll
         IN \/ q = 0 /\ \A i \in 1..count : i > count - MaxRing => ~s[i].key
            \/ /\ q \in 1..count /\ q > count - MaxRing /\ s[q].key
               /\ \/ /\ Early(q)
                     /\ \A i \in 1..count : s[i].key /\ Early(i) => i <= q
                  \/ \A i \in 1..count : i > count - MaxRing /\ s[i].key =>
                       ~Early(i) /\ q <= i
<1> DEFINE count == Len(s)
           kept == {i \in 1..count : s[i].key /\ i > count - MaxRing}
           early == {i \in kept : s[i].at <= s[count].at - Preroll}
           q == PrerollStart(s)
<1>1. q = IF early # {} THEN Max(early) ELSE IF kept # {} THEN Min(kept) ELSE 0
  BY DEF PrerollStart
<1>2. /\ \A i : i \in kept <=> i \in 1..count /\ s[i].key /\ i > count - MaxRing
      /\ \A i : i \in early <=> i \in kept /\ s[i].at <= s[count].at - Preroll
  OBVIOUS
<1>3. kept \in SUBSET Nat /\ early \in SUBSET Nat /\ count \in Nat
      /\ \A y \in early : y <= count
  OBVIOUS
<1> HIDE DEF kept, early, q
<1>4. kept # {} => Min(kept) \in kept /\ \A y \in kept : Min(kept) <= y
  BY <1>3, LeastOf
<1>5. early # {} => Max(early) \in early /\ \A y \in early : y <= Max(early)
  BY <1>3, GreatestOf
<1> HIDE DEF Max, Min
<1>6. CASE early # {}
  <2>1. q \in early /\ \A y \in early : y <= q
    BY <1>1, <1>5, <1>6
  <2>2. \A i \in 1..count : s[i].key /\ s[i].at <= s[count].at - Preroll => i <= q
    <3> SUFFICES ASSUME NEW i \in 1..count, s[i].key, s[i].at <= s[count].at - Preroll, i > q
                 PROVE  FALSE
      BY <1>2, <1>3, <2>1
    <3>1. i > count - MaxRing
      BY <1>2, <1>3, <2>1, RingAssumption
    <3> QED
      BY <1>2, <1>3, <2>1, <3>1
  <2> QED
    BY <1>2, <2>1, <2>2 DEF q
<1>7. CASE early = {} /\ kept # {}
  <2>1. q \in kept /\ \A y \in kept : q <= y
    BY <1>1, <1>4, <1>7
  <2> QED
    BY <1>2, <1>7, <2>1 DEF q
<1>8. CASE early = {} /\ kept = {}
  BY <1>1, <1>2, <1>8 DEF q
<1> QED
  BY <1>6, <1>7, <1>8

-----------------------------------------------------------------------------
(* A sequence of packets that are the last of those received.              *)
Suffix(s, packets) ==
  /\ IsSeq(s) /\ Len(s) <= Len(packets)
  /\ \A i \in 1..Len(s) : s[i] = packets[Len(packets) - Len(s) + i]

LEMMA SequenceFacts ==
  ASSUME NEW s, IsSeq(s)
  PROVE  /\ Len(s) \in Nat
         /\ \A b \in 1..(Len(s) + 1), e \in 0..Len(s) :
              /\ IsSeq(SubSeq(s, b, e))
              /\ Len(SubSeq(s, b, e)) = IF b <= e THEN e - b + 1 ELSE 0
              /\ \A i \in 1..(e - b + 1) : SubSeq(s, b, e)[i] = s[b + i - 1]
<1>1. PICK S : s \in Seq(S)
  BY DEF IsSeq
<1>2. Len(s) \in Nat
  BY <1>1
<1>3. ASSUME NEW b \in 1..(Len(s) + 1), NEW e \in 0..Len(s)
      PROVE  /\ SubSeq(s, b, e) \in Seq(S)
             /\ Len(SubSeq(s, b, e)) = IF b <= e THEN e - b + 1 ELSE 0
             /\ \A i \in 1..(e - b + 1) : SubSeq(s, b, e)[i] = s[b + i - 1]
  BY <1>1, <1>2
<1> QED
  BY <1>2, <1>3 DEF IsSeq

(* Two sequences with the same elements are the same.                      *)
LEMMA SameSequence ==
  ASSUME NEW s, IsSeq(s), NEW t, IsSeq(t), Len(s) = Len(t), \A i \in 1..Len(s) : s[i] = t[i]
  PROVE  s = t
<1>1. PICK S : s \in Seq(S)
  BY DEF IsSeq
<1>2. PICK T : t \in Seq(T)
  BY DEF IsSeq
<1>3. s \in Seq(S \union T) /\ t \in Seq(S \union T)
  BY <1>1, <1>2
<1> QED
  BY <1>3

(* The end of a suffix is a suffix.                                        *)
LEMMA SuffixOf ==
  ASSUME NEW packets, IsSeq(packets), NEW s, Suffix(s, packets), NEW b \in 1..(Len(s) + 1)
  PROVE  /\ Suffix(SubSeq(s, b, Len(s)), packets)
         /\ Len(SubSeq(s, b, Len(s))) = Len(s) - b + 1
<1>1. Len(packets) \in Nat /\ Len(s) \in Nat /\ Len(s) <= Len(packets)
  BY SequenceFacts DEF Suffix
<1>2. /\ IsSeq(SubSeq(s, b, Len(s)))
      /\ Len(SubSeq(s, b, Len(s))) = Len(s) - b + 1
      /\ \A i \in 1..(Len(s) - b + 1) : SubSeq(s, b, Len(s))[i] = s[b + i - 1]
  <2>1. Len(s) \in 0..Len(s) /\ (b <= Len(s) \/ b = Len(s) + 1)
    BY <1>1
  <2> QED
    BY <1>1, <2>1, SequenceFacts DEF Suffix
<1>3. ASSUME NEW i \in 1..(Len(s) - b + 1)
      PROVE  s[b + i - 1] = packets[Len(packets) - (Len(s) - b + 1) + i]
  <2>1. b + i - 1 \in 1..Len(s)
        /\ Len(packets) - Len(s) + (b + i - 1) = Len(packets) - (Len(s) - b + 1) + i
    BY <1>1
  <2> QED
    BY <2>1 DEF Suffix
<1> QED
  BY <1>1, <1>2, <1>3 DEF Suffix

(* The limit leaves a short suffix alone, and of a longer one what begins  *)
(* at the first keyframe of the last MaxRing packets.                      *)
LEMMA LimitedIs ==
  ASSUME NEW packets, IsSeq(packets), NEW s, Suffix(s, packets)
  PROVE  LET count == Len(packets)
         IN /\ Suffix(Limited(s), packets) /\ Len(Limited(s)) <= MaxRing
            /\ Len(s) <= MaxRing => Limited(s) = s
            /\ Len(s) > MaxRing =>
                 \/ \A i \in 1..count : i > count - MaxRing => ~packets[i].key
                 \/ \E k \in 1..count :
                      /\ k > count - MaxRing /\ packets[k].key
                      /\ \A i \in 1..count : i > count - MaxRing /\ packets[i].key => k <= i
                      /\ Len(Limited(s)) = count - k + 1
<1> DEFINE count == Len(packets)
<1>1. count \in Nat /\ Len(s) \in Nat /\ Len(s) <= count /\ MaxRing \in Nat \ {0}
  BY SequenceFacts, RingAssumption DEF Suffix
<1>2. CASE Len(s) <= MaxRing
  BY <1>1, <1>2 DEF Limited
<1>3. CASE Len(s) > MaxRing
  <2> DEFINE l == LastOf(s)
             k == OldestKey(l)
             from == IF k # 0 THEN k ELSE 1
  <2>1. Suffix(l, packets) /\ Len(l) = MaxRing
    <3>1. Len(s) - MaxRing + 1 \in 1..(Len(s) + 1)
          /\ Len(s) - (Len(s) - MaxRing + 1) + 1 = MaxRing
      BY <1>1, <1>3
    <3> QED
      BY <1>1, <3>1, SuffixOf DEF LastOf
  <2>2. Limited(s) = SubSeq(l, from, MaxRing)
    <3>1. ~(Len(s) <= MaxRing)
      BY <1>1, <1>3
    <3> QED
      BY <3>1, Zenon DEF Limited
  <2> HIDE DEF l, k
  <2>3. \/ k = 0 /\ \A i \in 1..MaxRing : ~l[i].key
        \/ /\ k \in 1..MaxRing /\ l[k].key
           /\ \A i \in 1..MaxRing : l[i].key => k <= i
    BY <1>1, <2>1, OldestKeyIs DEF k
  <2>4. from \in 1..(Len(l) + 1)
    BY <1>1, <2>1, <2>3
  <2>5. Suffix(Limited(s), packets) /\ Len(Limited(s)) = MaxRing - from + 1
    BY <2>1, <2>2, <2>4, SuffixOf
  <2>6. \A i \in 1..MaxRing : l[i] = packets[count - MaxRing + i]
    BY <2>1 DEF Suffix
  <2>7. \A j \in 1..count : j > count - MaxRing =>
          j - (count - MaxRing) \in 1..MaxRing /\ l[j - (count - MaxRing)] = packets[j]
    BY <1>1, <1>3, <2>6
  <2>8. CASE k = 0
    <3>1. \A i \in 1..MaxRing : ~l[i].key
      BY <1>1, <2>3, <2>8
    <3>2. \A j \in 1..count : j > count - MaxRing => ~packets[j].key
      BY <2>7, <3>1
    <3>3. Len(Limited(s)) <= MaxRing
      BY <1>1, <2>5, <2>8
    <3> QED
      BY <1>1, <1>3, <2>5, <3>2, <3>3
  <2>9. CASE k # 0
    <3> DEFINE n == count - MaxRing + k
    <3>1. k \in 1..MaxRing /\ l[k].key /\ \A i \in 1..MaxRing : l[i].key => k <= i
      BY <2>3, <2>9
    <3>2. n \in 1..count /\ n > count - MaxRing /\ packets[n].key
      BY <1>1, <1>3, <2>6, <3>1
    <3>3. ASSUME NEW j \in 1..count, j > count - MaxRing, packets[j].key
          PROVE  n <= j
      <4>1. j - (count - MaxRing) \in 1..MaxRing /\ l[j - (count - MaxRing)].key
        BY <2>7, <3>3
      <4>2. k <= j - (count - MaxRing)
        BY <3>1, <4>1
      <4> QED
        BY <1>1, <3>1, <4>2
    <3>4. Len(Limited(s)) = count - n + 1 /\ Len(Limited(s)) <= MaxRing
      BY <1>1, <2>5, <2>9, <3>1
    <3> QED
      BY <1>1, <1>3, <2>5, <3>2, <3>3, <3>4
  <2> QED
    BY <2>8, <2>9
<1> QED
  BY <1>1, <1>2, <1>3

(* The ring: the packets from the start of the preroll on; without one,    *)
(* some of the last packets, with no keyframe among them.                  *)
RingIs(packets, kept) ==
  LET q == PrerollStart(packets)
  IN /\ Suffix(kept, packets) /\ Len(kept) <= MaxRing
     /\ IF q = 0 THEN \A i \in 1..Len(kept) : ~kept[i].key
        ELSE q \in 1..Len(packets) /\ Len(kept) = Len(packets) - q + 1

LEMMA PushKeepsPreroll ==
  ASSUME NEW packets, Packets(packets), NEW kept, RingIs(packets, kept),
         NEW p, p.key \in BOOLEAN, p.at \in Nat,
         packets # <<>> => packets[Len(packets)].at <= p.at
  PROVE  RingIs(Append(packets, p), Push(kept, p))
<1> DEFINE more == Append(packets, p)
           n == Len(more)
           all == Append(kept, p)
           q == PrerollStart(packets)
           r == PrerollStart(more)
           cutoff == p.at - Preroll
           begin == AlignedBegin(all, cutoff)
           cut == IF begin # 0 THEN SubSeq(all, begin, Len(all)) ELSE all
<1>1. /\ Len(packets) \in Nat /\ IsSeq(more) /\ n = Len(packets) + 1 /\ n \in Nat
      /\ more[n] = p
      /\ \A i \in 1..Len(packets) : more[i] = packets[i]
      /\ \A i \in 1..n : more[i].key \in BOOLEAN /\ more[i].at \in Nat
  <2>1. /\ Len(packets) \in Nat /\ IsSeq(more) /\ n = Len(packets) + 1
        /\ more[Len(packets) + 1] = p
        /\ \A i \in 1..Len(packets) : more[i] = packets[i]
    BY AppendOne DEF Packets
  <2> HIDE DEF more
  <2> QED
    BY <2>1 DEF Packets
<1>2. /\ Len(kept) \in Nat /\ IsSeq(all) /\ Len(all) = Len(kept) + 1
      /\ all[Len(all)] = p
      /\ \A i \in 1..Len(kept) : all[i] = kept[i]
  <2>1. /\ Len(kept) \in Nat /\ IsSeq(all) /\ Len(all) = Len(kept) + 1
        /\ all[Len(kept) + 1] = p
        /\ \A i \in 1..Len(kept) : all[i] = kept[i]
    BY AppendOne DEF RingIs, Suffix
  <2> HIDE DEF all
  <2> QED
    BY <2>1
<1>3. /\ Len(kept) <= Len(packets) /\ Len(kept) <= MaxRing
      /\ \A i \in 1..Len(kept) : kept[i] = packets[Len(packets) - Len(kept) + i]
      /\ q = 0 => \A i \in 1..Len(kept) : ~kept[i].key
      /\ q # 0 => q \in 1..Len(packets) /\ Len(kept) = Len(packets) - q + 1
  BY DEF RingIs, Suffix
<1>4. MaxRing \in Nat \ {0} /\ Preroll \in Nat
  BY RingAssumption
<1>5. Push(kept, p) = Limited(cut)
  BY DEF Push
<1> HIDE DEF more, n, all, q, r
<1>6. Suffix(all, more)
  <2>1. ASSUME NEW i \in 1..Len(all)
        PROVE  all[i] = more[n - Len(all) + i]
    <3>1. CASE i = Len(all)
      BY <1>1, <1>2, <3>1
    <3>2. CASE i # Len(all)
      <4>1. i \in 1..Len(kept) /\ n - Len(all) + i = Len(packets) - Len(kept) + i
            /\ Len(packets) - Len(kept) + i \in 1..Len(packets)
        BY <1>1, <1>2, <1>3, <3>2
      <4> QED
        BY <1>1, <1>2, <1>3, <4>1
    <3> QED
      BY <3>1, <3>2
  <2> QED
    BY <1>1, <1>2, <1>3, <2>1 DEF Suffix, n
<1>7. \/ /\ begin = OldestKey(all)
         /\ \A i \in 1..Len(all) : ~(all[i].key /\ all[i].at <= cutoff)
      \/ /\ begin \in 1..Len(all) /\ all[begin].key /\ all[begin].at <= cutoff
         /\ \A i \in 1..Len(all) : all[i].key /\ all[i].at <= cutoff => i <= begin
  <2>1. Len(all) \in Nat
    BY <1>2
  <2> QED
    BY <2>1, AlignedBeginIs
<1>8. \/ OldestKey(all) = 0 /\ \A i \in 1..Len(all) : ~all[i].key
      \/ /\ OldestKey(all) \in 1..Len(all) /\ all[OldestKey(all)].key
         /\ \A i \in 1..Len(all) : all[i].key => OldestKey(all) <= i
  <2>1. Len(all) \in Nat
    BY <1>2
  <2> QED
    BY <2>1, OldestKeyIs
<1>9. \/ r = 0 /\ \A i \in 1..n : i > n - MaxRing => ~more[i].key
      \/ /\ r \in 1..n /\ r > n - MaxRing /\ more[r].key
         /\ \/ /\ more[r].at <= cutoff
               /\ \A i \in 1..n : more[i].key /\ more[i].at <= cutoff => i <= r
            \/ \A i \in 1..n : i > n - MaxRing /\ more[i].key =>
                 ~(more[i].at <= cutoff) /\ r <= i
  <2>1. Len(more) \in Nat /\ more[Len(more)] = p /\ n = Len(more)
    BY <1>1 DEF n
  <2>2. \/ r = 0 /\ \A i \in 1..Len(more) : i > Len(more) - MaxRing => ~more[i].key
        \/ /\ r \in 1..Len(more) /\ r > Len(more) - MaxRing /\ more[r].key
           /\ \/ /\ more[r].at <= more[Len(more)].at - Preroll
                 /\ \A i \in 1..Len(more) :
                      more[i].key /\ more[i].at <= more[Len(more)].at - Preroll => i <= r
              \/ \A i \in 1..Len(more) : i > Len(more) - MaxRing /\ more[i].key =>
                   ~(more[i].at <= more[Len(more)].at - Preroll) /\ r <= i
    BY <2>1, PrerollStartIs DEF r
  <2> QED
    BY <2>1, <2>2
<1> DEFINE off == n - Len(all)
<1>10. /\ off \in Nat /\ off = Len(packets) - Len(kept)
       /\ \A i \in 1..Len(all) : off + i \in 1..n /\ all[i] = more[off + i]
       /\ \A j \in 1..n : j > off => j - off \in 1..Len(all) /\ all[j - off] = more[j]
  <2>1. off \in Nat /\ off = Len(packets) - Len(kept)
    BY <1>1, <1>2, <1>3
  <2>2. \A i \in 1..Len(all) : off + i \in 1..n /\ all[i] = more[off + i]
    BY <1>1, <1>2, <1>3, <1>6 DEF Suffix, n
  <2> QED
    BY <1>1, <1>2, <2>1, <2>2
(* A keyframe that has left the ring is not wanted any more.               *)
<1>11. ASSUME NEW j \in 1..n, j > n - MaxRing, more[j].key, j <= off
       PROVE  all[1].key /\ all[1].at <= cutoff
  <2>1. j \in 1..Len(packets) /\ j > Len(packets) - MaxRing /\ packets[j].key
    BY <1>1, <1>2, <1>4, <1>10, <1>11
  <2>2. /\ q \in 1..Len(packets) /\ packets[q].key
        /\ \/ packets[q].at <= packets[Len(packets)].at - Preroll
           \/ q <= j
    BY <1>1, <2>1, PrerollStartIs DEF q
  <2>3. off = q - 1
    <3>1. Len(kept) = Len(packets) - q + 1
      BY <1>1, <1>3, <2>2
    <3>2. off = Len(packets) - Len(kept)
      BY <1>10
    <3> QED
      BY <1>1, <2>2, <3>1, <3>2
  <2>4. packets[q].at <= packets[Len(packets)].at - Preroll
    BY <1>11, <2>2, <2>3
  <2>5. packets[Len(packets)].at <= p.at /\ packets[Len(packets)].at \in Nat /\ packets[q].at \in Nat
    BY <1>1, <2>1, <2>2 DEF Packets
  <2>6. all[1] = packets[q]
    <3>1. 1 \in 1..Len(all) /\ off + 1 = q
      BY <1>2, <2>3, <2>2
    <3>2. all[1] = more[q]
      BY <1>10, <3>1
    <3>3. more[q] = packets[q]
      BY <1>1, <2>2
    <3> QED
      BY <3>2, <3>3
  <2>7. packets[q].at <= cutoff
    BY <1>1, <1>4, <2>4, <2>5
  <2> QED
    BY <2>2, <2>6, <2>7
(* The cut begins at a keyframe of the ring, or the ring has none.         *)
<1>12. \/ cut = all /\ \A i \in 1..Len(all) : ~all[i].key
       \/ begin \in 1..Len(all) /\ all[begin].key /\ cut = SubSeq(all, begin, Len(all))
  <2>1. CASE begin = 0
    BY <1>7, <1>8, <2>1
  <2>2. CASE begin # 0
    <3>1. begin \in 1..Len(all) /\ all[begin].key
      BY <1>7, <1>8, <2>2
    <3> QED
      BY <2>2, <3>1
  <2> QED
    BY <2>1, <2>2
<1>13. Suffix(cut, more) /\ (begin # 0 => Len(cut) = n - (off + begin) + 1)
  <2>1. IsSeq(more) /\ Suffix(all, more)
    BY <1>1, <1>6
  <2>2. CASE begin = 0
    BY <1>6, <2>2
  <2>3. CASE begin # 0
    <3>1. begin \in 1..(Len(all) + 1) /\ begin \in 1..Len(all)
      BY <1>2, <1>7, <1>8, <2>3
    <3>2. Suffix(SubSeq(all, begin, Len(all)), more)
          /\ Len(SubSeq(all, begin, Len(all))) = Len(all) - begin + 1
      BY <2>1, <3>1, SuffixOf
    <3>3. Len(all) - begin + 1 = n - (off + begin) + 1
      BY <1>1, <1>2, <3>1
    <3> QED
      BY <2>3, <3>2, <3>3
  <2> QED
    BY <2>2, <2>3
<1> HIDE DEF cut, begin, off, cutoff
<1> DEFINE left == Limited(cut)
<1>14. /\ Suffix(left, more) /\ Len(left) <= MaxRing /\ Len(left) \in Nat /\ Len(cut) \in Nat
       /\ Len(cut) <= MaxRing => left = cut
       /\ Len(cut) > MaxRing =>
            \/ \A i \in 1..n : i > n - MaxRing => ~more[i].key
            \/ \E k \in 1..n :
                 /\ k > n - MaxRing /\ more[k].key
                 /\ \A i \in 1..n : i > n - MaxRing /\ more[i].key => k <= i
                 /\ Len(left) = n - k + 1
  <2>1. IsSeq(more) /\ Suffix(cut, more)
    BY <1>1, <1>13
  <2>2. Suffix(left, more)
    BY <2>1, LimitedIs
  <2>3. Len(left) \in Nat /\ Len(cut) \in Nat
    BY <2>1, <2>2, SequenceFacts DEF Suffix
  <2> QED
    BY <2>1, <2>3, LimitedIs, Zenon DEF n
<1> HIDE DEF left
<1>15. ASSUME r = 0
       PROVE  \A i \in 1..Len(left) : ~left[i].key
  <2> SUFFICES ASSUME NEW i \in 1..Len(left)
               PROVE  ~left[i].key
    OBVIOUS
  <2>1. left[i] = more[n - Len(left) + i] /\ Len(left) <= n
    BY <1>14 DEF Suffix, n
  <2>2. n - Len(left) + i \in 1..n /\ n - Len(left) + i > n - MaxRing
    BY <1>1, <1>4, <1>14, <2>1
  <2> QED
    BY <1>9, <1>15, <2>1, <2>2
<1>16. ASSUME r # 0
       PROVE  r \in 1..n /\ Len(left) = n - r + 1
  <2>1. r \in 1..n /\ r > n - MaxRing /\ more[r].key
    BY <1>9, <1>16
  (* An early keyframe of the ring: the cut begins at the newest one.      *)
  <2>2. CASE /\ begin \in 1..Len(all) /\ all[begin].key /\ all[begin].at <= cutoff
             /\ \A i \in 1..Len(all) : all[i].key /\ all[i].at <= cutoff => i <= begin
    <3>1. PICK b : b = off + begin
      OBVIOUS
    <3>2. /\ b \in 1..n /\ more[b].key /\ more[b].at <= cutoff
          /\ \A j \in 1..n : more[j].key /\ more[j].at <= cutoff => j <= b
          /\ Len(cut) = n - b + 1
      <4>1. /\ b \in 1..n /\ more[b].key /\ more[b].at <= cutoff /\ begin # 0
            /\ Len(cut) = n - b + 1
        BY <1>2, <1>10, <1>13, <2>2, <3>1
      <4>2. ASSUME NEW j \in 1..n, more[j].key, more[j].at <= cutoff
            PROVE  j <= b
        <5>1. CASE j > off
          <6>1. j - off <= begin
            BY <1>10, <2>2, <4>2, <5>1
          <6> QED
            BY <1>2, <1>10, <2>2, <3>1, <6>1
        <5>2. CASE j <= off
          BY <1>2, <1>10, <2>2, <3>1, <5>2
        <5> QED
          BY <1>10, <5>1, <5>2
      <4> QED
        BY <4>1, <4>2
    <3>3. CASE Len(cut) <= MaxRing
      <4>1. b > n - MaxRing
        BY <1>1, <1>4, <3>2, <3>3
      <4>2. r = b
        BY <1>9, <2>1, <3>2, <4>1
      <4> QED
        BY <1>14, <2>1, <3>2, <3>3, <4>2
    <3>4. CASE Len(cut) > MaxRing
      <4>1. ~(more[r].at <= cutoff)
        BY <1>1, <1>4, <2>1, <3>2, <3>4
      <4>2. \A i \in 1..n : i > n - MaxRing /\ more[i].key => r <= i
        BY <1>9, <1>16, <4>1
      <4>3. PICK k \in 1..n :
               /\ k > n - MaxRing /\ more[k].key
               /\ \A i \in 1..n : i > n - MaxRing /\ more[i].key => k <= i
               /\ Len(left) = n - k + 1
        BY <1>14, <2>1, <3>4
      <4>4. k = r
        BY <2>1, <4>2, <4>3
      <4> QED
        BY <2>1, <4>3, <4>4
    <3> QED
      BY <1>4, <1>14, <3>3, <3>4
  (* None: the cut begins at the oldest keyframe.                          *)
  <2>3. CASE /\ begin = OldestKey(all)
             /\ \A i \in 1..Len(all) : ~(all[i].key /\ all[i].at <= cutoff)
    <3>1. \A j \in 1..n : j > n - MaxRing /\ more[j].key => j > off /\ ~(more[j].at <= cutoff)
      <4> SUFFICES ASSUME NEW j \in 1..n, j > n - MaxRing, more[j].key
                   PROVE  j > off /\ ~(more[j].at <= cutoff)
        OBVIOUS
      <4>1. 1 \in 1..Len(all)
        BY <1>2
      <4>2. j > off
        BY <1>10, <1>11, <2>3, <4>1
      <4> QED
        BY <1>10, <2>3, <4>2
    <3>2. \A i \in 1..n : i > n - MaxRing /\ more[i].key => r <= i
      BY <1>9, <1>16, <2>1, <3>1
    <3>3. CASE Len(cut) > MaxRing
      <4>1. PICK k \in 1..n :
               /\ k > n - MaxRing /\ more[k].key
               /\ \A i \in 1..n : i > n - MaxRing /\ more[i].key => k <= i
               /\ Len(left) = n - k + 1
        BY <1>14, <2>1, <3>3
      <4>2. k = r
        BY <2>1, <3>2, <4>1
      <4> QED
        BY <2>1, <4>1, <4>2
    <3>4. CASE Len(cut) <= MaxRing
      <4>1. r - off \in 1..Len(all) /\ all[r - off].key
        BY <1>10, <2>1, <3>1
      <4>2. begin \in 1..Len(all) /\ all[begin].key /\ begin <= r - off
        BY <1>8, <2>3, <4>1
      <4>3. PICK b : b = off + begin
        OBVIOUS
      <4>4. b \in 1..n /\ more[b].key /\ b <= r /\ Len(cut) = n - b + 1
        BY <1>2, <1>10, <1>13, <2>1, <4>2, <4>3
      <4>5. b > n - MaxRing
        BY <1>1, <1>4, <3>4, <4>4
      <4>6. r = b
        BY <2>1, <3>2, <4>4, <4>5
      <4> QED
        BY <1>14, <2>1, <3>4, <4>4, <4>6
    <3> QED
      BY <1>4, <1>14, <3>3, <3>4
  <2> QED
    BY <1>7, <2>2, <2>3
<1>17. RingIs(more, left)
  <2>1. r = PrerollStart(more) /\ n = Len(more)
    BY DEF r, n
  <2> QED
    BY <1>14, <1>15, <1>16, <2>1 DEF RingIs
<1> QED
  BY <1>5, <1>17 DEF left, more

(* The snapshot of such a ring is the whole preroll.                       *)
LEMMA SnapshotIsPreroll ==
  ASSUME NEW packets, IsSeq(packets), NEW kept, RingIs(packets, kept)
  PROVE  LET q == PrerollStart(packets)
         IN Snapshot(kept) = IF q = 0 THEN <<>> ELSE SubSeq(packets, q, Len(packets))
<1> DEFINE q == PrerollStart(packets)
           count == Len(packets)
<1>1. /\ Suffix(kept, packets) /\ Len(kept) <= MaxRing /\ count \in Nat /\ Len(kept) \in Nat
      /\ q = 0 => \A i \in 1..Len(kept) : ~kept[i].key
      /\ q # 0 => q \in 1..count /\ Len(kept) = count - q + 1
  <2>1. count \in Nat
    BY SequenceFacts
  <2>2. Len(kept) \in Nat
    BY SequenceFacts DEF RingIs, Suffix
  <2> QED
    BY <2>1, <2>2 DEF RingIs
<1>2. CASE q = 0
  <2>1. OldestKey(kept) = 0
    BY <1>1, <1>2, OldestKeyIs
  <2> QED
    BY <1>2, <2>1 DEF Snapshot
<1>3. CASE q # 0
  <2>1. packets[q].key
    BY <1>1, <1>3, PrerollStartIs
  <2> HIDE DEF q
  <2>2. /\ IsSeq(kept) /\ \A i \in 1..Len(kept) : kept[i] = packets[q + i - 1]
    BY <1>1, <1>3 DEF Suffix
  <2>3. 1 \in 1..Len(kept) /\ kept[1].key
    <3>1. 1 \in 1..Len(kept) /\ q + 1 - 1 = q
      BY <1>1, <1>3
    <3> QED
      BY <2>1, <2>2, <3>1
  <2>4. OldestKey(kept) = 1
    BY <1>1, <2>3, OldestKeyIs
  <2>5. Snapshot(kept) = SubSeq(kept, 1, Len(kept))
    BY <2>4 DEF Snapshot
  <2>6. SubSeq(kept, 1, Len(kept)) = SubSeq(packets, q, count)
    <3>1. /\ IsSeq(SubSeq(kept, 1, Len(kept)))
          /\ Len(SubSeq(kept, 1, Len(kept))) = Len(kept)
          /\ \A i \in 1..Len(kept) : SubSeq(kept, 1, Len(kept))[i] = kept[i]
      <4>1. 1 \in 1..(Len(kept) + 1) /\ Len(kept) \in 0..Len(kept)
        BY <1>1
      <4>2. /\ IsSeq(SubSeq(kept, 1, Len(kept)))
            /\ Len(SubSeq(kept, 1, Len(kept))) = IF 1 <= Len(kept) THEN Len(kept) - 1 + 1 ELSE 0
            /\ \A i \in 1..(Len(kept) - 1 + 1) : SubSeq(kept, 1, Len(kept))[i] = kept[1 + i - 1]
        BY <2>2, <4>1, SequenceFacts
      <4> QED
        BY <1>1, <2>3, <4>2
    <3>2. /\ IsSeq(SubSeq(packets, q, count))
          /\ Len(SubSeq(packets, q, count)) = count - q + 1
          /\ \A i \in 1..(count - q + 1) : SubSeq(packets, q, count)[i] = packets[q + i - 1]
      <4>1. q \in 1..(count + 1) /\ count \in 0..count /\ q <= count
        BY <1>1, <1>3
      <4> QED
        BY <4>1, SequenceFacts
    <3>3. Len(kept) = count - q + 1
      BY <1>1, <1>3
    <3> QED
      BY <2>2, <3>1, <3>2, <3>3, SameSequence
  <2> QED
    BY <1>3, <2>5, <2>6 DEF q
<1> QED
  BY <1>2, <1>3

(* The packets of a connection arrive in order, and the ring is theirs.    *)
ArrivalInv ==
  /\ camera \in Cameras /\ clock \in Nat
  /\ Packets(received) /\ RingIs(received, ring)
  /\ received # <<>> => received[Len(received)].at <= clock

LEMMA NoPackets == Packets(<<>>) /\ RingIs(<<>>, <<>>) /\ Len(<<>>) = 0
<1>1. <<>> \in Seq({}) /\ Len(<<>>) = 0
  OBVIOUS
<1>2. IsSeq(<<>>)
  BY <1>1 DEF IsSeq
<1>3. PrerollStart(<<>>) = 0
  BY <1>1, PrerollStartIs
<1> QED
  BY <1>1, <1>2, <1>3, RingAssumption DEF Packets, RingIs, Suffix

(* A turn without a packet, and one with a packet.                         *)
LEMMA SampleArrival ==
  ASSUME ArrivalInv, NEW top, NEW packet, NEW frame, NEW eof, NEW decoder,
         Sample(top, packet, frame, eof, decoder),
         packet = <<>> \/ \E p : /\ packet = <<p>> /\ p.key \in BOOLEAN
                                 /\ p.at \in Nat /\ clock <= p.at
  PROVE  ArrivalInv'
<1>1. /\ clock' = IF packet = <<>> THEN clock ELSE packet[1].at
      /\ received' = received \o packet
      /\ ring' = IF packet = <<>> THEN ring ELSE Push(ring, packet[1])
      /\ camera' = camera
  BY Zenon DEF Sample
<1>2. IsSeq(received) /\ Len(received) \in Nat
  BY SequenceFacts DEF ArrivalInv, Packets
<1>3. CASE packet = <<>>
  <2>1. received' = received
    BY <1>1, <1>2, <1>3, ConcatOne
  <2> QED
    BY <1>1, <1>3, <2>1 DEF ArrivalInv
<1>4. CASE packet # <<>>
  <2>1. PICK p : packet = <<p>> /\ p.key \in BOOLEAN /\ p.at \in Nat /\ clock <= p.at
    BY <1>4
  <2>2. packet[1] = p
    BY <2>1
  <2>3. received' = Append(received, p)
    <3>1. PICK S : received \in Seq(S)
      BY <1>2 DEF IsSeq
    <3>2. received \in Seq(S \union {p})
      BY <3>1
    <3>3. received \o <<p>> = Append(received, p)
      BY <3>2
    <3> QED
      BY <1>1, <2>1, <3>3
  <2>4. received # <<>> => received[Len(received)].at <= p.at
    <3>1. received # <<>> => Len(received) \in 1..Len(received)
      <4>1. PICK S : received \in Seq(S)
        BY <1>2 DEF IsSeq
      <4> QED
        BY <4>1
    <3> QED
      BY <2>1, <3>1 DEF ArrivalInv, Packets
  <2>5. RingIs(received', ring')
    <3>1. RingIs(Append(received, p), Push(ring, p))
      BY <2>1, <2>4, PushKeepsPreroll DEF ArrivalInv
    <3>2. ring' = Push(ring, p)
      BY <1>1, <1>4, <2>2
    <3> QED
      BY <2>3, <3>1, <3>2
  <2>6. Packets(received') /\ received'[Len(received')] = p
    <3>1. /\ IsSeq(received') /\ Len(received') = Len(received) + 1
          /\ \A i \in 1..Len(received) : received'[i] = received[i]
          /\ received'[Len(received) + 1] = p
      BY <1>2, <2>3, AppendOne
    <3> QED
      BY <1>2, <2>1, <3>1 DEF ArrivalInv, Packets
  <2> QED
    BY <1>1, <1>4, <2>1, <2>2, <2>5, <2>6 DEF ArrivalInv
<1> QED
  BY <1>3, <1>4

LEMMA TurnArrival == ArrivalInv /\ Turn => ArrivalInv'
<1> SUFFICES ASSUME ArrivalInv, Turn
             PROVE  ArrivalInv'
  OBVIOUS
<1>1. PICK wanted \in Wants :
        LET top == Updated(control, wanted, FALSE, clock)
        IN \/ ReadDrained(top) \/ ReadAgain(top) \/ ReadEnd(top)
           \/ \E key \in BOOLEAN, gap \in camera.gaps, step \in camera.steps :
                ReadPacket(top, key, gap, step)
  BY DEF Turn
<1> DEFINE top == Updated(control, wanted, FALSE, clock)
<1> HIDE DEF top
<1>2. CASE ReadDrained(top)
  BY <1>2, SampleArrival DEF ReadDrained
<1>3. CASE ReadEnd(top)
  BY <1>3, SampleArrival DEF ReadEnd
<1>4. CASE ReadAgain(top)
  BY <1>4 DEF ReadAgain, ArrivalInv
<1>5. ASSUME NEW key \in BOOLEAN, NEW gap \in camera.gaps, NEW step \in camera.steps,
             ReadPacket(top, key, gap, step)
      PROVE  ArrivalInv'
  <2>1. clock \in Nat /\ gap \in Nat
    BY CamerasAssumption DEF ArrivalInv, CameraType
  <2>2. PICK dts, frame, decoder :
          Sample(top, <<[n |-> Len(received) + 1, key |-> key, at |-> clock + gap, dts |-> dts]>>,
                 frame, FALSE, decoder)
    BY <1>5, Zenon DEF ReadPacket
  <2> DEFINE p == [n |-> Len(received) + 1, key |-> key, at |-> clock + gap, dts |-> dts]
  <2>3. p.key \in BOOLEAN /\ p.at \in Nat /\ clock <= p.at
    BY <2>1
  <2> HIDE DEF p
  <2>4. Sample(top, <<p>>, frame, FALSE, decoder)
    BY <2>2 DEF p
  <2> QED
    BY <2>3, <2>4, SampleArrival
<1> QED
  BY <1>1, <1>2, <1>3, <1>4, <1>5 DEF top

LEMMA ArrivalInit == Init => ArrivalInv
BY NoPackets DEF Init, ArrivalInv

LEMMA ArrivalNext == DecodeInv /\ ArrivalInv /\ [Next]_vars => ArrivalInv'
<1> SUFFICES ASSUME DecodeInv /\ ArrivalInv, [Next]_vars PROVE ArrivalInv'
  OBVIOUS
<1>1. CASE Turn
  BY <1>1, TurnArrival
<1>2. CASE Connect
  <2>1. /\ clock' = 0 /\ camera' = camera /\ received' = received /\ ring' = ring
        /\ ~source.open
    BY <1>2 DEF Connect
  <2>2. received = <<>>
    BY <2>1 DEF DecodeInv, SourceOK
  <2> QED
    BY <2>1, <2>2 DEF ArrivalInv
<1>3. CASE Disconnect
  BY <1>3, NoPackets DEF Disconnect, ArrivalInv
<1>4. CASE OpenFails
  BY <1>4 DEF OpenFails, streamVars, ArrivalInv
<1>5. CASE \E identified \in BOOLEAN, probe \in {"available", "refused", "unavailable"} :
             Detect(identified, probe)
  BY <1>5 DEF Detect, streamVars, ArrivalInv
<1>6. CASE UNCHANGED vars
  BY <1>6 DEF vars, streamVars, ArrivalInv
<1> QED
  BY <1>1, <1>2, <1>3, <1>4, <1>5, <1>6 DEF Next

(* The ring, trimmed packet by packet (PacketRing::push), always holds     *)
(* exactly the preroll one would cut from all the packets received, and    *)
(* no more than its limit: for every preroll, limit and arrival of the     *)
(* packets.                                                                *)
THEOREM RingIsExact == Spec => []RingIsPreroll
<1>1. ArrivalInv => RingIsPreroll
  BY SnapshotIsPreroll DEF ArrivalInv, Packets, RingIsPreroll, RingIs
<1> QED
  BY <1>1, DecodeInit, DecodeStep, ArrivalInit, ArrivalNext, PTL DEF Spec

-----------------------------------------------------------------------------
(* A set of numbers with 0 that goes on from every number below count to   *)
(* the next one holds all the numbers to count.                            *)
LEMMA Counting ==
  ASSUME NEW count \in Nat, NEW S, 0 \in S,
         \A i \in 0..(count - 1) : i \in S => i + 1 \in S
  PROVE  \A i \in 0..count : i \in S
<1> DEFINE missing == {i \in Nat : i <= count /\ i \notin S}
           least == Min(missing)
<1> SUFFICES ASSUME NEW j \in 0..count, j \notin S PROVE FALSE
  OBVIOUS
<1>1. missing \in SUBSET Nat /\ j \in missing
  OBVIOUS
<1>2. least \in missing /\ \A y \in missing : least <= y
  <2> HIDE DEF missing
  <2> QED
    BY <1>1, LeastOf
<1> HIDE DEF least
<1>3. least # 0 /\ least - 1 \in 0..(count - 1)
  BY <1>2
<1>4. least - 1 \notin missing
  BY <1>2, <1>3
<1>5. least - 1 \in S
  BY <1>3, <1>4
<1>6. (least - 1) + 1 \in S
  BY <1>3, <1>5
<1> QED
  BY <1>2, <1>6

(* A recursion over the numbers to count has a solution: one step takes    *)
(* the value x at i - 1 to step[i][x] at i.                                *)
Steps(D, count) == [1..count -> [D -> D]]
Solution(D, count, step, first, f) ==
  /\ f \in [0..count -> D] /\ f[0] = first
  /\ \A i \in 1..count : f[i] = step[i][f[i - 1]]

LEMMA Recursion ==
  ASSUME NEW D, NEW count \in Nat, NEW step \in Steps(D, count), NEW first \in D
  PROVE  \E f : Solution(D, count, step, first, f)
<1> DEFINE Solves(k, f) == /\ f \in [0..k -> D] /\ f[0] = first
                           /\ \A i \in 1..k : f[i] = step[i][f[i - 1]]
           S == {k \in 0..count : \E f : Solves(k, f)}
<1>1. 0 \in S
  <2>1. Solves(0, [i \in 0..0 |-> first])
    OBVIOUS
  <2>2. 0 \in 0..count
    OBVIOUS
  <2> HIDE DEF Solves
  <2> QED
    BY <2>1, <2>2
<1>2. ASSUME NEW k \in 0..(count - 1), k \in S
      PROVE  k + 1 \in S
  <2>1. PICK f : Solves(k, f)
    BY <1>2
  <2> DEFINE h == [i \in 0..(k + 1) |-> IF i = k + 1 THEN step[k + 1][f[k]] ELSE f[i]]
  <2>2. step[k + 1][f[k]] \in D
    <3>1. f[k] \in D /\ step[k + 1] \in [D -> D]
      BY <2>1 DEF Steps
    <3> QED
      BY <3>1
  <2>3. h \in [0..(k + 1) -> D]
    <3>1. ASSUME NEW i \in 0..(k + 1), i # k + 1 PROVE f[i] \in D
      BY <2>1, <3>1
    <3> QED
      BY <2>2, <3>1
  <2>4. h[0] = first
    BY <2>1
  <2>5. ASSUME NEW i \in 1..(k + 1) PROVE h[i] = step[i][h[i - 1]]
    <3>1. CASE i = k + 1
      <4>1. h[i] = step[k + 1][f[k]] /\ i - 1 = k
        BY <3>1
      <4>2. h[k] = f[k]
        OBVIOUS
      <4> HIDE DEF h
      <4> QED
        BY <3>1, <4>1, <4>2
    <3>2. CASE i # k + 1
      <4>1. h[i] = f[i] /\ h[i - 1] = f[i - 1] /\ i \in 1..k
        BY <3>2
      <4> HIDE DEF h
      <4> QED
        BY <2>1, <4>1
    <3> QED
      BY <3>1, <3>2
  <2> HIDE DEF h
  <2>6. Solves(k + 1, h)
    BY <2>3, <2>4, <2>5
  <2> QED
    BY <2>6
<1> HIDE DEF Solves
<1>3. \A i \in 0..count : i \in S
  <2> HIDE DEF S
  <2> QED
    BY <1>1, <1>2, Counting
<1>4. count \in S
  BY <1>3
<1> QED
  BY <1>4 DEF Solves, Solution

-----------------------------------------------------------------------------
(* The movie                                                               *)

StampType == Int \union {NoStamp}
PacketType == [n : Nat, key : BOOLEAN, at : Nat, dts : StampType]
ImageType == [n : Nat, key : BOOLEAN, at : Nat, dts : Int]
NormalizerType ==
  [repair : BOOLEAN, started : BOOLEAN, firstInput : StampType, lastInput : StampType,
   firstArrival : Int, lastArrival : Int, last : Int]
MovieType ==
  [open : BOOLEAN, started : BOOLEAN, stamps : NormalizerType, inside : Seq(PacketType),
   base : StampType, lastPts : StampType, file : Seq(ImageType), begin : Nat, fed : Nat,
   faulty : BOOLEAN]

(* The stamps of the images rise, and those to come follow them.           *)
Climbs(m) ==
  /\ \A i \in 2..Len(m.file) : m.file[i].dts > m.file[i - 1].dts
  /\ m.file # <<>> => m.lastPts # NoStamp /\ m.lastPts >= m.file[Len(m.file)].dts

(* An image joins the file.                                                *)
LEMMA ImageJoins ==
  ASSUME NEW D, NEW s \in Seq(D), NEW e \in D
  PROVE  /\ Append(s, e) \in Seq(D)
         /\ Len(Append(s, e)) = Len(s) + 1
         /\ Append(s, e) # <<>>
         /\ Len(s) \in Nat
         /\ \A i \in 1..Len(s) : Append(s, e)[i] = s[i] /\ s[i] \in D
         /\ Append(s, e)[Len(s) + 1] = e
         /\ s # <<>> => Len(s) \in 1..Len(s)
         /\ s = <<>> <=> Len(s) = 0
<1>1. Append(s, e) \in Seq(D) /\ Len(Append(s, e)) = Len(s) + 1 /\ Len(s) \in Nat
  OBVIOUS
<1>2. \A i \in 1..Len(s) : Append(s, e)[i] = s[i] /\ s[i] \in D
  OBVIOUS
<1>3. Append(s, e)[Len(s) + 1] = e
  OBVIOUS
<1>4. s = <<>> <=> Len(s) = 0
  OBVIOUS
<1>5. Append(s, e) # <<>>
  BY <1>1
<1> QED
  BY <1>1, <1>2, <1>3, <1>4, <1>5

LEMMA EncodedKeeps ==
  ASSUME NEW m \in MovieType, NEW image \in PacketType
  PROVE  LET w == Encoded(m, image)
             F == Len(m.file)
         IN /\ w \in MovieType
            /\ w = [m EXCEPT !.base = w.base, !.lastPts = w.lastPts, !.file = w.file]
            /\ Len(w.file) = F + 1
            /\ \A i \in 1..F : w.file[i] = m.file[i]
            /\ w.file[F + 1].n = image.n /\ w.file[F + 1].key = image.key
            /\ Climbs(m) => Climbs(w)
<1> DEFINE base == IF m.base = NoStamp THEN image.dts ELSE m.base
           next == IF m.lastPts = NoStamp THEN 0 ELSE m.lastPts + 1
           pts == IF image.dts = NoStamp THEN next
                  ELSE IF m.lastPts # NoStamp /\ image.dts - base <= m.lastPts THEN next
                  ELSE image.dts - base
           new == [n |-> image.n, key |-> image.key, at |-> image.at, dts |-> pts]
           w == Encoded(m, image)
           F == Len(m.file)
<1>1. /\ m.base \in StampType /\ m.lastPts \in StampType /\ m.file \in Seq(ImageType)
      /\ image.n \in Nat /\ image.key \in BOOLEAN /\ image.at \in Nat
      /\ image.dts \in StampType
  BY DEF MovieType, PacketType
<1>2. /\ base \in StampType /\ pts \in Int
      /\ m.lastPts # NoStamp => pts > m.lastPts
  <2>1. base \in StampType /\ (image.dts # NoStamp => base \in Int)
    BY <1>1 DEF StampType
  <2>2. next \in Int /\ (m.lastPts # NoStamp => next > m.lastPts)
    BY <1>1 DEF StampType
  <2> HIDE DEF base, next
  <2> QED
    BY <1>1, <2>1, <2>2 DEF StampType
<1>3. w = [m EXCEPT !.base = base, !.lastPts = pts, !.file = Append(m.file, new)]
  BY DEF Encoded
<1> HIDE DEF base, pts
<1>4. new \in ImageType
  BY <1>1, <1>2 DEF ImageType
<1>5. new.n = image.n /\ new.key = image.key /\ new.dts = pts
  OBVIOUS
<1> HIDE DEF new, w
<1>6. /\ Append(m.file, new) \in Seq(ImageType)
      /\ Len(Append(m.file, new)) = F + 1 /\ F \in Nat
      /\ \A i \in 1..F : Append(m.file, new)[i] = m.file[i] /\ m.file[i] \in ImageType
      /\ Append(m.file, new)[F + 1] = new
      /\ m.file = <<>> <=> F = 0
  BY <1>1, <1>4, ImageJoins
<1>7. /\ w.base = base /\ w.lastPts = pts /\ w.file = Append(m.file, new)
      /\ w \in MovieType
  <2>1. pts \in StampType
    BY <1>2 DEF StampType
  <2> QED
    BY <1>2, <1>3, <1>6, <2>1 DEF MovieType
<1>8. w = [m EXCEPT !.base = w.base, !.lastPts = w.lastPts, !.file = w.file]
  BY <1>3, <1>7
<1>9. ASSUME Climbs(m) PROVE Climbs(w)
  <2>1. ASSUME NEW i \in 2..(F + 1) PROVE w.file[i].dts > w.file[i - 1].dts
    <3>1. CASE i # F + 1
      <4>1. i \in 2..F /\ i \in 1..F /\ i - 1 \in 1..F
        BY <1>6, <3>1
      <4>2. w.file[i] = m.file[i] /\ w.file[i - 1] = m.file[i - 1]
        BY <1>6, <1>7, <4>1
      <4> QED
        BY <1>9, <4>1, <4>2 DEF Climbs
    <3>2. CASE i = F + 1
      <4>1. F \in 1..F /\ i - 1 = F
        BY <1>6, <3>2
      <4>2. w.file[i].dts = pts /\ w.file[i - 1] = m.file[F] /\ m.file[F] \in ImageType
        BY <1>5, <1>6, <1>7, <3>2, <4>1
      <4>3. m.lastPts # NoStamp /\ m.lastPts >= m.file[F].dts /\ m.lastPts \in Int
        BY <1>1, <1>6, <1>9, <4>1 DEF Climbs, StampType
      <4>4. m.file[F].dts \in Int /\ pts > m.lastPts
        BY <1>2, <4>2, <4>3 DEF ImageType
      <4> QED
        BY <1>2, <4>2, <4>3, <4>4
    <3> QED
      BY <3>1, <3>2
  <2>2. w.lastPts # NoStamp /\ w.lastPts >= w.file[Len(w.file)].dts
    <3>1. w.lastPts # NoStamp
      BY <1>2, <1>7, TicksAssumption
    <3> QED
      BY <1>2, <1>5, <1>6, <1>7, <3>1
  <2> QED
    BY <1>6, <1>7, <2>1, <2>2 DEF Climbs
<1> QED
  BY <1>5, <1>6, <1>7, <1>8, <1>9 DEF w

(* The first images inside, encoded one after the other.                   *)
LEMMA EncodedFirstIs ==
  ASSUME NEW m \in MovieType, NEW out \in 0..Len(m.inside)
  PROVE  \E w \in [0..out -> MovieType] :
           /\ w[0] = m /\ w[out] = EncodedFirst(m, out)
           /\ \A i \in 1..out : m.inside[i] \in PacketType /\ w[i] = Encoded(w[i - 1], m.inside[i])
<1>1. m.inside \in Seq(PacketType) /\ out \in Nat /\ Len(m.inside) \in Nat
  BY DEF MovieType
<1>2. \A i \in 1..out : m.inside[i] \in PacketType
  BY <1>1
<1> DEFINE step == [i \in 1..out |-> [v \in MovieType |-> Encoded(v, m.inside[i])]]
           Solves(f) == f = [i \in 0..out |->
                               IF i = 0 THEN m ELSE Encoded(f[i - 1], m.inside[i])]
<1>3. step \in [1..out -> [MovieType -> MovieType]]
  <2>1. ASSUME NEW i \in 1..out, NEW v \in MovieType PROVE Encoded(v, m.inside[i]) \in MovieType
    BY <1>2, EncodedKeeps
  <2> QED
    BY <2>1
<1>4. PICK f \in [0..out -> MovieType] : /\ f[0] = m
                                         /\ \A i \in 1..out : f[i] = step[i][f[i - 1]]
  <2> HIDE DEF step
  <2>1. step \in Steps(MovieType, out)
    BY <1>3 DEF Steps
  <2>2. PICK f : Solution(MovieType, out, step, m, f)
    BY <1>1, <2>1, Recursion
  <2> QED
    BY <2>2 DEF Solution
<1>5. Solves(f)
  <2>1. ASSUME NEW i \in 1..out PROVE f[i] = Encoded(f[i - 1], m.inside[i])
    <3>1. f[i] = step[i][f[i - 1]] /\ f[i - 1] \in MovieType
      BY <1>4
    <3> QED
      BY <3>1
  <2> HIDE DEF step
  <2>2. ASSUME NEW i \in 0..out
        PROVE  f[i] = IF i = 0 THEN m ELSE Encoded(f[i - 1], m.inside[i])
    <3>1. i = 0 \/ i \in 1..out
      OBVIOUS
    <3> QED
      BY <1>4, <2>1, <3>1
  <2>3. f = [i \in 0..out |-> f[i]]
    BY <1>4
  <2> QED
    BY <2>2, <2>3
<1> HIDE DEF step
<1> DEFINE w == CHOOSE g : Solves(g)
<1>6. Solves(w)
  BY <1>5
<1>7. EncodedFirst(m, out) = w[out]
  BY DEF EncodedFirst
<1> HIDE DEF w
<1>8. w[0] = m /\ \A i \in 1..out : w[i] = Encoded(w[i - 1], m.inside[i])
  BY <1>1, <1>6
<1>9. w \in [0..out -> MovieType]
  <2> DEFINE S == {i \in 0..out : w[i] \in MovieType}
  <2>1. 0 \in S
    BY <1>1, <1>8
  <2>2. ASSUME NEW i \in 0..(out - 1), i \in S PROVE i + 1 \in S
    <3>1. i + 1 \in 1..out /\ i + 1 \in 0..out /\ (i + 1) - 1 = i
      BY <1>1
    <3>2. w[i + 1] = Encoded(w[i], m.inside[i + 1]) /\ m.inside[i + 1] \in PacketType
      BY <1>2, <1>8, <3>1
    <3>3. Encoded(w[i], m.inside[i + 1]) \in MovieType
      BY <2>2, <3>2, EncodedKeeps
    <3> QED
      BY <3>1, <3>2, <3>3
  <2>3. \A i \in 0..out : i \in S
    <3> HIDE DEF S
    <3> QED
      BY <1>1, <2>1, <2>2, Counting
  <2>4. w = [i \in 0..out |-> w[i]]
    <3>1. DOMAIN w = 0..out
      BY <1>6
    <3> QED
      BY <1>6
  <2> QED
    BY <2>3, <2>4
<1> QED
  BY <1>2, <1>7, <1>8, <1>9

(* The first k images inside m have joined the file of w.                  *)
Moved(m, w, k) ==
  /\ w \in MovieType
  /\ w = [m EXCEPT !.base = w.base, !.lastPts = w.lastPts, !.file = w.file]
  /\ Len(w.file) = Len(m.file) + k
  /\ \A i \in 1..Len(m.file) : w.file[i] = m.file[i]
  /\ \A i \in 1..k : /\ w.file[Len(m.file) + i].n = m.inside[i].n
                     /\ w.file[Len(m.file) + i].key = m.inside[i].key
  /\ Climbs(m) => Climbs(w)

LEMMA OneMoreMoves ==
  ASSUME NEW m \in MovieType, NEW k \in 0..(Len(m.inside) - 1), NEW w, Moved(m, w, k)
  PROVE  Moved(m, Encoded(w, m.inside[k + 1]), k + 1)
<1> DEFINE image == m.inside[k + 1]
           v == Encoded(w, image)
           F == Len(m.file)
<1>1. F \in Nat /\ Len(m.inside) \in Nat /\ image \in PacketType /\ k \in Nat
  <2>1. m.inside \in Seq(PacketType) /\ m.file \in Seq(ImageType)
    BY DEF MovieType
  <2> QED
    BY <2>1
<1>2. /\ w \in MovieType /\ Len(w.file) = F + k
      /\ w = [m EXCEPT !.base = w.base, !.lastPts = w.lastPts, !.file = w.file]
      /\ \A i \in 1..F : w.file[i] = m.file[i]
      /\ \A i \in 1..k : w.file[F + i].n = m.inside[i].n /\ w.file[F + i].key = m.inside[i].key
      /\ Climbs(m) => Climbs(w)
  BY DEF Moved
<1> HIDE DEF image
<1>3. /\ v \in MovieType
      /\ v = [w EXCEPT !.base = v.base, !.lastPts = v.lastPts, !.file = v.file]
      /\ Len(v.file) = F + k + 1
      /\ \A i \in 1..(F + k) : v.file[i] = w.file[i]
      /\ v.file[F + k + 1].n = image.n /\ v.file[F + k + 1].key = image.key
      /\ Climbs(w) => Climbs(v)
  <2>1. /\ v \in MovieType
        /\ v = [w EXCEPT !.base = v.base, !.lastPts = v.lastPts, !.file = v.file]
        /\ Len(v.file) = Len(w.file) + 1
        /\ \A i \in 1..Len(w.file) : v.file[i] = w.file[i]
        /\ v.file[Len(w.file) + 1].n = image.n /\ v.file[Len(w.file) + 1].key = image.key
        /\ Climbs(w) => Climbs(v)
    BY <1>1, <1>2, EncodedKeeps
  <2> HIDE DEF v, F
  <2> QED
    BY <1>1, <1>2, <2>1
<1> HIDE DEF v, F
<1>4. v = [m EXCEPT !.base = v.base, !.lastPts = v.lastPts, !.file = v.file]
  <2> DEFINE b == w.base
             l == w.lastPts
             f == w.file
  <2>1. w = [m EXCEPT !.base = b, !.lastPts = l, !.file = f]
    BY <1>2
  <2> HIDE DEF b, l, f
  <2>2. v = [w EXCEPT !.base = v.base, !.lastPts = v.lastPts, !.file = v.file]
    BY <1>3
  <2> QED
    BY <2>1, <2>2 DEF MovieType
<1>5. ASSUME NEW i \in 1..F PROVE v.file[i] = m.file[i]
  <2>1. i \in 1..(F + k)
    BY <1>1
  <2> QED
    BY <1>2, <1>3, <2>1
<1>6. ASSUME NEW i \in 1..(k + 1)
      PROVE  v.file[F + i].n = m.inside[i].n /\ v.file[F + i].key = m.inside[i].key
  <2>1. CASE i = k + 1
    <3>1. F + i = F + k + 1 /\ m.inside[i] = image
      BY <1>1, <2>1 DEF image
    <3> QED
      BY <1>3, <3>1
  <2>2. CASE i # k + 1
    <3>1. i \in 1..k /\ F + i \in 1..(F + k)
      BY <1>1, <2>2
    <3>2. v.file[F + i] = w.file[F + i]
      BY <1>3, <3>1
    <3> QED
      BY <1>2, <3>1, <3>2
  <2> QED
    BY <2>1, <2>2
<1>7. Len(v.file) = F + (k + 1)
  BY <1>1, <1>3
<1>8. Moved(m, v, k + 1)
  BY <1>2, <1>3, <1>4, <1>5, <1>6, <1>7 DEF Moved, F
<1> QED
  BY <1>8 DEF v, image

(* What comes out while count images stay inside.                          *)
LEMMA DrainedMoves ==
  ASSUME NEW m \in MovieType, NEW count \in Nat
  PROVE  LET d == Drained(m, count)
             out == Len(m.inside) - count
             moved == IF out > 0 THEN out ELSE 0
         IN /\ moved \in 0..Len(m.inside)
            /\ d \in MovieType
            /\ d = [m EXCEPT !.base = d.base, !.lastPts = d.lastPts, !.file = d.file,
                             !.inside = d.inside]
            /\ Len(d.file) = Len(m.file) + moved
            /\ \A i \in 1..Len(m.file) : d.file[i] = m.file[i]
            /\ \A i \in 1..moved : /\ d.file[Len(m.file) + i].n = m.inside[i].n
                                   /\ d.file[Len(m.file) + i].key = m.inside[i].key
            /\ Len(d.inside) = Len(m.inside) - moved
            /\ \A i \in 1..Len(d.inside) : d.inside[i] = m.inside[moved + i]
            /\ Climbs(m) => Climbs(d)
<1> DEFINE d == Drained(m, count)
           out == Len(m.inside) - count
           moved == IF out > 0 THEN out ELSE 0
           I == Len(m.inside)
<1>1. m.inside \in Seq(PacketType) /\ I \in Nat /\ Len(m.file) \in Nat
  <2>1. m.inside \in Seq(PacketType) /\ m.file \in Seq(ImageType)
    BY DEF MovieType
  <2> QED
    BY <2>1
<1>2. moved \in 0..I
  BY <1>1
<1>3. CASE out <= 0
  <2>1. d = m /\ moved = 0
    BY <1>1, <1>3 DEF Drained
  <2>2. m = [m EXCEPT !.base = m.base, !.lastPts = m.lastPts, !.file = m.file,
                      !.inside = m.inside]
    BY DEF MovieType
  <2> HIDE DEF d, moved, out
  <2>3. Len(d.file) = Len(m.file) + moved /\ Len(d.inside) = I - moved
    BY <1>1, <2>1
  <2>4. \A i \in 1..Len(d.inside) : d.inside[i] = m.inside[moved + i]
    <3>1. \A i \in 1..I : 0 + i = i
      BY <1>1
    <3>2. d.inside = m.inside /\ moved = 0
      BY <2>1
    <3> HIDE DEF I
    <3> QED
      BY <3>1, <3>2 DEF I
  <2> QED
    BY <1>2, <2>1, <2>2, <2>3, <2>4 DEF d, moved, out
<1>4. CASE out > 0
  <2>1. moved = out /\ out \in 0..I /\ out \in Nat
    BY <1>1, <1>4
  <2>2. d = [EncodedFirst(m, out) EXCEPT !.inside = SubSeq(@, out + 1, Len(@))]
    BY <1>1, <1>4 DEF Drained
  <2> HIDE DEF d, moved, out
  <2>3. PICK w \in [0..out -> MovieType] :
           /\ w[0] = m /\ w[out] = EncodedFirst(m, out)
           /\ \A i \in 1..out : m.inside[i] \in PacketType
                               /\ w[i] = Encoded(w[i - 1], m.inside[i])
    BY <2>1, EncodedFirstIs
  <2>4. Moved(m, w[out], out)
    <3> DEFINE S == {i \in 0..out : Moved(m, w[i], i)}
    <3>1. 0 \in S
      <4>1. m = [m EXCEPT !.base = m.base, !.lastPts = m.lastPts, !.file = m.file]
        BY DEF MovieType
      <4>2. Moved(m, m, 0)
        BY <1>1, <4>1 DEF Moved
      <4> QED
        BY <2>1, <2>3, <4>2
    <3>2. ASSUME NEW i \in 0..(out - 1), i \in S PROVE i + 1 \in S
      <4>1. i + 1 \in 0..out /\ i + 1 \in 1..out /\ (i + 1) - 1 = i /\ i \in 0..(I - 1)
        BY <1>1, <2>1
      <4>2. w[i + 1] = Encoded(w[i], m.inside[i + 1])
        BY <2>3, <4>1
      <4>3. Moved(m, Encoded(w[i], m.inside[i + 1]), i + 1)
        BY <3>2, <4>1, OneMoreMoves
      <4> QED
        BY <4>1, <4>2, <4>3
    <3>3. \A i \in 0..out : i \in S
      <4> HIDE DEF S
      <4> QED
        BY <2>1, <3>1, <3>2, Counting
    <3> QED
      BY <2>1, <3>3
  <2> DEFINE e == w[out]
  <2>5. /\ e \in MovieType
        /\ e = [m EXCEPT !.base = e.base, !.lastPts = e.lastPts, !.file = e.file]
        /\ Len(e.file) = Len(m.file) + out
        /\ \A i \in 1..Len(m.file) : e.file[i] = m.file[i]
        /\ \A i \in 1..out : /\ e.file[Len(m.file) + i].n = m.inside[i].n
                             /\ e.file[Len(m.file) + i].key = m.inside[i].key
        /\ Climbs(m) => Climbs(e)
    BY <2>4 DEF Moved
  <2>6. e = EncodedFirst(m, out)
    BY <2>3
  <2> HIDE DEF e
  <2>7. e.inside = m.inside
    BY <2>5 DEF MovieType
  <2>8. d = [e EXCEPT !.inside = SubSeq(m.inside, out + 1, I)]
    BY <2>2, <2>6, <2>7
  <2>9. /\ SubSeq(m.inside, out + 1, I) \in Seq(PacketType)
        /\ Len(SubSeq(m.inside, out + 1, I)) = I - out
        /\ \A i \in 1..(I - out) : SubSeq(m.inside, out + 1, I)[i] = m.inside[out + i]
    BY <1>1, <2>1
  <2> DEFINE rest == SubSeq(m.inside, out + 1, I)
  <2> HIDE DEF rest
  <2>10. /\ d.file = e.file /\ d.lastPts = e.lastPts /\ d.base = e.base
         /\ d.inside = rest /\ d \in MovieType
    BY <2>5, <2>8, <2>9 DEF MovieType, rest
  <2>11. d = [m EXCEPT !.base = d.base, !.lastPts = d.lastPts, !.file = d.file,
                       !.inside = d.inside]
    <3> DEFINE eb == e.base
               el == e.lastPts
               ef == e.file
    <3>1. e = [m EXCEPT !.base = eb, !.lastPts = el, !.file = ef]
      BY <2>5
    <3>2. d.file = ef /\ d.lastPts = el /\ d.base = eb
      BY <2>10
    <3> HIDE DEF eb, el, ef
    <3>3. d = [e EXCEPT !.inside = rest]
      BY <2>8 DEF rest
    <3> QED
      BY <2>10, <3>1, <3>2, <3>3 DEF MovieType
  <2>12. Climbs(e) => Climbs(d)
    BY <2>10 DEF Climbs
  <2>13. Len(d.inside) = I - out /\ \A i \in 1..(I - out) : d.inside[i] = m.inside[out + i]
    BY <2>9, <2>10 DEF rest
  <2> QED
    BY <1>2, <2>1, <2>5, <2>10, <2>11, <2>12, <2>13 DEF d, moved, out
<1> QED
  BY <1>1, <1>3, <1>4

(* The next stamp of a movie's packets: it follows the last one, and if    *)
(* the camera's clock is repaired it is in step with the arrival.          *)
LEMMA NormalizeIs ==
  ASSUME NEW s \in NormalizerType, NEW input \in StampType, NEW arrival \in Int
  PROVE  LET n == Normalize(s, input, arrival)
         IN /\ n \in NormalizerType /\ n.started
            /\ n.repair = s.repair /\ n.lastArrival = arrival
            /\ IF s.started THEN n.last > s.last /\ n.firstArrival = s.firstArrival
               ELSE n.firstArrival = arrival
            /\ s.started /\ s.repair /\ s.firstArrival <= arrival =>
                 InStep(s.last, n.last, arrival - s.firstArrival)
<1> DEFINE n == Normalize(s, input, arrival)
<1>1. /\ s.firstInput \in StampType /\ s.lastInput \in StampType /\ s.firstArrival \in Int
      /\ s.lastArrival \in Int /\ s.last \in Int /\ s.repair \in BOOLEAN /\ s.started \in BOOLEAN
  BY DEF NormalizerType
<1>2. CASE ~s.started
  <2>1. n = [s EXCEPT !.started = TRUE, !.firstInput = input, !.lastInput = input,
                      !.firstArrival = arrival, !.lastArrival = arrival, !.last = 0]
    BY <1>2 DEF Normalize
  <2> HIDE DEF n
  <2>2. n = [repair |-> s.repair, started |-> TRUE, firstInput |-> input,
             lastInput |-> input, firstArrival |-> arrival, lastArrival |-> arrival,
             last |-> 0]
    BY <2>1 DEF NormalizerType
  <2>3. n \in NormalizerType /\ n.started /\ n.repair = s.repair
        /\ n.lastArrival = arrival /\ n.firstArrival = arrival
    BY <1>1, <2>2 DEF NormalizerType
  <2> QED
    BY <1>2, <2>3 DEF n
<1>3. CASE s.started
  <2> DEFINE first == IF s.firstInput = NoStamp /\ ~s.repair THEN input ELSE s.firstInput
             last == IF s.repair THEN RepairedStamp(s, input, arrival)
                     ELSE RebasedStamp(s, input, first)
  <2>1. n = [s EXCEPT !.firstInput = first, !.lastInput = input, !.lastArrival = arrival,
                      !.last = last]
    BY <1>3 DEF Normalize
  <2>2. first \in StampType
    BY <1>1
  <2>3. CASE s.repair
    <3> DEFINE elapsed == Larger(arrival - s.firstArrival, 0)
               floor == IF elapsed > SkewAllowance THEN elapsed - SkewAllowance ELSE 0
               low == Larger(s.last + 1, floor)
               high == Larger(low, elapsed + SkewAllowance)
               x == UnboundedStamp(s, input, arrival)
    <3>1. last = Clamp(x, low, high)
      BY <2>3 DEF RepairedStamp
    <3>2. SkewAllowance \in Nat
      BY TicksAssumption DEF SkewAllowance
    <3>3. /\ elapsed \in Int
          /\ s.firstArrival <= arrival => elapsed = arrival - s.firstArrival
      BY <1>1 DEF Larger
    <3> HIDE DEF elapsed
    <3>4. floor \in Int /\ floor >= elapsed - SkewAllowance /\ (elapsed >= 0 => floor <= elapsed)
      BY <3>2, <3>3
    <3> HIDE DEF floor
    <3>5. /\ low \in Int /\ low > s.last /\ low >= floor
          /\ low = s.last + 1 \/ low = floor
      BY <1>1, <3>4 DEF Larger
    <3> HIDE DEF low
    <3>6. /\ high \in Int /\ high >= low
          /\ high = low \/ high = elapsed + SkewAllowance
          /\ high >= elapsed + SkewAllowance
      BY <3>2, <3>3, <3>5 DEF Larger
    <3> HIDE DEF high
    <3>7. x \in Int
      <4>1. ArrivalStep(s, arrival) \in Int
        BY <1>1 DEF ArrivalStep, Larger
      <4>2. StampStep(s, input, arrival) \in Int
        <5>1. input # NoStamp /\ s.lastInput # NoStamp => input - s.lastInput \in Int
          BY <1>1 DEF StampType
        <5> QED
          BY <4>1, <5>1 DEF StampStep
      <4> QED
        BY <1>1, <4>2 DEF UnboundedStamp
    <3> HIDE DEF x, last
    <3>8. last \in Int /\ last >= low /\ last <= high
      BY <3>1, <3>5, <3>6, <3>7 DEF Clamp
    <3>9. last > s.last
      BY <1>1, <3>5, <3>8
    <3>10. ASSUME s.firstArrival <= arrival
           PROVE  InStep(s.last, last, arrival - s.firstArrival)
      <4>1. elapsed = arrival - s.firstArrival /\ elapsed >= 0
        BY <1>1, <3>3, <3>10
      <4>2. last >= elapsed - SkewAllowance
        BY <3>2, <3>3, <3>4, <3>5, <3>8
      <4>3. last <= elapsed + SkewAllowance \/ last = s.last + 1
        BY <1>1, <3>2, <3>3, <3>4, <3>5, <3>6, <3>8, <4>1
      <4> QED
        BY <3>9, <4>1, <4>2, <4>3 DEF InStep
    <3>11. n = [s EXCEPT !.firstInput = first, !.lastInput = input, !.lastArrival = arrival,
                         !.last = last]
      BY <2>1
    <3> HIDE DEF n, first
    <3>12. /\ n.last = last /\ n.firstArrival = s.firstArrival /\ n.lastArrival = arrival
           /\ n.repair = s.repair /\ n.started /\ n \in NormalizerType
      BY <1>3, <2>2, <3>8, <3>11 DEF NormalizerType
    <3> QED
      BY <1>3, <3>9, <3>10, <3>12 DEF n
  <2>4. CASE ~s.repair
    <3>1. last = RebasedStamp(s, input, first)
      BY <2>4
    <3>2. input # NoStamp => first \in Int /\ input \in Int
      BY <1>1, <2>4 DEF StampType
    <3> HIDE DEF first, last
    <3>3. last \in Int /\ last > s.last
      BY <1>1, <3>1, <3>2 DEF RebasedStamp, Larger
    <3>4. n = [s EXCEPT !.firstInput = first, !.lastInput = input, !.lastArrival = arrival,
                        !.last = last]
      BY <2>1 DEF first, last
    <3> HIDE DEF n
    <3>5. /\ n.last = last /\ n.firstArrival = s.firstArrival /\ n.lastArrival = arrival
          /\ n.repair = s.repair /\ n.started /\ n \in NormalizerType
      BY <1>3, <2>2, <3>3, <3>4 DEF NormalizerType
    <3> QED
      BY <1>3, <2>4, <3>3, <3>5 DEF n
  <2> QED
    BY <1>1, <2>3, <2>4
<1> QED
  BY <1>1, <1>2, <1>3

(* What holds of a movie between two writes.  It has its shape:            *)
Empty(m) == m.file = <<>> /\ m.inside = <<>>
Shape(m) ==
  /\ m \in MovieType
  /\ ~m.open => m.inside = <<>>
  /\ camera.codec = "copy" => m.inside = <<>>
  /\ m.open /\ ~m.started => Empty(m)
  /\ m.open /\ m.started /\ (camera.codec = "copy" \/ ~m.faulty) => ~Empty(m)

(* it begins at a keyframe, be that image still inside or in the file;     *)
AtKey(m) ==
  camera.codec = "copy" \/ ~m.faulty =>
    /\ m.file # <<>> => m.file[1].key
    /\ m.file = <<>> /\ m.inside # <<>> => m.inside[1].key

(* its images are numbered without a gap up to the last packet handed to   *)
(* the writer, from the one the movie was to begin with;                   *)
Count(m) == Len(m.file) + Len(m.inside)
InOrder(m) ==
  ~m.faulty =>
    /\ \A i \in 1..Len(m.file) : m.file[i].n = m.fed - Count(m) + i
    /\ \A i \in 1..Len(m.inside) : m.inside[i].n = m.fed - Len(m.inside) + i
    /\ m.begin # 0 /\ Count(m) # 0 => m.begin = m.fed - Count(m) + 1

(* whatever has failed, no image of it comes twice or after a later one;   *)
At(m, i) == IF i <= Len(m.file) THEN m.file[i].n ELSE m.inside[i - Len(m.file)].n
Ascends(m) ==
  \A i \in 1..Count(m) :
    /\ At(m, i) <= m.fed
    /\ \A j \in 1..(i - 1) : At(m, j) < At(m, i)

(* its stamps rise, and the next one will be above them;                   *)
Rises(m) == \A i \in 2..Len(m.file) : m.file[i].dts > m.file[i - 1].dts
Rising(m) ==
  /\ Rises(m)
  /\ m.open /\ camera.codec # "copy" => Climbs(m)
  /\ m.open /\ camera.codec = "copy" =>
       /\ m.file # <<>> => m.stamps.started /\ m.stamps.last >= m.file[Len(m.file)].dts
       /\ m.stamps.started => m.stamps.firstArrival <= m.stamps.lastArrival

(* and if it is copied and its stamps are repaired, each is in step.       *)
InPace(m) ==
  camera.codec = "copy" /\ ~m.faulty =>
    /\ m.open => m.stamps.repair /\ (m.stamps.started <=> m.started)
    /\ m.open /\ m.started =>
         /\ m.stamps.last = m.file[Len(m.file)].dts
         /\ m.stamps.firstArrival = m.file[1].at
    /\ \A i \in 2..Len(m.file) :
         InStep(m.file[i - 1].dts, m.file[i].dts, m.file[i].at - m.file[1].at)

Good(m) == Shape(m) /\ AtKey(m) /\ Rising(m)

(* The packet comes after those the movie holds, or is its first.          *)
Follows(m, packet) ==
  IF Count(m) = 0 THEN m.begin \in {0, packet.n} ELSE packet.n = m.fed + 1

Later(m, packet) == Count(m) = 0 \/ m.fed < packet.n

(* What a packet handed to the writer leaves.                              *)
Results == {"done"} \union Losses
Handed(m, packet, outcome, w) ==
  /\ Good(w)
  /\ w.open = m.open /\ w.begin = m.begin /\ w.fed = packet.n
  /\ w.faulty <=> m.faulty \/ outcome \in Losses
  /\ w.stamps.repair = m.stamps.repair
  /\ w.stamps.started => \/ w.stamps.lastArrival = packet.at
                         \/ m.stamps.started /\ w.stamps.lastArrival = m.stamps.lastArrival
  /\ ~w.faulty => Count(w) = Count(m) + 1
  /\ InOrder(m) /\ Follows(m, packet) => InOrder(w)
  /\ Ascends(m) /\ Later(m, packet) => Ascends(w)
  /\ InPace(m) => InPace(w)

LEMMA NumbersOf ==
  ASSUME NEW m \in MovieType
  PROVE  /\ Count(m) \in Nat /\ Len(m.file) \in Nat /\ Len(m.inside) \in Nat
         /\ Count(m) = Len(m.file) + Len(m.inside) /\ m.fed \in Nat
         /\ \A i \in 1..Count(m) : At(m, i) \in Nat
<1> DEFINE f == Len(m.file)
           k == Len(m.inside)
<1>1. m.file \in Seq(ImageType) /\ m.inside \in Seq(PacketType) /\ m.fed \in Nat
  BY DEF MovieType
<1>2. /\ f \in Nat /\ k \in Nat
      /\ \A i \in 1..f : m.file[i] \in ImageType
      /\ \A i \in 1..k : m.inside[i] \in PacketType
  BY <1>1
<1>3. Count(m) = f + k
  BY DEF Count
<1>4. ASSUME NEW i \in 1..Count(m) PROVE At(m, i) \in Nat
  <2> HIDE DEF f, k
  <2>1. CASE i <= f
    <3>1. i \in 1..f
      BY <1>2, <1>3, <2>1
    <3>2. At(m, i) = m.file[i].n
      BY <2>1 DEF At, f
    <3> QED
      BY <1>2, <3>1, <3>2 DEF ImageType
  <2>2. CASE ~(i <= f)
    <3>1. i - f \in 1..k
      BY <1>2, <1>3, <2>2
    <3>2. At(m, i) = m.inside[i - f].n
      BY <2>2 DEF At, f
    <3> QED
      BY <1>2, <3>1, <3>2 DEF PacketType
  <2> QED
    BY <2>1, <2>2
<1> HIDE DEF f, k
<1>5. Count(m) \in Nat
  BY <1>2, <1>3
<1> QED
  BY <1>1, <1>2, <1>3, <1>4, <1>5 DEF f, k

(* Images that are taken out of a movie leave the others in order.         *)
LEMMA AscendsPart ==
  ASSUME NEW m \in MovieType, NEW w \in MovieType, Ascends(m), m.fed <= w.fed,
         NEW f \in Nat, NEW moved \in Nat,
         IF Count(w) <= f THEN Count(w) <= Count(m) ELSE Count(w) + moved <= Count(m),
         \A i \in 1..Count(w) : At(w, i) = IF i <= f THEN At(m, i) ELSE At(m, i + moved)
  PROVE  Ascends(w)
<1>1. /\ Count(m) \in Nat /\ Count(w) \in Nat /\ m.fed \in Nat /\ w.fed \in Nat
      /\ \A i \in 1..Count(m) : At(m, i) \in Nat
  BY NumbersOf
<1> DEFINE place(i) == IF i <= f THEN i ELSE i + moved
<1>2. ASSUME NEW i \in 1..Count(w)
      PROVE  place(i) \in 1..Count(m) /\ At(w, i) = At(m, place(i))
  BY <1>1
<1> SUFFICES ASSUME NEW i \in 1..Count(w)
             PROVE  At(w, i) <= w.fed /\ \A j \in 1..(i - 1) : At(w, j) < At(w, i)
  BY DEF Ascends
<1>3. place(i) \in 1..Count(m) /\ At(w, i) = At(m, place(i))
  BY <1>2
<1>4. At(m, place(i)) <= m.fed /\ At(m, place(i)) \in Nat
  BY <1>1, <1>3 DEF Ascends
<1>5. ASSUME NEW j \in 1..(i - 1) PROVE At(w, j) < At(w, i)
  <2>1. j \in 1..Count(w) /\ place(j) \in 1..(place(i) - 1)
    BY <1>1
  <2>2. At(w, j) = At(m, place(j))
    BY <1>2, <2>1
  <2> HIDE DEF place
  <2>3. At(m, place(j)) < At(m, place(i))
    BY <1>3, <2>1 DEF Ascends
  <2> QED
    BY <1>3, <2>2, <2>3
<1> HIDE DEF place
<1> QED
  BY <1>1, <1>3, <1>4, <1>5

(* A later image that joins a movie comes after the others.                *)
LEMMA AscendsMore ==
  ASSUME NEW m \in MovieType, NEW w \in MovieType, Ascends(m),
         Count(m) = 0 \/ m.fed < w.fed, Count(w) = Count(m) + 1,
         \A i \in 1..Count(m) : At(w, i) = At(m, i), At(w, Count(w)) = w.fed
  PROVE  Ascends(w)
<1>1. /\ Count(m) \in Nat /\ Count(w) \in Nat /\ m.fed \in Nat /\ w.fed \in Nat
      /\ \A i \in 1..Count(m) : At(m, i) \in Nat /\ At(m, i) <= m.fed
  BY NumbersOf DEF Ascends
<1> SUFFICES ASSUME NEW i \in 1..Count(w)
             PROVE  At(w, i) <= w.fed /\ \A j \in 1..(i - 1) : At(w, j) < At(w, i)
  BY DEF Ascends
<1>2. CASE i \in 1..Count(m)
  <2>1. At(w, i) <= w.fed
    BY <1>1, <1>2
  <2>2. ASSUME NEW j \in 1..(i - 1) PROVE At(w, j) < At(w, i)
    <3>1. j \in 1..Count(m)
      BY <1>1, <1>2
    <3>2. At(m, j) < At(m, i)
      BY <1>2 DEF Ascends
    <3> QED
      BY <1>2, <3>1, <3>2
  <2> QED
    BY <2>1, <2>2
<1>3. CASE i = Count(w)
  <2>1. At(w, i) = w.fed
    BY <1>3
  <2>2. ASSUME NEW j \in 1..(i - 1) PROVE At(w, j) < At(w, i)
    <3>1. j \in 1..Count(m) /\ Count(m) # 0
      BY <1>1, <1>3
    <3> QED
      BY <1>1, <2>1, <3>1
  <2> QED
    BY <1>1, <2>1, <2>2
<1> QED
  BY <1>1, <1>2, <1>3

LEMMA CopiedKeeps ==
  ASSUME camera.codec = "copy",
         NEW m, Good(m), m.open, NEW packet \in PacketType, m.started \/ packet.key,
         m.stamps.started => m.stamps.lastArrival <= packet.at,
         NEW outcome \in Results
  PROVE  Handed(m, packet, outcome,
                Copied([m EXCEPT !.fed = packet.n, !.faulty = @ \/ outcome \in Losses],
                       packet, outcome))
<1> DEFINE faulty == m.faulty \/ outcome \in Losses
           told == [m EXCEPT !.fed = packet.n, !.faulty = faulty]
           w == Copied(told, packet, outcome)
           n == Normalize(m.stamps, packet.dts, packet.at)
           new == [n |-> packet.n, key |-> packet.key, at |-> packet.at, dts |-> n.last]
           F == Len(m.file)
<1>1. /\ m \in MovieType /\ m.inside = <<>> /\ m.stamps \in NormalizerType
      /\ m.file \in Seq(ImageType) /\ m.started \in BOOLEAN /\ m.faulty \in BOOLEAN
      /\ m.fed \in Nat /\ m.begin \in Nat /\ F \in Nat
      /\ m.started <=> m.file # <<>>
      /\ m.file # <<>> => m.file[1].key
      /\ Rises(m)
      /\ m.file # <<>> => m.stamps.started /\ m.stamps.last >= m.file[F].dts
      /\ m.stamps.started => m.stamps.firstArrival <= m.stamps.lastArrival
  <2>1. m \in MovieType
    BY DEF Good, Shape
  <2>2. /\ m.stamps \in NormalizerType /\ m.file \in Seq(ImageType) /\ m.started \in BOOLEAN
        /\ m.faulty \in BOOLEAN /\ m.fed \in Nat /\ m.begin \in Nat /\ F \in Nat
    BY <2>1 DEF MovieType
  <2>3. m.inside = <<>> /\ (m.started <=> m.file # <<>>)
    BY <2>2 DEF Good, Shape, Empty
  <2> QED
    BY <2>1, <2>2, <2>3 DEF Good, AtKey, Rising
<1>2. /\ packet.n \in Nat /\ packet.key \in BOOLEAN /\ packet.at \in Nat
      /\ packet.dts \in StampType
  BY DEF PacketType
<1>3. /\ m.stamps.firstArrival \in Int /\ m.stamps.lastArrival \in Int
      /\ m.stamps.last \in Int /\ m.stamps.started \in BOOLEAN
  BY <1>1 DEF NormalizerType
<1>4. /\ n \in NormalizerType /\ n.started
      /\ n.repair = m.stamps.repair /\ n.lastArrival = packet.at
      /\ IF m.stamps.started THEN n.last > m.stamps.last
                                  /\ n.firstArrival = m.stamps.firstArrival
         ELSE n.firstArrival = packet.at
      /\ m.stamps.started /\ m.stamps.repair /\ m.stamps.firstArrival <= packet.at =>
           InStep(m.stamps.last, n.last, packet.at - m.stamps.firstArrival)
  <2>1. packet.at \in Int
    BY <1>2
  <2> QED
    BY <1>1, <1>2, <2>1, NormalizeIs
<1>5. n.firstArrival <= packet.at /\ n.firstArrival \in Int /\ n.last \in Int
  <2>1. n.firstArrival \in Int /\ n.last \in Int
    BY <1>4 DEF NormalizerType
  <2> QED
    BY <1>1, <1>2, <1>3, <1>4, <2>1
<1>6. new \in ImageType /\ new.n = packet.n /\ new.key = packet.key /\ new.at = packet.at
      /\ new.dts = n.last
  BY <1>2, <1>5 DEF ImageType
<1> HIDE DEF n, new
<1> DEFINE longer == Append(m.file, new)
<1>7. /\ longer \in Seq(ImageType) /\ Len(longer) = F + 1 /\ longer # <<>>
      /\ \A i \in 1..F : longer[i] = m.file[i] /\ m.file[i] \in ImageType
      /\ longer[F + 1] = new
      /\ m.file = <<>> <=> F = 0
  BY <1>1, <1>6, ImageJoins
<1>8. faulty \in BOOLEAN
  BY <1>1
<1>9. told.stamps = m.stamps /\ told.file = m.file
  BY <1>1 DEF MovieType
<1> DEFINE stamps == IF outcome \in {"skipped", "refused"} THEN m.stamps ELSE n
           file == IF outcome = "done" THEN longer ELSE m.file
           started == m.started \/ outcome = "done"
<1>10. w = [m EXCEPT !.fed = packet.n, !.faulty = faulty, !.stamps = stamps,
                     !.started = started, !.file = file]
  <2>1. CASE outcome \in {"skipped", "refused"}
    <3>1. w = told
      BY <2>1 DEF Copied
    <3> HIDE DEF faulty, w
    <3>2. stamps = m.stamps /\ file = m.file /\ started = m.started
      BY <1>1, <2>1
    <3> HIDE DEF stamps, file, started
    <3> QED
      BY <1>1, <3>1, <3>2 DEF MovieType
  <2>2. CASE outcome = "lost"
    <3>1. w = [told EXCEPT !.stamps = n]
      BY <1>9, <2>2 DEF Copied, n
    <3> HIDE DEF faulty, w
    <3>2. stamps = n /\ file = m.file /\ started = m.started
      BY <1>1, <2>2
    <3> HIDE DEF stamps, file, started
    <3> QED
      BY <1>1, <3>1, <3>2 DEF MovieType
  <2>3. CASE outcome = "done"
    <3>1. w = [told EXCEPT !.stamps = n, !.started = TRUE, !.file = longer]
      BY <1>9, <2>3 DEF Copied, n, new
    <3> HIDE DEF faulty, w
    <3>2. stamps = n /\ file = longer /\ started = TRUE
      BY <1>1, <2>3
    <3> HIDE DEF stamps, file, started
    <3> QED
      BY <1>1, <3>1, <3>2 DEF MovieType
  <2> QED
    BY <2>1, <2>2, <2>3 DEF Results, Losses, Failures
<1>11. stamps \in NormalizerType /\ file \in Seq(ImageType) /\ started \in BOOLEAN
  BY <1>1, <1>4, <1>7
<1> HIDE DEF faulty, stamps, file, started, w, longer
<1>12. /\ w \in MovieType
       /\ w.open = m.open /\ w.begin = m.begin /\ w.fed = packet.n /\ w.faulty = faulty
       /\ w.stamps = stamps /\ w.started = started /\ w.file = file /\ w.inside = <<>>
  BY <1>1, <1>2, <1>8, <1>10, <1>11 DEF MovieType
<1>13. /\ started <=> file # <<>>
       /\ file # <<>> => file[1].key
  <2>1. CASE outcome = "done"
    <3>1. started /\ file = longer
      BY <2>1 DEF started, file
    <3>2. longer[1].key
      <4>1. CASE F = 0
        BY <1>1, <1>6, <1>7, <4>1
      <4>2. CASE F # 0
        <5>1. 1 \in 1..F
          BY <1>1, <4>2
        <5> QED
          BY <1>1, <1>7, <4>2, <5>1
      <4> QED
        BY <4>1, <4>2
    <3> QED
      BY <1>7, <3>1, <3>2
  <2>2. CASE outcome # "done"
    BY <1>1, <2>2 DEF started, file
  <2> QED
    BY <2>1, <2>2
<1>14. Shape(w) /\ AtKey(w)
  BY <1>12, <1>13 DEF Shape, AtKey, Empty
<1>15. stamps.started /\ outcome \notin {"skipped", "refused"} => stamps = n
  BY DEF stamps
<1>16. Rising(w)
  <2>1. Rises(w)
    <3>1. CASE outcome = "done"
      <4> SUFFICES ASSUME NEW i \in 2..(F + 1) PROVE longer[i].dts > longer[i - 1].dts
        BY <1>7, <1>12, <3>1 DEF Rises, file
      <4>1. CASE i = F + 1
        <5>1. F \in 1..F /\ i - 1 = F /\ F # 0
          BY <1>1, <4>1
        <5>2. longer[i].dts = n.last /\ longer[i - 1] = m.file[F] /\ m.file[F] \in ImageType
          BY <1>6, <1>7, <4>1, <5>1
        <5>3. m.stamps.started /\ m.stamps.last >= m.file[F].dts /\ m.file[F].dts \in Int
          BY <1>1, <1>7, <5>1, <5>2 DEF ImageType
        <5> QED
          BY <1>3, <1>4, <1>5, <5>2, <5>3
      <4>2. CASE i # F + 1
        <5>1. i \in 2..F /\ i \in 1..F /\ i - 1 \in 1..F
          BY <1>1, <4>2
        <5> QED
          BY <1>1, <1>7, <5>1 DEF Rises
      <4> QED
        BY <4>1, <4>2
    <3>2. CASE outcome # "done"
      BY <1>1, <1>12, <3>2 DEF Rises, file
    <3> QED
      BY <3>1, <3>2
  <2>2. file # <<>> => stamps.started /\ stamps.last >= file[Len(file)].dts
    <3>1. CASE outcome = "done"
      <4>1. file = longer /\ stamps = n
        BY <3>1 DEF file, stamps
      <4> QED
        BY <1>4, <1>5, <1>6, <1>7, <4>1
    <3>2. CASE outcome = "lost"
      <4>1. file = m.file /\ stamps = n
        BY <3>2 DEF file, stamps
      <4>2. m.file # <<>> => F \in 1..F
        BY <1>1, <1>7
      <4>3. m.file # <<>> => m.file[F].dts \in Int
        BY <1>7, <4>2 DEF ImageType
      <4> QED
        BY <1>1, <1>3, <1>4, <1>5, <4>1, <4>3
    <3>3. CASE outcome \in {"skipped", "refused"}
      BY <1>1, <3>3 DEF file, stamps
    <3> QED
      BY <3>1, <3>2, <3>3 DEF Results, Losses, Failures
  <2>3. stamps.started => stamps.firstArrival <= stamps.lastArrival
    BY <1>1, <1>4, <1>5 DEF stamps
  <2> QED
    BY <1>12, <2>1, <2>2, <2>3 DEF Rising
<1>17. /\ stamps.repair = m.stamps.repair
       /\ stamps.started => \/ stamps.lastArrival = packet.at
                            \/ m.stamps.started /\ stamps.lastArrival = m.stamps.lastArrival
  BY <1>4 DEF stamps
<1>18. ~faulty => outcome = "done" /\ file = longer /\ stamps = n /\ started /\ ~m.faulty
  BY DEF faulty, Results, Losses, Failures, file, stamps, started
<1>19. ~w.faulty => Count(w) = Count(m) + 1
  BY <1>1, <1>7, <1>12, <1>18 DEF Count
<1>20. ASSUME InOrder(m), Follows(m, packet) PROVE InOrder(w)
  <2> SUFFICES ASSUME ~w.faulty PROVE InOrder(w)
    BY DEF InOrder
  <2>1. w.file = longer /\ ~m.faulty /\ Count(w) = F + 1 /\ Count(m) = F
    BY <1>1, <1>7, <1>12, <1>18 DEF Count
  <2>2. /\ \A i \in 1..F : m.file[i].n = m.fed - F + i
        /\ m.begin # 0 /\ F # 0 => m.begin = m.fed - F + 1
    BY <1>20, <2>1 DEF InOrder
  <2>3. IF F = 0 THEN m.begin \in {0, packet.n} ELSE packet.n = m.fed + 1
    BY <1>20, <2>1 DEF Follows
  <2>4. ASSUME NEW i \in 1..(F + 1) PROVE longer[i].n = packet.n - (F + 1) + i
    <3>1. CASE i = F + 1
      BY <1>1, <1>2, <1>6, <1>7, <3>1
    <3>2. CASE i # F + 1
      <4>1. i \in 1..F /\ F # 0
        BY <1>1, <3>2
      <4>2. longer[i].n = m.fed - F + i /\ packet.n = m.fed + 1
        BY <1>7, <2>2, <2>3, <4>1
      <4> QED
        BY <1>1, <1>2, <4>1, <4>2
    <3> QED
      BY <3>1, <3>2
  <2>5. m.begin # 0 => m.begin = packet.n - (F + 1) + 1
    <3>1. CASE F = 0
      BY <1>1, <1>2, <2>3, <3>1
    <3>2. CASE F # 0
      <4>1. m.begin # 0 => m.begin = m.fed - F + 1
        BY <2>2, <3>2
      <4>2. packet.n = m.fed + 1
        BY <2>3, <3>2
      <4> HIDE DEF F
      <4> QED
        BY <1>1, <1>2, <4>1, <4>2
    <3> QED
      BY <3>1, <3>2
  <2>6. \A i \in 1..Len(w.file) : w.file[i].n = w.fed - Count(w) + i
    BY <1>7, <1>12, <2>1, <2>4
  <2>7. Len(w.inside) = 0
    BY <1>12
  <2> QED
    BY <1>12, <2>1, <2>5, <2>6, <2>7 DEF InOrder
<1>21. ASSUME InPace(m) PROVE InPace(w)
  <2> SUFFICES ASSUME ~w.faulty PROVE InPace(w)
    BY DEF InPace
  <2>1. /\ w.file = longer /\ w.stamps = n /\ w.started /\ ~m.faulty
    BY <1>12, <1>18
  <2>2. /\ m.stamps.repair /\ (m.stamps.started <=> m.started)
        /\ m.started => m.stamps.last = m.file[F].dts /\ m.stamps.firstArrival = m.file[1].at
        /\ \A i \in 2..F :
             InStep(m.file[i - 1].dts, m.file[i].dts, m.file[i].at - m.file[1].at)
    BY <1>21, <2>1 DEF InPace
  <2>3. F = 0 \/ (1 \in 1..F /\ F \in 1..F)
    BY <1>1
  <2>4. n.firstArrival = longer[1].at /\ n.last = longer[F + 1].dts
    <3>1. CASE F = 0
      <4>1. ~m.stamps.started /\ longer[1] = new
        BY <1>1, <1>7, <2>2, <3>1
      <4> QED
        BY <1>4, <1>6, <1>7, <4>1
    <3>2. CASE F # 0
      <4>1. m.stamps.started /\ m.stamps.firstArrival = m.file[1].at /\ longer[1] = m.file[1]
        BY <1>1, <1>7, <2>2, <2>3, <3>2
      <4> QED
        BY <1>4, <1>6, <1>7, <4>1
    <3> QED
      BY <3>1, <3>2
  <2>5. ASSUME NEW i \in 2..(F + 1)
        PROVE  InStep(longer[i - 1].dts, longer[i].dts, longer[i].at - longer[1].at)
    <3>1. F # 0 /\ 1 \in 1..F /\ F \in 1..F
      BY <1>1
    <3>2. longer[1] = m.file[1] /\ m.started /\ m.stamps.started
      BY <1>1, <1>7, <2>2, <3>1
    <3>3. CASE i = F + 1
      <4>1. longer[i - 1] = m.file[F] /\ longer[i] = new
        BY <1>1, <1>7, <3>1, <3>3
      <4>2. m.stamps.firstArrival <= packet.at
        BY <1>1, <1>2, <1>3, <3>2
      <4>3. InStep(m.stamps.last, n.last, packet.at - m.stamps.firstArrival)
        BY <1>4, <2>2, <3>2, <4>2
      <4> QED
        BY <1>6, <2>2, <3>2, <4>1, <4>3
    <3>4. CASE i # F + 1
      <4>1. i \in 2..F /\ i \in 1..F /\ i - 1 \in 1..F
        BY <1>1, <3>4
      <4>2. longer[i] = m.file[i] /\ longer[i - 1] = m.file[i - 1]
        BY <1>7, <4>1
      <4> QED
        BY <2>2, <3>2, <4>1, <4>2
    <3> QED
      BY <3>3, <3>4
  <2>6. w.stamps.repair /\ w.stamps.started
    BY <1>4, <2>1, <2>2
  <2> QED
    BY <1>7, <2>1, <2>4, <2>5, <2>6 DEF InPace
<1>22. w.faulty <=> m.faulty \/ outcome \in Losses
  BY <1>12 DEF faulty
<1>24. ASSUME Ascends(m), Later(m, packet) PROVE Ascends(w)
  <2>1. Count(m) = F /\ m \in MovieType /\ w \in MovieType /\ w.fed = packet.n
    BY <1>1, <1>12 DEF Count
  <2>2. \A i \in 1..F : At(m, i) = m.file[i].n
    BY DEF At
  <2>3. CASE outcome = "done"
    <3>1. w.file = longer /\ Len(w.file) = F + 1 /\ Len(w.inside) = 0 /\ Count(w) = F + 1
      BY <1>1, <1>7, <1>12, <2>3 DEF Count, file
    <3>2. \A i \in 1..(F + 1) : At(w, i) = longer[i].n
      BY <3>1 DEF At
    <3>4. F \in Nat /\ F + 1 \in 1..(F + 1) /\ \A i \in 1..F : i \in 1..(F + 1)
      BY <1>1
    <3> HIDE DEF F
    <3>5. At(w, F + 1) = w.fed
      BY <1>6, <1>7, <2>1, <3>2, <3>4
    <3>6. \A i \in 1..F : At(w, i) = At(m, i)
      BY <1>7, <2>2, <3>2, <3>4
    <3>3. At(w, F + 1) = w.fed /\ \A i \in 1..F : At(w, i) = At(m, i)
      BY <3>5, <3>6
    <3> QED
      BY <1>24, <2>1, <3>1, <3>3, AscendsMore DEF Later
  <2>4. CASE outcome # "done"
    <3>1. w.file = m.file /\ Count(w) = F
      BY <1>1, <1>12, <2>4 DEF Count, file
    <3>2. \A i \in 1..F : At(w, i) = At(m, i)
      BY <3>1 DEF At
    <3>3. CASE F = 0
      BY <3>1, <3>3 DEF Ascends
    <3>4. CASE F # 0
      <4>1. m.fed <= w.fed
        BY <1>1, <1>2, <1>24, <2>1, <3>4 DEF Later
      <4> HIDE DEF F
      <4>2. /\ IF Count(w) <= F THEN Count(w) <= Count(m) ELSE Count(w) + 0 <= Count(m)
            /\ \A i \in 1..Count(w) : At(w, i) = IF i <= F THEN At(m, i) ELSE At(m, i + 0)
        BY <1>1, <2>1, <3>1, <3>2
      <4> QED
        BY <1>1, <1>24, <2>1, <4>1, <4>2, AscendsPart
    <3> QED
      BY <3>3, <3>4
  <2> QED
    BY <2>3, <2>4
<1>23. Handed(m, packet, outcome, w)
  BY <1>12, <1>14, <1>16, <1>17, <1>19, <1>20, <1>21, <1>22, <1>24 DEF Handed, Good
<1> QED
  BY <1>23 DEF w, faulty

LEMMA TranscodedKeeps ==
  ASSUME camera.codec # "copy", camera.delay \in Nat,
         NEW m, Good(m), m.open, NEW packet \in PacketType, m.started \/ packet.key,
         NEW outcome \in Results
  PROVE  Handed(m, packet, outcome,
                Transcoded([m EXCEPT !.fed = packet.n, !.faulty = @ \/ outcome \in Losses],
                           packet, outcome))
<1> DEFINE faulty == m.faulty \/ outcome \in Losses
           told == [m EXCEPT !.fed = packet.n, !.faulty = faulty]
           begun == [told EXCEPT !.started = TRUE]
           taken == [begun EXCEPT !.inside = Append(@, packet)]
           d == Drained(taken, camera.delay)
           w == Transcoded(told, packet, outcome)
           F == Len(m.file)
           I == Len(m.inside)
           inside == Append(m.inside, packet)
<1>1. /\ m \in MovieType /\ m.inside \in Seq(PacketType) /\ m.stamps \in NormalizerType
      /\ m.file \in Seq(ImageType) /\ m.started \in BOOLEAN /\ m.faulty \in BOOLEAN
      /\ m.fed \in Nat /\ m.begin \in Nat /\ F \in Nat /\ I \in Nat
  BY DEF Good, Shape, MovieType
<1>2. /\ ~m.started => Empty(m)
      /\ ~m.faulty => /\ m.file # <<>> => m.file[1].key
                      /\ m.file = <<>> /\ m.inside # <<>> => m.inside[1].key
      /\ Climbs(m)
      /\ m.file = <<>> <=> F = 0
      /\ m.inside = <<>> <=> I = 0
  <2>1. m.file = <<>> <=> F = 0
    BY <1>1
  <2>2. m.inside = <<>> <=> I = 0
    BY <1>1
  <2>3. /\ ~m.started => Empty(m)
        /\ ~m.faulty => /\ m.file # <<>> => m.file[1].key
                        /\ m.file = <<>> /\ m.inside # <<>> => m.inside[1].key
        /\ Climbs(m)
    BY DEF Good, Shape, AtKey, Rising
  <2> QED
    BY <2>1, <2>2, <2>3
<1>3. packet.n \in Nat /\ faulty \in BOOLEAN
  BY <1>1 DEF PacketType
<1>4. /\ inside \in Seq(PacketType) /\ Len(inside) = I + 1 /\ inside # <<>>
      /\ \A i \in 1..I : inside[i] = m.inside[i]
      /\ inside[I + 1] = packet
  BY <1>1, ImageJoins
<1> HIDE DEF faulty, inside
<1>5. /\ begun \in MovieType
      /\ begun.open = m.open /\ begun.begin = m.begin /\ begun.fed = packet.n
      /\ begun.faulty = faulty /\ begun.stamps = m.stamps /\ begun.started
      /\ begun.file = m.file /\ begun.inside = m.inside /\ begun.lastPts = m.lastPts
  BY <1>1, <1>3 DEF MovieType
<1>6. taken = [begun EXCEPT !.inside = inside]
  BY <1>5 DEF inside
<1> HIDE DEF begun, taken
<1>7. /\ taken \in MovieType
      /\ taken.open = m.open /\ taken.begin = m.begin /\ taken.fed = packet.n
      /\ taken.faulty = faulty /\ taken.stamps = m.stamps /\ taken.started
      /\ taken.file = m.file /\ taken.inside = inside /\ taken.lastPts = m.lastPts
  BY <1>4, <1>5, <1>6 DEF MovieType
<1>8. Climbs(taken)
  BY <1>2, <1>7 DEF Climbs
<1> DEFINE out == Len(taken.inside) - camera.delay
           moved == IF out > 0 THEN out ELSE 0
<1>9. /\ moved \in 0..(I + 1)
      /\ d \in MovieType
      /\ d = [taken EXCEPT !.base = d.base, !.lastPts = d.lastPts, !.file = d.file,
                           !.inside = d.inside]
      /\ Len(d.file) = F + moved
      /\ \A i \in 1..F : d.file[i] = m.file[i]
      /\ \A i \in 1..moved : d.file[F + i].n = inside[i].n /\ d.file[F + i].key = inside[i].key
      /\ Len(d.inside) = I + 1 - moved
      /\ \A i \in 1..Len(d.inside) : d.inside[i] = inside[moved + i]
      /\ Climbs(d)
  <2>1. /\ moved \in 0..Len(taken.inside)
        /\ d \in MovieType
        /\ d = [taken EXCEPT !.base = d.base, !.lastPts = d.lastPts, !.file = d.file,
                             !.inside = d.inside]
        /\ Len(d.file) = Len(taken.file) + moved
        /\ \A i \in 1..Len(taken.file) : d.file[i] = taken.file[i]
        /\ \A i \in 1..moved : /\ d.file[Len(taken.file) + i].n = taken.inside[i].n
                               /\ d.file[Len(taken.file) + i].key = taken.inside[i].key
        /\ Len(d.inside) = Len(taken.inside) - moved
        /\ \A i \in 1..Len(d.inside) : d.inside[i] = taken.inside[moved + i]
        /\ Climbs(taken) => Climbs(d)
    BY <1>7, DrainedMoves
  <2> HIDE DEF d, moved
  <2> QED
    BY <1>4, <1>7, <1>8, <2>1
<1> HIDE DEF moved, d
<1>left. /\ moved \in Nat /\ moved <= I + 1
      /\ Len(d.file) = F + moved /\ Len(d.inside) = I + 1 - moved
  <2> HIDE DEF F, I
  <2> QED
    BY <1>1, <1>9
<1>10. /\ d.open = m.open /\ d.begin = m.begin /\ d.fed = packet.n /\ d.faulty = faulty
       /\ d.stamps = m.stamps /\ d.started
       /\ d.file \in Seq(ImageType) /\ d.inside \in Seq(PacketType)
  BY <1>7, <1>9 DEF MovieType
<1>11. /\ ~faulty => outcome = "done" /\ ~m.faulty
       /\ outcome = "done" => w = d
       /\ outcome \in {"skipped", "refused"} => w = begun
       /\ outcome = "lost" => w = [d EXCEPT !.file = m.file]
       /\ outcome \in {"done", "skipped", "refused", "lost"}
  <2>1. /\ outcome = "done" => w = d
        /\ outcome \in {"skipped", "refused"} => w = begun
        /\ outcome = "lost" => w = [d EXCEPT !.file = told.file]
    BY DEF Transcoded, d, taken, begun
  <2>2. told.file = m.file
    BY <1>1 DEF MovieType
  <2> QED
    BY <2>1, <2>2 DEF Results, Losses, Failures, faulty
<1> HIDE DEF w
<1>12. /\ w \in MovieType
       /\ w.open = m.open /\ w.begin = m.begin /\ w.fed = packet.n /\ w.faulty = faulty
       /\ w.stamps = m.stamps /\ w.started
       /\ outcome = "done" => w.file = d.file /\ w.inside = d.inside /\ w.lastPts = d.lastPts
       /\ outcome \in {"skipped", "refused"} =>
            w.file = m.file /\ w.inside = m.inside /\ w.lastPts = m.lastPts
       /\ outcome = "lost" => w.file = m.file /\ w.inside = d.inside /\ w.lastPts = d.lastPts
  <2>1. CASE outcome = "done"
    BY <1>9, <1>10, <1>11, <2>1
  <2>2. CASE outcome \in {"skipped", "refused"}
    BY <1>5, <1>11, <2>2
  <2>3. CASE outcome = "lost"
    <3>1. w = [d EXCEPT !.file = m.file]
      BY <1>11, <2>3
    <3> QED
      BY <1>1, <1>9, <1>10, <2>3, <3>1 DEF MovieType
  <2> QED
    BY <1>11, <2>1, <2>2, <2>3
<1>13. ~faulty => /\ w.file = d.file /\ w.inside = d.inside /\ Count(w) = F + I + 1
                  /\ Count(m) = F + I /\ ~m.faulty /\ ~Empty(w)
  <2> SUFFICES ASSUME ~faulty
               PROVE  /\ w.file = d.file /\ w.inside = d.inside /\ Count(w) = F + I + 1
                      /\ Count(m) = F + I /\ ~m.faulty /\ ~Empty(w)
    OBVIOUS
  <2>1. w.file = d.file /\ w.inside = d.inside /\ ~m.faulty
    BY <1>11, <1>12
  <2>2. Count(w) = F + I + 1 /\ Count(m) = F + I
    <3>1. Count(w) = Len(d.file) + Len(d.inside) /\ Count(m) = F + I
      BY <2>1 DEF Count
    <3> HIDE DEF F, I
    <3> QED
      BY <1>1, <1>left, <3>1
  <2>3. Empty(w) => Count(w) = 0
    BY DEF Empty, Count
  <2> HIDE DEF F, I
  <2> QED
    BY <1>1, <2>1, <2>2, <2>3
<1>14. Shape(w)
  BY <1>12, <1>13 DEF Shape
<1>15. AtKey(w)
  <2> SUFFICES ASSUME ~faulty
               PROVE  /\ d.file # <<>> => d.file[1].key
                      /\ d.file = <<>> /\ d.inside # <<>> => d.inside[1].key
    BY <1>12, <1>13 DEF AtKey
  <2>1. F = 0 => inside[1].key
    <3>1. CASE F = 0 /\ I = 0
      <4>1. Empty(m)
        BY <1>2, <3>1 DEF Empty
      <4>2. m.started => ~Empty(m)
        BY <1>13 DEF Good, Shape
      <4> QED
        BY <1>4, <3>1, <4>1, <4>2
    <3>2. CASE F = 0 /\ I # 0
      <4>1. 1 \in 1..I /\ m.inside # <<>> /\ m.file = <<>>
        BY <1>1, <1>2, <3>2
      <4> QED
        BY <1>2, <1>4, <1>13, <4>1
    <3> QED
      BY <3>1, <3>2
  <2>2. ASSUME d.file # <<>> PROVE d.file[1].key
    <3>1. CASE F # 0
      <4>1. 1 \in 1..F /\ m.file # <<>>
        BY <1>1, <1>2, <3>1
      <4> QED
        BY <1>2, <1>9, <1>13, <4>1
    <3>2. CASE F = 0
      <4>1. Len(d.file) # 0
        BY <1>10, <2>2
      <4>2. 1 \in 1..moved /\ F + 1 = 1
        BY <1>9, <3>2, <4>1
      <4>3. d.file[F + 1].key = inside[1].key
        BY <1>9, <4>2
      <4> QED
        BY <2>1, <3>2, <4>2, <4>3
    <3> QED
      BY <3>1, <3>2
  <2>3. ASSUME d.file = <<>>, d.inside # <<>> PROVE d.inside[1].key
    <3>1. Len(d.file) = 0 /\ Len(d.inside) # 0
      BY <1>10, <2>3
    <3>2. F = 0 /\ moved = 0
      BY <1>1, <1>9, <3>1
    <3>3. 1 \in 1..Len(d.inside) /\ moved + 1 = 1
      BY <1>1, <1>9, <3>2
    <3>4. d.inside[1] = inside[moved + 1]
      BY <1>9, <3>3
    <3> QED
      BY <2>1, <3>2, <3>3, <3>4
  <2> QED
    BY <2>2, <2>3
<1>16. Rising(w)
  <2>1. Climbs(w)
    <3>1. CASE outcome = "done"
      BY <1>9, <1>12, <3>1 DEF Climbs
    <3>2. CASE outcome \in {"skipped", "refused"}
      BY <1>2, <1>12, <3>2 DEF Climbs
    <3>3. CASE outcome = "lost"
      <4>1. w.file = m.file /\ w.lastPts = d.lastPts
        BY <1>12, <3>3
      <4>2. ASSUME m.file # <<>>
            PROVE  d.lastPts # NoStamp /\ d.lastPts >= m.file[F].dts
        <5> HIDE DEF F, I
        <5>1. F \in 1..F /\ F # 0
          BY <1>1, <1>2, <4>2
        <5>2. d.file # <<>> /\ Len(d.file) \in F..(F + I + 1)
          <6>1. Len(d.file) \in F..(F + I + 1) /\ Len(d.file) # 0
            BY <1>1, <1>left, <5>1
          <6> QED
            BY <6>1
        <5>3. /\ \A i \in 2..Len(d.file) : d.file[i].dts > d.file[i - 1].dts
              /\ d.lastPts # NoStamp /\ d.lastPts >= d.file[Len(d.file)].dts
              /\ \A i \in 1..Len(d.file) : d.file[i].dts \in Int
          <6>1. \A i \in 1..Len(d.file) : d.file[i] \in ImageType
            BY <1>10
          <6> QED
            BY <1>9, <5>2, <6>1 DEF Climbs, ImageType
        <5>4. \A k \in 0..(Len(d.file) - F) : d.file[F + k].dts >= d.file[F].dts
          <6> DEFINE S == {k \in 0..(Len(d.file) - F) : d.file[F + k].dts >= d.file[F].dts}
          <6>1. 0 \in S
            <7>1. F \in 1..Len(d.file) /\ F + 0 = F /\ 0 \in 0..(Len(d.file) - F)
              BY <1>1, <5>1, <5>2
            <7> QED
              BY <5>3, <7>1
          <6>2. ASSUME NEW k \in 0..((Len(d.file) - F) - 1), k \in S PROVE k + 1 \in S
            <7>1. /\ F + k \in 1..Len(d.file) /\ F + (k + 1) \in 2..Len(d.file)
                  /\ F + (k + 1) \in 1..Len(d.file)
                  /\ F + (k + 1) - 1 = F + k /\ F \in 1..Len(d.file)
                  /\ k + 1 \in 0..(Len(d.file) - F)
              <8>1. F \in Nat \ {0} /\ Len(d.file) \in Nat /\ F <= Len(d.file)
                BY <1>1, <1>left, <5>1
              <8> QED
                BY <8>1, SMTT(30)
            <7>2. d.file[F + (k + 1)].dts > d.file[F + k].dts /\ d.file[F + k].dts >= d.file[F].dts
              BY <5>3, <6>2, <7>1
            <7>3. d.file[F + (k + 1)].dts \in Int /\ d.file[F + k].dts \in Int
                  /\ d.file[F].dts \in Int
              BY <5>3, <7>1
            <7>4. d.file[F + (k + 1)].dts >= d.file[F].dts
              <8> DEFINE last == d.file[F + (k + 1)].dts
                         middle == d.file[F + k].dts
                         least == d.file[F].dts
              <8>1. /\ last \in Int /\ middle \in Int /\ least \in Int
                    /\ last > middle /\ middle >= least
                BY <7>2, <7>3
              <8> HIDE DEF last, middle, least
              <8>2. last >= least
                BY <8>1
              <8> QED
                BY <8>2 DEF last, least
            <7> QED
              BY <7>1, <7>4
          <6>3. Len(d.file) - F \in Nat
            BY <1>1, <5>2
          <6> HIDE DEF S
          <6>4. \A k \in 0..(Len(d.file) - F) : k \in S
            BY <6>1, <6>2, <6>3, Counting
          <6> QED
            BY <6>4 DEF S
        <5>5. Len(d.file) - F \in 0..(Len(d.file) - F) /\ F + (Len(d.file) - F) = Len(d.file)
          BY <1>1, <5>2
        <5>6. d.file[Len(d.file)].dts >= d.file[F].dts /\ d.file[F] = m.file[F]
          BY <1>9, <5>1, <5>4, <5>5
        <5>7. d.lastPts \in Int
          BY <1>9, <5>3 DEF MovieType, StampType
        <5>8. d.file[Len(d.file)].dts \in Int /\ d.file[F].dts \in Int
          <6>1. F \in 1..Len(d.file) /\ Len(d.file) \in 1..Len(d.file)
            BY <1>1, <5>1, <5>2
          <6> QED
            BY <5>3, <6>1
        <5> QED
          BY <5>3, <5>6, <5>7, <5>8
      <4> QED
        BY <1>2, <4>1, <4>2 DEF Climbs
    <3> QED
      BY <1>11, <3>1, <3>2, <3>3
  <2> QED
    BY <2>1 DEF Rising, Rises, Climbs
<1>17. ASSUME InOrder(m), Follows(m, packet) PROVE InOrder(w)
  <2> SUFFICES ASSUME ~w.faulty PROVE InOrder(w)
    BY DEF InOrder
  <2>1. ~faulty /\ ~m.faulty /\ w.file = d.file /\ w.inside = d.inside
        /\ Count(w) = F + I + 1 /\ Count(m) = F + I
    BY <1>12, <1>13
  <2>2. /\ \A i \in 1..F : m.file[i].n = m.fed - (F + I) + i
        /\ \A i \in 1..I : m.inside[i].n = m.fed - I + i
        /\ m.begin # 0 /\ F + I # 0 => m.begin = m.fed - (F + I) + 1
    BY <1>17, <2>1 DEF InOrder
  <2>3. IF F + I = 0 THEN m.begin \in {0, packet.n} ELSE packet.n = m.fed + 1
    BY <1>17, <2>1 DEF Follows
  <2> HIDE DEF F, I
  <2>4. ASSUME NEW i \in 1..(I + 1) PROVE inside[i].n = packet.n - (I + 1) + i
    <3>1. CASE i = I + 1
      BY <1>1, <1>3, <1>4, <3>1
    <3>2. CASE i # I + 1
      <4>1. i \in 1..I /\ F + I # 0
        BY <1>1, <3>2
      <4>2. inside[i].n = m.fed - I + i /\ packet.n = m.fed + 1
        BY <1>4, <2>2, <2>3, <4>1
      <4> QED
        BY <1>1, <1>3, <4>1, <4>2
    <3> QED
      BY <3>1, <3>2
  <2>5. ASSUME NEW i \in 1..Len(d.file) PROVE d.file[i].n = packet.n - (F + I + 1) + i
    <3>1. CASE i \in 1..F
      <4>1. d.file[i].n = m.fed - (F + I) + i
        BY <1>9, <2>2, <3>1
      <4>2. packet.n = m.fed + 1
        BY <1>1, <2>3, <3>1
      <4> QED
        BY <1>1, <1>3, <4>1, <4>2
    <3>2. CASE i \notin 1..F
      <4>1. PICK k \in 1..moved : i = F + k
        <5>1. i - F \in 1..moved /\ i = F + (i - F)
          BY <1>1, <1>left, <3>2
        <5> QED
          BY <5>1
      <4>2. d.file[i].n = inside[k].n /\ k \in 1..(I + 1)
        <5>1. k \in 1..(I + 1)
          BY <1>1, <1>left
        <5> QED
          BY <1>9, <4>1, <5>1
      <4>3. inside[k].n = packet.n - (I + 1) + k
        BY <2>4, <4>2
      <4>4. packet.n - (I + 1) + k = packet.n - (F + I + 1) + i
        <5>1. F \in Nat /\ I \in Nat /\ packet.n \in Nat /\ k \in Nat
          BY <1>1, <1>3, <1>left, <4>1
        <5> QED
          BY <4>1, <5>1
      <4> QED
        BY <4>2, <4>3, <4>4
    <3> QED
      BY <3>1, <3>2
  <2>6. ASSUME NEW i \in 1..Len(d.inside)
        PROVE  d.inside[i].n = packet.n - Len(d.inside) + i
    <3>1. moved + i \in 1..(I + 1) /\ d.inside[i] = inside[moved + i]
      <4>1. moved + i \in 1..(I + 1)
        BY <1>1, <1>left
      <4> QED
        BY <1>9, <4>1
    <3>2. inside[moved + i].n = packet.n - (I + 1) + (moved + i)
      BY <2>4, <3>1
    <3>3. packet.n - (I + 1) + (moved + i) = packet.n - Len(d.inside) + i
      <4>1. i \in Int /\ packet.n \in Int /\ moved \in Int /\ I \in Int
        BY <1>1, <1>3, <1>left
      <4>2. Len(d.inside) = I + 1 - moved
        BY <1>left
      <4> QED
        BY <4>1, <4>2
    <3> QED
      BY <3>1, <3>2, <3>3
  <2>7. m.begin # 0 => m.begin = packet.n - (F + I + 1) + 1
    <3>1. CASE F + I = 0
      BY <1>1, <1>3, <2>3, <3>1
    <3>2. CASE F + I # 0
      <4>1. m.begin # 0 => m.begin = m.fed - (F + I) + 1
        BY <2>2, <3>2
      <4>2. packet.n = m.fed + 1
        BY <2>3, <3>2
      <4> QED
        BY <1>1, <1>3, <4>1, <4>2
    <3> QED
      BY <3>1, <3>2
  <2> QED
    BY <1>12, <2>1, <2>5, <2>6, <2>7 DEF InOrder
<1>18. w.faulty <=> m.faulty \/ outcome \in Losses
  BY <1>12 DEF faulty
<1>19. /\ InPace(w)
       /\ ~w.faulty => Count(w) = Count(m) + 1
  BY <1>1, <1>12, <1>13 DEF InPace
<1>21. ASSUME Ascends(m), Later(m, packet) PROVE Ascends(w)
  <2>1. /\ Count(m) = F + I /\ Count(d) = F + I + 1 /\ d.fed = packet.n /\ w.fed = packet.n
        /\ Count(m) \in Nat /\ Count(d) \in Nat
    <3>1. Count(m) = F + I /\ Count(d) = Len(d.file) + Len(d.inside)
      BY DEF Count
    <3> HIDE DEF F, I
    <3> QED
      BY <1>1, <1>10, <1>12, <1>left, <3>1
  <2>2. \A i \in 1..(F + I) : At(m, i) = IF i <= F THEN m.file[i].n ELSE m.inside[i - F].n
    BY DEF At
  <2>3. \A i \in 1..(F + I + 1) :
          At(d, i) = IF i <= F + moved THEN d.file[i].n ELSE d.inside[i - (F + moved)].n
    BY <1>9 DEF At
  <2> HIDE DEF F, I
  <2>4. ASSUME NEW i \in 1..(F + I + 1)
        PROVE  At(d, i) = IF i <= F THEN m.file[i].n ELSE inside[i - F].n
    <3>1. CASE i <= F
      <4>1. i \in 1..F /\ i <= F + moved
        BY <1>1, <1>left, <3>1
      <4> QED
        BY <1>9, <2>3, <3>1, <4>1
    <3>2. CASE ~(i <= F) /\ i <= F + moved
      <4>1. i - F \in 1..moved /\ F + (i - F) = i
        BY <1>1, <1>left, <3>2
      <4>2. d.file[F + (i - F)].n = inside[i - F].n
        BY <1>9, <4>1
      <4> QED
        BY <2>3, <3>2, <4>1, <4>2
    <3>3. CASE ~(i <= F + moved)
      <4>1. /\ i - (F + moved) \in 1..Len(d.inside) /\ moved + (i - (F + moved)) = i - F
            /\ ~(i <= F)
        BY <1>1, <1>left, <3>3
      <4>2. d.inside[i - (F + moved)] = inside[moved + (i - (F + moved))]
        BY <1>9, <4>1
      <4> QED
        BY <2>3, <3>3, <4>1, <4>2
    <3> QED
      BY <3>1, <3>2, <3>3
  <2>5. ASSUME NEW i \in 1..(F + I) PROVE At(d, i) = At(m, i)
    <3>1. i \in 1..(F + I + 1) /\ (~(i <= F) => i - F \in 1..I)
      BY <1>1
    <3> QED
      BY <1>4, <2>2, <2>4, <3>1
  <2>6. At(d, F + I + 1) = packet.n
    <3>1. /\ F + I + 1 \in 1..(F + I + 1) /\ ~(F + I + 1 <= F)
          /\ (F + I + 1) - F = I + 1
      BY <1>1
    <3> QED
      BY <1>4, <2>4, <3>1
  <2>7. Ascends(d)
    <3>1. Count(m) = 0 \/ m.fed < d.fed
      BY <1>21, <2>1 DEF Later
    <3>2. /\ Count(d) = Count(m) + 1 /\ \A i \in 1..Count(m) : At(d, i) = At(m, i)
          /\ At(d, Count(d)) = d.fed
      BY <1>1, <2>1, <2>5, <2>6
    <3> QED
      BY <1>1, <1>9, <1>21, <3>1, <3>2, AscendsMore
  <2>8. CASE outcome = "done"
    BY <1>11, <2>7, <2>8
  <2>9. CASE outcome = "lost"
    <3>1. w.file = m.file /\ w.inside = d.inside
      BY <1>12, <2>9
    <3>2. Count(w) = F + (I + 1 - moved)
      BY <1>left, <3>1 DEF Count, F
    <3>3. ASSUME NEW i \in 1..Count(w)
          PROVE  At(w, i) = IF i <= F THEN At(d, i) ELSE At(d, i + moved)
      <4>1. At(w, i) = IF i <= F THEN m.file[i].n ELSE d.inside[i - F].n
        BY <3>1 DEF At, F
      <4>2. CASE i <= F
        <5>1. i \in 1..(F + I + 1)
          BY <1>1, <1>left, <3>2, <4>2
        <5> QED
          BY <2>4, <4>1, <4>2, <5>1
      <4>3. CASE ~(i <= F)
        <5>1. /\ i + moved \in 1..(F + I + 1) /\ ~(i + moved <= F + moved)
              /\ (i + moved) - (F + moved) = i - F
          BY <1>1, <1>left, <3>2, <4>3
        <5>2. \A j \in 1..(F + I + 1) :
                ~(j <= F + moved) => At(d, j) = d.inside[j - (F + moved)].n
          BY <2>3
        <5> DEFINE j == i + moved
        <5>3. j \in 1..(F + I + 1) /\ ~(j <= F + moved) /\ j - (F + moved) = i - F
          BY <5>1
        <5> HIDE DEF j
        <5>4. At(d, j) = d.inside[i - F].n
          BY <5>2, <5>3
        <5> QED
          BY <4>1, <4>3, <5>4 DEF j
      <4> QED
        BY <4>2, <4>3
    <3>4. IF Count(w) <= F THEN Count(w) <= Count(d) ELSE Count(w) + moved <= Count(d)
      BY <1>1, <1>left, <2>1, <3>2
    <3>5. d.fed <= w.fed
      BY <1>3, <2>1
    <3>6. d \in MovieType /\ w \in MovieType /\ F \in Nat /\ moved \in Nat
      BY <1>1, <1>9, <1>12, <1>left
    <3> QED
      BY <2>7, <3>3, <3>4, <3>5, <3>6, AscendsPart
  <2>10. CASE outcome \in {"skipped", "refused"}
    <3>1. w.file = m.file /\ w.inside = m.inside
      BY <1>12, <2>10
    <3>2. Count(w) = Count(m) /\ \A i \in 1..Count(m) : At(w, i) = At(m, i)
      BY <3>1 DEF Count, At
    <3>3. CASE Count(m) = 0
      BY <3>2, <3>3 DEF Ascends
    <3>4. CASE Count(m) # 0
      <4>1. m.fed <= w.fed
        BY <1>1, <1>3, <1>21, <2>1, <3>4 DEF Later
      <4>2. /\ 0 \in Nat
            /\ IF Count(w) <= Count(m) THEN Count(w) <= Count(m) ELSE Count(w) + 0 <= Count(m)
            /\ \A i \in 1..Count(w) :
                 At(w, i) = IF i <= Count(m) THEN At(m, i) ELSE At(m, i + 0)
        BY <2>1, <3>2
      <4> QED
        BY <1>1, <1>12, <1>21, <2>1, <4>1, <4>2, AscendsPart
    <3> QED
      BY <3>3, <3>4
  <2> QED
    BY <1>11, <2>8, <2>9, <2>10
<1>20. Handed(m, packet, outcome, w)
  BY <1>12, <1>14, <1>15, <1>16, <1>17, <1>18, <1>19, <1>21 DEF Handed, Good
<1> QED
  BY <1>20 DEF w, faulty

LEMMA WrittenKeeps ==
  ASSUME camera.delay \in Nat,
         NEW m, Good(m), NEW packet \in PacketType,
         m.stamps.started => m.stamps.lastArrival <= packet.at,
         NEW outcome \in Results
  PROVE  IF ~m.open \/ (~m.started /\ ~packet.key) THEN Written(m, packet, outcome) = m
         ELSE Handed(m, packet, outcome, Written(m, packet, outcome))
<1> DEFINE told == [m EXCEPT !.fed = packet.n, !.faulty = @ \/ outcome \in Losses]
<1>1. CASE ~m.open \/ (~m.started /\ ~packet.key)
  BY <1>1 DEF Written
<1>2. CASE ~(~m.open \/ (~m.started /\ ~packet.key))
  <2>1. CASE camera.codec = "copy"
    <3>1. Written(m, packet, outcome) = Copied(told, packet, outcome)
      BY <1>2, <2>1 DEF Written
    <3>2. Handed(m, packet, outcome, Copied(told, packet, outcome))
      <4>1. m.open /\ (m.started \/ packet.key)
        BY <1>2
      <4> QED
        BY <2>1, <4>1, CopiedKeeps, ZenonT(60)
    <3> QED
      BY <1>2, <3>1, <3>2
  <2>2. CASE camera.codec # "copy"
    <3>1. Written(m, packet, outcome) = Transcoded(told, packet, outcome)
      BY <1>2, <2>2 DEF Written
    <3>2. Handed(m, packet, outcome, Transcoded(told, packet, outcome))
      <4>1. m.open /\ (m.started \/ packet.key)
        BY <1>2
      <4> QED
        BY <2>2, <4>1, TranscodedKeeps, ZenonT(60)
    <3> QED
      BY <1>2, <3>1, <3>2
  <2> QED
    BY <2>1, <2>2
<1> QED
  BY <1>1, <1>2

(* A movie that is closed keeps its images, and gets those still inside,   *)
(* but for what is lost when the transcoder cannot be flushed.             *)
LEMMA ClosedKeeps ==
  ASSUME NEW m, Good(m), NEW lost \in 0..Len(m.inside)
  PROVE  LET w == Closed(m, lost)
         IN /\ Good(w) /\ ~w.open
            /\ InOrder(m) => InOrder(w)
            /\ Ascends(m) => Ascends(w)
            /\ InPace(m) => InPace(w)
<1> DEFINE w == Closed(m, lost)
           d == Drained(m, lost)
           F == Len(m.file)
           I == Len(m.inside)
<1>1. /\ m \in MovieType /\ m.inside \in Seq(PacketType) /\ m.file \in Seq(ImageType)
      /\ m.faulty \in BOOLEAN /\ m.fed \in Nat /\ m.begin \in Nat /\ F \in Nat /\ I \in Nat
  BY DEF Good, Shape, MovieType
<1> DEFINE out == I - lost
           moved == IF out > 0 THEN out ELSE 0
<1>2. moved = I - lost /\ lost \in Nat /\ moved \in 0..I /\ moved \in Nat
  BY <1>1
<1>3. /\ d \in MovieType
      /\ Len(d.file) = F + moved
      /\ \A i \in 1..F : d.file[i] = m.file[i]
      /\ \A i \in 1..moved : /\ d.file[F + i].n = m.inside[i].n
                             /\ d.file[F + i].key = m.inside[i].key
      /\ Climbs(m) => Climbs(d)
  <2>1. /\ d \in MovieType
        /\ Len(d.file) = F + moved
        /\ \A i \in 1..F : d.file[i] = m.file[i]
        /\ \A i \in 1..moved : d.file[F + i].n = m.inside[i].n
                             /\ d.file[F + i].key = m.inside[i].key
        /\ Climbs(m) => Climbs(d)
    <3>1. lost \in Nat
      BY <1>2
    <3>2. /\ moved \in 0..I
          /\ d \in MovieType
          /\ d = [m EXCEPT !.base = d.base, !.lastPts = d.lastPts, !.file = d.file,
                           !.inside = d.inside]
          /\ Len(d.file) = F + moved
          /\ \A i \in 1..F : d.file[i] = m.file[i]
          /\ \A i \in 1..moved : /\ d.file[F + i].n = m.inside[i].n
                                 /\ d.file[F + i].key = m.inside[i].key
          /\ Len(d.inside) = I - moved
          /\ \A i \in 1..Len(d.inside) : d.inside[i] = m.inside[moved + i]
          /\ Climbs(m) => Climbs(d)
      BY <1>1, <3>1, DrainedMoves, ZenonT(60)
    <3> HIDE DEF d, moved, F, I
    <3> QED
      BY <3>2
  <2> HIDE DEF d, moved, F, I
  <2> QED
    BY <1>2, <2>1
<1>4. m.inside = <<>> => d = m /\ lost = 0
  BY <1>1, <1>2 DEF Drained
<1>5. d.file \in Seq(ImageType)
  BY <1>3 DEF MovieType
<1>6. w = [ClosedMovie EXCEPT !.file = d.file, !.begin = m.begin, !.fed = m.fed,
                              !.faulty = m.faulty \/ lost > 0]
  BY DEF Closed
<1>7. m.open => m.open = TRUE
  BY <1>1 DEF MovieType
<1> DEFINE faulty == m.faulty \/ lost > 0
<1>whole. camera.codec = "copy" \/ ~faulty => lost = 0 /\ moved = I /\ (~faulty => ~m.faulty)
  <2>1. ~faulty => lost = 0 /\ ~m.faulty
    BY <1>2
  <2>2. camera.codec = "copy" => lost = 0
    BY <1>4 DEF Good, Shape
  <2> QED
    BY <1>1, <1>2, <2>1, <2>2
<1> HIDE DEF d, w, moved, faulty
<1>8. /\ w \in MovieType
      /\ ~w.open /\ ~w.started /\ w.inside = <<>> /\ w.file = d.file /\ w.begin = m.begin
      /\ w.fed = m.fed /\ w.faulty = faulty
  <2>1. Reset(TRUE) \in NormalizerType
    BY DEF Reset, NormalizerType, StampType
  <2>2. NoStamp \in StampType
    BY DEF StampType
  <2> DEFINE stamps == Reset(TRUE)
  <2>3. ClosedMovie = [open |-> FALSE, started |-> FALSE, stamps |-> stamps, inside |-> <<>>,
                       base |-> NoStamp, lastPts |-> NoStamp, file |-> <<>>,
                       begin |-> 0, fed |-> 0, faulty |-> FALSE]
    BY DEF ClosedMovie
  <2> HIDE DEF stamps
  <2>4. w = [open |-> FALSE, started |-> FALSE, stamps |-> stamps, inside |-> <<>>,
             base |-> NoStamp, lastPts |-> NoStamp, file |-> d.file,
             begin |-> m.begin, fed |-> m.fed, faulty |-> faulty]
    BY <1>6, <2>3 DEF faulty
  <2>5. stamps \in NormalizerType
    BY <2>1 DEF stamps
  <2>7. <<>> \in Seq(PacketType)
    OBVIOUS
  <2>6. w \in MovieType
    <3>1. faulty \in BOOLEAN
      BY <1>1 DEF faulty
    <3> QED
      BY <1>1, <1>5, <2>2, <2>4, <2>5, <2>7, <3>1 DEF MovieType
  <2> QED
    BY <2>4, <2>6
<1>9. Shape(w)
  BY <1>8 DEF Shape
<1>10. AtKey(w)
  <2> SUFFICES ASSUME camera.codec = "copy" \/ ~faulty, d.file # <<>>
               PROVE  d.file[1].key
    BY <1>8 DEF AtKey
  <2>0. moved = I /\ (camera.codec = "copy" \/ ~m.faulty)
    BY <1>whole
  <2>1. /\ m.file # <<>> => m.file[1].key
        /\ m.file = <<>> /\ m.inside # <<>> => m.inside[1].key
    BY <2>0 DEF Good, AtKey
  <2>2. Len(d.file) # 0
    BY <1>5
  <2>3. CASE F # 0
    <3>1. 1 \in 1..F /\ m.file # <<>>
      BY <1>1, <2>3
    <3> QED
      BY <1>3, <2>1, <3>1
  <2>4. CASE F = 0
    <3>1. m.file = <<>>
      BY <1>1, <2>4
    <3> HIDE DEF F
    <3>2. I # 0
      BY <1>1, <1>3, <2>0, <2>2, <2>4
    <3>3. m.inside # <<>>
      BY <1>1, <3>2
    <3> HIDE DEF I
    <3>4. 1 \in 1..I /\ F + 1 = 1
      BY <1>1, <2>4, <3>2
    <3>5. d.file[F + 1].key = m.inside[1].key
      BY <1>3, <2>0, <3>4 DEF I
    <3> QED
      BY <2>1, <3>1, <3>3, <3>4, <3>5
  <2> QED
    BY <2>3, <2>4
<1>11. Rising(w)
  <2>1. CASE m.open /\ camera.codec # "copy"
    <3>1. Climbs(d)
      BY <1>3, <2>1 DEF Good, Rising
    <3> QED
      BY <1>8, <3>1 DEF Climbs, Rises, Rising
  <2>2. CASE ~(m.open /\ camera.codec # "copy")
    <3>1. m.inside = <<>>
      BY <2>2 DEF Good, Shape
    <3>2. Rises(m)
      BY DEF Good, Rising
    <3> QED
      BY <1>4, <1>8, <3>1, <3>2 DEF Rises, Rising
  <2> QED
    BY <2>1, <2>2
<1>12. ASSUME InOrder(m) PROVE InOrder(w)
  <2> SUFFICES ASSUME ~faulty PROVE InOrder(w)
    BY <1>8 DEF InOrder
  <2>0. moved = I /\ ~m.faulty
    BY <1>whole
  <2>1. /\ \A i \in 1..F : m.file[i].n = m.fed - (F + I) + i
        /\ \A i \in 1..I : m.inside[i].n = m.fed - I + i
        /\ m.begin # 0 /\ F + I # 0 => m.begin = m.fed - (F + I) + 1
    BY <1>12, <2>0 DEF InOrder, Count
  <2> HIDE DEF F, I
  <2>2. ASSUME NEW i \in 1..(F + I) PROVE d.file[i].n = m.fed - (F + I) + i
    <3>1. CASE i \in 1..F
      BY <1>3, <2>1, <3>1
    <3>2. CASE i \notin 1..F
      <4>1. i - F \in 1..I /\ i = F + (i - F)
        BY <1>1, <3>2
      <4>2. d.file[i].n = m.inside[i - F].n
        BY <1>3, <2>0, <4>1
      <4>3. m.inside[i - F].n = m.fed - I + (i - F)
        BY <2>1, <4>1
      <4> QED
        BY <1>1, <4>1, <4>2, <4>3
    <3> QED
      BY <3>1, <3>2
  <2>3. Len(w.file) = F + I /\ Len(w.inside) = 0 /\ Count(w) = F + I
    <3>1. Len(w.file) = F + I /\ Len(w.inside) = 0
      BY <1>3, <1>8, <2>0
    <3> QED
      BY <1>1, <3>1 DEF Count
  <2> QED
    BY <1>3, <1>8, <2>1, <2>2, <2>3 DEF InOrder
<1>13. ASSUME InPace(m) PROVE InPace(w)
  <2> SUFFICES ASSUME camera.codec = "copy", ~faulty PROVE InPace(w)
    BY <1>8 DEF InPace
  <2>1. d = m /\ ~m.faulty
    BY <1>4, <1>whole DEF Good, Shape
  <2> QED
    BY <1>8, <1>13, <2>1 DEF InPace
<1>14. ASSUME Ascends(m) PROVE Ascends(w)
  <2>1. Count(w) = F + moved /\ Count(m) = F + I
    <3>1. Len(w.file) = F + moved /\ Len(w.inside) = 0
      BY <1>3, <1>8
    <3> HIDE DEF F, I
    <3> QED
      BY <1>1, <1>2, <3>1 DEF Count, F, I
  <2>2. \A i \in 1..Count(m) : At(m, i) = IF i <= F THEN m.file[i].n ELSE m.inside[i - F].n
    BY DEF At
  <2>3. \A i \in 1..(F + moved) : At(w, i) = d.file[i].n
    BY <1>3, <1>8 DEF At
  <2> HIDE DEF F, I
  <2>4. ASSUME NEW i \in 1..Count(w) PROVE At(w, i) = At(m, i)
    <3>1. i \in 1..(F + moved) /\ i \in 1..Count(m)
      BY <1>1, <1>2, <2>1
    <3>2. CASE i <= F
      <4>1. i \in 1..F
        BY <1>1, <3>1, <3>2
      <4> QED
        BY <1>3, <2>2, <2>3, <3>1, <3>2, <4>1
    <3>3. CASE ~(i <= F)
      <4>1. i - F \in 1..moved /\ F + (i - F) = i
        BY <1>1, <1>2, <3>1, <3>3
      <4>2. d.file[F + (i - F)].n = m.inside[i - F].n
        BY <1>3, <4>1
      <4> QED
        BY <2>2, <2>3, <3>1, <3>3, <4>1, <4>2
    <3> QED
      BY <3>2, <3>3
  <2>5. /\ Count(w) \in Nat /\ 0 \in Nat /\ m.fed <= w.fed
        /\ IF Count(w) <= Count(w) THEN Count(w) <= Count(m) ELSE Count(w) + 0 <= Count(m)
    BY <1>1, <1>2, <1>8, <2>1
  <2>6. \A i \in 1..Count(w) : At(w, i) = IF i <= Count(w) THEN At(m, i) ELSE At(m, i + 0)
    BY <2>4, <2>5
  <2> QED
    BY <1>1, <1>8, <1>14, <2>5, <2>6, AscendsPart
<1> QED
  BY <1>8, <1>9, <1>10, <1>11, <1>12, <1>13, <1>14 DEF Good, w

(* The packets a movie is opened with: from a keyframe on, one after the   *)
(* other.                                                                  *)
Leading(packets, begin) ==
  /\ packets \in Seq(PacketType)
  /\ packets # <<>> => packets[1].key
  /\ \A i \in 1..Len(packets) :
       /\ packets[i].n = begin + i - 1
       /\ \A j \in 1..i : packets[j].at <= packets[i].at

(* The movie the first k of them have been handed to, however the writes   *)
(* have ended.                                                             *)
Led(packets, begin, fed, repair, ends, k, v) ==
  /\ Good(v) /\ v.open /\ v.begin = begin /\ InOrder(v) /\ Ascends(v)
  /\ k = 0 => Count(v) = 0 /\ v.fed = fed
  /\ k > 0 => v.fed <= packets[k].n
  /\ ~v.faulty => Count(v) = k /\ (k > 0 => v.fed = packets[k].n)
  /\ \A i \in 1..k : ends[i] \in Losses => v.faulty
  /\ v.stamps.started => k > 0 /\ v.stamps.lastArrival <= packets[k].at
  /\ repair => InPace(v)

LEMMA LeadingWritten ==
  ASSUME camera.delay \in Nat, NEW begin \in Nat, NEW fed \in Nat, NEW repair \in BOOLEAN,
         NEW packets, Leading(packets, begin), NEW ends,
         NEW k \in 0..(Len(packets) - 1), ends[k + 1] \in Results,
         NEW v, Led(packets, begin, fed, repair, ends, k, v)
  PROVE  Led(packets, begin, fed, repair, ends, k + 1,
             Written(v, packets[k + 1], ends[k + 1]))
<1> DEFINE p == packets[k + 1]
           outcome == ends[k + 1]
           w == Written(v, p, outcome)
<1>1. /\ packets \in Seq(PacketType) /\ Len(packets) \in Nat
      /\ k \in Nat /\ k + 1 \in 1..Len(packets) /\ p \in PacketType
      /\ packets # <<>> /\ outcome \in Results
  BY DEF Leading
<1>2. p.n \in Nat /\ p.at \in Nat /\ p.n = begin + k
  <2>1. p.n = begin + (k + 1) - 1
    BY <1>1 DEF Leading
  <2>2. p.n \in Nat /\ p.at \in Nat
    BY <1>1 DEF PacketType
  <2> HIDE DEF p
  <2> QED
    BY <1>1, <2>1, <2>2
<1>3. v.stamps.started => v.stamps.lastArrival <= p.at
  <2>1. k > 0 => k \in 1..Len(packets) /\ k \in 1..(k + 1)
    BY <1>1
  <2>2. k > 0 => packets[k].at <= p.at /\ packets[k].at \in Nat
    <3>1. \A i \in 1..Len(packets) : \A j \in 1..i : packets[j].at <= packets[i].at
      BY DEF Leading
    <3>2. k > 0 => packets[k] \in PacketType
      BY <1>1, <2>1
    <3> QED
      BY <1>1, <2>1, <3>1, <3>2 DEF PacketType
  <2>3. v.stamps.lastArrival \in Int
    BY DEF Led, Good, Shape, MovieType, NormalizerType
  <2> HIDE DEF p
  <2> QED
    BY <1>2, <2>2, <2>3 DEF Led
<1>4. /\ Len(v.file) \in Nat /\ Len(v.inside) \in Nat /\ v.fed \in Nat /\ v.begin \in Nat
      /\ v.faulty \in BOOLEAN
  BY DEF Led, Good, Shape, MovieType
<1>5. k > 0 => packets[k].n = begin + k - 1 /\ v.fed < p.n
  <2>1. k > 0 => k \in 1..Len(packets)
    BY <1>1
  <2>2. k > 0 => packets[k].n = begin + k - 1
    BY <2>1 DEF Leading
  <2>3. k > 0 => v.fed <= packets[k].n
    BY DEF Led
  <2> HIDE DEF p
  <2> QED
    BY <1>1, <1>2, <1>4, <2>2, <2>3
<1>6. \A i \in 1..(k + 1) : i \in 1..k \/ i = k + 1
  BY <1>1
<1>7. ASSUME ~(v.started \/ p.key) PROVE Led(packets, begin, fed, repair, ends, k + 1, w)
  <2>1. w = v
    BY <1>7 DEF Written
  <2>2. k > 0
    BY <1>1, <1>7 DEF Leading
  <2>3. v.faulty
    <3>1. v.file = <<>> /\ v.inside = <<>>
      BY <1>7 DEF Led, Good, Shape, Empty
    <3>2. Count(v) = 0
      BY <3>1 DEF Count
    <3> QED
      BY <2>2, <3>2 DEF Led
  <2> HIDE DEF p, w
  <2>4. v.fed <= p.n /\ k + 1 > 0 /\ ~(k + 1 = 0)
    BY <1>1, <1>2, <1>4, <1>5, <2>2
  <2>5. Led(packets, begin, fed, repair, ends, k + 1, v)
    BY <1>3, <2>3, <2>4 DEF Led, p
  <2> QED
    BY <2>1, <2>5
<1>8. ASSUME v.started \/ p.key PROVE Led(packets, begin, fed, repair, ends, k + 1, w)
  <2>1. Handed(v, p, outcome, w)
    <3>1. Good(v) /\ p \in PacketType /\ v.open
      BY <1>1 DEF Led
    <3> HIDE DEF p, outcome
    <3> QED
      BY <1>1, <1>3, <1>8, <3>1, WrittenKeeps
  <2> HIDE DEF p, w, outcome
  <2>2. /\ Good(w) /\ w.open /\ w.begin = begin /\ w.fed = p.n
        /\ w.faulty <=> v.faulty \/ outcome \in Losses
        /\ w.stamps.started => w.stamps.lastArrival <= p.at
        /\ repair => InPace(w)
    BY <1>2, <1>3, <2>1 DEF Handed, Led
  <2>3. Follows(v, p) \/ v.faulty
    <3> SUFFICES ASSUME ~v.faulty PROVE Follows(v, p)
      OBVIOUS
    <3>1. Count(v) = k /\ (k > 0 => v.fed = packets[k].n) /\ v.begin = begin
      BY DEF Led
    <3> QED
      BY <1>1, <1>2, <1>5, <3>1 DEF Follows
  <2>4. InOrder(w)
    <3>1. CASE v.faulty
      BY <2>2, <3>1 DEF InOrder
    <3>2. CASE ~v.faulty
      BY <2>1, <2>3, <3>2 DEF Handed, Led
    <3> QED
      BY <3>1, <3>2
  <2>5. Ascends(w)
    <3>1. Later(v, p)
      BY <1>1, <1>5 DEF Led, Later
    <3> QED
      BY <2>1, <3>1 DEF Handed, Led
  <2>6. ~w.faulty => Count(w) = k + 1
    BY <2>1, <2>2 DEF Handed, Led
  <2>7. \A i \in 1..(k + 1) : ends[i] \in Losses => w.faulty
    BY <1>6, <2>2 DEF Led, outcome
  <2>8. k + 1 > 0 /\ ~(k + 1 = 0) /\ p.n <= p.n
    BY <1>1, <1>2
  <2> QED
    BY <2>2, <2>4, <2>5, <2>6, <2>7, <2>8 DEF Led, p
<1> QED
  BY <1>7, <1>8 DEF w, p, outcome

(* The first packets of the preroll, written one after the other.          *)
LEMMA PrerolledLeads ==
  ASSUME camera.delay \in Nat, NEW begin \in Nat, NEW fed \in Nat, NEW repair \in BOOLEAN,
         NEW packets, Leading(packets, begin),
         NEW good \in 0..Len(packets), NEW ends \in [1..good -> Results], Len(ends) = good,
         NEW m, Led(packets, begin, fed, repair, ends, 0, m)
  PROVE  Led(packets, begin, fed, repair, ends, good, Prerolled(m, packets, ends))
<1>1. packets \in Seq(PacketType) /\ Len(packets) \in Nat /\ good \in Nat
  BY DEF Leading
<1> DEFINE Reached(k, v) == Led(packets, begin, fed, repair, ends, k, v)
           Next1(v, i) == Written(v, packets[i], ends[i])
           Solves(f) == f = [i \in 0..good |-> IF i = 0 THEN m ELSE Next1(f[i - 1], i)]
<1>2. ASSUME NEW k \in 0..(good - 1), NEW v, Reached(k, v)
      PROVE  Reached(k + 1, Next1(v, k + 1))
  <2>1. k \in 0..(Len(packets) - 1) /\ k + 1 \in 1..good
    BY <1>1
  <2>2. ends[k + 1] \in Results
    BY <2>1
  <2> QED
    BY <1>2, <2>1, <2>2, LeadingWritten
<1>3. ASSUME NEW k, NEW v, Reached(k, v) PROVE v \in MovieType
  BY <1>3 DEF Led, Good, Shape
<1> HIDE DEF Reached, Next1
<1> DEFINE step == [i \in 1..good |-> [v \in MovieType |->
                      IF Next1(v, i) \in MovieType THEN Next1(v, i) ELSE v]]
<1>4. step \in Steps(MovieType, good)
  BY DEF Steps
<1>5. Reached(0, m) /\ m \in MovieType
  <2>1. Reached(0, m)
    BY DEF Reached
  <2> QED
    BY <1>3, <2>1
<1>6. PICK f : Solution(MovieType, good, step, m, f)
  <2> HIDE DEF step
  <2> QED
    BY <1>1, <1>4, <1>5, Recursion
<1>7. f \in [0..good -> MovieType] /\ f[0] = m /\ \A i \in 1..good : f[i] = step[i][f[i - 1]]
  BY <1>6 DEF Solution
<1>8. \A i \in 0..good : Reached(i, f[i])
  <2> DEFINE S == {i \in 0..good : Reached(i, f[i])}
  <2>1. 0 \in S
    BY <1>1, <1>5, <1>7
  <2>2. ASSUME NEW i \in 0..(good - 1), i \in S PROVE i + 1 \in S
    <3>1. i + 1 \in 1..good /\ i + 1 \in 0..good /\ (i + 1) - 1 = i /\ i \in 0..good
      BY <1>1
    <3>2. Reached(i + 1, Next1(f[i], i + 1))
      BY <1>2, <2>2
    <3>3. Next1(f[i], i + 1) \in MovieType
      BY <1>3, <3>2
    <3>4. f[i] \in MovieType
      BY <1>7, <3>1
    <3>5. f[i + 1] = step[i + 1][f[i]]
      BY <1>7, <3>1
    <3>6. step[i + 1][f[i]] = Next1(f[i], i + 1)
      BY <3>1, <3>3, <3>4
    <3> HIDE DEF step
    <3> QED
      BY <3>1, <3>2, <3>5, <3>6
  <2> HIDE DEF S
  <2>3. \A i \in 0..good : i \in S
    BY <1>1, <2>1, <2>2, Counting
  <2> QED
    BY <2>3 DEF S
<1>9. Solves(f)
  <2>1. ASSUME NEW i \in 1..good PROVE f[i] = Next1(f[i - 1], i)
    <3>1. i - 1 \in 0..(good - 1) /\ i - 1 \in 0..good /\ (i - 1) + 1 = i
      BY <1>1
    <3>2. Reached(i, Next1(f[i - 1], i))
      BY <1>2, <1>8, <3>1
    <3>3. Next1(f[i - 1], i) \in MovieType
      BY <1>3, <3>2
    <3>4. f[i - 1] \in MovieType
      BY <1>7, <3>1
    <3>5. f[i] = step[i][f[i - 1]]
      BY <1>7
    <3>6. step[i][f[i - 1]] = Next1(f[i - 1], i)
      BY <3>3, <3>4
    <3> HIDE DEF step
    <3> QED
      BY <3>5, <3>6
  <2> HIDE DEF step
  <2>2. ASSUME NEW i \in 0..good
        PROVE  f[i] = IF i = 0 THEN m ELSE Next1(f[i - 1], i)
    <3>1. i = 0 \/ i \in 1..good
      OBVIOUS
    <3> QED
      BY <1>7, <2>1, <3>1
  <2>3. f = [i \in 0..good |-> f[i]]
    BY <1>7
  <2> QED
    BY <2>2, <2>3
<1> HIDE DEF step
<1> DEFINE w == CHOOSE g : Solves(g)
<1>10. Solves(w)
  BY <1>9
<1>11. Prerolled(m, packets, ends) = w[good]
  BY DEF Prerolled, Next1
<1> HIDE DEF w
<1>12. w[0] = m /\ \A i \in 1..good : w[i] = Next1(w[i - 1], i)
  BY <1>1, <1>10
<1> HIDE DEF Solves
<1>13. \A i \in 0..good : Reached(i, w[i])
  <2> DEFINE S == {i \in 0..good : Reached(i, w[i])}
  <2>1. 0 \in S
    BY <1>1, <1>5, <1>12
  <2>2. ASSUME NEW i \in 0..(good - 1), i \in S PROVE i + 1 \in S
    <3>1. i + 1 \in 1..good /\ i + 1 \in 0..good /\ (i + 1) - 1 = i
      BY <1>1
    <3>2. w[i + 1] = Next1(w[i], i + 1)
      BY <1>12, <3>1
    <3>3. Reached(i + 1, Next1(w[i], i + 1))
      BY <1>2, <2>2
    <3> QED
      BY <3>1, <3>2, <3>3
  <2> HIDE DEF S
  <2>3. \A i \in 0..good : i \in S
    BY <1>1, <2>1, <2>2, Counting
  <2> QED
    BY <2>3 DEF S
<1> QED
  BY <1>1, <1>11, <1>13 DEF Reached

(* The movie as it opens, and as the preroll as a whole leaves it, with or *)
(* without packets that are skipped and a write that fails.                *)
Opening(repair, begin, fed) ==
  [ClosedMovie EXCEPT !.open = TRUE, !.stamps = Reset(repair), !.begin = begin, !.fed = fed]
Began(packets, begin, fed, repair, w) ==
  /\ Good(w) /\ w.open /\ w.begin = begin /\ InOrder(w) /\ Ascends(w)
  /\ w.fed <= fed
  /\ repair => InPace(w)
  /\ w.stamps.started => /\ packets # <<>>
                        /\ w.stamps.lastArrival <= packets[Len(packets)].at
  /\ ~w.faulty => /\ Count(w) = Len(packets)
                  /\ packets # <<>> => w.fed = packets[Len(packets)].n

LEMMA PrerolledIs ==
  ASSUME camera.delay \in Nat, NEW begin \in Nat, NEW fed \in Nat, NEW repair \in BOOLEAN,
         NEW packets, Leading(packets, begin),
         packets # <<>> => packets[Len(packets)].n = fed,
         NEW good \in 0..Len(packets), NEW ends \in [1..good -> Results],
         good < Len(packets) => \E i \in 1..good : ends[i] \in Failures
  PROVE  Began(packets, begin, fed, repair,
               Prerolled(Opening(repair, begin, fed), packets, ends))
<1> DEFINE opened == Opening(repair, begin, fed)
           w == Prerolled(opened, packets, ends)
<1>1. /\ packets \in Seq(PacketType) /\ Len(packets) \in Nat /\ good \in Nat
      /\ packets = <<>> <=> Len(packets) = 0
  BY DEF Leading
<1>2. Led(packets, begin, fed, repair, ends, 0, opened)
  <2> DEFINE stamps == Reset(repair)
  <2>1. /\ stamps \in NormalizerType /\ stamps.repair = repair /\ stamps.started = FALSE
    BY DEF Reset, NormalizerType, StampType
  <2> HIDE DEF stamps
  <2>2. opened = [open |-> TRUE, started |-> FALSE, stamps |-> stamps, inside |-> <<>>,
                  base |-> NoStamp, lastPts |-> NoStamp, file |-> <<>>,
                  begin |-> begin, fed |-> fed, faulty |-> FALSE]
    <3> DEFINE none == Reset(TRUE)
    <3>1. ClosedMovie = [open |-> FALSE, started |-> FALSE, stamps |-> none, inside |-> <<>>,
                         base |-> NoStamp, lastPts |-> NoStamp, file |-> <<>>,
                         begin |-> 0, fed |-> 0, faulty |-> FALSE]
      BY DEF ClosedMovie
    <3>2. opened = [ClosedMovie EXCEPT !.open = TRUE, !.stamps = stamps,
                                       !.begin = begin, !.fed = fed]
      BY DEF stamps, Opening
    <3> HIDE DEF none, opened
    <3> QED
      BY <3>1, <3>2
  <2> HIDE DEF opened
  <2>3. <<>> \in Seq(PacketType) /\ <<>> \in Seq(ImageType) /\ Len(<<>>) = 0
    OBVIOUS
  <2>4. NoStamp \in StampType
    BY DEF StampType
  <2>5. opened \in MovieType
    BY <2>1, <2>2, <2>3, <2>4 DEF MovieType
  <2>6. /\ opened.open /\ ~opened.started /\ opened.stamps = stamps /\ opened.inside = <<>>
        /\ opened.file = <<>> /\ opened.begin = begin /\ ~opened.faulty
        /\ opened.fed = fed
    BY <2>2
  <2>7. Shape(opened) /\ AtKey(opened)
    BY <2>5, <2>6 DEF Shape, AtKey, Empty
  <2>8. Rising(opened)
    BY <2>1, <2>3, <2>6 DEF Rising, Rises, Climbs
  <2>9. Count(opened) = 0 /\ InOrder(opened) /\ Ascends(opened)
    <3>1. Count(opened) = 0
      BY <2>3, <2>6 DEF Count
    <3> QED
      BY <2>3, <2>6, <3>1 DEF Count, InOrder, Ascends
  <2>10. repair => InPace(opened)
    <3>1. 2..Len(opened.file) = {}
      BY <2>3, <2>6
    <3>2. ~opened.stamps.started /\ opened.stamps.repair = repair
      BY <2>1, <2>6
    <3> QED
      BY <2>6, <3>1, <3>2 DEF InPace
  <2> QED
    BY <2>1, <2>6, <2>7, <2>8, <2>9, <2>10 DEF Led, Good
<1> HIDE DEF opened
<1>3. Len(ends) = good
  BY <1>1
<1>4. Led(packets, begin, fed, repair, ends, good, w)
  BY <1>2, <1>3, PrerolledLeads
<1> HIDE DEF w
<1>5. good > 0 => /\ good \in 1..Len(packets) /\ packets[good].n = begin + good - 1
                  /\ packets[good].at <= packets[Len(packets)].at
                  /\ packets[good].at \in Nat /\ packets[Len(packets)].at \in Nat
                  /\ packets[Len(packets)].n = begin + Len(packets) - 1 /\ packets # <<>>
  <2> SUFFICES ASSUME good > 0
               PROVE  /\ good \in 1..Len(packets) /\ packets[good].n = begin + good - 1
                      /\ packets[good].at <= packets[Len(packets)].at
                      /\ packets[good].at \in Nat /\ packets[Len(packets)].at \in Nat
                      /\ packets[Len(packets)].n = begin + Len(packets) - 1 /\ packets # <<>>
    OBVIOUS
  <2>1. good \in 1..Len(packets) /\ Len(packets) \in 1..Len(packets) /\ packets # <<>>
    BY <1>1
  <2>2. packets[good] \in PacketType /\ packets[Len(packets)] \in PacketType
    BY <1>1, <2>1
  <2> QED
    BY <2>1, <2>2 DEF Leading, PacketType
<1>6. w.fed \in Nat /\ w.stamps.lastArrival \in Int
  BY <1>4 DEF Led, Good, Shape, MovieType, NormalizerType
<1>7. w.fed <= fed
  <2>1. CASE good = 0
    BY <1>4, <2>1 DEF Led
  <2>2. CASE good > 0
    <3>1. w.fed <= packets[good].n
      BY <1>4, <2>2 DEF Led
    <3>2. fed = begin + Len(packets) - 1
      BY <1>5, <2>2
    <3> QED
      BY <1>1, <1>5, <1>6, <2>2, <3>1, <3>2
  <2> QED
    BY <1>1, <2>1, <2>2
<1>8. w.stamps.started => packets # <<>> /\ w.stamps.lastArrival <= packets[Len(packets)].at
  <2>1. w.stamps.started => good > 0 /\ w.stamps.lastArrival <= packets[good].at
    BY <1>4 DEF Led
  <2> QED
    BY <1>5, <1>6, <2>1
<1>9. ~w.faulty => /\ Count(w) = Len(packets)
                   /\ packets # <<>> => w.fed = packets[Len(packets)].n
  <2> SUFFICES ASSUME ~w.faulty
               PROVE  /\ Count(w) = Len(packets)
                      /\ packets # <<>> => w.fed = packets[Len(packets)].n
    OBVIOUS
  <2>1. good = Len(packets)
    <3>1. \A i \in 1..good : ends[i] \notin Failures
      BY <1>4 DEF Led, Losses
    <3> QED
      BY <1>1, <3>1
  <2> QED
    BY <1>1, <1>4, <2>1 DEF Led
<1>10. Began(packets, begin, fed, repair, w)
  BY <1>4, <1>7, <1>8, <1>9 DEF Led, Began
<1> QED
  BY <1>10 DEF w, opened

-----------------------------------------------------------------------------
(* The packets of a connection are numbered as they come.                  *)
Numbered(packets, now) ==
  /\ packets \in Seq(PacketType)
  /\ \A i \in 1..Len(packets) :
       /\ packets[i].n = i /\ packets[i].at <= now
       /\ \A j \in 1..i : packets[j].at <= packets[i].at
StreamInv == Numbered(received, clock)

(* The packet of a turn, if there is one.                                  *)
Fresh(p) == p \in PacketType /\ p.n = Len(received) + 1 /\ clock <= p.at

LEMMA TurnSamples ==
  ASSUME ArrivalInv, StreamInv, Turn
  PROVE  \/ UNCHANGED <<camera, link, clock, received, source, ring, event, live, movie>>
         \/ \E top, packet, frame, eof, decoder :
              /\ source.open
              /\ Sample(top, packet, frame, eof, decoder)
              /\ packet = <<>> \/ \E p : packet = <<p>> /\ Fresh(p)
<1>1. PICK wanted \in Wants :
        LET top == Updated(control, wanted, FALSE, clock)
        IN \/ ReadDrained(top) \/ ReadAgain(top) \/ ReadEnd(top)
           \/ \E key \in BOOLEAN, gap \in camera.gaps, step \in camera.steps :
                ReadPacket(top, key, gap, step)
  BY DEF Turn
<1> DEFINE top == Updated(control, wanted, FALSE, clock)
<1> HIDE DEF top
<1>2. CASE ReadDrained(top)
  BY <1>2 DEF ReadDrained
<1>3. CASE ReadEnd(top)
  BY <1>3 DEF ReadEnd, Reads
<1>4. CASE ReadAgain(top)
  BY <1>4 DEF ReadAgain
<1>5. ASSUME NEW key \in BOOLEAN, NEW gap \in camera.gaps, NEW step \in camera.steps,
             ReadPacket(top, key, gap, step)
      PROVE  \E packet, frame, decoder, p :
               /\ source.open /\ Sample(top, packet, frame, FALSE, decoder)
               /\ packet = <<p>> /\ Fresh(p)
  <2> DEFINE before == {i \in 1..Len(received) : received[i].dts # NoStamp}
             dts == IF ~Repairs THEN Len(received) * TicksPerSecond
                    ELSE IF step = NoStamp THEN NoStamp
                    ELSE IF before = {} THEN 0
                    ELSE received[Max(before)].dts + step
             p == [n |-> Len(received) + 1, key |-> key, at |-> clock + gap, dts |-> dts]
  <2>1. /\ clock \in Nat /\ gap \in Nat /\ step \in Int \union {NoStamp}
        /\ Len(received) \in Nat /\ received \in Seq(PacketType)
    BY CamerasAssumption DEF ArrivalInv, StreamInv, Numbered, CameraType
  <2>2. \E frame, decoder : Sample(top, <<p>>, frame, FALSE, decoder)
    BY <1>5, Zenon DEF ReadPacket
  <2>3. source.open
    BY <1>5 DEF ReadPacket, Reads
  <2>4. dts \in StampType
    <3>1. Len(received) * TicksPerSecond \in Int
      BY <2>1, TicksAssumption
    <3>2. before # {} => received[Max(before)].dts \in Int
      <4>1. before \in SUBSET Nat /\ \A y \in before : y <= Len(received)
        BY <2>1
      <4>2. \A i \in before : i \in 1..Len(received) /\ received[i].dts # NoStamp
        OBVIOUS
      <4> HIDE DEF before
      <4>3. before # {} => Max(before) \in before
        BY <2>1, <4>1, GreatestOf
      <4> HIDE DEF Max
      <4>4. before # {} => received[Max(before)] \in PacketType
                          /\ received[Max(before)].dts # NoStamp
        BY <2>1, <4>2, <4>3
      <4> QED
        BY <4>4 DEF PacketType, StampType
    <3> HIDE DEF before, Max
    <3> QED
      BY <2>1, <3>1, <3>2 DEF StampType
  <2> HIDE DEF dts
  <2>5. Fresh(p)
    BY <2>1, <2>4 DEF Fresh, PacketType
  <2> HIDE DEF p
  <2> QED
    BY <2>2, <2>3, <2>5
<1> QED
  BY <1>1, <1>2, <1>3, <1>4, <1>5 DEF top

(* A packet joins the numbered ones.                                       *)
LEMMA StreamTakes ==
  ASSUME StreamInv, clock \in Nat, NEW p, Fresh(p),
         received' = received \o <<p>>, clock' = p.at
  PROVE  StreamInv' /\ received' = Append(received, p) /\ Len(received') = Len(received) + 1
<1>1. received \in Seq(PacketType) /\ p \in PacketType /\ Len(received) \in Nat
  BY DEF StreamInv, Numbered, Fresh
<1>2. received' = Append(received, p)
  BY <1>1
<1>3. /\ received' \in Seq(PacketType) /\ Len(received') = Len(received) + 1
      /\ \A i \in 1..Len(received) : received'[i] = received[i] /\ received[i] \in PacketType
      /\ received'[Len(received) + 1] = p
  BY <1>1, <1>2, ImageJoins
<1>4. p.at \in Nat /\ p.n = Len(received) + 1 /\ clock <= p.at
  BY DEF Fresh, PacketType
<1>5. \A i \in 1..Len(received) : /\ received[i].n = i /\ received[i].at <= clock
                                 /\ received[i].at \in Nat
                                 /\ \A j \in 1..i : received[j].at <= received[i].at
  BY <1>3 DEF StreamInv, Numbered, PacketType
<1>6. ASSUME NEW i \in 1..Len(received')
      PROVE  /\ received'[i].n = i /\ received'[i].at <= clock'
             /\ \A j \in 1..i : received'[j].at <= received'[i].at
  <2>1. CASE i = Len(received) + 1
    <3>1. received'[i] = p
      BY <1>3, <2>1
    <3>2. ASSUME NEW j \in 1..i PROVE received'[j].at <= p.at
      <4>1. CASE j = i
        BY <1>4, <3>1, <4>1
      <4>2. CASE j # i
        <5>1. j \in 1..Len(received)
          BY <1>1, <2>1, <4>2
        <5>2. received'[j].at = received[j].at /\ received[j].at <= clock
              /\ received[j].at \in Nat
          BY <1>3, <1>5, <5>1
        <5> QED
          BY <1>4, <5>2
      <4> QED
        BY <4>1, <4>2
    <3> QED
      BY <1>4, <2>1, <3>1, <3>2
  <2>2. CASE i # Len(received) + 1
    <3>1. i \in 1..Len(received)
      BY <1>1, <1>3, <2>2
    <3>2. received'[i] = received[i] /\ \A j \in 1..i : received'[j] = received[j]
      BY <1>1, <1>3, <3>1
    <3>3. received[i].at <= p.at
      BY <1>4, <1>5, <3>1
    <3> QED
      BY <1>5, <3>1, <3>2, <3>3
  <2> QED
    BY <2>1, <2>2
<1> QED
  BY <1>2, <1>3, <1>6 DEF StreamInv, Numbered

LEMMA StreamInit == Init => StreamInv
BY DEF Init, StreamInv, Numbered

LEMMA StreamNext == DecodeInv /\ ArrivalInv /\ StreamInv /\ [Next]_vars => StreamInv'
<1> SUFFICES ASSUME DecodeInv, ArrivalInv, StreamInv, [Next]_vars PROVE StreamInv'
  OBVIOUS
<1>1. ASSUME received' = received, clock' = clock PROVE StreamInv'
  BY <1>1 DEF StreamInv, Numbered
<1>2. ASSUME received' = <<>> PROVE StreamInv'
  BY <1>2 DEF StreamInv, Numbered
<1>3. CASE Turn
  <2>1. CASE UNCHANGED <<camera, link, clock, received, source, ring, event, live, movie>>
    BY <1>1, <2>1
  <2>2. ASSUME NEW top, NEW packet, NEW frame, NEW eof, NEW decoder,
               Sample(top, packet, frame, eof, decoder),
               packet = <<>> \/ \E p : packet = <<p>> /\ Fresh(p)
        PROVE  StreamInv'
    <3>1. /\ clock' = IF packet = <<>> THEN clock ELSE packet[1].at
          /\ received' = received \o packet
      BY <2>2, Zenon DEF Sample
    <3>2. CASE packet = <<>>
      <4>1. received' = received
        BY <3>1, <3>2 DEF StreamInv, Numbered
      <4> QED
        BY <1>1, <3>1, <3>2, <4>1
    <3>3. CASE packet # <<>>
      <4>1. PICK p : packet = <<p>> /\ Fresh(p)
        BY <2>2, <3>3
      <4>2. packet[1] = p
        BY <4>1
      <4>3. clock \in Nat
        BY DEF ArrivalInv
      <4> QED
        BY <3>1, <3>3, <4>1, <4>2, <4>3, StreamTakes
    <3> QED
      BY <3>2, <3>3
  <2> QED
    BY <1>3, <2>1, <2>2, TurnSamples
<1>4. CASE Connect
  <2>1. received' = received /\ ~source.open
    BY <1>4 DEF Connect
  <2>2. received = <<>>
    BY <2>1 DEF DecodeInv, SourceOK
  <2> QED
    BY <1>2, <2>1, <2>2
<1>5. CASE Disconnect
  BY <1>2, <1>5 DEF Disconnect
<1>6. CASE OpenFails
  BY <1>1, <1>6 DEF OpenFails, streamVars
<1>7. CASE \E identified \in BOOLEAN, probe \in {"available", "refused", "unavailable"} :
             Detect(identified, probe)
  BY <1>1, <1>7 DEF Detect, streamVars
<1>8. CASE UNCHANGED vars
  BY <1>1, <1>8 DEF vars, streamVars
<1> QED
  BY <1>3, <1>4, <1>5, <1>6, <1>7, <1>8 DEF Next

(* No packet but a keyframe gives a movie its beginning.                   *)
LEMMA NoKey ==
  ASSUME NEW s, IsSeq(s), NEW p, PrerollStart(s) = 0, ~p.key
  PROVE  PrerollStart(Append(s, p)) = 0
<1> DEFINE t == Append(s, p)
           n == Len(s)
<1>1. /\ n \in Nat /\ Len(t) = n + 1 /\ t[n + 1] = p
      /\ \A i \in 1..n : t[i] = s[i]
  BY AppendOne
<1>2. \A i \in 1..n : i > n - MaxRing => ~s[i].key
  BY <1>1, PrerollStartIs
<1>3. MaxRing \in Nat
  BY RingAssumption
<1> HIDE DEF t, n
<1>4. \/ PrerollStart(t) = 0
      \/ /\ PrerollStart(t) \in 1..Len(t) /\ t[PrerollStart(t)].key
         /\ PrerollStart(t) > Len(t) - MaxRing
  <2>1. Len(t) \in Nat
    BY <1>1
  <2> HIDE DEF PrerollStart
  <2> QED
    BY <2>1, PrerollStartIs
<1>5. ASSUME NEW i \in 1..Len(t), t[i].key, i > Len(t) - MaxRing PROVE FALSE
  <2>1. i # n + 1
    BY <1>1, <1>5
  <2>2. i \in 1..n /\ i > n - MaxRing
    BY <1>1, <1>3, <1>5, <2>1
  <2> QED
    BY <1>1, <1>2, <1>5, <2>2
<1> QED
  BY <1>4, <1>5 DEF t

(* What a decision of the event machine says of the machine it leaves.     *)
Decides(d) ==
  /\ d.started => ~event.active /\ d.machine.active
  /\ d.ended => event.active /\ ~d.machine.active
  /\ ~d.started /\ ~d.ended => (d.machine.active <=> event.active)

LEMMA StopDecides == Decides(Events!Stop(event)) /\ ~Events!Stop(event).machine.active
BY DEF Decides, Events!Stop, Events!Ends, Events!Idle

LEMMA UpdateDecides ==
  ASSUME NEW motion \in BOOLEAN, NEW now
  PROVE  Decides(Events!Update(event, motion, now, FALSE))
<1> DEFINE d == Events!Update(event, motion, now, FALSE)
           confirmed == Events!Confirmed(event, motion, FALSE)
<1>1. CASE Events!Overdue(event, now) \/ Events!Quiet(event, motion, now)
  <2>1. d = Events!Ends(event)
    BY <1>1 DEF Events!Update
  <2> QED
    BY <2>1, StopDecides DEF Events!Stop
<1>2. CASE ~(Events!Overdue(event, now) \/ Events!Quiet(event, motion, now))
  <2>1. d = Events!Continued(event, motion, now, FALSE)
    BY <1>2 DEF Events!Update
  <2> DEFINE trailing == Events!Trailing(event, motion, FALSE)
             starts == confirmed /\ ~event.active
             run == Events!MotionRun(event, motion, FALSE)
             post == IF confirmed THEN PostCapture
                     ELSE IF trailing THEN event.post - 1 ELSE event.post
             last == IF confirmed \/ (event.active /\ motion) THEN now ELSE event.lastMotion
             since == IF starts THEN now ELSE event.startedAt
             number == IF starts THEN event.number + 1 ELSE event.number
             record == confirmed \/ trailing
  <2>2. d = [machine |-> [active |-> event.active \/ confirmed, consecutive |-> run,
                          post |-> post, lastMotion |-> last, startedAt |-> since,
                          number |-> number],
             started |-> starts, ended |-> FALSE, record |-> record]
    BY <2>1, Zenon DEF Events!Continued
  <2> HIDE DEF d, run, post, last, since, number, record
  <2>3. /\ d.started = starts /\ d.ended = FALSE
        /\ d.machine.active = (event.active \/ confirmed)
    <3> HIDE DEF starts, confirmed
    <3> QED
      BY <2>2
  <2>4. confirmed \in BOOLEAN
    BY DEF Events!Confirmed
  <2> HIDE DEF starts
  <2>5. starts \in BOOLEAN /\ (starts => confirmed /\ ~event.active)
        /\ (~starts => ~confirmed \/ event.active)
    BY DEF starts
  <2> HIDE DEF confirmed
  <2>6. ASSUME confirmed PROVE Decides(d)
    <3>1. d.machine.active = TRUE
      BY <2>3, <2>6
    <3> QED
      BY <2>3, <2>5, <2>6, <3>1 DEF Decides
  <2>7. ASSUME ~confirmed PROVE Decides(d)
    <3>1. d.machine.active <=> event.active
      BY <2>3, <2>7
    <3> QED
      BY <2>3, <2>5, <2>7, <3>1 DEF Decides
  <2>8. Decides(d)
    BY <2>6, <2>7
  <2> QED
    BY <2>8 DEF d
<1> QED
  BY <1>1, <1>2

-----------------------------------------------------------------------------
(* The movie and the packets that have come.                               *)
Kept(m) ==
  /\ Good(m) /\ Ascends(m)
  /\ camera.allFrames => InOrder(m)
  /\ ~link.native => InPace(m)
Upto(m, packets, now) ==
  /\ m.open => m.fed <= Len(packets)
  /\ m.open /\ m.stamps.started => m.stamps.lastArrival <= now
  /\ camera.allFrames /\ m.open /\ ~m.faulty =>
       IF Count(m) = 0 THEN m.begin = 0 /\ PrerollStart(packets) = 0
       ELSE m.fed = Len(packets)
MovieInv ==
  /\ Kept(movie) /\ Upto(movie, received, clock)
  /\ movie.open => event.active /\ (camera.allFrames => live)
  /\ event.active => source.open
  /\ source.open /\ link.selected = "baichuan" => link.native

LEMMA CountIs ==
  ASSUME NEW m, Good(m)
  PROVE  /\ Count(m) \in Nat
         /\ Len(m.file) \in Nat /\ Len(m.inside) \in Nat
         /\ Count(m) = 0 <=> Empty(m)
         /\ m.file = <<>> <=> Len(m.file) = 0
         /\ m.inside = <<>> <=> Len(m.inside) = 0
         /\ m.fed \in Nat /\ m.begin \in Nat
         /\ m.stamps.lastArrival \in Int
<1>1. m.file \in Seq(ImageType) /\ m.inside \in Seq(PacketType)
      /\ m.fed \in Nat /\ m.begin \in Nat /\ m.stamps \in NormalizerType
  BY DEF Good, Shape, MovieType
<1>2. m.stamps.lastArrival \in Int
  BY <1>1 DEF NormalizerType
<1>3. /\ Len(m.file) \in Nat /\ Len(m.inside) \in Nat
      /\ m.file = <<>> <=> Len(m.file) = 0
      /\ m.inside = <<>> <=> Len(m.inside) = 0
  BY <1>1
<1>4. Count(m) = Len(m.file) + Len(m.inside) /\ (Empty(m) <=> m.file = <<>> /\ m.inside = <<>>)
  BY DEF Count, Empty
<1>5. Empty(m) <=> Len(m.file) = 0 /\ Len(m.inside) = 0
  BY <1>3, <1>4
<1>6. Count(m) \in Nat /\ (Count(m) = 0 <=> Len(m.file) = 0 /\ Len(m.inside) = 0)
  <2> DEFINE f == Len(m.file)
             i == Len(m.inside)
  <2>1. Count(m) = f + i /\ f \in Nat /\ i \in Nat
    BY <1>3, <1>4
  <2> HIDE DEF f, i
  <2>2. Count(m) \in Nat /\ (Count(m) = 0 <=> f = 0 /\ i = 0)
    BY <2>1
  <2> QED
    BY <2>2 DEF f, i
<1> QED
  BY <1>1, <1>2, <1>3, <1>5, <1>6

(* A packet is handed to the movie, and joins those that have come.        *)
LEMMA WriteKeeps ==
  ASSUME camera.delay \in Nat, StreamInv, clock \in Nat,
         NEW m, Kept(m), Upto(m, received, clock),
         NEW p, Fresh(p), NEW outcome \in Results
  PROVE  LET w == Written(m, p, outcome)
         IN Kept(w) /\ Upto(w, Append(received, p), p.at) /\ w.open = m.open
<1> DEFINE w == Written(m, p, outcome)
           packets == Append(received, p)
           goal == Kept(w) /\ Upto(w, packets, p.at) /\ w.open = m.open
<1>1. /\ p \in PacketType /\ p.n = Len(received) + 1 /\ clock <= p.at
      /\ p.at \in Nat /\ p.key \in BOOLEAN
  BY DEF Fresh, PacketType
<1>2. received \in Seq(PacketType) /\ IsSeq(received) /\ Len(received) \in Nat
  BY DEF StreamInv, Numbered, IsSeq
<1>3. Len(packets) = Len(received) + 1
  BY <1>2, AppendOne
<1>4. ASSUME ~m.open \/ (~m.started /\ ~p.key) PROVE goal
  <2>1. w = m
    BY <1>4 DEF Written
  <2>2. m.open /\ m.stamps.started => m.stamps.lastArrival <= p.at
    BY <1>1, CountIs DEF Kept, Upto
  <2>3. ASSUME camera.allFrames, m.open, ~m.faulty
        PROVE  Count(m) = 0 /\ m.begin = 0 /\ PrerollStart(packets) = 0
    <3>1. Count(m) = 0
      BY <1>4, <2>3, CountIs DEF Kept, Good, Shape
    <3>2. m.begin = 0 /\ PrerollStart(received) = 0
      BY <2>3, <3>1 DEF Upto
    <3> QED
      BY <1>2, <1>4, <2>3, <3>1, <3>2, NoKey
  <2>4. m.open => m.fed <= Len(packets)
    BY <1>2, <1>3, CountIs DEF Kept, Upto
  <2> HIDE DEF w, packets
  <2> QED
    BY <2>1, <2>2, <2>3, <2>4 DEF Upto
<1>5. ASSUME ~(~m.open \/ (~m.started /\ ~p.key)) PROVE goal
  <2>1. m.stamps.started => m.stamps.lastArrival <= p.at
    BY <1>1, <1>5, CountIs DEF Kept, Upto
  <2>2. Handed(m, p, outcome, w)
    BY <1>1, <1>5, <2>1, WrittenKeeps DEF Kept
  <2>3. camera.allFrames => InOrder(w)
    <3> SUFFICES ASSUME camera.allFrames, ~w.faulty
                 PROVE  InOrder(w)
      BY DEF InOrder
    <3>1. ~m.faulty /\ m.open
      BY <1>5, <2>2 DEF Handed
    <3>2. Follows(m, p)
      BY <1>1, <3>1 DEF Follows, Upto
    <3> QED
      BY <2>2, <3>2 DEF Handed, Kept
  <2>8. Ascends(w)
    <3>1. m.fed < p.n
      BY <1>1, <1>2, <1>5, CountIs DEF Kept, Upto
    <3>2. Later(m, p)
      BY <3>1 DEF Later
    <3> QED
      BY <2>2, <3>2 DEF Handed, Kept
  <2>4. Kept(w)
    BY <2>2, <2>3, <2>8 DEF Handed, Kept
  <2>5. w.open /\ m.open
    BY <1>5, <2>2 DEF Handed
  <2>6. w.stamps.started => w.stamps.lastArrival <= p.at
    <3>1. p.at <= p.at
      BY <1>1
    <3> QED
      BY <2>1, <2>2, <3>1 DEF Handed
  <2>7. ~w.faulty => Count(w) # 0 /\ w.fed = Len(packets)
    <3>1. Count(m) \in Nat
      BY CountIs DEF Kept
    <3> QED
      BY <1>1, <1>3, <2>2, <3>1 DEF Handed
  <2>9. w.fed <= Len(packets)
    <3>1. w.fed = Len(packets)
      BY <1>1, <1>3, <2>2 DEF Handed
    <3> QED
      BY <1>2, <1>3, <3>1
  <2> HIDE DEF w, packets
  <2> QED
    BY <2>4, <2>5, <2>6, <2>7, <2>9 DEF Upto
<1>6. goal
  <2> HIDE DEF goal
  <2> QED
    BY <1>4, <1>5
<1> QED
  BY <1>6

(* A turn without a packet, or one that leaves the movie alone.            *)
LEMMA LaterKeeps ==
  ASSUME NEW m, Kept(m), Upto(m, received, clock), NEW packets, NEW now,
         clock \in Nat, now \in Nat, clock <= now,
         Len(received) \in Nat, Len(packets) \in Nat, Len(received) <= Len(packets),
         packets = received \/ (camera.allFrames => ~m.open)
  PROVE  Upto(m, packets, now)
BY CountIs DEF Kept, Upto

(* The movie is closed.                                                    *)
LEMMA CloseKeeps ==
  ASSUME NEW m, Kept(m), NEW packets, NEW now, NEW lost \in 0..Len(m.inside)
  PROVE  Kept(Closed(m, lost)) /\ Upto(Closed(m, lost), packets, now) /\ ~Closed(m, lost).open
BY ClosedKeeps DEF Kept, Upto

LEMMA UnflushedIs ==
  ASSUME Good(movie) PROVE Unflushed \subseteq 0..Len(movie.inside)
<1>1. movie.inside \in Seq(PacketType)
  BY DEF Good, Shape, MovieType
<1>2. Len(movie.inside) \in Nat
  BY <1>1
<1> QED
  BY <1>2 DEF Unflushed

(* There is no movie yet.                                                  *)
LEMMA NoMovie ==
  ASSUME NEW m, m \in {ClosedMovie, [ClosedMovie EXCEPT !.faulty = TRUE]}
  PROVE  Good(m) /\ InOrder(m) /\ Ascends(m) /\ InPace(m) /\ ~m.open
<1>1. \E f \in BOOLEAN :
        m = [open |-> FALSE, started |-> FALSE, stamps |-> Reset(TRUE), inside |-> <<>>,
             base |-> NoStamp, lastPts |-> NoStamp, file |-> <<>>,
             begin |-> 0, fed |-> 0, faulty |-> f]
  BY DEF ClosedMovie
<1>2. /\ ~m.open /\ ~m.started /\ m.inside = <<>> /\ m.file = <<>> /\ m.begin = 0
  BY <1>1
<1>3. Len(<<>>) = 0 /\ <<>> \in Seq(ImageType) /\ <<>> \in Seq(PacketType)
  OBVIOUS
<1>4. Reset(TRUE) \in NormalizerType
  BY DEF Reset, NormalizerType, StampType
<1>5. m \in MovieType
  <2>1. PICK f \in BOOLEAN :
          m = [open |-> FALSE, started |-> FALSE, stamps |-> Reset(TRUE), inside |-> <<>>,
               base |-> NoStamp, lastPts |-> NoStamp, file |-> <<>>,
               begin |-> 0, fed |-> 0, faulty |-> f]
    BY <1>1
  <2>2. NoStamp \in StampType /\ 0 \in Nat
    BY DEF StampType
  <2> HIDE DEF Reset
  <2> QED
    BY <1>3, <1>4, <2>1, <2>2 DEF MovieType
<1>6. Count(m) = 0
  BY <1>2, <1>3 DEF Count
<1>7. Ascends(m)
  BY <1>6 DEF Ascends
<1> QED
  BY <1>2, <1>3, <1>5, <1>7 DEF Good, Shape, AtKey, Rising, Rises, InOrder, InPace, Count

(* The packets of the preroll: the last ones, from its keyframe on.        *)
LEMMA PrerollLeads ==
  ASSUME NEW now, NEW packets, Numbered(packets, now), NEW kept, RingIs(packets, kept)
  PROVE  LET window == Snapshot(kept)
             q == PrerollStart(packets)
         IN /\ Leading(window, q) /\ q \in Nat /\ Len(window) \in Nat /\ Len(packets) \in Nat
            /\ window = <<>> <=> q = 0
            /\ window = <<>> <=> Len(window) = 0
            /\ window # <<>> => /\ window[Len(window)].n = Len(packets)
                                /\ window[Len(window)].at <= now
<1> DEFINE window == Snapshot(kept)
           q == PrerollStart(packets)
           count == Len(packets)
           goal == /\ Leading(window, q) /\ q \in Nat /\ Len(window) \in Nat /\ count \in Nat
                   /\ window = <<>> <=> q = 0
                   /\ window = <<>> <=> Len(window) = 0
                   /\ window # <<>> => /\ window[Len(window)].n = count
                                       /\ window[Len(window)].at <= now
<1>1. packets \in Seq(PacketType) /\ IsSeq(packets) /\ count \in Nat
  BY DEF Numbered, IsSeq
<1>2. window = IF q = 0 THEN <<>> ELSE SubSeq(packets, q, count)
  BY <1>1, SnapshotIsPreroll
<1>3. q = 0 \/ (q \in 1..count /\ packets[q].key)
  BY <1>1, PrerollStartIs
<1>4. \A i \in 1..count : /\ packets[i].n = i /\ packets[i].at <= now
                          /\ \A j \in 1..i : packets[j].at <= packets[i].at
  BY DEF Numbered
<1> HIDE DEF window, q, count, goal
<1>5. ASSUME q = 0 PROVE goal
  <2>1. window = <<>> /\ Len(<<>>) = 0 /\ <<>> \in Seq(PacketType)
    BY <1>2, <1>5
  <2>2. Leading(<<>>, q)
    BY <2>1 DEF Leading
  <2> QED
    BY <1>1, <1>5, <2>1, <2>2 DEF goal
<1>6. ASSUME q # 0 PROVE goal
  <2>1. q \in 1..count /\ packets[q].key
    BY <1>3, <1>6
  <2>2. /\ window \in Seq(PacketType) /\ Len(window) = count - q + 1
        /\ \A i \in 1..(count - q + 1) : window[i] = packets[q + i - 1]
    <3>1. window = SubSeq(packets, q, Len(packets))
      BY <1>2, <1>6 DEF count
    <3> QED
      BY <1>1, <2>1, <3>1 DEF count
  <2>3. window # <<>> /\ Len(window) # 0
    BY <1>1, <2>1, <2>2
  <2>4. window[1].key
    <3>1. 1 \in 1..(count - q + 1) /\ q + 1 - 1 = q
      BY <1>1, <2>1
    <3> QED
      BY <2>1, <2>2, <3>1
  <2>5. ASSUME NEW i \in 1..Len(window)
        PROVE  /\ window[i].n = q + i - 1 /\ window[i].at <= now
               /\ \A j \in 1..i : window[j].at <= window[i].at
    <3>1. /\ q + i - 1 \in 1..count /\ window[i] = packets[q + i - 1]
      BY <1>1, <2>1, <2>2
    <3>2. ASSUME NEW j \in 1..i PROVE window[j].at <= window[i].at
      <4>1. q + j - 1 \in 1..(q + i - 1) /\ window[j] = packets[q + j - 1]
        BY <1>1, <2>1, <2>2
      <4> QED
        BY <1>4, <3>1, <4>1
    <3> QED
      BY <1>4, <3>1, <3>2
  <2>6. Leading(window, q)
    BY <2>2, <2>4, <2>5 DEF Leading
  <2>7. Len(window) \in 1..Len(window) /\ q + Len(window) - 1 = count
    BY <1>1, <2>1, <2>2
  <2>8. window[Len(window)].n = count /\ window[Len(window)].at <= now
    BY <2>5, <2>7
  <2> QED
    BY <1>1, <1>6, <2>1, <2>2, <2>3, <2>6, <2>8 DEF goal
<1>7. goal
  BY <1>5, <1>6
<1> QED
  BY <1>7 DEF goal, window, q, count

(* The movie of an event that starts.                                      *)
LEMMA OpenKeeps ==
  ASSUME camera.delay \in Nat, ~link.native => Repairs,
         Numbered(received', clock'), clock' \in Nat,
         RingIs(received', ring'), OpenMovie
  PROVE  Kept(movie') /\ Upto(movie', received', clock')
<1> DEFINE packets == Snapshot(ring')
           q == PrerollStart(received')
           opened == Opening(Repairs, q, Len(received'))
<1>1. CASE movie' = [ClosedMovie EXCEPT !.faulty = TRUE]
  BY <1>1, NoMovie DEF Kept, Upto
<1>2. CASE movie' # [ClosedMovie EXCEPT !.faulty = TRUE]
  <2>1. PICK good \in 0..Len(packets) :
          \E ends \in [1..good -> Outcomes] :
            /\ good < Len(packets) => \E i \in 1..good : ends[i] \in Failures
            /\ movie' = Prerolled(opened, packets, ends)
    BY <1>2, Zenon DEF OpenMovie, Opening
  <2>a. PICK ends \in [1..good -> Outcomes] :
          /\ good < Len(packets) => \E i \in 1..good : ends[i] \in Failures
          /\ movie' = Prerolled(opened, packets, ends)
    BY <2>1
  <2>2. /\ Leading(packets, q) /\ q \in Nat /\ Len(packets) \in Nat /\ Len(received') \in Nat
        /\ packets = <<>> <=> q = 0
        /\ packets = <<>> <=> Len(packets) = 0
        /\ packets # <<>> => /\ packets[Len(packets)].n = Len(received')
                             /\ packets[Len(packets)].at <= clock'
    BY PrerollLeads
  <2>3. ends \in [1..good -> Results]
    <3>1. Outcomes \subseteq Results
      BY DEF Outcomes, Results, Losses
    <3> HIDE DEF packets
    <3> QED
      BY <2>a, <3>1
  <2>4. Repairs \in BOOLEAN
    BY DEF Repairs
  <2> DEFINE w == Prerolled(opened, packets, ends)
  <2>5. Began(packets, q, Len(received'), Repairs, w)
    <3> HIDE DEF packets, q
    <3> QED
      BY <2>1, <2>a, <2>2, <2>3, <2>4, PrerolledIs
  <2>6. w = movie'
    BY <2>a
  <2> HIDE DEF w, opened, packets
  <2>7. w.stamps.started => w.stamps.lastArrival <= clock'
    <3>1. packets # <<>> => packets[Len(packets)].at \in Nat
      <4>1. packets # <<>> => Len(packets) \in 1..Len(packets)
        BY <2>2
      <4> QED
        <5>1. packets \in Seq(PacketType)
          BY <2>2 DEF Leading
        <5>2. packets # <<>> => packets[Len(packets)] \in PacketType
          BY <4>1, <5>1
        <5> QED
          BY <5>2 DEF PacketType
    <3>2. w.stamps.lastArrival \in Int
      BY <2>5, CountIs DEF Began
    <3> QED
      BY <2>2, <2>5, <3>1, <3>2 DEF Began
  <2>8. ~w.faulty => IF Count(w) = 0 THEN w.begin = 0 /\ q = 0 ELSE w.fed = Len(received')
    BY <2>2, <2>5 DEF Began
  <2> QED
    BY <2>5, <2>6, <2>7, <2>8 DEF Began, Kept, Upto
<1> QED
  BY <1>1, <1>2

-----------------------------------------------------------------------------
(* What a turn leaves of the movie: the movie itself, or what one of the   *)
(* loop's calls of the writer makes of it.                                 *)
MovieNow(machine, now) ==
  /\ Kept(movie') /\ Upto(movie', received', clock')
  /\ movie'.open => machine.active /\ (camera.allFrames => now)
  /\ machine.active => source.open

(* The sample has no image, or one that does not end or begin an event.    *)
LEMMA PacketKeepsMovie ==
  ASSUME MovieInv, StreamInv, clock \in Nat, camera.delay \in Nat,
         NEW packet,
         \/ packet = <<>> /\ received' = received /\ clock' = clock
         \/ \E p : /\ packet = <<p>> /\ Fresh(p)
                  /\ received' = Append(received, p) /\ clock' = p.at,
         \/ packet = <<>> /\ movie' = movie
         \/ (camera.allFrames => ~movie.open) /\ movie' = movie
         \/ packet # <<>> /\ \E outcome \in Outcomes : movie' = Written(movie, packet[1], outcome)
  PROVE  Kept(movie') /\ Upto(movie', received', clock') /\ movie'.open = movie.open
<1>1. Kept(movie) /\ Upto(movie, received, clock)
  BY DEF MovieInv
<1>2. clock' \in Nat /\ clock <= clock'
  BY DEF Fresh, PacketType
<1>3. CASE movie' = movie /\ (received' = received \/ (camera.allFrames => ~movie.open))
  <2>1. Len(received) \in Nat /\ Len(received') \in Nat /\ Len(received) <= Len(received')
    <3>1. received \in Seq(PacketType) /\ IsSeq(received)
      BY DEF StreamInv, Numbered, IsSeq
    <3>2. Len(received) \in Nat
      BY <3>1
    <3>3. \A p : Len(Append(received, p)) = Len(received) + 1
      BY <3>1, AppendOne
    <3> QED
      BY <3>2, <3>3
  <2> QED
    BY <1>1, <1>2, <1>3, <2>1, LaterKeeps
<1>4. CASE packet # <<>> /\ \E outcome \in Outcomes : movie' = Written(movie, packet[1], outcome)
  <2>1. PICK outcome \in Outcomes : movie' = Written(movie, packet[1], outcome)
    BY <1>4
  <2>2. outcome \in Results
    BY DEF Outcomes, Results, Losses
  <2>3. PICK p : /\ packet = <<p>> /\ Fresh(p)
                 /\ received' = Append(received, p) /\ clock' = p.at
    BY <1>4
  <2>4. movie' = Written(movie, p, outcome)
    BY <2>1, <2>3
  <2> QED
    BY <1>1, <2>2, <2>3, <2>4, WriteKeeps
<1>5. packet = <<>> => received' = received
  <2>1. \A p : <<p>> # <<>>
    OBVIOUS
  <2> QED
    BY <2>1
<1> QED
  BY <1>3, <1>4, <1>5

LEMMA FollowKeeps ==
  ASSUME MovieInv, StreamInv, clock \in Nat, camera.delay \in Nat,
         NEW packet, Follow(packet),
         \/ packet = <<>> /\ received' = received /\ clock' = clock
         \/ \E p : /\ packet = <<p>> /\ Fresh(p)
                  /\ received' = Append(received, p) /\ clock' = p.at
  PROVE  MovieNow(event', live')
<1>1. event' = event /\ live' = live
  BY DEF Follow
<1>2. Kept(movie') /\ Upto(movie', received', clock') /\ movie'.open = movie.open
  <2>1. \/ packet = <<>> /\ movie' = movie
        \/ (camera.allFrames => ~movie.open) /\ movie' = movie
        \/ packet # <<>> /\ \E outcome \in Outcomes : movie' = Written(movie, packet[1], outcome)
    BY DEF Follow, MovieInv
  <2> QED
    BY <2>1, PacketKeepsMovie
<1> QED
  BY <1>1, <1>2 DEF MovieNow, MovieInv

LEMMA ImageKeeps ==
  ASSUME MovieInv, StreamInv, clock \in Nat, camera.delay \in Nat, source.open,
         RingIs(received', ring'), Numbered(received', clock'), clock' \in Nat,
         NEW packet, Image(packet),
         \/ packet = <<>> /\ received' = received /\ clock' = clock
         \/ \E p : /\ packet = <<p>> /\ Fresh(p)
                  /\ received' = Append(received, p) /\ clock' = p.at
  PROVE  MovieNow(event', live')
<1> DEFINE turns(d) ==
             LET record == d.record \/ (camera.allFrames /\ d.machine.active)
             IN /\ event' = d.machine
                /\ live' = record
                /\ \/ d.started /\ OpenMovie
                   \/ d.ended /\ \E lost \in Unflushed : movie' = Closed(movie, lost)
                   \/ /\ ~d.started /\ ~d.ended
                      /\ record /\ packet # <<>>
                      /\ \E outcome \in Outcomes : movie' = Written(movie, packet[1], outcome)
                   \/ /\ ~d.started /\ ~d.ended
                      /\ ~record \/ packet = <<>>
                      /\ movie' = movie
<1>0. PICK motion \in BOOLEAN :
        \E d \in {Events!Update(event, motion, clock', FALSE), Events!Stop(event)} : turns(d)
  <2>1. PICK motion \in IF event.active \/ event.number < camera.events THEN BOOLEAN ELSE {FALSE} :
          \E d \in {Events!Update(event, motion, clock', FALSE)}
                   \union (IF event.active /\ ~motion THEN {Events!Stop(event)} ELSE {}) :
            turns(d)
    BY Zenon DEF Image
  <2> HIDE DEF turns
  <2>2. motion \in BOOLEAN
    BY <2>1
  <2> QED
    BY <2>1, <2>2
<1>1. PICK d \in {Events!Update(event, motion, clock', FALSE), Events!Stop(event)} : turns(d)
  <2> HIDE DEF turns
  <2> QED
    BY <1>0
<1> DEFINE record == d.record \/ (camera.allFrames /\ d.machine.active)
<1>2. Decides(d)
  BY UpdateDecides, StopDecides
<1>3. camera.allFrames /\ d.machine.active => record
  OBVIOUS
<1>4. event' = d.machine /\ live' = record
  BY <1>1
<1> HIDE DEF record
<1>5. CASE d.started /\ OpenMovie
  <2>1. ~link.native => Repairs
    BY DEF MovieInv, Repairs
  <2>2. Kept(movie') /\ Upto(movie', received', clock')
    BY <1>5, <2>1, OpenKeeps
  <2>3. d.machine.active
    BY <1>2, <1>5 DEF Decides
  <2> QED
    BY <1>3, <1>4, <2>2, <2>3 DEF MovieNow
<1>6. CASE d.ended /\ \E lost \in Unflushed : movie' = Closed(movie, lost)
  <2>1. PICK lost \in 0..Len(movie.inside) : movie' = Closed(movie, lost)
    BY <1>6, UnflushedIs DEF MovieInv, Kept
  <2>2. Kept(movie') /\ Upto(movie', received', clock') /\ ~movie'.open
    BY <2>1, CloseKeeps DEF MovieInv
  <2>3. ~d.machine.active
    BY <1>2, <1>6 DEF Decides
  <2> QED
    BY <1>4, <2>2, <2>3 DEF MovieNow
<1>7. CASE /\ ~d.started /\ ~d.ended
           /\ \/ packet # <<>> /\ \E outcome \in Outcomes : movie' = Written(movie, packet[1], outcome)
              \/ (~record \/ packet = <<>>) /\ movie' = movie
  <2>1. d.machine.active <=> event.active
    BY <1>2, <1>7 DEF Decides
  <2>2. movie.open /\ camera.allFrames => record
    BY <1>3, <2>1 DEF MovieInv
  <2>3. Kept(movie') /\ Upto(movie', received', clock') /\ movie'.open = movie.open
    <3>1. \/ packet = <<>> /\ movie' = movie
          \/ (camera.allFrames => ~movie.open) /\ movie' = movie
          \/ packet # <<>> /\ \E outcome \in Outcomes : movie' = Written(movie, packet[1], outcome)
      BY <1>7, <2>2
    <3> QED
      BY <3>1, PacketKeepsMovie
  <2> QED
    BY <1>4, <2>1, <2>2, <2>3 DEF MovieNow, MovieInv
<1>8. \/ d.started /\ OpenMovie
      \/ d.ended /\ \E lost \in Unflushed : movie' = Closed(movie, lost)
      \/ /\ ~d.started /\ ~d.ended
         /\ \/ packet # <<>> /\ \E outcome \in Outcomes : movie' = Written(movie, packet[1], outcome)
            \/ (~record \/ packet = <<>>) /\ movie' = movie
  BY <1>1 DEF record
<1> QED
  BY <1>5, <1>6, <1>7, <1>8

(* The turn of the loop, and every other step.                             *)
LEMMA MovieMoves ==
  ASSUME MovieNow(event', live'), camera' = camera, link.native => link'.native,
         source'.open = source.open \/ ~event'.active,
         source'.open /\ link'.selected = "baichuan" => link'.native
  PROVE  MovieInv'
BY DEF MovieNow, MovieInv, Kept, Upto, Good, Shape, AtKey, Rising, Rises, Climbs, InOrder, InPace,
       Empty, Count, Ascends, At

LEMMA TurnKeepsMovie ==
  ASSUME DecodeInv, ArrivalInv, StreamInv, MovieInv, Turn
  PROVE  MovieInv'
<1>1. link' = link /\ source'.open = source.open
  BY TurnLink
<1>2. CASE UNCHANGED <<camera, link, clock, received, source, ring, event, live, movie>>
  <2>1. MovieNow(event', live')
    BY <1>2 DEF MovieNow, MovieInv
  <2> QED
    BY <1>2, <2>1, MovieMoves DEF MovieInv
<1>3. ASSUME NEW top, NEW packet, NEW frame, NEW eof, NEW decoder, source.open,
             Sample(top, packet, frame, eof, decoder),
             packet = <<>> \/ \E p : packet = <<p>> /\ Fresh(p)
      PROVE  MovieInv'
  <2>1. /\ clock' = IF packet = <<>> THEN clock ELSE packet[1].at
        /\ received' = received \o packet
        /\ camera' = camera
        /\ Follow(packet) \/ Image(packet)
    BY <1>3, Zenon DEF Sample
  <2>2. clock \in Nat /\ camera.delay \in Nat
    BY CamerasAssumption DEF ArrivalInv, CameraType
  <2>3. \/ packet = <<>> /\ received' = received /\ clock' = clock
        \/ \E p : /\ packet = <<p>> /\ Fresh(p)
                 /\ received' = Append(received, p) /\ clock' = p.at
    <3>1. CASE packet = <<>>
      BY <2>1, <3>1, ConcatOne DEF ArrivalInv, Packets
    <3>2. CASE packet # <<>>
      <4>1. PICK p : packet = <<p>> /\ Fresh(p)
        BY <1>3, <3>2
      <4>2. packet[1] = p
        BY <4>1
      <4> QED
        BY <2>1, <2>2, <3>2, <4>1, <4>2, StreamTakes
    <3> QED
      BY <3>1, <3>2
  <2>4. ArrivalInv' /\ StreamInv'
    BY TurnArrival, StreamNext DEF Next
  <2>5. RingIs(received', ring') /\ Numbered(received', clock') /\ clock' \in Nat
    BY <2>4 DEF ArrivalInv, StreamInv
  <2>6. MovieNow(event', live')
    BY <1>3, <2>1, <2>2, <2>3, <2>5, FollowKeeps, ImageKeeps
  <2> QED
    BY <1>1, <2>1, <2>6, MovieMoves DEF MovieInv
<1> QED
  BY <1>2, <1>3, TurnSamples

LEMMA MovieInit == Init => MovieInv
<1> SUFFICES ASSUME Init PROVE MovieInv
  OBVIOUS
<1>1. movie = ClosedMovie /\ ~event.active /\ ~source.open
  BY DEF Init, ClosedSource, Events!Idle
<1> QED
  BY <1>1, NoMovie DEF MovieInv, Kept, Upto

LEMMA MovieNext ==
  DecodeInv /\ LinkInv /\ ArrivalInv /\ StreamInv /\ MovieInv /\ [Next]_vars => MovieInv'
<1> SUFFICES ASSUME DecodeInv, LinkInv, ArrivalInv, StreamInv, MovieInv, [Next]_vars
             PROVE  MovieInv'
  OBVIOUS
<1>1. ASSUME UNCHANGED <<camera, streamVars>>, link.native => link'.native,
             source.open => link' = link
      PROVE  MovieInv'
  <2>1. /\ movie' = movie /\ received' = received /\ clock' = clock /\ event' = event
        /\ live' = live /\ source' = source /\ camera' = camera
    BY <1>1 DEF streamVars
  <2>2. MovieNow(event', live')
    BY <2>1 DEF MovieNow, MovieInv
  <2> QED
    BY <1>1, <2>1, <2>2, MovieMoves DEF MovieInv
<1>2. CASE Turn
  BY <1>2, TurnKeepsMovie
<1>3. CASE Connect
  <2>1. /\ movie' = ClosedMovie /\ camera' = camera /\ event' = event /\ ~source.open
        /\ link' = IF link.selected = "baichuan"
                   THEN [link EXCEPT !.established = TRUE, !.native = TRUE] ELSE link
    BY <1>3 DEF Connect
  <2>2. ~event.active
    BY <2>1 DEF MovieInv
  <2>3. MovieNow(event', live')
    BY <2>1, <2>2, NoMovie DEF MovieNow, Kept, Upto
  <2>4. /\ link.native => link'.native
        /\ link'.selected = "baichuan" => link'.native
    BY <2>1 DEF LinkInv
  <2> QED
    BY <2>1, <2>2, <2>3, <2>4, MovieMoves
<1>4. CASE Disconnect
  <2>1. /\ \E lost \in Unflushed : movie' = IF event.active THEN Closed(movie, lost) ELSE movie
        /\ camera' = camera /\ event' = Events!Stop(event).machine /\ link' = link
        /\ ~source'.open
    BY <1>4 DEF Disconnect, ClosedSource
  <2>2. ~event'.active
    BY <2>1, StopDecides
  <2>3. Kept(movie') /\ ~movie'.open
    <3>1. Good(movie)
      BY DEF MovieInv, Kept
    <3>2. PICK lost \in 0..Len(movie.inside) :
            movie' = IF event.active THEN Closed(movie, lost) ELSE movie
      BY <2>1, <3>1, UnflushedIs
    <3>3. CASE event.active
      BY <3>2, <3>3, CloseKeeps DEF MovieInv
    <3>4. CASE ~event.active
      BY <3>2, <3>4 DEF MovieInv
    <3> QED
      BY <3>3, <3>4
  <2>4. MovieNow(event', live')
    BY <2>2, <2>3 DEF MovieNow, Upto
  <2> QED
    BY <2>1, <2>2, <2>4, MovieMoves
<1>5. CASE OpenFails
  <2>1. /\ UNCHANGED <<camera, streamVars>> /\ ~source.open
        /\ link' = IF Reselects THEN [link EXCEPT !.skip = TRUE, !.selected = "none"] ELSE link
    BY <1>5 DEF OpenFails
  <2>2. link'.native = link.native
    BY <2>1 DEF LinkInv
  <2> QED
    BY <1>1, <2>1, <2>2
<1>6. ASSUME NEW identified, NEW probe, Detect(identified, probe)
      PROVE  MovieInv'
  <2>1. /\ UNCHANGED <<camera, streamVars>> /\ ~source.open
        /\ \E refused, selected : link' = [link EXCEPT !.refused = refused, !.selected = selected]
    <3> DEFINE refused == ~link.skip /\ probe = "refused" /\ camera.userpass
               selected == IF ~link.skip /\ probe = "available" THEN "baichuan"
                           ELSE IF refused THEN "none"
                           ELSE IF identified THEN "onvif"
                           ELSE IF camera.url = "onvif" THEN "none" ELSE "direct"
    <3>1. /\ UNCHANGED <<camera, streamVars>> /\ ~source.open
          /\ link' = [link EXCEPT !.refused = refused, !.selected = selected]
      BY <1>6, Zenon DEF Detect
    <3> HIDE DEF refused, selected
    <3> QED
      BY <3>1
  <2>2. link'.native = link.native
    BY <2>1 DEF LinkInv
  <2> QED
    BY <1>1, <2>1, <2>2
<1>7. CASE UNCHANGED vars
  BY <1>1, <1>7 DEF vars
<1> QED
  BY <1>2, <1>3, <1>4, <1>5, <1>6, <1>7 DEF Next

(* The images of a movie, numbered from its first.                         *)
LEMMA NumbersAre ==
  ASSUME NEW m, Good(m)
  PROVE  LET images == Numbers(m.file) \o Numbers(m.inside)
         IN /\ images \in Seq(Nat) /\ Len(images) = Count(m)
            /\ \A i \in 1..Len(m.file) : images[i] = m.file[i].n
            /\ \A i \in 1..Len(m.inside) : images[Len(m.file) + i] = m.inside[i].n
<1> DEFINE a == Numbers(m.file)
           b == Numbers(m.inside)
<1>1. m.file \in Seq(ImageType) /\ m.inside \in Seq(PacketType)
  BY DEF Good, Shape, MovieType
<1>2. /\ \A i \in 1..Len(m.file) : m.file[i].n \in Nat
      /\ \A i \in 1..Len(m.inside) : m.inside[i].n \in Nat
      /\ Len(m.file) \in Nat /\ Len(m.inside) \in Nat
  <2>1. /\ \A i \in 1..Len(m.file) : m.file[i] \in ImageType
        /\ \A i \in 1..Len(m.inside) : m.inside[i] \in PacketType
        /\ Len(m.file) \in Nat /\ Len(m.inside) \in Nat
    BY <1>1
  <2> QED
    BY <2>1 DEF ImageType, PacketType
<1>3. a \in Seq(Nat) /\ Len(a) = Len(m.file) /\ \A i \in 1..Len(m.file) : a[i] = m.file[i].n
  BY <1>1, <1>2 DEF Numbers
<1>4. b \in Seq(Nat) /\ Len(b) = Len(m.inside) /\ \A i \in 1..Len(m.inside) : b[i] = m.inside[i].n
  BY <1>1, <1>2 DEF Numbers
<1> HIDE DEF a, b
<1>5. /\ a \o b \in Seq(Nat) /\ Len(a \o b) = Len(a) + Len(b)
      /\ \A i \in 1..Len(a) : (a \o b)[i] = a[i]
      /\ \A i \in 1..Len(b) : (a \o b)[Len(a) + i] = b[i]
  <2>1. a \in Seq(Nat) /\ b \in Seq(Nat) /\ Len(a) \in Nat /\ Len(b) \in Nat
    BY <1>3, <1>4
  <2>2. a \o b \in Seq(Nat) /\ Len(a \o b) = Len(a) + Len(b)
    BY <2>1
  <2>3. ASSUME NEW i \in 1..Len(a) PROVE (a \o b)[i] = a[i]
    BY <2>1, <2>3
  <2>4. ASSUME NEW i \in 1..Len(b) PROVE (a \o b)[Len(a) + i] = b[i]
    <3>1. Len(a) + i \in (Len(a) + 1)..(Len(a) + Len(b)) /\ Len(a) + i - Len(a) = i
      BY <2>1
    <3> QED
      BY <2>1, <3>1
  <2> QED
    BY <2>2, <2>3, <2>4
<1>6. Count(m) = Len(m.file) + Len(m.inside)
  BY DEF Count
<1>7. /\ a \o b \in Seq(Nat) /\ Len(a \o b) = Count(m)
      /\ \A i \in 1..Len(m.file) : (a \o b)[i] = m.file[i].n
      /\ \A i \in 1..Len(m.inside) : (a \o b)[Len(m.file) + i] = m.inside[i].n
  BY <1>3, <1>4, <1>5, <1>6
<1> QED
  BY <1>7 DEF a, b

LEMMA WindowFollows == ArrivalInv /\ MovieInv => MovieIsWindow
<1> SUFFICES ASSUME ArrivalInv, MovieInv PROVE MovieIsWindow
  OBVIOUS
<1> DEFINE images == Numbers(movie.file) \o Numbers(movie.inside)
           first == IF movie.begin # 0 THEN movie.begin ELSE images[1]
           n == Count(movie)
           f == Len(movie.file)
           k == Len(movie.inside)
           fed == movie.fed
<1>1. Good(movie) /\ Upto(movie, received, clock)
  BY DEF MovieInv, Kept
<1>2. movie.file # <<>> /\ (camera.codec = "copy" \/ ~movie.faulty) => movie.file[1].key
  BY <1>1 DEF Good, AtKey
<1>3. /\ images \in Seq(Nat) /\ Len(images) = n
      /\ \A i \in 1..f : images[i] = movie.file[i].n
      /\ \A i \in 1..k : images[f + i] = movie.inside[i].n
  BY <1>1, NumbersAre
<1>4. n \in Nat /\ f \in Nat /\ k \in Nat /\ fed \in Nat /\ movie.begin \in Nat
  BY <1>1, CountIs
<1>5. n = f + k
  BY DEF Count
<1>6. ASSUME camera.allFrames, ~movie.faulty
      PROVE  /\ images # <<>> => images = [i \in 1..(fed - first + 1) |-> first + i - 1]
             /\ movie.open /\ images # <<>> => fed = Len(received)
             /\ movie.open /\ images = <<>> => Snapshot(ring) = <<>>
  <2>1. /\ \A i \in 1..f : movie.file[i].n = fed - n + i
        /\ \A i \in 1..k : movie.inside[i].n = fed - k + i
        /\ movie.begin # 0 /\ n # 0 => movie.begin = fed - n + 1
    BY <1>6 DEF MovieInv, Kept, InOrder
  <2> HIDE DEF images, n, f, k, fed
  <2>2. ASSUME NEW i \in 1..n PROVE images[i] = fed - n + i
    <3>1. CASE i <= f
      <4>1. i \in 1..f
        BY <1>4, <3>1
      <4> QED
        BY <1>3, <2>1, <4>1
    <3>2. CASE ~(i <= f)
      <4>1. i - f \in 1..k /\ f + (i - f) = i
        BY <1>4, <1>5, <3>2
      <4>2. images[i] = movie.inside[i - f].n
        BY <1>3, <4>1
      <4>3. movie.inside[i - f].n = fed - k + (i - f)
        BY <2>1, <4>1
      <4> QED
        BY <1>4, <1>5, <4>2, <4>3
    <3> QED
      BY <3>1, <3>2
  <2>3. images = <<>> <=> n = 0
    BY <1>3
  <2>4. ASSUME n # 0
        PROVE  images = [i \in 1..(fed - first + 1) |-> first + i - 1]
    <3>1. first = fed - n + 1
      <4>1. 1 \in 1..n
        BY <1>4, <2>4
      <4>2. images[1] = fed - n + 1
        BY <2>2, <4>1
      <4> QED
        BY <2>1, <2>4, <4>2
    <3> HIDE DEF first
    <3>2. fed - first + 1 = n /\ \A i \in 1..n : first + i - 1 = fed - n + i
      BY <1>4, <3>1
    <3>3. images = [i \in 1..n |-> images[i]]
      BY <1>3
    <3>4. images = [i \in 1..n |-> first + i - 1]
      BY <2>2, <3>2, <3>3
    <3> QED
      BY <3>2, <3>4
  <2>5. movie.open /\ n # 0 => fed = Len(received)
    BY <1>1, <1>6 DEF Upto, n, fed
  <2>6. movie.open /\ n = 0 => Snapshot(ring) = <<>>
    <3>1. movie.open /\ n = 0 => PrerollStart(received) = 0
      BY <1>1, <1>6 DEF Upto, n
    <3> QED
      BY <3>1, SnapshotIsPreroll DEF ArrivalInv, Packets
  <2> HIDE DEF first
  <2> QED
    BY <2>3, <2>4, <2>5, <2>6
<1>8. ASSUME NEW i \in 2..Len(images) PROVE images[i] > images[i - 1]
  <2> HIDE DEF images, n, f, k, fed
  <2>1. ASSUME NEW j \in 1..n PROVE images[j] = At(movie, j)
    <3>1. CASE j <= f
      <4>1. j \in 1..f
        BY <1>4, <3>1
      <4> QED
        BY <1>3, <3>1, <4>1 DEF At, f
    <3>2. CASE ~(j <= f)
      <4>1. j - f \in 1..k /\ f + (j - f) = j
        BY <1>4, <1>5, <3>2
      <4>2. images[j] = movie.inside[j - f].n
        BY <1>3, <4>1
      <4> QED
        BY <3>2, <4>2 DEF At, f
    <3> QED
      BY <3>1, <3>2
  <2>2. i \in 1..n /\ i - 1 \in 1..n /\ i - 1 \in 1..(i - 1)
    BY <1>3, <1>4
  <2>3. At(movie, i - 1) < At(movie, i)
    BY <2>2 DEF MovieInv, Kept, Ascends, n
  <2>4. At(movie, i) \in Nat /\ At(movie, i - 1) \in Nat
    BY <1>1, <2>2, NumbersOf DEF Good, Shape, n
  <2> QED
    BY <2>1, <2>2, <2>3, <2>4
<1> HIDE DEF fed, images, first
<1>7. /\ \A i \in 2..Len(images) : images[i] > images[i - 1]
      /\ movie.file # <<>> /\ (camera.codec = "copy" \/ ~movie.faulty) => movie.file[1].key
      /\ camera.allFrames /\ ~movie.faulty =>
           /\ images # <<>> => images = [i \in 1..(fed - first + 1) |-> first + i - 1]
           /\ movie.open /\ images # <<>> => fed = Len(received)
           /\ movie.open /\ images = <<>> => Snapshot(ring) = <<>>
  BY <1>2, <1>6, <1>8
<1> QED
  BY <1>7, Zenon DEF MovieIsWindow, fed, images, first

LEMMA TimesFollow == LinkInv /\ MovieInv => MovieTimes
<1> SUFFICES ASSUME LinkInv, MovieInv, NEW i \in 2..Len(movie.file)
             PROVE  LET stamp == movie.file[i].dts
                        before == movie.file[i - 1].dts
                        elapsed == movie.file[i].at - movie.file[1].at
                    IN /\ stamp > before
                       /\ camera.codec = "copy" /\ Repairs /\ ~movie.faulty =>
                            InStep(before, stamp, elapsed)
  BY DEF MovieTimes
<1>1. movie.file[i].dts > movie.file[i - 1].dts
  BY DEF MovieInv, Kept, Good, Rising, Rises
<1>2. Repairs => ~link.native
  BY DEF Repairs, LinkInv
<1>3. camera.codec = "copy" /\ Repairs /\ ~movie.faulty =>
        InStep(movie.file[i - 1].dts, movie.file[i].dts, movie.file[i].at - movie.file[1].at)
  BY <1>2 DEF MovieInv, Kept, InPace
<1> QED
  BY <1>1, <1>3

(* Whatever is skipped, fails or is lost by EventMovieWriter, a movie      *)
(* holds no packet twice and none after a later one.  If movie_all_frames  *)
(* is on and nothing was skipped and no write failed, it holds each packet *)
(* from the beginning of its preroll to the present: for every ring,       *)
(* decoder delay, mode of decoding, stream of packets and motion.          *)
THEOREM MovieIsExact == Spec => []MovieIsWindow
BY WindowFollows, DecodeInit, DecodeStep, LinkInit, LinkStep, ArrivalInit, ArrivalNext,
   StreamInit, StreamNext, MovieInit, MovieNext, PTL DEF Spec

(* Whatever the camera's clock does, the stamps the writer gives to the    *)
(* images of a movie (PacketTimestampNormalizer::normalize, encode_frame)  *)
(* increase strictly, and those of a copied movie stay within two seconds  *)
(* of the clock of arrival.                                                *)
THEOREM MovieKeepsTime == Spec => []MovieTimes
BY TimesFollow, DecodeInit, DecodeStep, LinkInit, LinkStep, ArrivalInit, ArrivalNext,
   StreamInit, StreamNext, MovieInit, MovieNext, PTL DEF Spec
=============================================================================
