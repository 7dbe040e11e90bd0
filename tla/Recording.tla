----------------------------- MODULE Recording ------------------------------
(***************************************************************************)
(* From the choice of a camera's transport to the movie of an event: the   *)
(* network source and the movie writer of src/src/media.cpp, run by the    *)
(* loops of src/src/runtime.cpp.  An action is one turn of a loop, which   *)
(* one thread runs; the answers and the packets of the camera, the motion, *)
(* the HTTP consumers and the failures of the writer are its inputs.       *)
(*                                                                         *)
(* Times are ticks since the connection.  The packets of a connection are  *)
(* numbered, and an image is the number of its packet.                     *)
(***************************************************************************)
EXTENDS PacketTimestamps, PacketRing, FrameDecode, FiniteSets

CONSTANTS
  Cameras,        (* the cameras and configurations of the instance        *)
  MinimumMotionFrames, EventGap, PostCapture, MaxEventDuration

VARIABLES
  camera,         (* the camera and its configuration                      *)
  link,           (* the transport selected for it                         *)
  clock,          (* the steady clock when the last packet came            *)
  received,       (* history: every packet of this connection              *)
  source,         (* NetworkCameraSource::Impl                             *)
  control,        (* decode_controller                                     *)
  ring,           (* the packets kept for the next movie                   *)
  event,          (* the event state machine                               *)
  live,           (* record_live                                           *)
  movie           (* EventMovieWriter::Impl and the file it writes         *)

streamVars == <<clock, received, source, control, ring, event, live, movie>>
vars == <<camera, link, streamVars>>

Events == INSTANCE EventStateMachine

(* What a camera record says: its settings media_transport, camera_url (an *)
(* ONVIF address, another web address or neither), camera_userpass (set or *)
(* not), decode_frames, framerate, movie_all_frames and movie_codec; how   *)
(* its decoder and its clock behave; and the bounds on its packets (of a   *)
(* connection) and on its events.                                          *)
Transports == {"direct", "onvif", "baichuan"}
CameraType ==
  [transport: Transports \union {"auto"}, url: {"onvif", "http", "rtsp"},
   userpass: BOOLEAN, idle: {"all", "keyframes"}, dynamic: BOOLEAN, delay: Nat, interval: Nat,
   damaged: BOOLEAN, allFrames: BOOLEAN, codec: {"copy", "h264"},
   faults: BOOLEAN, gaps: SUBSET Nat, steps: SUBSET (Int \union {NoStamp}), packets: Nat, events: Nat]

ASSUME CamerasAssumption == Cameras \subseteq CameraType

(* selected_transport (none: not yet), auto_skip_baichuan and the shared   *)
(* baichuan_established.  For the properties: whether the camera's last    *)
(* answer to a probe was that it refuses our credentials, and whether this *)
(* worker has read from it natively.                                       *)
FirstLink(established) ==
  [selected |-> IF camera.transport = "auto" THEN "none" ELSE camera.transport,
   skip |-> FALSE, established |-> established, refused |-> FALSE, native |-> FALSE]

ClosedSource == [open |-> FALSE, eof |-> FALSE, decoder |-> NewDecoder, next |-> NoStamp]

(* A movie file is the sequence of its images.  Three fields tell the      *)
(* story of the movie for the properties: the packet its opening was to    *)
(* begin with (0: the next keyframe), the last packet handed to the        *)
(* writer, and whether a packet handed to it is missing: because a write   *)
(* or the closing failed, or because the packet or its image was no good.  *)
ClosedMovie ==
  [open |-> FALSE, started |-> FALSE, stamps |-> Reset(TRUE), inside |-> <<>>,
   base |-> NoStamp, lastPts |-> NoStamp, file |-> <<>>,
   begin |-> 0, fed |-> 0, faulty |-> FALSE]

Init ==
  /\ camera \in Cameras
  /\ link \in {FirstLink(established) :
               established \in IF camera.transport = "auto" THEN BOOLEAN ELSE {FALSE}}
  /\ clock = 0
  /\ received = <<>>
  /\ source = ClosedSource
  /\ control = Controller(camera.idle)
  /\ ring = <<>>
  /\ event = Events!Idle(0)
  /\ live = FALSE
  /\ movie = ClosedMovie

-----------------------------------------------------------------------------
(* The movie writer.                                                       *)

(* PacketTranscoder::encode_frame: the stamp of an image that is encoded   *)
(* again follows the camera's clock, and never stands still.               *)
Encoded(m, image) ==
  LET base == IF m.base = NoStamp THEN image.dts ELSE m.base
      next == IF m.lastPts = NoStamp THEN 0 ELSE m.lastPts + 1
      pts == IF image.dts = NoStamp THEN next
             ELSE IF m.lastPts # NoStamp /\ image.dts - base <= m.lastPts THEN next
             ELSE image.dts - base
  IN [m EXCEPT !.base = base, !.lastPts = pts,
               !.file = Append(@, [n |-> image.n, key |-> image.key, at |-> image.at,
                                   dts |-> pts])]

(* receive_frames: the images that come out while count stay inside the    *)
(* decoder and the encoder.                                                *)
EncodedFirst(m, out) ==
  LET encoded[i \in 0..out] ==
        IF i = 0 THEN m ELSE Encoded(encoded[i - 1], m.inside[i])
  IN encoded[out]
Drained(m, count) ==
  LET out == Len(m.inside) - count
  IN IF out <= 0 THEN m
     ELSE [EncodedFirst(m, out) EXCEPT !.inside = SubSeq(@, out + 1, Len(@))]

(* How a write ends: done; skipped, which is no failure, because the       *)
(* packet is marked as discarded or the decoder damages its image (which   *)
(* the writer finds when the image comes out, and the model when the       *)
(* packet goes in); refused by the checks of the packet or the decoder; or *)
(* lost in the muxer, when the stamps have moved on all the same.          *)
Failures == {"refused", "lost"}
Losses == {"skipped"} \union Failures
Outcomes == {"done"} \union (IF camera.damaged THEN {"skipped"} ELSE {})
                     \union (IF camera.faults THEN Failures ELSE {})

(* PacketTranscoder::write                                                 *)
Transcoded(m, packet, outcome) ==
  LET begun == [m EXCEPT !.started = TRUE]
      drained == Drained([begun EXCEPT !.inside = Append(@, packet)], camera.delay)
  IN IF outcome \in {"skipped", "refused"} THEN begun
     ELSE IF outcome = "lost" THEN [drained EXCEPT !.file = m.file]
     ELSE drained

(* The copy of a packet into the movie.                                    *)
Copied(m, packet, outcome) ==
  LET stamps == Normalize(m.stamps, packet.dts, packet.at)
  IN IF outcome \in {"skipped", "refused"} THEN m
     ELSE IF outcome = "lost" THEN [m EXCEPT !.stamps = stamps]
     ELSE [m EXCEPT !.stamps = stamps, !.started = TRUE,
                    !.file = Append(@, [n |-> packet.n, key |-> packet.key,
                                        at |-> packet.at, dts |-> stamps.last])]

(* EventMovieWriter::Impl::write: nothing before the first keyframe.       *)
Written(m, packet, outcome) ==
  LET told == [m EXCEPT !.fed = packet.n, !.faulty = @ \/ outcome \in Losses]
  IN IF ~m.open \/ (~m.started /\ ~packet.key) THEN m
     ELSE IF camera.codec = "copy" THEN Copied(told, packet, outcome)
     ELSE Transcoded(told, packet, outcome)

(* EventMovieWriter::close: what the transcoder still holds is written,    *)
(* but for the images that are lost when its flush fails.                  *)
ClosedUnflushed(m, lost) ==
  [ClosedMovie EXCEPT !.file = m.file, !.begin = m.begin, !.fed = m.fed,
                      !.faulty = m.faulty \/ lost > 0]
Closed(m, lost) ==
  [ClosedMovie EXCEPT !.file = Drained(m, lost).file, !.begin = m.begin, !.fed = m.fed,
                      !.faulty = m.faulty \/ lost > 0]
Unflushed == IF camera.faults THEN 0..Len(movie.inside) ELSE {0}

(* EventMovieWriter::write_preroll, as its writes end one after the other. *)
Prerolled(m, packets, ends) ==
  LET written[i \in 0..Len(ends)] ==
        IF i = 0 THEN m ELSE Written(written[i - 1], packets[i], ends[i])
  IN written[Len(ends)]

-----------------------------------------------------------------------------
(* The ring said in one sentence, over all the packets received: a movie   *)
(* begins at the newest keyframe at or before the preroll boundary, else   *)
(* at the oldest one, and if that is more than MaxRing packets back, at    *)
(* the first keyframe of the last MaxRing packets; 0 when there is none.   *)
PrerollStart(packets) ==
  LET count == Len(packets)
      kept == {i \in 1..count : packets[i].key /\ i > count - MaxRing}
      early == {i \in kept : packets[i].at <= packets[count].at - Preroll}
  IN IF early # {} THEN Max(early) ELSE IF kept # {} THEN Min(kept) ELSE 0

-----------------------------------------------------------------------------
(* One turn of the sample loop.  The decoder's mode follows the            *)
(* controller's, so the mode is not kept twice.                            *)

Wants == IF camera.dynamic THEN BOOLEAN ELSE {FALSE}

(* The sample has no image to analyse: its packet follows the last one.    *)
Follow(packet) ==
  /\ \/ /\ ~live \/ packet = <<>>
        /\ movie' = movie
     \/ /\ live /\ packet # <<>>
        /\ \E outcome \in Outcomes : movie' = Written(movie, packet[1], outcome)
  /\ UNCHANGED <<event, live>>

(* repair_timestamps_from_arrival: the native stream has its own clock.    *)
Repairs == link.selected # "baichuan"

(* The movie of an event that starts: it cannot be opened, or its preroll  *)
(* is written up to the first packet that fails.                           *)
OpenMovie ==
  \/ /\ camera.faults
     /\ movie' = [ClosedMovie EXCEPT !.faulty = TRUE]
  \/ LET opened == [ClosedMovie EXCEPT !.open = TRUE, !.stamps = Reset(Repairs),
                                       !.begin = PrerollStart(received'),
                                       !.fed = Len(received')]
         packets == Snapshot(ring')
     IN \E count \in 0..Len(packets) : \E ends \in [1..count -> Outcomes] :
          /\ \A i \in 1..count : ends[i] \in Failures => i = count
          /\ count < Len(packets) => \E i \in 1..count : ends[i] \in Failures
          /\ movie' = Prerolled(opened, packets, ends)

(* The sample has an image: the event machine decides, and the packet goes *)
(* to the movie unless the preroll has just taken it there.                *)
Image(packet) ==
  \E motion \in IF event.active \/ event.number < camera.events THEN BOOLEAN ELSE {FALSE} :
    \E decision \in
        {Events!Update(event, motion, clock', FALSE)}
        \union (IF event.active /\ ~motion THEN {Events!Stop(event)} ELSE {}) :
      LET record == decision.record \/ (camera.allFrames /\ decision.machine.active)
      IN /\ event' = decision.machine
         /\ live' = record
         /\ \/ decision.started /\ OpenMovie
            \/ decision.ended /\ \E lost \in Unflushed : movie' = Closed(movie, lost)
            \/ /\ ~decision.started /\ ~decision.ended
               /\ record /\ packet # <<>>
               /\ \E outcome \in Outcomes : movie' = Written(movie, packet[1], outcome)
            \/ /\ ~decision.started /\ ~decision.ended
               /\ ~record \/ packet = <<>>
               /\ movie' = movie

(* The loop has read a sample: at most one packet and at most one frame.   *)
(* A damaged frame counts for nothing (decoded_frame_usable).              *)
Sample(top, packet, frame, eof, decoder) ==
  \E usable \in IF frame # <<>> /\ camera.damaged THEN BOOLEAN ELSE {frame # <<>>} :
    LET image == usable /\ Analysed(frame[1].dts, source.next, NoStamp, camera.interval)
        boundary == \/ packet # <<>> /\ packet[1].key
                    \/ usable /\ frame[1].key
    IN /\ clock' = IF packet = <<>> THEN clock ELSE packet[1].at
       /\ received' = received \o packet
       /\ ring' = IF packet = <<>> THEN ring ELSE Push(ring, packet[1])
       /\ source' = [source EXCEPT
            !.eof = eof, !.decoder = decoder,
            !.next = IF image /\ camera.interval > 0
                     THEN frame[1].dts + camera.interval ELSE @]
       /\ \E wanted \in Wants : control' = Updated(top, wanted, boundary, clock')
       /\ IF image THEN Image(packet) ELSE Follow(packet)
       /\ UNCHANGED <<camera, link>>

HasDrained == HasFrame(source.decoder, camera.delay, source.eof)
Reads == source.open /\ ~HasDrained /\ ~source.eof

(* A frame the packets before this turn have produced.                     *)
ReadDrained(top) ==
  /\ source.open
  /\ HasDrained
  /\ Sample(top, <<>>, <<Head(source.decoder.held)>>, source.eof, Taken(source.decoder))

(* A packet, sent to the decoder, and the frame that comes out.  The       *)
(* packets of the native stream are stamped by their number.               *)
ReadPacket(top, key, gap, step) ==
  /\ Reads
  /\ Len(received) < camera.packets
  /\ LET before == {i \in 1..Len(received) : received[i].dts # NoStamp}
         packet == [n |-> Len(received) + 1, key |-> key, at |-> clock + gap,
                    dts |-> IF ~Repairs THEN Len(received) * TicksPerSecond
                            ELSE IF step = NoStamp THEN NoStamp
                            ELSE IF before = {} THEN 0
                            ELSE received[Max(before)].dts + step]
         decoder == Sent(source.decoder, packet, top.active)
         out == decoder # source.decoder /\ HasFrame(decoder, camera.delay, FALSE)
     IN Sample(top, <<packet>>, IF out THEN <<Head(decoder.held)>> ELSE <<>>, FALSE,
               IF out THEN Taken(decoder) ELSE decoder)

(* av_read_frame has nothing now.                                          *)
ReadAgain(top) ==
  /\ Reads
  /\ control' = top
  /\ UNCHANGED <<camera, link, clock, received, source, ring, event, live, movie>>

(* The input ends and the decoder is flushed.                              *)
ReadEnd(top) ==
  /\ Reads
  /\ source.decoder.held # <<>>
  /\ Sample(top, <<>>, <<Head(source.decoder.held)>>, TRUE, Taken(source.decoder))

Turn ==
  \E wanted \in Wants :
    LET top == Updated(control, wanted, FALSE, clock)
    IN \/ ReadDrained(top) \/ ReadAgain(top) \/ ReadEnd(top)
       \/ \E key \in BOOLEAN, gap \in camera.gaps, step \in camera.steps :
            ReadPacket(top, key, gap, step)

(* detect_media_transport: the ONVIF device is asked who it is, then the   *)
(* native service is probed, unless it has already failed to open.         *)
Detect(identified, probe) ==
  LET tries == ~link.skip
      refused == tries /\ probe = "refused" /\ camera.userpass
  IN /\ ~source.open
     /\ link.selected = "none"
     /\ identified => camera.url # "rtsp"
     /\ link' = [link EXCEPT
          !.refused = refused,
          !.selected = IF tries /\ probe = "available" THEN "baichuan"
                       ELSE IF refused THEN "none"
                       ELSE IF identified THEN "onvif"
                       ELSE IF camera.url = "onvif" THEN "none" ELSE "direct"]
     /\ UNCHANGED <<camera, streamVars>>

(* auto_baichuan_open_failure_requires_reselection                         *)
ReselectsAlways == camera.transport = "auto" /\ link.selected = "baichuan"
Reselects ==
  camera.transport = "auto" /\ link.selected = "baichuan" /\ ~link.established

(* The stream cannot be resolved or opened.                                *)
OpenFails ==
  /\ ~source.open
  /\ link.selected # "none"
  /\ link' = IF Reselects THEN [link EXCEPT !.skip = TRUE, !.selected = "none"] ELSE link
  /\ UNCHANGED <<camera, streamVars>>

(* NetworkCameraSource::open, and the controller of the new connection.    *)
(* The story of the last movie ends here.                                  *)
Connect ==
  /\ ~source.open
  /\ link.selected # "none"
  /\ link' = IF link.selected = "baichuan"
             THEN [link EXCEPT !.established = TRUE, !.native = TRUE] ELSE link
  /\ source' = [ClosedSource EXCEPT !.open = TRUE]
  /\ control' = Controller(camera.idle)
  /\ clock' = 0
  /\ movie' = ClosedMovie
  /\ UNCHANGED <<camera, received, ring, event, live>>

(* A time-out, an error or the end of the stream: the source is closed,    *)
(* the event and its movie end, and the ring forgets its packets.          *)
Disconnect ==
  /\ source.open
  /\ source' = ClosedSource
  /\ received' = <<>>
  /\ ring' = <<>>
  /\ event' = Events!Stop(event).machine
  /\ \E lost \in Unflushed : movie' = IF event.active THEN Closed(movie, lost) ELSE movie
  /\ live' = (live /\ ~event.active)
  /\ UNCHANGED <<camera, link, clock, control>>

Next ==
  \/ Turn \/ Connect \/ OpenFails \/ Disconnect
  \/ \E identified \in BOOLEAN, probe \in {"available", "refused", "unavailable"} :
       Detect(identified, probe)

Spec == Init /\ [][Next]_vars

-----------------------------------------------------------------------------
(* Properties                                                              *)

Numbers(images) == [i \in 1..Len(images) |-> images[i].n]

(* The ring, trimmed packet by packet, always holds exactly the preroll    *)
(* one would cut from the whole history of the connection: it begins at    *)
(* the newest keyframe at or before the boundary (README, movie_preroll),  *)
(* misses no packet after it and respects the hard limit.                  *)
RingIsPreroll ==
  LET start == PrerollStart(received)
  IN /\ Snapshot(ring) = (IF start = 0 THEN <<>>
                          ELSE SubSeq(received, start, Len(received)))
     /\ Len(ring) <= MaxRing

(* Whatever fails or is skipped, and whichever frames are recorded, a      *)
(* movie never holds a packet twice or out of order: its preroll and the   *)
(* packets after it do not overlap.  While movie_all_frames records every  *)
(* frame of an event (the default), a movie that has lost nothing holds    *)
(* each packet from the beginning of its preroll to the present, whatever  *)
(* frames were decoded for the analysis (README: "every compressed packet  *)
(* still enters the pre-capture ring and an active passthrough movie"),    *)
(* and closing it writes what the transcoder still held.  Any copied movie *)
(* begins at a keyframe, and so does a transcoded one that lost nothing.   *)
MovieIsWindow ==
  LET images == Numbers(movie.file) \o Numbers(movie.inside)
      first == IF movie.begin # 0 THEN movie.begin ELSE images[1]
  IN /\ \A i \in 2..Len(images) : images[i] > images[i - 1]
     /\ movie.file # <<>> /\ (camera.codec = "copy" \/ ~movie.faulty) => movie.file[1].key
     /\ camera.allFrames /\ ~movie.faulty =>
          /\ images # <<>> => images = [i \in 1..(movie.fed - first + 1) |-> first + i - 1]
          /\ movie.open /\ images # <<>> => movie.fed = Len(received)
          /\ movie.open /\ images = <<>> => Snapshot(ring) = <<>>

(* Whatever the camera's clock does, the stamps of a movie increase        *)
(* strictly, and a copied movie stays within two seconds of the clock of   *)
(* arrival, ahead of it only by packets that came in a burst.              *)
MovieTimes ==
  \A i \in 2..Len(movie.file) :
    LET stamp == movie.file[i].dts
        before == movie.file[i - 1].dts
        elapsed == movie.file[i].at - movie.file[1].at
    IN /\ stamp > before
       /\ camera.codec = "copy" /\ Repairs /\ ~movie.faulty =>
            InStep(before, stamp, elapsed)

(* Full decoding is switched on only where a keyframe lets it begin: no    *)
(* frame is ever decoded whose references were skipped.                    *)
DecodesWhole == \A i \in 1..Len(source.decoder.held) : source.decoder.held[i].whole

(* The choice of "auto" is not undone behind the operator's back: once it  *)
(* has read from a camera natively, a worker never leaves it for RTSP, and *)
(* "an authentication failure is not silently downgraded" (README): no     *)
(* other stream is opened while the camera's last word is a refusal.       *)
NotDowngraded ==
  /\ link.native => link.selected = "baichuan"
  /\ link.refused => ~source.open
=============================================================================
