------------------------------ MODULE Baichuan ------------------------------
(***************************************************************************)
(* The client of a camera's native protocol (BaichuanClient,               *)
(* src/src/baichuan.cpp) and the bytes it hands to the demuxer             *)
(* (read_baichuan, src/src/media.cpp).  One thread runs the client; what   *)
(* the camera sends, how TCP cuts it and when a deadline passes are its    *)
(* inputs.  An action is what happens between two waits on the socket, or  *)
(* one round of the parser's loop.                                         *)
(*                                                                         *)
(* A media record is cut into pieces, the pieces go into packets, and a    *)
(* packet travels in two halves.  Encryption, host names and the payload   *)
(* of a command are left out; a reply is good or not.                      *)
(***************************************************************************)
EXTENDS Integers, Sequences

CONSTANTS
  InitialFrames,   (* initial_frame_count                                  *)
  Streams,         (* what a camera may send: the pieces of media records  *)
  MaxKeepalives,   (* bound on its keepalives                              *)
  MaxOthers,       (* bound on packets that are nobody's                   *)
  MaxSessions,     (* bound on connections                                 *)
  MaxAir           (* bound on what is on its way                          *)

VARIABLES
  client,          (* BaichuanClient::Impl, and the frame read_baichuan    *)
                   (* is handing out                                       *)
  camera,          (* the other end of the connection                      *)
  air,             (* halves of packets on their way to the client         *)
  used,            (* what is used up of the bounds                        *)
  story            (* history of the connection: the camera's stream, what *)
                   (* the demuxer got of it, and the keepalives asked and  *)
                   (* answered                                             *)

vars == <<client, camera, air, used, story>>

(* Noise is anything the parser steps over byte by byte; a bad record has  *)
(* a size out of bounds.                                                   *)
RecordType == [kind: {"video", "audio", "information", "noise", "bad"}, key: BOOLEAN,
               codec: {"h264", "hevc"}]
Size(kind) == IF kind \in {"video", "audio"} THEN 2 ELSE 1

PieceType == [of: RecordType, part: 1..2]

(* A stream is made of whole records, one behind the other.                *)
WellCut(stream) ==
  /\ stream \in Seq(PieceType)
  /\ \A i \in 1..Len(stream) :
       LET size == Size(stream[i].of.kind)
       IN /\ stream[i].part < size =>
               i < Len(stream) /\ stream[i + 1] = [of |-> stream[i].of, part |-> 2]
          /\ stream[i].part = 2 =>
               size = 2 /\ i > 1 /\ stream[i - 1] = [of |-> stream[i].of, part |-> 1]

(* Pieces know their place and the connection they belong to.              *)
Cut(stream, session) ==
  [i \in 1..Len(stream) |->
     [of |-> stream[i].of, part |-> stream[i].part, n |-> i, session |-> session]]

ASSUME BaichuanAssumption ==
  /\ InitialFrames \in Nat \ {0}
  /\ \A stream \in Streams : WellCut(stream)
  /\ {MaxKeepalives, MaxOthers, MaxSessions, MaxAir} \subseteq Nat

ClosedClient ==
  [pc |-> "closed", goal |-> "stream", wire |-> <<>>, parser |-> <<>>, binary |-> FALSE,
   codec |-> "none", pending |-> <<>>, current |-> <<>>]

(* request: the command it has not answered; rest: the pieces of its       *)
(* stream it has not sent; begun: they were declared binary once.          *)
NoCamera == [alive |-> FALSE, request |-> "none", streaming |-> FALSE, begun |-> FALSE,
             rest |-> <<>>]

NoStory == [stream |-> <<>>, fed |-> <<>>, asked |-> <<>>, answered |-> <<>>]

Init ==
  /\ client = ClosedClient
  /\ camera = NoCamera
  /\ air = <<>>
  /\ used = [keepalives |-> 0, others |-> 0, sessions |-> 0]
  /\ story = NoStory

-----------------------------------------------------------------------------
(* The camera.                                                             *)

Packet(id, ok, extension, body) ==
  [id |-> id, ok |-> ok, extension |-> extension, body |-> body]
InHalves(packet) == <<[packet |-> packet, half |-> 1], [packet |-> packet, half |-> 2]>>

MaySend == camera.alive /\ Len(air) < MaxAir

(* It declares its media binary in the first packet that carries some, and *)
(* in later ones or not.                                                   *)
Extensions == IF camera.begun THEN {"none", "binary"} ELSE {"binary"}

Answer ==
  /\ MaySend /\ camera.request # "none"
  /\ \E ok \in BOOLEAN :
       LET media == {<<"text", 0>>}
                    \union (IF ok /\ camera.request = "start"
                            THEN Extensions \X (1..Len(camera.rest)) ELSE {})
       IN \E m \in media :
            /\ air' = air \o InHalves(Packet(IF camera.request = "start" THEN "video"
                                             ELSE "login",
                                             ok, m[1], SubSeq(camera.rest, 1, m[2])))
            /\ camera' = [camera EXCEPT
                 !.request = "none", !.streaming = ok /\ camera.request = "start",
                 !.begun = @ \/ m[2] > 0, !.rest = SubSeq(@, m[2] + 1, Len(@))]
  /\ UNCHANGED <<client, used, story>>

SendMedia(count) ==
  /\ MaySend /\ camera.streaming
  /\ count <= Len(camera.rest)
  /\ \E extension \in Extensions :
       air' = air \o InHalves(Packet("video", TRUE, extension, SubSeq(camera.rest, 1, count)))
  /\ camera' = [camera EXCEPT !.begun = TRUE, !.rest = SubSeq(@, count + 1, Len(@))]
  /\ UNCHANGED <<client, used, story>>

(* A keepalive may come at any time, its number is body.                   *)
SendKeepalive ==
  /\ MaySend /\ used.keepalives < MaxKeepalives
  /\ LET n == used.keepalives + 1
     IN /\ used' = [used EXCEPT !.keepalives = n]
        /\ air' = air \o InHalves(Packet("keepalive", TRUE, "none", n))
        /\ story' = [story EXCEPT !.asked = Append(@, n)]
  /\ UNCHANGED <<client, camera>>

(* A packet of another message, or text for the video stream.              *)
SendOther ==
  /\ MaySend /\ used.others < MaxOthers
  /\ used' = [used EXCEPT !.others = @ + 1]
  /\ \/ air' = air \o InHalves(Packet("other", TRUE, "binary", <<>>))
     \/ /\ camera.streaming
        /\ air' = air \o InHalves(Packet("video", TRUE, "text", <<>>))
  /\ UNCHANGED <<client, camera, story>>

HangUp ==
  /\ camera.alive
  /\ camera' = NoCamera
  /\ UNCHANGED <<client, air, used, story>>

-----------------------------------------------------------------------------
Media == client.pc \in {"collect", "reading"}
Handshake == client.pc \in {"upgrade", "login", "start"}

(* MediaParser::next: what its buffer begins with, whether all of that     *)
(* record is there, and the buffer behind a part of it.                    *)
Ahead == client.parser[1]
Kind == Ahead.of.kind
Complete == Len(client.parser) >= Size(Kind)
Record == SubSeq(client.parser, 1, Size(Kind))
Behind(count) == SubSeq(client.parser, count + 1, Len(client.parser))

(* It goes on by one over what begins no record, and over the whole of an  *)
(* audio record; it stops at a record to return, or at one that is bad.    *)
GoesOn ==
  /\ Media /\ client.parser # <<>>
  /\ Ahead.part = 2 \/ Kind = "noise" \/ (Kind = "audio" /\ Complete)
HasRecord ==
  /\ Media /\ client.parser # <<>>
  /\ Ahead.part = 1
  /\ Kind = "bad" \/ (Kind \in {"video", "information"} /\ Complete)

(* receive_media asks the parser before the socket, and receive_packet     *)
(* takes a packet that is in the buffer before it looks at the deadline.   *)
Listens == (Media \/ Handshake) /\ ~GoesOn /\ ~HasRecord
HasPacket == Listens /\ Len(client.wire) >= 2
Waits == Listens /\ Len(client.wire) < 2
First == Head(client.wire).packet
Rest == SubSeq(client.wire, 3, Len(client.wire))

(* close(): the client forgets all of the connection, which ends.          *)
Close ==
  /\ client' = ClosedClient
  /\ camera' = NoCamera
  /\ air' = <<>>
  /\ story' = NoStory
  /\ UNCHANGED used

(* open() or probe(): a connection, and the request to log in.             *)
Open(goal) ==
  /\ client.pc = "closed"
  /\ used.sessions < MaxSessions
  /\ used' = [used EXCEPT !.sessions = @ + 1]
  /\ client' = [ClosedClient EXCEPT !.pc = "upgrade", !.goal = goal]
  /\ \E stream \in IF goal = "stream" THEN Streams ELSE {<<>>} :
       LET cut == Cut(stream, used.sessions)
       IN /\ camera' = [NoCamera EXCEPT !.alive = TRUE, !.request = "upgrade",
                                        !.rest = cut]
          /\ story' = [NoStory EXCEPT !.stream = cut]
  /\ UNCHANGED air

Receive(count) ==
  /\ Waits
  /\ count <= Len(air)
  /\ client' = [client EXCEPT !.wire = @ \o SubSeq(air, 1, count)]
  /\ air' = SubSeq(air, count + 1, Len(air))
  /\ UNCHANGED <<camera, used, story>>

(* The deadline passes: open() gives up, a read() returns and all it has   *)
(* received so far stays.                                                  *)
TimeOutForgetful ==
  /\ Waits
  /\ \/ client.pc # "reading" /\ Close
     \/ /\ client.pc = "reading"
        /\ client' = [client EXCEPT !.pc = "open", !.wire = <<>>]
        /\ UNCHANGED <<camera, air, used, story>>
TimeOut ==
  /\ Waits
  /\ \/ client.pc # "reading" /\ Close
     \/ /\ client.pc = "reading"
        /\ client' = [client EXCEPT !.pc = "open"]
        /\ UNCHANGED <<camera, air, used, story>>

(* The camera is gone, what was on its way with it.                        *)
Lose == Waits /\ ~camera.alive /\ Close

(* wait_for and receive_media answer a keepalive wherever it comes; the    *)
(* answer fails if the deadline is over by now or the camera gone.         *)
KeepaliveInStreamOnly ==
  /\ HasPacket /\ First.id = "keepalive"
  /\ \/ Close
     \/ /\ client' = [client EXCEPT !.wire = Rest]
        /\ story' = IF Media THEN [story EXCEPT !.answered = Append(@, First.body)] ELSE story
        /\ UNCHANGED <<camera, air, used>>
Keepalive ==
  /\ HasPacket /\ First.id = "keepalive"
  /\ \/ Close
     \/ /\ client' = [client EXCEPT !.wire = Rest]
        /\ story' = [story EXCEPT !.answered = Append(@, First.body)]
        /\ UNCHANGED <<camera, air, used>>

Expected == IF client.pc \in {"upgrade", "login"} THEN "login" ELSE "video"
Skip ==
  /\ HasPacket /\ First.id \notin {"keepalive", Expected}
  /\ client' = [client EXCEPT !.wire = Rest]
  /\ UNCHANGED <<camera, air, used, story>>

(* login(): the encryption is negotiated, then the credentials are sent.   *)
Upgraded ==
  /\ client.pc = "upgrade" /\ HasPacket /\ First.id = "login"
  /\ \/ ~First.ok /\ Close
     \/ /\ First.ok
        /\ client' = [client EXCEPT !.wire = Rest, !.pc = "login"]
        /\ camera' = [camera EXCEPT !.request = IF camera.alive THEN "login" ELSE @]
        /\ UNCHANGED <<air, used, story>>

(* A probe has seen enough; open() starts the video.                       *)
LoggedIn ==
  /\ client.pc = "login" /\ HasPacket /\ First.id = "login"
  /\ \/ (~First.ok \/ client.goal = "probe") /\ Close
     \/ /\ First.ok /\ client.goal = "stream"
        /\ client' = [client EXCEPT !.wire = Rest, !.pc = "start"]
        /\ camera' = [camera EXCEPT !.request = IF camera.alive THEN "start" ELSE @]
        /\ UNCHANGED <<air, used, story>>

(* parse_payload: a packet is binary if its extension says so, or if it    *)
(* has none and an earlier one of the stream said so.                      *)
IsBinary(packet) ==
  packet.extension = "binary" \/ (packet.extension = "none" /\ client.binary)
Appended(packet) ==
  [client EXCEPT !.wire = Rest,
                 !.binary = @ \/ packet.extension = "binary",
                 !.parser = IF IsBinary(packet) THEN @ \o packet.body ELSE @]

(* start_video: the reply may hold the first media.                        *)
Started ==
  /\ client.pc = "start" /\ HasPacket /\ First.id = "video"
  /\ \/ ~First.ok /\ Close
     \/ /\ First.ok
        /\ client' = [Appended(First) EXCEPT !.pc = "collect"]
        /\ UNCHANGED <<camera, air, used, story>>

(* receive_media                                                           *)
MediaPacket ==
  /\ Media /\ HasPacket /\ First.id = "video"
  /\ client' = Appended(First)
  /\ UNCHANGED <<camera, air, used, story>>

StepOver ==
  /\ GoesOn
  /\ client' = [client EXCEPT !.parser = Behind(IF Ahead.part = 1 THEN Size(Kind) ELSE 1)]
  /\ UNCHANGED <<camera, air, used, story>>

(* collect_initial_frames begins with a keyframe and refuses a stream that *)
(* changes its codec; a record of a wrong size ends the connection.        *)
Collect ==
  LET next == [client EXCEPT !.parser = Behind(Size(Kind))]
      head == Ahead.of
  IN /\ client.pc = "collect" /\ HasRecord
     /\ \/ Kind = "bad" /\ Close
        \/ /\ Kind = "information"
           /\ client' = next /\ UNCHANGED <<camera, air, used, story>>
        \/ /\ Kind = "video"
           /\ client.codec = "none" /\ ~head.key
           /\ client' = next /\ UNCHANGED <<camera, air, used, story>>
        \/ /\ Kind = "video"
           /\ client.codec \notin {"none", head.codec} /\ Close
        \/ /\ Kind = "video"
           /\ client.codec = head.codec \/ (client.codec = "none" /\ head.key)
           /\ LET pending == Append(client.pending, Record)
              IN client' = [next EXCEPT !.codec = head.codec, !.pending = pending,
                              !.pc = IF Len(pending) = InitialFrames THEN "open" ELSE @]
           /\ UNCHANGED <<camera, air, used, story>>

(* read(): the frames of the opening first, then one from the stream.      *)
Read ==
  /\ client.pc = "open" /\ client.current = <<>>
  /\ client' = IF client.pending = <<>> THEN [client EXCEPT !.pc = "reading"]
               ELSE [client EXCEPT !.current = Head(client.pending), !.pending = Tail(@)]
  /\ UNCHANGED <<camera, air, used, story>>

ReadRecord ==
  LET next == [client EXCEPT !.parser = Behind(Size(Kind))]
  IN /\ client.pc = "reading" /\ HasRecord
     /\ \/ Kind = "bad" /\ Close
        \/ /\ Kind = "information"
           /\ client' = next /\ UNCHANGED <<camera, air, used, story>>
        \/ /\ Kind = "video"
           /\ client' = [next EXCEPT !.pc = "open", !.current = Record]
           /\ UNCHANGED <<camera, air, used, story>>

(* read_baichuan copies as much of the frame as the demuxer asks for.      *)
Feed(count) ==
  /\ client.pc = "open" /\ count <= Len(client.current)
  /\ story' = [story EXCEPT !.fed = @ \o SubSeq(client.current, 1, count)]
  /\ client' = [client EXCEPT !.current = SubSeq(@, count + 1, Len(@))]
  /\ UNCHANGED <<camera, air, used>>

(* The time-out of the whole read, or a stop: the source is closed.        *)
Disconnect == client.pc = "open" /\ Close

Next ==
  \/ Answer \/ SendKeepalive \/ SendOther \/ HangUp
  \/ \E count \in 1..3 : SendMedia(count)
  \/ \E goal \in {"stream", "probe"} : Open(goal)
  \/ \E count \in 1..Len(air) : Receive(count)
  \/ TimeOut \/ Lose \/ Keepalive \/ Skip \/ Upgraded \/ LoggedIn \/ Started
  \/ MediaPacket \/ StepOver \/ Collect \/ Read \/ ReadRecord \/ Disconnect
  \/ \E count \in 1..2 : Feed(count)

Spec == Init /\ [][Next]_vars

-----------------------------------------------------------------------------
(* Properties                                                              *)

(* The places of a stream's video from its first keyframe on.              *)
Wanted(stream) ==
  LET IsVideo(i) == stream[i].of.kind = "video"
  IN {i \in 1..Len(stream) : IsVideo(i) /\ \E k \in 1..i : IsVideo(k) /\ stream[k].of.key}

(* The pieces of a row of frames, two each.                                *)
Joined(frames) == [i \in 1..(2 * Len(frames)) |-> frames[(i + 1) \div 2][2 - (i % 2)]]

(* However the camera packs its records, TCP cuts the packets and the      *)
(* slices of a read end, and whatever came on an earlier connection, the   *)
(* demuxer gets the video of this one from its first keyframe on, each     *)
(* byte once and in order; when nothing is on its way any more it has, or  *)
(* will get, all of it.                                                    *)
StreamIsExact ==
  LET wanted == Wanted(story.stream)
      taken == story.fed \o client.current \o Joined(client.pending)
      Places(count) == {taken[i].n : i \in 1..count}
      idle == Media /\ Waits /\ client.wire = <<>> /\ air = <<>> /\ camera.alive
                /\ camera.streaming /\ camera.rest = <<>>
  IN /\ \A i \in 1..Len(taken) :
          LET place == taken[i].n
          IN /\ place \in wanted /\ taken[i] = story.stream[place]
             /\ Places(i - 1) = {w \in wanted : w < place}
     /\ idle => Places(Len(taken)) = wanted

(* While a connection lasts, each of the camera's keepalives is answered   *)
(* once and in order, those in the middle of a login and between two       *)
(* fragments of a frame too (wait_for, receive_media): those that have no  *)
(* answer are on their way, in order.                                      *)
KeepalivesAnswered ==
  LET halves == client.wire \o air
      coming == {h \in 1..Len(halves) : halves[h].half = 1 /\ halves[h].packet.id = "keepalive"}
      done == Len(story.answered)
  IN client.pc # "closed" =>
       /\ story.answered = SubSeq(story.asked, 1, done)
       /\ {halves[h].packet.body : h \in coming}
            = {story.asked[i] : i \in (done + 1)..Len(story.asked)}
       /\ \A g, h \in coming : g < h => halves[g].packet.body < halves[h].packet.body
=============================================================================
