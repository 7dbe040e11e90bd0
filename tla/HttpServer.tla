----------------------------- MODULE HttpServer -----------------------------
(***************************************************************************)
(* The HTTP server (src/src/http.cpp) for one camera: the accept thread,   *)
(* one thread per connection, the camera thread that publishes JPEGs and   *)
(* packets, and the main thread that calls stop() once the camera threads  *)
(* are joined (Application, src/src/runtime.cpp).  frames_mutex_ and       *)
(* frames_changed_ are modelled step by step: a thread that is about to    *)
(* sleep holds the mutex from the test of its predicate until it sleeps,   *)
(* and running_ is not protected by that mutex.                            *)
(*                                                                         *)
(* A JPEG is its version; a packet its version and whether it is a         *)
(* keyframe.  Requests, responses and the muxer are abstracted: a write    *)
(* succeeds or ends the stream.                                            *)
(***************************************************************************)
EXTENDS Integers, Sequences, FiniteSets, SequencesExt

CONSTANTS
  Clients,      (* connections that may be made                            *)
  NoClient,     (* no connection                                           *)
  Loads,        (* what the connections may ask for, and how much of it    *)
  MaxClients,   (* HttpServerOptions::max_clients                          *)
  Window        (* packets a queue retains: 4096, or 10 s of them          *)

(* The multipart JPEG stream, a single JPEG, and the two MP4 streams.      *)
Mjpeg == "mjpeg"
Still == "still"
Video == "video"
Timelapse == "timelapse"
Queues == {Video, Timelapse}

(* A load: the connections that are made, the streams they ask for, and    *)
(* the bound on what is published of each kind.                            *)
LoadType ==
  [clients : SUBSET Clients, routes : SUBSET ({Mjpeg, Still} \cup Queues), versions : Nat]

ASSUME ServerAssumption ==
  /\ NoClient \notin Clients /\ IsFiniteSet(Clients)
  /\ MaxClients \in Nat \ {0} /\ Window \in Nat \ {0}
  /\ Loads \subseteq LoadType

VARIABLES
  load,         (* the load of this instance                               *)
  running,      (* running_                                                *)
  stopper,      (* where the main thread is in stop()                      *)
  acceptor,     (* where the accept thread is                              *)
  incoming,     (* the connection accept4 has returned                     *)
  table,        (* clients_                                                *)
  socket,       (* the socket of each connection                           *)
  thread,       (* where the thread of each connection is                  *)
  route,        (* what it was asked for                                   *)
  mutex,        (* the thread that holds frames_mutex_ while it waits      *)
  publisher,    (* "notify": frames_changed_.notify_all() is due           *)
  frame,        (* the version of the camera's JPEG, 0: none               *)
  packets,      (* video_packets_ and timelapse_packets_                   *)
  counts,       (* stream_clients_, frame_requests_ and the two others     *)
  delivered,    (* delivered                                               *)
  pending,      (* what the thread is about to write                       *)
  sent          (* history: what it has written                            *)

acceptVars == <<acceptor, incoming, table>>
publishVars == <<publisher, frame, packets>>
clientVars == <<thread, route, counts, delivered, pending, sent>>
Packets == [version : 1..load.versions, key : BOOLEAN]

vars == <<load, running, stopper, acceptVars, socket, mutex, publishVars, clientVars>>

Init ==
  /\ load \in Loads
  /\ running = TRUE /\ stopper = "idle"
  /\ acceptor = "accepting" /\ incoming = NoClient /\ table = {}
  /\ socket = [c \in Clients |-> "none"]
  /\ thread = [c \in Clients |-> "none"]
  /\ route = [c \in Clients |-> Still]
  /\ mutex = NoClient
  /\ publisher = "idle" /\ frame = 0 /\ packets = [q \in Queues |-> <<>>]
  /\ counts = [r \in {Mjpeg, Still} \cup Queues |-> 0]
  /\ delivered = [c \in Clients |-> 0]
  /\ pending = [c \in Clients |-> <<>>]
  /\ sent = [c \in Clients |-> <<>>]

-----------------------------------------------------------------------------
(* The accept thread.                                                      *)

(* accept4 returns a connection; it fails once the listener is shut down.  *)
ListenerOpen == stopper \in {"idle", "notify", "listener"}
Accept(c) ==
  /\ acceptor = "accepting" /\ ListenerOpen
  /\ c \in load.clients /\ socket[c] = "none"
  /\ acceptor' = "accepted" /\ incoming' = c
  /\ socket' = [socket EXCEPT ![c] = "open"]
  /\ UNCHANGED <<load, running, stopper, table, mutex, publishVars, clientVars>>
AcceptFails ==
  /\ acceptor = "accepting" /\ ~ListenerOpen
  /\ acceptor' = "exited"
  /\ UNCHANGED <<load, running, stopper, incoming, table, socket, mutex, publishVars, clientVars>>

(* Under clients_mutex_: finished connections are joined and closed, and   *)
(* the new one gets a thread if there is room, a 503 if not.               *)
Finished == {c \in table : thread[c] = "ended"}
HasRoom == Cardinality(table \ Finished) < MaxClients
RegisterWithoutClosing ==
  /\ acceptor = "accepted"
  /\ table' = (table \ Finished) \cup (IF HasRoom THEN {incoming} ELSE {})
  /\ thread' = IF HasRoom THEN [thread EXCEPT ![incoming] = "request"] ELSE thread
  /\ socket' = [socket EXCEPT ![incoming] = IF HasRoom THEN @ ELSE "closed"]
  /\ incoming' = NoClient
  /\ acceptor' = IF running THEN "accepting" ELSE "exited"
  /\ UNCHANGED <<load, running, stopper, mutex, publishVars, route, counts, delivered, pending,
                 sent>>
Register ==
  /\ acceptor = "accepted"
  /\ table' = (table \ Finished) \cup (IF HasRoom THEN {incoming} ELSE {})
  /\ thread' = IF HasRoom THEN [thread EXCEPT ![incoming] = "request"] ELSE thread
  /\ socket' = [c \in Clients |->
                  IF c \in Finished \/ (c = incoming /\ ~HasRoom) THEN "closed"
                  ELSE socket[c]]
  /\ incoming' = NoClient
  /\ acceptor' = IF running THEN "accepting" ELSE "exited"
  /\ UNCHANGED <<load, running, stopper, mutex, publishVars, route, counts, delivered, pending,
                 sent>>

-----------------------------------------------------------------------------
(* The camera thread publishes under frames_mutex_, and notifies after it. *)
(* A packet joins its queue, which loses its oldest packets to the limits  *)
(* of number and age but never the newest one.                             *)

MayPublishAnyTime == publisher = "idle" /\ stopper = "idle"
MayPublish == publisher = "idle" /\ stopper = "idle" /\ mutex = NoClient

PublishFrame ==
  /\ MayPublish /\ frame < load.versions
  /\ frame' = frame + 1
  /\ publisher' = "notify"
  /\ UNCHANGED <<load, running, stopper, acceptVars, socket, mutex, packets, clientVars>>

NextVersion(q) == IF packets[q] = <<>> THEN 1 ELSE Last(packets[q]).version + 1

PublishPacket(q, key, kept) ==
  LET queue == Append(packets[q], [version |-> NextVersion(q), key |-> key])
  IN /\ MayPublish /\ NextVersion(q) <= load.versions
     /\ kept <= Len(queue)
     /\ packets' = [packets EXCEPT ![q] = SubSeq(queue, Len(queue) - kept + 1, Len(queue))]
     /\ publisher' = "notify"
     /\ UNCHANGED <<load, running, stopper, acceptVars, socket, mutex, frame, clientVars>>

Awakened == [c \in Clients |-> IF thread[c] = "asleep" THEN "check" ELSE thread[c]]

Notify ==
  /\ publisher = "notify"
  /\ publisher' = "idle"
  /\ thread' = Awakened
  /\ UNCHANGED <<load, running, stopper, acceptVars, socket, mutex, frame, packets, route, counts,
                 delivered, pending, sent>>

-----------------------------------------------------------------------------
(* The thread of a connection, handle_client.                              *)

otherVars == <<load, running, stopper, acceptVars, publishVars>>

(* The end of the thread: ~ClientDone shuts the socket down.               *)
Ends(c) == /\ thread' = [thread EXCEPT ![c] = "ended"]
           /\ socket' = [socket EXCEPT ![c] = "shut"]

(* A request is read only while the server runs, but recv() may return     *)
(* after stop() has begun.                                                 *)
Await(c) ==
  /\ thread[c] = "request" /\ running
  /\ thread' = [thread EXCEPT ![c] = "reading"]
  /\ UNCHANGED <<otherVars, socket, mutex, route, counts, delivered, pending, sent>>

(* A page, an error, or no request at all within the time-out.             *)
Answer(c) ==
  /\ thread[c] = "reading" \/ (thread[c] = "request" /\ ~running)
  /\ Ends(c)
  /\ UNCHANGED <<otherVars, mutex, route, counts, delivered, pending, sent>>

Request(c, r) ==
  /\ thread[c] = "reading"
  /\ route' = [route EXCEPT ![c] = r]
  /\ thread' = [thread EXCEPT ![c] = "select"]
  /\ UNCHANGED <<otherVars, socket, mutex, counts, delivered, pending, sent>>

(* The packets of a queue from its newest keyframe on.                     *)
FromKeyframe(queue) ==
  LET keys == {i \in 1..Len(queue) : queue[i].key}
  IN IF keys = {} THEN <<>> ELSE SubSeq(queue, Max(keys), Len(queue))

(* What a stream begins with, under frames_mutex_: for video everything    *)
(* since the newest keyframe, for the time-lapse only what comes after the *)
(* newest packet.  There may be nothing: 503, at once or after waiting.    *)
NothingToShow(c) ==
  /\ thread[c] = "select" /\ mutex = NoClient /\ route[c] \in Queues
  /\ route[c] = Video => FromKeyframe(packets[Video]) = <<>>
  /\ route[c] = Timelapse => ~running \/ packets[Timelapse] = <<>>
  /\ Ends(c)
  /\ UNCHANGED <<otherVars, mutex, route, counts, delivered, pending, sent>>

SelectStart(c) ==
  /\ thread[c] = "select" /\ mutex = NoClient
  /\ \/ /\ route[c] = Mjpeg
        /\ UNCHANGED <<pending, delivered>>
     \/ /\ route[c] = Video /\ FromKeyframe(packets[Video]) # <<>>
        /\ pending' = [pending EXCEPT ![c] = FromKeyframe(packets[Video])]
        /\ UNCHANGED delivered
     \/ /\ route[c] = Timelapse /\ running /\ packets[Timelapse] # <<>>
        /\ delivered' = [delivered EXCEPT ![c] = Last(packets[Timelapse]).version]
        /\ UNCHANGED pending
  /\ thread' = [thread EXCEPT ![c] = "header"]
  /\ UNCHANGED <<otherVars, socket, mutex, route, counts, sent>>

(* The headers are sent and the stream is counted, or they are not.        *)
CanSend(c) == running /\ socket[c] = "open"
HeaderFails(c) ==
  /\ thread[c] = "header"
  /\ Ends(c)
  /\ UNCHANGED <<otherVars, mutex, route, counts, delivered, pending, sent>>
HeaderSent(c) ==
  /\ thread[c] = "header" /\ CanSend(c)
  /\ thread' = [thread EXCEPT ![c] = "count"]
  /\ UNCHANGED <<otherVars, socket, mutex, route, counts, delivered, pending, sent>>
Count(c) ==
  /\ thread[c] = "count" /\ mutex = NoClient
  /\ counts' = [counts EXCEPT ![route[c]] = @ + 1]
  /\ thread' = [thread EXCEPT ![c] = "write"]
  /\ UNCHANGED <<otherVars, socket, mutex, route, delivered, pending, sent>>

(* One packet or JPEG is written, and the next one is taken.  A time-lapse *)
(* stream skips what comes before its first keyframe.  The loop goes on    *)
(* while running_.                                                         *)
SkipsNothing(c, next) == FALSE
Skips(c, next) == route[c] = Timelapse /\ sent[c] = <<>> /\ ~next.key
Write(c) ==
  LET next == Head(pending[c])
  IN /\ thread[c] = "write" /\ pending[c] # <<>>
     /\ Skips(c, next) \/ CanSend(c)
     /\ sent' = IF Skips(c, next) THEN sent ELSE [sent EXCEPT ![c] = Append(@, next)]
     /\ delivered' = [delivered EXCEPT ![c] = next.version]
     /\ pending' = [pending EXCEPT ![c] = Tail(@)]
     /\ UNCHANGED <<otherVars, socket, mutex, thread, route, counts>>
WriteFails(c) ==
  /\ thread[c] = "write" /\ pending[c] # <<>> /\ ~Skips(c, Head(pending[c]))
  /\ thread' = [thread EXCEPT ![c] = "leave"]
  /\ UNCHANGED <<otherVars, socket, mutex, route, counts, delivered, pending, sent>>
AllWritten(c) ==
  /\ thread[c] = "write" /\ pending[c] = <<>>
  /\ thread' = [thread EXCEPT ![c] = IF running THEN "check" ELSE "leave"]
  /\ UNCHANGED <<otherVars, socket, mutex, route, counts, delivered, pending, sent>>

(* The predicate of frames_changed_.wait: something new, or stopping.      *)
HasNews(c) ==
  CASE route[c] = Mjpeg -> frame # 0 /\ frame # delivered[c]
    [] route[c] \in Queues ->
         packets[route[c]] # <<>> /\ Last(packets[route[c]]).version > delivered[c]
    [] OTHER -> FALSE

(* packet_window_overrun: packets after the delivered one are gone.        *)
OverrunNever(queue, d) == FALSE
Overrun(queue, d) == queue[1].version > d /\ queue[1].version - d > 1

(* The news, under the mutex: the JPEG, the first video packet after the   *)
(* delivered one, or all the time-lapse packets after it; the packets of a *)
(* queue are in the order of their versions.                               *)
FirstNew(queue, d) == SelectInSeq(queue, LAMBDA p : p.version > d)
News(c) ==
  LET queue == packets[route[c]]
      first == FirstNew(queue, delivered[c])
  IN CASE route[c] = Mjpeg -> <<[version |-> frame, key |-> TRUE]>>
       [] route[c] = Video -> <<queue[first]>>
       [] route[c] = Timelapse -> SubSeq(queue, first, Len(queue))

TakeNews(c) ==
  /\ thread[c] = "check" /\ mutex = NoClient /\ running /\ HasNews(c)
  /\ IF route[c] \in Queues /\ Overrun(packets[route[c]], delivered[c])
     THEN /\ thread' = [thread EXCEPT ![c] = "leave"]
          /\ UNCHANGED pending
     ELSE /\ pending' = [pending EXCEPT ![c] = News(c)]
          /\ thread' = [thread EXCEPT ![c] = "write"]
  /\ UNCHANGED <<otherVars, socket, mutex, route, counts, delivered, sent>>

NoticeStop(c) ==
  /\ thread[c] = "check" /\ mutex = NoClient /\ ~running
  /\ thread' = [thread EXCEPT ![c] = "leave"]
  /\ UNCHANGED <<otherVars, socket, mutex, route, counts, delivered, pending, sent>>

(* The predicate is false: the thread keeps the mutex until it sleeps.     *)
NothingNew(c) ==
  /\ thread[c] = "check" /\ mutex = NoClient /\ running /\ ~HasNews(c)
  /\ mutex' = c
  /\ thread' = [thread EXCEPT ![c] = "dozing"]
  /\ UNCHANGED <<otherVars, socket, route, counts, delivered, pending, sent>>
FallAsleep(c) ==
  /\ thread[c] = "dozing"
  /\ mutex' = NoClient
  /\ thread' = [thread EXCEPT ![c] = "asleep"]
  /\ UNCHANGED <<otherVars, socket, route, counts, delivered, pending, sent>>

(* The stream's count is taken back.                                       *)
LeaveCounted(c) ==
  /\ thread[c] = "leave" /\ mutex = NoClient
  /\ Ends(c)
  /\ UNCHANGED <<otherVars, mutex, route, counts, delivered, pending, sent>>
Leave(c) ==
  /\ thread[c] = "leave" /\ mutex = NoClient
  /\ counts' = [counts EXCEPT ![route[c]] = @ - 1]
  /\ Ends(c)
  /\ UNCHANGED <<otherVars, mutex, route, delivered, pending, sent>>

(* A single JPEG: the request is counted so that the camera renders one,   *)
(* and the thread waits for it no longer than write_timeout.               *)
AskForStill(c) ==
  /\ thread[c] = "select" /\ mutex = NoClient /\ route[c] = Still
  /\ counts' = [counts EXCEPT ![Still] = @ + 1]
  /\ thread' = [thread EXCEPT ![c] = "still"]
  /\ UNCHANGED <<otherVars, socket, mutex, route, delivered, pending, sent>>
SendStill(c) ==
  /\ thread[c] = "still" /\ mutex = NoClient
  /\ counts' = [counts EXCEPT ![Still] = @ - 1]
  /\ Ends(c)
  /\ UNCHANGED <<otherVars, mutex, route, delivered, pending, sent>>

-----------------------------------------------------------------------------
(* stop(), called when the camera threads are joined.                      *)

StopStep(from, to) == stopper = from /\ stopper' = to

ClearRunning ==
  /\ publisher = "idle" /\ StopStep("idle", "notify")
  /\ running' = FALSE
  /\ UNCHANGED <<load, acceptVars, socket, mutex, publishVars, clientVars>>
NotifyStopNobody ==
  /\ StopStep("notify", "listener")
  /\ UNCHANGED <<load, running, acceptVars, socket, mutex, publishVars, clientVars>>
NotifyStop ==
  /\ StopStep("notify", "listener")
  /\ thread' = Awakened
  /\ UNCHANGED <<load, running, acceptVars, socket, mutex, publishVars, route, counts, delivered,
                 pending, sent>>
CloseListener ==
  /\ StopStep("listener", "sockets")
  /\ UNCHANGED <<load, running, acceptVars, socket, mutex, publishVars, clientVars>>
CloseClientSockets ==
  /\ StopStep("sockets", "acceptor")
  /\ socket' = [c \in Clients |-> IF c \in table THEN "shut" ELSE socket[c]]
  /\ UNCHANGED <<load, running, acceptVars, mutex, publishVars, clientVars>>
JoinAcceptor ==
  /\ acceptor = "exited" /\ StopStep("acceptor", "clients")
  /\ UNCHANGED <<load, running, acceptVars, socket, mutex, publishVars, clientVars>>
JoinClients ==
  /\ \A c \in table : thread[c] = "ended"
  /\ StopStep("clients", "returned")
  /\ socket' = [c \in Clients |-> IF c \in table THEN "closed" ELSE socket[c]]
  /\ table' = {}
  /\ UNCHANGED <<load, running, acceptor, incoming, mutex, publishVars, clientVars>>

-----------------------------------------------------------------------------
Acceptor == (\E c \in Clients : Accept(c)) \/ AcceptFails \/ Register

Publisher ==
  \/ PublishFrame
  \/ \E q \in Queues \cap load.routes, key \in BOOLEAN, kept \in 1..Window :
       PublishPacket(q, key, kept)
  \/ Notify

Client(c) ==
  \/ Await(c) \/ Answer(c) \/ (\E r \in load.routes : Request(c, r))
  \/ NothingToShow(c) \/ SelectStart(c) \/ HeaderFails(c) \/ HeaderSent(c) \/ Count(c)
  \/ Write(c) \/ WriteFails(c) \/ AllWritten(c)
  \/ TakeNews(c) \/ NoticeStop(c) \/ NothingNew(c) \/ FallAsleep(c)
  \/ Leave(c) \/ AskForStill(c) \/ SendStill(c)

Stopper == NotifyStop \/ CloseListener \/ CloseClientSockets \/ JoinAcceptor \/ JoinClients

Next == Acceptor \/ Publisher \/ (\E c \in Clients : Client(c)) \/ ClearRunning \/ Stopper

Spec == Init /\ [][Next]_vars

(* Threads are scheduled, and reads and writes of sockets end by their     *)
(* time-outs; nothing is owed to the wish to connect, publish or stop.     *)
Fairness ==
  /\ WF_vars(AcceptFails \/ Register)
  /\ WF_vars(Notify)
  /\ \A c \in Clients : WF_vars(Client(c))
  /\ WF_vars(Stopper)
FairSpec == Spec /\ Fairness

-----------------------------------------------------------------------------
(* Threads that are in a stream's loop, and hence counted.                 *)
Streaming == {"write", "check", "dozing", "asleep", "leave"}
Counted(r) == {c \in Clients : route[c] = r /\ thread[c] \in Streaming \cup {"still"}}

(* The types of the control state, and of the counters.                    *)
TypeOK ==
  /\ load \in Loads /\ running \in BOOLEAN
  /\ stopper \in {"idle", "notify", "listener", "sockets", "acceptor", "clients", "returned"}
  /\ acceptor \in {"accepting", "accepted", "exited"}
  /\ incoming \in Clients \cup {NoClient}
  /\ table \subseteq Clients
  /\ socket \in [Clients -> {"none", "open", "shut", "closed"}]
  /\ thread \in [Clients -> Streaming \cup {"none", "request", "reading", "select",
                                            "header", "count", "still", "ended"}]
  /\ route \in [Clients -> {Mjpeg, Still} \cup Queues]
  /\ mutex \in Clients \cup {NoClient} /\ publisher \in {"idle", "notify"}
  /\ frame \in 0..load.versions
  /\ counts \in [{Mjpeg, Still} \cup Queues -> Int]

(* has_stream_clients and wants_jpeg: whatever way a stream ends, every    *)
(* counter is the number of threads it was counted for; and there are no   *)
(* more threads than max_clients, although ended ones are joined late.     *)
CountsMatch ==
  /\ \A r \in DOMAIN counts : counts[r] = Cardinality(Counted(r))
  /\ Cardinality(table) <= MaxClients

(* However slow the client and however the queue is cut, an MP4 stream     *)
(* begins with a keyframe and misses no packet after it (README: a client  *)
(* "waits for the next timelapse keyframe").                               *)
StreamsAreDecodable ==
  \A c \in Clients : route[c] \in Queues /\ sent[c] # <<>> =>
    /\ sent[c][1].key
    /\ \A i \in 2..Len(sent[c]) : sent[c][i].version = sent[c][i - 1].version + 1

(* No wake-up of a publisher is lost: a thread sleeps beside news only     *)
(* until the notification that is on its way.                              *)
NoNewsMissed ==
  \A c \in Clients : thread[c] = "asleep" /\ HasNews(c) => publisher = "notify"

(* When stop() returns no thread runs, no stream is counted, and every     *)
(* socket that was accepted is closed, also one accepted during stop().    *)
StopLeavesNothing ==
  stopper = "returned" =>
    /\ table = {} /\ acceptor = "exited"
    /\ \A c \in Clients : thread[c] \in {"none", "ended"} /\ socket[c] \in {"none", "closed"}
    /\ \A r \in DOMAIN counts : counts[r] = 0

(* A stream misses the notification of stop() only between its test of the *)
(* predicate and its sleep, while it holds frames_mutex_.  When no stream  *)
(* is there as stop() is about to notify, all that sleep are woken and     *)
(* leave, and stop() returns, whatever their clients do.                   *)
OnlyUnheardHang == (stopper = "notify" /\ mutex = NoClient) ~> stopper = "returned"

(* README: "SIGTERM and SIGINT perform a graceful stop", which calls       *)
(* stop(): it returns.                                                     *)
StopReturns == stopper = "notify" ~> stopper = "returned"
=============================================================================
