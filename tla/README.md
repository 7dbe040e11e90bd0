# A verification project for vibe-motion

vibe-motion is a C++20 daemon that watches network cameras: it reads their
video, detects motion or follows their ONVIF events, records movies, pictures
and time-lapses, serves live video over HTTP and runs user hooks. This directory
holds TLA+ models of its concurrent core, the TLC runs that check them on small
instances, and proofs that TLAPS checks for every value of the constants.

Paths below are relative to the repository, whose copy is `src/`; a line number
refers to the commit the models were translated from.

## 1. Inventory

### Processes and threads

One process holds the main thread (`Application`), and for every camera a
*source thread* and, with ONVIF events, an *ONVIF thread* (`CameraWorker`); the
HTTP server's accept thread and one thread per connection; and the hook
executor's worker thread. A second process, the *hook supervisor*, forks one
process per running hook. Two programs run beside the daemon on their own
schedule: the event worker, which hooks wake through a FIFO, and the archiver of
time-lapses, which relies on a marker file the daemon writes.

### Components

| Component (source) | State | Operations | Interacts with |
|---|---|---|---|
| Hook executor (`src/hooks.cpp`) | two bounded queues, table of children with deadlines, completions, counters, the supervisor's pid and socket | `submit`, `stop`, the worker's `run`, the supervisor's loop | camera threads submit; a `SOCK_SEQPACKET` pair to the supervisor; completions called on the worker thread |
| Event machine (`src/event.cpp`) | active, run of motion frames, post-capture count, two times, event number | `update` per frame, `stop` | owned by a source thread |
| ONVIF state tracker (`src/runtime_util.hpp`) | active keys with their times, expired keys | `update`, `expire`, `clear` | shared by the two threads of a camera under a mutex |
| Camera worker (`src/runtime.cpp`) | event machine, open movie, best picture, packet ring, generations of triggers and time-outs, published status | `run`, `run_onvif_events`, `expire_onvif_states`, `finish_event`, `request_stop` | source, event machine, hook executor, HTTP server |
| ONVIF client (`src/onvif.cpp`) | subscription, renewal time | media profile lookup, `receive_motion_events` | callbacks into the camera worker's ONVIF thread |
| HTTP server (`src/http.cpp`) | latest JPEG and packet queues per camera, counts of streams, table of connections | `publish*`, `has_*`/`wants_jpeg`, accept loop, `handle_client`, `stop` | camera threads publish; one condition variable wakes all streams |
| Application (`src/runtime.cpp`, `src/main.cpp`) | configuration, workers, HTTP server, transport state per camera, two flags set by signals | main loop, `apply` (start and reload), shutdown, status document | all of the above |
| Media transport selection (`src/runtime.cpp`) | outcome of RTSP per camera, kept across reloads | choice at each connection | source thread, application |
| Media buffers (`src/media.cpp`) | packet ring, time-stamp normalizer, movie writer | `push`, `snapshot`, `normalize`, `open`, `write`, `close` | source thread |
| Decode controller (`src/decode.cpp`) | active and requested mode, grace time | `update` | source thread |
| Time-lapse writer and archiver (`src/media.cpp`, `packaging/vibe-motion-timelapse-archive`) | file, completion marker, remote copies | `open`, `write`, `close`; copy, verify, rename, remove | the file system |
| Network source and codecs (`src/media.cpp`) | libav contexts | `open`, `read`, transcode, mux | cameras |
| Motion detector (`src/detection.cpp`) | background, noise and light statistics | `process` per frame | source thread |
| Baichuan client (`src/baichuan.cpp`) | login, incremental parser | `open`, `read`, `close` | network source |
| Configuration (`src/config.cpp`) | - | load, inherit, validate, dump | application |
| Logger (`include/vibe_motion/log.hpp`) | level, file | `write` | all |
| Event worker (`packaging/vibe-motion-event-worker`) | one job, one periodic process, next times | the loop, termination of a job | completions of hooks wake it by a FIFO |
| Maintenance and exporters (`packaging/`) | - | delete old files, export metrics | the file system, `/status` |

### What is hard, and what correctness means

* **Hook executor.** Four parties (submitters, worker, supervisor, hooks) and
  messages between processes. The supervisor may die between any two steps, with
  hooks queued, on their way, being forked or running; responses may be lost or
  arrive after their hook was given up; hooks may hang and ignore SIGTERM. It is
  correct if every accepted hook is answered exactly once, hooks of one camera
  neither overlap nor overtake, the counters add up, and stop() or the death of
  the program leaves no hook behind.
* **Event machine.** Boundaries: the gap, the cap, the run of motion frames, the
  tail. It is correct if it groups frames into events and records them as a
  declarative reading of its settings says.
* **Camera worker.** Two threads and a clock: a state may expire while no frame
  is decoded, be asserted again before the expiry is seen, or be withdrawn before
  its trigger is seen; the status is written outside the lock. An event ends by a
  frame, a hard limit, an interrupted stream or a stop. It is correct if hooks and
  files match events whichever way they end, hard lifetimes and leases mean
  what the README says, and a stop ends both threads.
* **HTTP server.** One condition variable for publishers and stop(), threads
  that outlive their sockets, slow clients whose packets are cut away, accepts
  during stop(). It is correct if no client sleeps beside news, streams are
  decodable, counts are balanced and stop() returns and leaves nothing.
* **Application.** The order of a shutdown and of a reload, one step of which may
  fail. It is correct if a reload that is refused leaves a working system and a
  shutdown ends everything and announces the end of events.
* **Transport and media.** A choice of transport that failures may revise, a
  decoder whose mode changes under it, arithmetic on time stamps and windows. It
  is correct if "auto" never leaves a stream the operator did not allow it to
  leave, no frame is decoded without its references, time stamps increase and
  follow the arrival clock, and a movie holds the packets from its preroll to its
  end once and in order.
* **Time-lapses.** Files and markers that must stay consistent across crashes of
  daemon and archiver, with cameras that may be given one name. It is correct if
  no recording is lost, truncated or archived before it is complete, and each is
  archived in the end.
* **Baichuan client.** A protocol over TCP read in slices: a deadline may pass in
  the middle of a packet, keepalives come between two fragments. It is correct if
  the demuxer gets each byte once and in order and keepalives are answered.
* **Event worker.** Handlers that hang, fail or leave descendants behind. It is
  correct if none of them keeps an event waiting beyond a bound.

`PROJECT.json` lists these hazards one by one, each at its line, with the
properties that cover it or the reason none does.

## 2. Plan

In order of importance; all are done but for the last line.

1. **Hook executor**: `HookContract` (abstract), `HookExecutor` (implements it),
   `HookExecutorProofs`.
2. **Events of a camera**: `EventStateMachine` and `OnvifStateTracker` (pure
   operators), `EventGroups` (the machine alone, proofs in `EventProofs`),
   `CameraWorker` (composes both with the two threads), `CameraWorkerProofs`.
3. **Live streams**: `HttpServer`, `HttpServerProofs`.
4. **Application**: main loop, `apply`, shutdown, with abstract workers, server
   and executor; `ApplicationProofs`.
5. **Media**: `PacketTimestamps`, `PacketRing` and `FrameDecode` (pure
   operators), `Recording` (composes them, and the event machine, with the choice
   of the transport, the network source and the movie writer), `RecordingProofs`;
   `Timelapse` (writer and archiver, with the crashes of both) and
   `TimelapseProofs`.
6. **At the edge**: `Baichuan` and `BaichuanProofs`; `EventWorker`, whose proofs
   are in `EventProofs`.
7. **Left**: in `CameraWorker` snapshots and the time of an ONVIF trigger; in
   `Application` the transport state kept across a reload, which `Recording`
   takes as an input.

Every invariant of a passing run has a theorem.

## 3. The models

### 3.1 Hook executor

`HookExecutor` has one variable per field of the class (`criticalJobs` is
`critical_jobs_`, `normalJobs` is `jobs_`, `child` is `children_`, `owed` is
`completions_`), the supervisor's table `kids` and outgoing message `outbox`, the
two directions of the socket pair, and the state of every hook process. Hook `j`
is the j-th submission.

`pc` is the place of the worker in `run()`: it holds the mutex from its wake-up
through launching, receiving and expiring, so submitters act only in between,
and the supervisor and the hooks act at any time. `submit` is one action with
coalescing and eviction. `LaunchSent`, `LaunchBackpressure`, `LaunchTooLarge` and
`LaunchBroken` are the outcomes of one send; `ReceiveResponse`, `ReceiveDone` and
`ReceiveFailure` those of one receive; `ResponseTimeout`, `Terminate` and
`ForceKill` the three deadlines of a child. `DeadlinePasses` lets a deadline pass
at any time after it was set; the supervisor is a process with its own steps
between fork and the hook's `setsid`.

Failures: the supervisor may die at any step (`SupervisorCrash`), its last
messages arriving or not (`ConnectionReset`), and the program itself
(`ProgramDies`). A hook may never exit and ignores SIGTERM as long as it likes.

`HookContract` is the executor without a supervisor: a hook is new, pending,
running, settled or unanswered; `Accept`, `Refuse`, `Start`, `Settle`, `Hear` and
`Close` say when it may pass from one to the next (coalescing replaces one
pending hook, a start respects the serial key and the order of critical hooks). `KeepsContract`
is the refinement.

Not modelled: the command-line parser and token expansion, `wait_idle`, a
supervisor that hangs without dying, a `terminate_grace` shorter than the time
from `fork` to `setsid`.

### 3.2 Events of a camera

`EventStateMachine` defines `Update` and `Stop` as functions of the machine's
record, in the order of the code: the cap first, then the run, the confirmed
motion, the tail, the gap. `EventGroups` drives it with frames of any motion,
force and spacing and keeps them in a history. `OnvifStateTracker` defines the
tracker's operations on a record of active keys with times, and expired keys.

`CameraWorker` has the source thread (`pc`), the ONVIF thread (`onvifPc`), their
shared fields and the clock. One iteration of the source's loop is cut where the
code releases a lock or reads an atomic: `Read` (the sample, and the first half
of `expire_onvif_states`), `PublishExpiry` (its status and the hard limit),
`Observe` (the generations), `Decide` (`onvif_motion_` and the machine),
`StartEvent` or `FinishEvent`, `ChoosePicture`. `Deliver` is the critical section
of the notification callback and `Report` what follows it; `Disconnect` and
`ReportDown` are the same for the disconnect callback. A frame is abstracted to
whether local motion was detected after the warm-up, a file to the number of its
event. The mask may fail to load (`MaskFails`, `Open`) and a directory to be
created (`StartEvent`), with the effects these have in the code. The variable
`camera` is the configuration, chosen in `Init`: one instance covers legacy
lifetimes and renewable leases. `lapsed` is a history: a hard lifetime has ended
the last state and nothing has moved since.

Not modelled: snapshots, live publishing, the time of an ONVIF trigger, and hooks
without a command. What the thread does with packets is the subject of
`Recording`, and with time-lapses of `Timelapse`.

### 3.3 HTTP server

`HttpServer` serves one camera under one of the `Loads`: which connections are
made, what they ask for and how much is published. `frames_mutex_` is free or held by a client that
has found its predicate false and is not asleep yet (`dozing`): every other
critical section is one action guarded by the free mutex. `running` is not
protected by it, as in the code. A client passes `request`, `reading`, `select`
(what the stream begins with), `header`, `count` and the loop `write`, `check`,
`dozing`, `asleep`, `leave`; a single JPEG waits in `still`. `PublishPacket`
chooses how many packets stay in the queue, which stands for the limits by number
and by age. stop() is seven steps of the main thread; camera threads no longer
publish when it begins, since the application joins them first.

Not modelled: the request parser, the pages, the muxers, several cameras (they
share nothing but the wake-ups), a stream of an unknown camera (it behaves like
one that has published nothing).

### 3.4 Application

`Application` composes the main thread (`pc`) with a source thread per camera, the
hooks of each camera and requests for the status document. A configuration is a
version of the file. `Hup` leaves a version in the file and sets `reloading_`,
`Term` sets `stopping_`, both at any time. `Loop` and `Load` are `run()`,
`AskWorkers` and `JoinWorkers` are `shutdown_workers()`, which holds
`workers_mutex_` from the one to the other, `StopServer` to `Applied` are
`apply()`: the server is stopped, `config_` replaced, the new server started or
its port refused (`BindFails`), and the workers started (`Start`) before they
become visible (`Add`). A request waits for the mutex (`LockWorkers`) and then
reads.

The other components are what their own modules show of them. A worker that is
asked ends its event and its thread (`StopEndsWorker` of `CameraWorker`), unless
it has left by itself (`Fail`); the executor runs the hooks of one camera in order
(`StartOrder`, `SerialProcesses` of `HookExecutor`) and drops what is queued when
it stops; the server's stop() returns when its requests have (which
`HttpServer` qualifies, see section 6).

Not modelled: hooks refused by a full executor, the media transport state of
`apply`, a failure to create a thread, and the ONVIF threads.

### 3.5 Transport, decoding and movies

`PacketTimestamps` is the normalizer (`Normalize` gives its next state),
`PacketRing` the ring (`Push`, `Snapshot`), `FrameDecode` the decode controller
(`Updated`) with the decoder it steers: libavcodec skips packets that are not
keyframes, or decodes all and keeps `delay` frames, and a frame is *whole* when
every packet it refers to was decoded.

`Recording` runs them for a camera of the set `Cameras`. `link` is the selected
transport with what `auto` remembers (`skip`, the lifetime flag `established`);
`Detect` is `detect_media_transport` with every answer the ONVIF device and the
native service may give, `OpenFails` the reselection after a failed opening,
`Connect` and `Disconnect` the ends of a connection. One turn of the sample loop
is one action, since one thread runs it and shares nothing on the way: the
controller is told what HTTP consumers want, one read yields a frame still in the
decoder, a packet with or without a frame, nothing, or the end; the packet enters
the ring; the controller is told again, with the boundary if there was a keyframe;
then a frame to be analysed goes through the event machine and opens, continues
or closes the movie (`Image`), and any other packet follows it (`Follow`). `movie`
is the writer and the file, a sequence of numbered images with their stamps; the
transcoder keeps `delay` images inside until it is flushed. A write is *done*; is
*skipped* without a failure, since the packet is marked as discarded or its image
comes out of the transcoder's decoder damaged; is *refused* before anything moved;
or is *lost* in the muxer after the stamps have moved on. The flush of a movie that
is closed may fail and lose the images still inside, some or all; a failed trailer
leaves the packets written as they are. `faulty` says of a movie that a packet
was lost in one of these ways. When the first image of a transcoded movie is lost,
the file begins with an image that is no keyframe, which is why `MovieIsWindow` asks
for a keyframe only of copied movies and of those that lost nothing: the attempt
to prove more failed at this step, and the model checker then found the movie.

Simplified: time bases are one tick, so their conversion is the identity; the
clock counts from the connection; a read gives at most one frame; the decoder's
delay is constant; a damaged image leaves the transcoder when its packet goes in,
not when the code finds it on the way out (the images written are the same);
analysis by wall clock of frames without stamps is left out.

### 3.6 Time-lapses

`Timelapse` has the disk (`disk`, `marker`), the archive (`remote`, `partial`), a
writer per camera and the run of the archive job. A writer passes `flushing`,
`publishing`, `sealing` when it closes a recording (delayed packets, trailer and
flush; creation of the marker; its content) and `choosing`, `opening` when it
begins one; the job passes `next`, `copying`, `checking`, `moving`, `removing`,
`unmarking`. A step is what a crash cannot cut: `Crash` loses every writer and
`Abort` the job between any two of them, a copy possibly cut short, and a write, a
flush or a marker may fail. All cameras use one file name, the collision
`unused_recording_path` and the exclusive open defend against.

Assumed: a rotation, which the first frame of a period starts, is over before the
next midnight (`Midnight`); `lstat` and the exclusive open are one step; content
survives the death of the process (the code syncs nothing).

### 3.7 Baichuan client

`Baichuan` has the client (`wire` is the receive buffer, `parser` the media
buffer, `pending` the frames of the opening, `current` the frame
`read_baichuan` hands out), the camera, and the packets on their way, each in two
halves so that TCP and deadlines cut them. A stream is a sequence of pieces: a
record of video or audio has two, any other one, and `WellCut` says that a stream
is made of whole records. Pieces are packed any way. An action is what the client
does between two waits on the socket, or one round of the parser's loop:
`Upgraded`, `LoggedIn` and `Started` are the handshake, `StepOver` goes on past
noise or an audio record, `Collect` takes the frames of the opening, `Read`,
`MediaPacket` and `ReadRecord` are one slice of a read, `TimeOut` its deadline,
`Feed` the copy into the demuxer.

Left out: the cryptography, the XML, the measured frame rate and the limits of the
buffers. Assumed of cameras: media follow the start reply or come with it, and
the first packet with media says that it is binary.

### 3.8 Event worker

`EventWorker` is the loop of the script with its timers in ticks. `Turn` is one
turn, `Terminate` and `Killed` the end of a job beyond its time-out, `Select` the
wait and the reading of the FIFO, `Close` to `Stopped` the stop and `Start` the
restart. `Wake` is `wake_event_worker` of the daemon. `Tick` is the passing of
time, possible only when nothing is due; during a job `select` returns four times
a second, so an end or a time-out is seen within a tick. The queue and the handlers
are outside the repository: a handler takes an event or finds none as soon as it
runs, then reports, ends, fails, hangs or leaves a descendant that holds its
output. A descendant stays in the handler's process group.

## 4. The runs

| Run | Instance | Shows |
|---|---|---|
| `hook_safety` | 3 submissions of an event hook (critical, camera A) or a snapshot hook (coalescible, camera B), room for 2, 2 running, sockets of 1 message, 1 crash | `Conservation`, `AnsweredOnce`, `SerialProcesses`, `StartOrder`, `StopLeavesNoHook` |
| `hook_progress` | 2 submissions, room for 1 | refinement `KeepsContract`; liveness `StopTerminates`, `AcceptedIsAnswered`, `HooksDieWithProgram` |
| `event_grouping` | every sequence of 6 frames with spacing up to 2; minimum of 2 frames, gap 2, cap 4, tail 2 | `EventIsBounded`; `GroupsFrames`: events and recorded frames are those of a reference defined over the whole history |
| `camera` | two configurations: hard lifetimes with 2 notifications, and leases, pictures, a mask that may fail, 1 notification and 1 interruption; one holding and one edge topic, clock to 2 | `HooksMatchEvent`, `RecordingMatchesEvent`, `StatusSettles`, `HardLifetime`, `OnvifRulesEvent`, liveness `StopEndsWorker` |
| `http_server` | 3 connections for JPEG streams or single JPEGs, room for 2, 2 JPEGs; or 1 connection to the MP4 streams, 3 packets per queue, at most 2 retained | `CountsMatch`, `NoNewsMissed`, `StopLeavesNothing`, `StreamsAreDecodable`, liveness `OnlyUnheardHang` |
| `application` | 2 cameras, a file that is good, changed, without a server or bad, 2 SIGHUPs, 1 SIGTERM, 2 events, 1 status request | `OneGeneration`, `HooksAlternate`, `ReloadIsWhole`, liveness `ReloadAnswered`, `TermEndsProgram` |
| `recording` | 13 cameras: every address and credential under `auto`, a jumping clock, a clock of its own, one watched by a browser while keyframes are decoded, one that reorders frames and is transcoded, a failing disk with movies copied, or transcoded from damaged packets, bursts and long groups of pictures | `RingIsPreroll`, `MovieIsWindow`, `MovieTimes`, `DecodesWhole`, `NotDowngraded` |
| `timelapse` | 2 cameras with one name, 2 days, 2 recordings of 1 frame, 1 crash, 1 abort | `MarkerIsTrue`, `FinishedIsKept`, `ArchiveIsFinished`, `NeverTruncated`, liveness `FinishedIsArchived` |
| `baichuan` | 5 streams, 2 connections, 2 keepalives, 1 foreign packet | `StreamIsExact`, `KeepalivesAnswered` |
| `event_worker` | idle delay 2, periodic interval 3, time-out 3, grace 1, 2 events | `Punctual` |
| `camera_isolation`, `http_stop` | as above, one configuration each | two disagreements of code and documents, see section 6 |

**Bounds.** Every counter that could grow is bounded by a constant of its module
(`MaxJobs`, `MaxCrashes`, `MaxTime`, `MaxFrames`, `MaxStep`, `MaxVersion`,
`MaxHups`, `MaxEvents`, `MaxDay`, `MaxRecordings`, `MaxAborts`, `MaxKeepalives`,
`MaxOthers`, `MaxSessions`, `MaxAir`, `MaxQueue`) or by a field of the record that
describes the instance (`notices` and `interrupts` of a camera, `versions` of a
load, `packets` and `events` of a camera of `Recording`), which appears in the
guard of the action that counts.
Three hooks are the fewest with which one runs, one waits and a third coalesces,
evicts or is refused; a socket of one message is the smallest that causes
backpressure and a supervisor blocked on sending; one crash at any step reaches
every state in which the supervisor can be lost, and a second supervisor. Two
notifications assert and withdraw, or repeat, a state on either side of its
expiry. Six frames hold two events with a gap, or one cut by the cap and its
successor. With three packets and a window of two a slow client falls behind the
window, on a keyframe or not. Three connections at a server for two make one wait
for a place, and be refused or replaced. With two SIGHUPs one comes during the
reload of the other; two events are one before and one after a reload.
The ring of `recording` holds 4 packets and a preroll of 2 ticks, so that in a
connection of 5 or 6 packets it is trimmed at the boundary, cut at its limit, and
cut where it has no keyframe; steps of -3 and 3 ticks and arrivals 4 ticks apart
leave the allowance of 2 ticks on both sides. Two recordings are a camera's
before and after midnight, or two cameras' of one day; one crash and one abort at
any step put each before, between and after every step of the other. The
opening of a native stream takes 2 frames for the code's 9, which leaves
records before, in and behind it; two connections show what is left of the first.
The times of `event_worker` are the least with idle delay < time-out, a grace and
a period that is no multiple of the delay; time is exact in them, for it is
counted down from each start.

**Deadlock** is checked wherever the program does not stop by itself: the hook
executor, the camera worker and the application have an explicit step for the
state after the last thread ended. `EventGroups` ends at its number of frames, the
HTTP server when everything is published and stop() has returned or was not
called, and `Baichuan` when its connections are used up.

**Fairness.**
* Executor: weak fairness of the worker, of the supervisor's steps and of the
  hooks' steps up to `execvp` (operating system scheduling), of deadlines (time
  passes), and strong fairness of `RestartSupervisor` (a respawn that is retried
  succeeds eventually). Nothing makes a hook exit or anybody call `stop`.
* Camera: weak fairness of each thread. It stands for the time-outs of the reads
  of a stream (`io_timeout`) and of SOAP requests; no notification, motion or
  stop is ever owed.
* HTTP: weak fairness of each thread; polls have time-outs. No connection, request
  or publication is owed, and a sleeping thread has no step of its own.
* Time-lapse: weak fairness of the archive job (its timer starts it again and
  again) and finitely many aborts. Nothing makes a camera rotate or end.
* Application: weak fairness of the main thread, of a camera thread that was asked
  to stop and of an accepted request. No signal, event or hook is owed.

## 5. What is proved

`HookExecutorProofs` proves for every number of submissions, size of queues,
sockets and table, set of kinds and keys, and number of crashes:

* `TypeCorrect`: `Spec => []TypeOK`, with the limits of queues and table;
* `NoCompletionLost`: `Spec => []AnsweredOnce`;
* `CountersBalance`: `Spec => []Conservation`;
* `NeverSideBySide`: `Spec => []SerialProcesses`;
* `StopLeavesNothingBehind`: `Spec => []StopLeavesNoHook`;
* `NeverOvertaken`: `Spec => []StartOrder`;
* `ImplementsContract`: `Spec => KeepsContract`, the refinement of `HookContract`.

The first three come from one inductive invariant, `IInv == TypeOK /\ Partition /\
AnsweredOnce /\ Conservation`. They are not inductive alone: that
a launch counts a hook once needs that a queued hook is not in the table, that
removing it from a queue removes it altogether needs that it is queued once, and
that a late response settles nothing needs the table. `Partition` says so: the
queues have no duplicates and are disjoint from each other, from the table and
from the unanswered hooks, and all are submitted. The proof has one lemma per
group of actions and one step per conjunct that the action can disturb; the sums
of `Conservation` are reduced to facts about lengths and cardinalities.

The processes need to be followed from the table through the socket to the
supervisor and back. `ProcessInv` does: a queued hook has left no trace in
messages or processes (`Fresh`); a hook is requested once, has no process before
and none after it is answered as finished (`Launches`); a living process is the
child of a living supervisor (`Orphans`); and hooks that are in the table,
requested or living are of different keys, all of them in the table unless the
supervisor has failed (`Serial`). `OrderInv` says that the queue of critical hooks
keeps the order of submission within a key and that no started hook has overtaken
a queued one of its key.

With these the refinement is one lemma per action: `StatusOf` maps a hook to the
contract's status, each action of the executor maps to one action of the contract
or to none, and `Heard`, the hooks that were called back, follows from
`AnsweredOnce`.

`EventProofs` proves `EventsAreBounded`: for every setting the constructor
accepts and every sequence of frames, the machine is typed and an active event is
younger than `max_event_duration` and has been quiet for less than `event_gap`.
The invariant is the two together with `MachineType`, the shape of the machine's
record; `TypeOK` carries what makes it inductive: the start of an active event is
no later than its last motion, and neither is in the future.

`GroupingIsExact` (`Spec => []GroupsFrames`) says that the machine computes what
the reference defines over the whole history. The reference is never unfolded over
time. The invariant ties the machine's few numbers to the history: `HistoryInv`
(frames are in order of time, no frame both starts and ends an event), `RunInv`
(`consecutive_motion_` is the run of motion since the last barrier, as far as it
counts), `ActiveInv` (the start, the last motion and the tail of an active event
are those of the frames). Since the reference looks for the first frame with a
property, the proof needs that a non-empty set of naturals has a least element; it
comes from `NatLessThanWellFounded` and `WFMin`, which take relations and no
operators, and so can be used where the induction theorems cannot.

`RecordingProofs` proves, for every camera and configuration and with no bound
on packets, delays and clocks, `NeverHalfDecoded` (`Spec => []DecodesWhole`) and
`ChoiceIsKept` (`Spec => []NotDowngraded`). The first needs what ties the
controller to the decoder (`DecodeInv`, in it `KeepsUp`): while everything is
decoded, or a frame is about to leave the decoder, the last packet decoded is the
last one received. So when the mode changes at a keyframe, that of a packet or of
a frame that leaves, nothing the next packet refers to was skipped. The second
needs that a worker that has read natively has established the link, and that a
refusal leaves no transport selected (`LinkInv`).

`RingIsExact` (`Spec => []RingIsPreroll`) says that the ring, trimmed packet by
packet, is at every time what one look at all the packets received would keep: from
the newest keyframe at or before the preroll's boundary, or from the oldest
keyframe, or what the limit leaves. `ArrivalInv` has the reason: packets arrive in
order of time, so the boundary only moves forward and a keyframe once dropped
is never wanted again. The lemmas `OldestKeyIs`, `AlignedBeginIs`, `LimitedIs`
and `PushKeepsPreroll` are about `PacketRing` alone.

`MovieIsExact` (`Spec => []MovieIsWindow`) and `MovieKeepsTime`
(`Spec => []MovieTimes`) follow the packets into the file. `StreamInv` says that the
packets of a connection are numbered and in order of arrival. `MovieInv` says what
the writer has made of them: a movie is *good* (`Shape`, begins at a keyframe,
`AtKey`, and its stamps climb, `Rising`); whatever fails or is skipped, its images
ascend (`Ascends`); with `movie_all_frames` and nothing lost they are numbered
without a gap (`InOrder`), and a copied one keeps the pace of the clock (`InPace`);
and an open movie has come as far as the packets (`Upto`). The
operators are met one at a time: `NormalizeIs` is what the normalizer promises of
one stamp, `EncodedKeeps` and `DrainedMoves` what the transcoder does with an image,
`WrittenKeeps` and `ClosedKeeps` what one write and a closing do to a good movie,
`PrerolledLeads` and `PrerolledIs` what the preroll does to an empty one, and
`PrerollLeads` that the preroll is the packets from one on. Two of the operators
walk over all the packets with a recursive function. The induction they need is
done over sets of numbers, with the least number for which a claim fails
(`Counting`), and so is the existence of the function (`Recursion`).

`TimelapseProofs` proves, for any number of cameras, names, days, recordings,
crashes and aborts, `MarkersAreTrue` (`Spec => []MarkerIsTrue`), `NothingIsLost`
(`FinishedIsKept`), `ArchiveIsTrue` (`ArchiveIsFinished`) and `NothingIsTruncated`
(`NeverTruncated`). The argument is that a camera never touches a path with a
valid marker and the job never one without. So the invariant says where each writer
is: its path has no valid marker while it holds the file, the file is whole from
the flush on, no two writers hold one path (`WritersOK`); and where the job is: its
path is of a past day, has a valid marker, and what the job has copied is what the
disk holds (`JobOK`).

`CameraWorkerProofs` proves, for any configuration, keys, settings of the event
machine, and number of notifications and interruptions, the three invariants of
the `camera` run (`HooksAreMatched`, `RecordingIsTheEvents`, `StatusIsSettled`) and
both of its action properties (`LifetimesAreHard`, `OnvifRules`). `EventOK` says at
each step of the source thread which of movie, picture and hooks the event already
has; `OnvifOK` ties `onvif_motion_` to the tracker and to what either thread has
yet to publish. `LifetimesAreHard` says of each step that what leaves the tracker by
its age is remembered as expired (`ExpiryRemembers`), that only a withdrawal of the
key or the end of the subscription forgets it (`DeliveryRemembers`), and that an
expired key triggers nothing; for topics that hold no state this needs that the
tracker never has their keys (`OnlyHoldingTracked`). `LapseOK` says that the end of a last state is under way: in the
sample, in the generations, or read by the frame about to be decided. Of the
event machine they use only what `Decided` says of one call.

`HttpServerProofs` proves, for any finite set of connections, any load, limit and
window, `CountersAreTrue` (`CountsMatch`), `NoLostWakeup` (`NoNewsMissed`) and
`StopIsClean` (`StopLeavesNothing`). The first counts threads: a step moves at most
one into or out of a stream. The second needs that a thread about to sleep holds
the mutex and has nothing to write (`SleepOK`), so that no publication comes
between. The third needs that only connections of the table have running threads
and open sockets, but for the one `accept4` has just returned (`TableOK`).

`StreamsStayDecodable` (`Spec => []StreamsAreDecodable`) comes from an invariant of
its own on top of that one, `StreamInv`. The versions in a queue, in what a thread
has taken from it and in what it has written are stretches without a gap; what was
taken begins where what was written ends; a video stream that has
written nothing is about to write a keyframe. `Overrun` is what lets the first new
packet of a queue be the successor of the delivered one (`FirstNewFollows`).

`ApplicationProofs` proves, for any number of cameras, versions, signals, events and
requests, `NothingIsStale` (`OneGeneration`), `StartsAndEndsAlternate`
(`HooksAlternate`) and `ReloadsAreWhole` (`ReloadIsWhole`). The inductive
invariant says who holds `workers_mutex_` (`MutexInv`), which workers exist at each
step of the main thread and of which version (`WorkersInv`), that the
server is of the version its step is at (`ServerInv`), and that the hooks of a
camera alternate up to those not yet run, the next of which fits the event the
camera is in (`HooksInv`).

`EventProofs` also proves, for all times that the options allow, any number of
events and any handlers, `AlwaysPunctual` (`Punctual`). It extends `EventGroups` and
`EventWorker`, which do not interact; the worker's specification is named
`WorkerSpec` so that the two can stand side by side. The invariant `WorkerInv`
splits the bound over the states of the worker: an event has waited no longer than
the handler at work has run, than a termination has taken, or than what has passed
of the idle delay (`WaitInv`); a handler that has looked leaves no event neglected
and no wake-up unanswered (`NeglectInv`); and only a termination keeps the worker
from the periodic handler (`PeriodicInv`).

`BaichuanProofs` proves, for any set of well-cut streams of any length, any number
of connections, packets and keepalives, and any number of frames in the opening,
`EveryKeepaliveAnswered` (`KeepalivesAnswered`) and `StreamArrivesExactly`
(`StreamIsExact`). Both look through the cuts of TCP first: what is on its way and
in the receive buffer are the halves of some whole packets in a row (`HalvesAre`),
whatever is received and wherever a deadline passes. `KeepInv` then says that the
keepalives among these packets are the unanswered ones in order (`KeepIs`), which
needs that the camera's numbers climb.

For the stream, `Sound` cuts it at three places, each at or behind the one before.
Up to the first, a record's end, everything is with the demuxer or in the frames
at hand, as far as it is wanted (`ParsedIs`, `TakenIs`). From there to the second
it is in the parser's buffer. From there to the third it is in the
packets, which is said by an offset for each of them (`Cargo`), and the rest is with
the camera. Every action moves one of the three places, or none. `PhaseOK` says what
the client holds in each phase: no frame before the opening, nothing pending while
it reads. `Declared` says why no packet with media is taken for text:
those before the first binary one carry none. And since a parser that starts at a
record's beginning stays at one (`RecordBehind`), each turn of its loop
takes a whole record (`ParsedSkips`, `ParsedTakes`) and never finds another one
inside of it.

Each of these modules also proves the type invariant its proof rests on.
The proofs assume of the constants what the modules state: `OptionsAssumption`,
`SettingsAssumption`, `FramesAssumption`, `CamerasAssumption`, `RingAssumption`,
`BoundsAssumption`, `ConfigurationAssumption`, `ServerAssumption`,
`BaichuanAssumption` and the two named `WorkerAssumption`. They restate the checks of
the constructors, that bounds are natural numbers, that finitely many connections are
made, that time-lapses run for a day at least and that a native stream is made of
whole records.

**Only model-checked**: the liveness properties, which need fairness and `ENABLED`.

## 6. Disagreements found

* **The stop of the HTTP server may hang** (`http_stop`, `StopReturns`).
  `stop()` clears `running_` and notifies without `frames_mutex_`
  (`src/http.cpp:157`). If both happen between a stream's test of its predicate
  and its sleep, the wake-up is lost; the waits have no time-out, the publishers
  have ended, and `stop()` joins the stream for ever. If instead no
  stream is between the two when `stop()` notifies, every sleeping stream is woken
  and `stop()` returns (`OnlyUnheardHang`).
* **Isolation of failures** (`camera_isolation`, `FailureIsolation`).
  `docs/compatibility.md:18` promises per-camera failure isolation; an exception
  of `create_directories` on a source thread (`src/runtime.cpp:1294`) is caught by
  nobody and ends the program.

Met while reading, without a run of their own:

* `docs/compatibility.md:60` documents the order picture-save, event-end, closing
  of the movie, movie-end; `finish_event` (`src/runtime.cpp:795`, `810`, `812`)
  closes the movie first and submits event-end before picture-save.
  `HooksMatchEvent` demands what both orders have in common: which hooks an event
  has, how often, and that movie-end is the last; it accepts picture-save on either
  side of event-end.
* After an interrupted stream the status keeps `event_active` until the next frame,
  although the event has ended (`src/runtime.cpp:1137`).
* The time of an ONVIF trigger that no frame has seen survives a reconnection of
  the stream and dates an event that starts much later (`src/runtime.cpp:1231`).
* The event-end hooks of a shutdown are queued behind running ones and dropped by
  `hooks_.stop()` at once (`src/runtime.cpp:1562`).
* `README.md:158` says of the analysis of keyframes only that "every compressed
  packet still enters the pre-capture ring and an active passthrough movie". With
  `movie_all_frames` off (the default is on) that is not so: a movie skips the
  packets of frames without motion, those that later frames refer to included
  (`src/runtime.cpp:1188`, `1247`). Of such a movie `MovieIsWindow` says only that its
  images ascend, and of one that lost nothing that it begins at a keyframe.
* A time-lapse that cannot be opened is not tried again before the next period
  (`src/runtime.cpp:1404`). Nothing is synced before the marker is written
  (`src/media.cpp:2018`): the model's crashes are those of processes, not of
  the machine. One file the archive job refuses blocks the files behind it.
* A keepalive of the native service that is answered after the deadline of the
  slice has passed ends the stream (`src/baichuan.cpp`, `reply_keepalive`), and a
  camera that changes its codec after the opening is not noticed by `read()`.
* A wake-up of the event worker that is read while a check that found the queue
  empty has not ended is put off by up to the idle delay, which `Punctual`
  allows; a descendant of a handler that has left its process group and
  holds its output would block `finish()`.

## 7. Not modelled

* The motion detector (pixel arithmetic), the transcoder's and muxers' calls of
  libav beyond order, stamps and failure, the parsing of SOAP, XML, command lines
  and configuration text, the logger, the maintenance script and the exporters
  (I/O without state of their own) are left out for good.
* `CameraWorker` has no snapshots; `Application` takes no transport state over a
  reload. A supervisor that hangs without dying is in no run: with it neither
  liveness property of the executor holds, and no document promises one.

## 8. Running it

In this directory:

    tlc -workers 2 -config HookExecutor.cfg MCHookExecutor
    tlapm HookExecutorProofs.tla

`PROJECT.json` names the module and the configuration of every run, the source
lines of every definition, and for every property a mutated definition under
which TLC finds it violated: a check that the property can fail.
