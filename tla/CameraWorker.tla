---------------------------- MODULE CameraWorker ----------------------------
(***************************************************************************)
(* One camera (CameraWorker, src/src/runtime.cpp): the source thread opens *)
(* the camera's stream, reads samples, lets motion and ONVIF states drive  *)
(* the event state machine, records the movie, keeps the best picture and  *)
(* submits the event hooks; the ONVIF thread delivers notifications.  The  *)
(* threads share onvif_states_ (under onvif_state_mutex_), atomics and the *)
(* published status (under status_mutex_).                                 *)
(*                                                                         *)
(* A frame is whether it shows local motion after the warm-up.  Files      *)
(* are the number of the event they belong to.  Snapshots, time-lapse,     *)
(* live video, trigger timestamps and the choice of transport are left     *)
(* out.  Commands of all event hooks are configured.                       *)
(***************************************************************************)
EXTENDS EventStateMachine, OnvifStateTracker, Sequences, SequencesExt

CONSTANTS
  Holding,         (* keys whose topic holds a state (Motion, MotionAlarm) *)
  Cameras,         (* configurations of the camera                         *)
  MaxTime          (* bound on the clock                                   *)

(* The settings events, movie_output, picture_output and movie_all_frames, *)
(* whether onvif_state_ttl > 0 and mask_file is set, and the bounds on the *)
(* notifications and on the interruptions of the stream.                   *)
CameraType == [events: BOOLEAN, movie: BOOLEAN, picture: BOOLEAN, allFrames: BOOLEAN,
               renewable: BOOLEAN, mask: BOOLEAN, notices: Nat,
               interrupts: Nat]

ASSUME WorkerAssumption ==
  /\ Holding \subseteq Keys
  /\ Cameras \subseteq CameraType
  /\ MaxTime \in Nat

VARIABLES
  camera,          (* its configuration                                    *)
  now,             (* the steady clock                                     *)
  stopping,        (* stopping_                                            *)
  pc,              (* where the source thread is in run()                  *)
  sample,          (* the sample being processed                           *)
  machine,         (* events: the EventStateMachine                        *)
  movie,           (* the event of the open movie, 0 if none               *)
  recordLive,      (* record_live                                          *)
  best,            (* best_frame and best_jpeg                             *)
  hooks,           (* hooks submitted since the last event-start           *)
  interrupts,      (* interruptions so far                                 *)
  onvifPc,         (* where the ONVIF thread is                            *)
  notice,          (* the notification being delivered                     *)
  notices,         (* notifications so far                                 *)
  states,          (* onvif_states_                                        *)
  onvifMotion,     (* onvif_motion_                                        *)
  triggers,        (* onvif_trigger_generation_                            *)
  timeouts,        (* onvif_timeout_generation_                            *)
  seenTrigger,     (* seen_onvif_trigger                                   *)
  seenTimeout,     (* seen_onvif_timeout                                   *)
  statusMotion,    (* status_.onvif_motion                                 *)
  lapsed           (* history: a hard lifetime ended the last state, and   *)
                   (* no motion came since                                 *)

sourceVars == <<pc, sample, machine, movie, recordLive, best, hooks,
                interrupts, seenTrigger, seenTimeout>>
onvifVars == <<onvifPc, notice, notices>>
sharedVars == <<states, onvifMotion, triggers, timeouts, statusMotion>>
vars == <<camera, now, stopping, sourceVars, onvifVars, sharedVars, lapsed>>

(* A sample before it is looked at, and the empty values.                  *)
NoSample == [frame |-> FALSE, local |-> FALSE, lapse |-> FALSE, edge |-> FALSE,
             timedOut |-> FALSE]
NoPicture == [event |-> 0, jpeg |-> FALSE]
NoNotice == [key |-> CHOOSE k \in Keys : TRUE, active |-> FALSE]

HookKinds == {"event-start", "movie-start", "event-end", "event-picture", "movie-end"}

(* Failed: run() returned because the mask could not be loaded.  Aborted:  *)
(* an exception left the thread, which terminates the program.             *)
SourceSteps == {"open", "read", "expired", "observe", "decide", "start", "finish",
                "picture", "closing", "exited", "failed", "aborted"}
OnvifSteps == {"subscribing", "pulling", "deliver", "report", "clearing", "cleared",
               "exited"}

Init ==
  /\ camera \in Cameras
  /\ now = 0 /\ stopping = FALSE
  /\ pc = "open" /\ sample = NoSample
  /\ machine = Idle(0) /\ movie = 0 /\ recordLive = FALSE /\ best = NoPicture
  /\ hooks = <<>> /\ interrupts = 0 /\ seenTrigger = 0 /\ seenTimeout = 0
  /\ onvifPc = IF camera.events THEN "subscribing" ELSE "exited"
  /\ notice = NoNotice /\ notices = 0
  /\ states = NoStates /\ onvifMotion = FALSE /\ triggers = 0 /\ timeouts = 0
  /\ statusMotion = FALSE /\ lapsed = FALSE

Running == pc # "aborted"

Tick == /\ Running /\ now < MaxTime /\ now' = now + 1
        /\ UNCHANGED <<camera, stopping, sourceVars, onvifVars, sharedVars, lapsed>>

(* request_stop() by the application.                                      *)
RequestStop == /\ Running /\ ~stopping /\ stopping' = TRUE
               /\ UNCHANGED <<camera, now, sourceVars, onvifVars, sharedVars, lapsed>>

-----------------------------------------------------------------------------
(* The source thread.  UNCHANGED but for some of its variables:            *)

recordVars == <<movie, recordLive, best, hooks>>
seenVars == <<seenTrigger, seenTimeout>>
othersVars == <<camera, now, stopping, onvifVars>>

(* The stream is opened, and the mask loaded if its size is known.  A      *)
(* failed attempt changes only the status and is repeated.                 *)
Open == /\ pc = "open" /\ ~stopping
        /\ \/ pc' = "read"
           \/ camera.mask /\ pc' = "failed"
        /\ UNCHANGED <<sample, machine, recordVars, interrupts, seenVars, othersVars,
                       sharedVars, lapsed>>

(* After the outer loop the movie is closed.                               *)
Leave == /\ pc = "open" /\ stopping
         /\ pc' = "exited" /\ movie' = 0
         /\ UNCHANGED <<sample, machine, recordLive, best, hooks, interrupts, seenVars,
                        othersVars, sharedVars, lapsed>>

(* A sample arrives, and expire_onvif_states drops the stale states and    *)
(* publishes what is left, under onvif_state_mutex_.                       *)
Lapses(t) == HasState(states) /\ ~HasState(t) /\ ~camera.renewable
Read(frame, local) ==
  LET t == Expired(states, now, camera.renewable)
      lapse == Lapses(t)
  IN /\ pc = "read" /\ ~stopping
     /\ local => frame
     /\ sample' = [NoSample EXCEPT !.frame = frame, !.local = local, !.lapse = lapse]
     /\ states' = t
     /\ onvifMotion' = HasState(t)
     /\ lapsed' = (lapsed \/ lapse)
     /\ pc' = IF Stale(states, now) # {} THEN "expired"
              ELSE IF frame THEN "observe" ELSE "read"
     /\ UNCHANGED <<machine, recordVars, interrupts, seenVars, triggers, timeouts,
                    statusMotion, othersVars>>

(* The rest of expire_onvif_states: the status, and the hard limit.        *)
PublishExpiryWithFrame ==
  /\ pc = "expired"
  /\ statusMotion' = onvifMotion
  /\ timeouts' = IF sample.lapse /\ sample.frame THEN timeouts + 1 ELSE timeouts
  /\ pc' = IF sample.frame THEN "observe" ELSE "read"
  /\ UNCHANGED <<sample, machine, recordVars, interrupts, seenVars, states, onvifMotion,
                 triggers, othersVars, lapsed>>
PublishExpiryAsFound ==
  /\ pc = "expired"
  /\ statusMotion' = ~sample.lapse
  /\ timeouts' = IF sample.lapse THEN timeouts + 1 ELSE timeouts
  /\ pc' = IF sample.frame THEN "observe" ELSE "read"
  /\ UNCHANGED <<sample, machine, recordVars, interrupts, seenVars, states, onvifMotion,
                 triggers, othersVars, lapsed>>
PublishExpiry ==
  /\ pc = "expired"
  /\ statusMotion' = onvifMotion
  /\ timeouts' = IF sample.lapse THEN timeouts + 1 ELSE timeouts
  /\ pc' = IF sample.frame THEN "observe" ELSE "read"
  /\ UNCHANGED <<sample, machine, recordVars, interrupts, seenVars, states, onvifMotion,
                 triggers, othersVars, lapsed>>

(* The mask does not load for the size of the frame: run() returns, and    *)
(* the destructors close the movie.                                        *)
MaskFails ==
  /\ pc = "observe" /\ camera.mask
  /\ pc' = "failed" /\ movie' = 0
  /\ UNCHANGED <<sample, machine, recordLive, best, hooks, interrupts, seenVars,
                 othersVars, sharedVars, lapsed>>

(* The generations are read: what the ONVIF thread asserted since then     *)
(* counts for the next frame.                                              *)
Observe ==
  /\ pc = "observe"
  /\ sample' = [sample EXCEPT !.timedOut = timeouts # seenTimeout,
                              !.edge = triggers # seenTrigger]
  /\ seenTimeout' = timeouts
  /\ seenTrigger' = triggers
  /\ pc' = "decide"
  /\ UNCHANGED <<machine, recordVars, interrupts, othersVars, sharedVars, lapsed>>

(* onvif_motion_ is read and the state machine asked.                      *)
Outcome ==
  LET triggered == onvifMotion \/ sample.edge
  IN IF sample.timedOut /\ machine.active /\ ~sample.local /\ ~triggered
     THEN Stop(machine)
     ELSE Update(machine, sample.local \/ (camera.events /\ triggered), now,
                 camera.events /\ sample.edge)
Decide ==
  /\ pc = "decide"
  /\ machine' = Outcome.machine
  /\ recordLive' = (Outcome.record \/ (camera.allFrames /\ machine'.active))
  /\ lapsed' = FALSE
  /\ pc' = IF Outcome.started THEN "start"
           ELSE IF Outcome.ended THEN "finish" ELSE "picture"
  /\ UNCHANGED <<sample, movie, best, hooks, interrupts, seenVars, othersVars, sharedVars>>

(* The event is announced and its movie opened, or not; creating the       *)
(* movie's directory may throw, which nothing catches.                     *)
StartEvent ==
  /\ pc = "start"
  /\ \/ /\ camera.movie
        /\ movie' = machine.number
        /\ hooks' = <<"event-start", "movie-start">>
        /\ pc' = "picture"
     \/ /\ movie' = movie
        /\ hooks' = <<"event-start">>
        /\ pc' = "picture"
     \/ /\ camera.movie
        /\ movie' = movie
        /\ hooks' = <<"event-start">>
        /\ pc' = "aborted"
  /\ UNCHANGED <<sample, machine, recordLive, best, interrupts, seenVars, othersVars,
                 sharedVars, lapsed>>

(* finish_event: the best picture is written if that succeeds, the movie   *)
(* closed, and the hooks submitted.                                        *)
Ending(saved) ==
  <<"event-end">> \o (IF saved THEN <<"event-picture">> ELSE <<>>)
                 \o (IF movie # 0 THEN <<"movie-end">> ELSE <<>>)
FinishKeepingPicture ==
  /\ \E saved \in {FALSE, best.jpeg} : hooks' = hooks \o Ending(saved)
  /\ movie' = 0
  /\ recordLive' = FALSE
  /\ UNCHANGED best
finish_event ==
  /\ \E saved \in {FALSE, best.jpeg} : hooks' = hooks \o Ending(saved)
  /\ movie' = 0
  /\ best' = NoPicture
  /\ recordLive' = FALSE

FinishEvent ==
  /\ pc = "finish"
  /\ finish_event
  /\ pc' = "picture"
  /\ UNCHANGED <<sample, machine, interrupts, seenVars, othersVars, sharedVars, lapsed>>

(* The frame becomes the event's best picture if there is none or it shows *)
(* more motion; rendering may fail.                                        *)
ChoosePicture ==
  /\ pc = "picture"
  /\ pc' = "read"
  /\ sample' = NoSample
  /\ \/ (machine.active => best.event # 0) /\ best' = best
     \/ /\ machine.active
        /\ \E jpeg \in {FALSE, camera.picture} :
             best' = [event |-> machine.number, jpeg |-> jpeg]
  /\ UNCHANGED <<machine, movie, recordLive, hooks, interrupts, seenVars, othersVars,
                 sharedVars, lapsed>>

(* The inner loop ends: the stream was interrupted, or a stop requested.   *)
Interrupted ==
  /\ pc = "read" /\ ~stopping /\ interrupts < camera.interrupts
  /\ interrupts' = interrupts + 1
  /\ pc' = "closing"
  /\ UNCHANGED <<sample, machine, recordVars, seenVars, othersVars, sharedVars, lapsed>>
StopReading ==
  /\ pc = "read" /\ stopping
  /\ pc' = "closing"
  /\ UNCHANGED <<sample, machine, recordVars, interrupts, seenVars, othersVars,
                 sharedVars, lapsed>>

CloseStreamOnly ==
  /\ pc = "closing"
  /\ pc' = "open"
  /\ sample' = NoSample
  /\ machine' = Stop(machine).machine
  /\ UNCHANGED <<recordVars, interrupts, seenVars, othersVars, sharedVars, lapsed>>
CloseStream ==
  /\ pc = "closing"
  /\ pc' = "open"
  /\ sample' = NoSample
  /\ \/ machine.active /\ machine' = Stop(machine).machine /\ finish_event
     \/ ~machine.active /\ UNCHANGED <<machine, recordVars>>
  /\ UNCHANGED <<interrupts, seenVars, othersVars, sharedVars, lapsed>>

-----------------------------------------------------------------------------
(* The ONVIF thread: OnvifClient::receive_motion_events and the callbacks. *)

sourceOwned == <<camera, now, stopping, sourceVars>>

Subscribe ==
  /\ onvifPc = "subscribing" /\ Running
  /\ onvifPc' = "pulling" /\ statusMotion' = onvifMotion
  /\ UNCHANGED <<sourceOwned, notice, notices, states, onvifMotion, triggers, timeouts,
                 lapsed>>

(* A request fails, or a stop is noticed between requests.                 *)
LoseSubscription ==
  /\ onvifPc \in {"subscribing", "pulling"} /\ Running
  /\ onvifPc' = "clearing"
  /\ UNCHANGED <<sourceOwned, notice, notices, sharedVars, lapsed>>

Receive(k, active) ==
  /\ onvifPc = "pulling" /\ Running /\ notices < camera.notices
  /\ notice' = [key |-> k, active |-> active]
  /\ notices' = notices + 1
  /\ onvifPc' = "deliver"
  /\ UNCHANGED <<sourceOwned, sharedVars, lapsed>>

(* The notification under onvif_state_mutex_.  In legacy mode only topics  *)
(* that hold a state enter the tracker; any accepted assertion triggers.   *)
Holds == camera.renewable \/ notice.key \in Holding
TriggersUnchecked == notice.active
Triggers ==
  notice.active /\ (Holds => Accepts(states, notice.key, notice.active, camera.renewable))
Deliver ==
  LET t == IF Holds
           THEN Updated(states, notice.key, notice.active, now, camera.renewable)
           ELSE states
  IN /\ onvifPc = "deliver" /\ Running
     /\ states' = t
     /\ onvifMotion' = HasState(t)
     /\ triggers' = IF Triggers THEN triggers + 1 ELSE triggers
     /\ lapsed' = (lapsed /\ ~Triggers)
     /\ onvifPc' = "report"
     /\ UNCHANGED <<sourceOwned, notice, notices, timeouts, statusMotion>>

Report ==
  /\ onvifPc = "report" /\ Running
  /\ statusMotion' = onvifMotion
  /\ onvifPc' = "pulling"
  /\ notice' = NoNotice
  /\ UNCHANGED <<sourceOwned, notices, states, onvifMotion, triggers, timeouts,
                 lapsed>>

(* The disconnect callback; after the last one the thread ends.            *)
Disconnect ==
  /\ onvifPc = "clearing" /\ Running
  /\ states' = NoStates
  /\ onvifMotion' = FALSE
  /\ onvifPc' = "cleared"
  /\ UNCHANGED <<sourceOwned, notice, notices, triggers, timeouts, statusMotion, lapsed>>
ReportDownAndRetry ==
  /\ onvifPc = "cleared" /\ Running
  /\ statusMotion' = FALSE
  /\ onvifPc' = "subscribing"
  /\ UNCHANGED <<sourceOwned, notice, notices, states, onvifMotion, triggers, timeouts,
                 lapsed>>
ReportDown ==
  /\ onvifPc = "cleared" /\ Running
  /\ statusMotion' = FALSE
  /\ onvifPc' = IF stopping THEN "exited" ELSE "subscribing"
  /\ UNCHANGED <<sourceOwned, notice, notices, states, onvifMotion, triggers, timeouts,
                 lapsed>>

-----------------------------------------------------------------------------
Source ==
  \/ Open \/ Leave \/ (\E frame, local \in BOOLEAN : Read(frame, local))
  \/ PublishExpiry \/ MaskFails \/ Observe \/ Decide \/ StartEvent \/ FinishEvent
  \/ ChoosePicture \/ Interrupted \/ StopReading \/ CloseStream

Onvif ==
  \/ Subscribe \/ LoseSubscription
  \/ (\E k \in Keys, active \in BOOLEAN : Receive(k, active))
  \/ Deliver \/ Report \/ Disconnect \/ ReportDown

(* The threads have ended: nothing more happens.                           *)
Ended == /\ pc = "aborted" \/ (pc \in {"exited", "failed"} /\ onvifPc = "exited")
         /\ UNCHANGED vars

Next == Tick \/ RequestStop \/ Source \/ Onvif \/ Ended

Spec == Init /\ [][Next]_vars

(* The threads are scheduled; reads of the stream and SOAP requests end by *)
(* their time-outs (io_timeout, the transport time-outs of post_soap).     *)
FairSpec == Spec /\ WF_vars(Source) /\ WF_vars(Onvif)

-----------------------------------------------------------------------------
(* Between two samples, and after the threads' last one.                   *)
AtRest == pc \in {"open", "read", "exited"}

(* Every variable has its type; a key is held or expired, never both.      *)
TypeOK ==
  /\ camera \in Cameras /\ now \in Nat
  /\ pc \in SourceSteps /\ onvifPc \in OnvifSteps
  /\ stopping \in BOOLEAN /\ recordLive \in BOOLEAN /\ lapsed \in BOOLEAN
  /\ onvifMotion \in BOOLEAN /\ statusMotion \in BOOLEAN
  /\ sample \in [frame : BOOLEAN, local : BOOLEAN, lapse : BOOLEAN, edge : BOOLEAN,
                 timedOut : BOOLEAN]
  /\ machine.active \in BOOLEAN /\ machine.number \in Nat
  /\ movie \in 0..machine.number
  /\ best \in [event : 0..machine.number, jpeg : BOOLEAN]
  /\ triggers \in Nat /\ seenTrigger \in 0..triggers
  /\ timeouts \in Nat /\ seenTimeout \in 0..timeouts
  /\ notices \in Nat /\ interrupts \in Nat
  /\ notice.active \in BOOLEAN
  /\ DOMAIN states.since \cap states.expired = {}

(* What a hook script sees of the current or last event, however that      *)
(* event ended (gap, maximum duration, hard limit, interruption, stop):    *)
(* one start; then one end and, exactly if there was a movie-start, which  *)
(* the open movie owes, a movie-end after it.  A picture is announced at   *)
(* most once and before the movie-end.  The code announces it after the    *)
(* end of its event, docs/compatibility.md before it: either is right here.*)
Announced(withMovie) ==
  <<"event-start">> \o (IF withMovie THEN <<"movie-start">> ELSE <<>>)
Endings ==
  {<<"event-end">>, <<"event-end", "event-picture">>, <<"event-picture", "event-end">>}
HooksMatchEvent ==
  AtRest =>
    IF machine.active THEN hooks = Announced(movie # 0)
    ELSE \/ hooks = <<>>
         \/ \E withMovie \in BOOLEAN, ending \in Endings :
              hooks = Announced(withMovie) \o ending
                        \o (IF withMovie THEN <<"movie-end">> ELSE <<>>)

(* Between samples the movie, live recording and the best picture belong   *)
(* to the active event; with no event there is none of them.               *)
RecordingMatchesEvent ==
  AtRest =>
    /\ movie # 0 => machine.active /\ movie = machine.number
    /\ recordLive => machine.active
    /\ best.event = IF machine.active THEN machine.number ELSE 0

(* Both threads write onvif_motion to the status after they have released  *)
(* onvif_state_mutex_.  When neither still has to, it is the ONVIF motion. *)
StatusSettles ==
  (pc # "expired" /\ onvifPc \notin {"report", "cleared"}) => statusMotion = onvifMotion

(* In legacy mode a repeated assertion does not prolong a state, and a     *)
(* state that ends without being withdrawn is remembered as expired: until *)
(* its false arrives or the subscription is lost, its key neither becomes  *)
(* active nor triggers an event (README: "a hard lifetime", "an expired    *)
(* topic remains suppressed until its matching false arrives (or the       *)
(* subscription reconnects); repeated true cannot restart it through the   *)
(* edge-trigger path").                                                    *)
Withdraws(k) ==
  /\ onvifPc' # onvifPc
  /\ \/ onvifPc = "clearing"
     \/ onvifPc = "deliver" /\ notice.key = k /\ ~notice.active
HardLifetime ==
  [][~camera.renewable =>
       /\ \A k \in DOMAIN states.since \cap DOMAIN states'.since :
            states'.since[k] = states.since[k]
       /\ \A k \in states.expired \cup (DOMAIN states.since \ DOMAIN states'.since) :
            Withdraws(k) \/ k \in states'.expired \ DOMAIN states'.since
       /\ triggers' # triggers => notice.key \notin states.expired
    ]_vars

(* What ONVIF says decides the next frame, although samples without a      *)
(* frame, notifications and failures of the subscription come between.     *)
(* Once a hard lifetime has ended the last state, an event does not        *)
(* outlive that frame unless it moves or is triggered (README: "an         *)
(* ONVIF-only event is stopped when the timeout expires").  A new          *)
(* assertion confirms motion at once, also after it was withdrawn or the   *)
(* subscription lost: an event is active after that frame, unless the      *)
(* maximum duration cuts one there.                                        *)
OnvifRulesEvent ==
  [][pc = "decide" /\ pc' # pc =>
       /\ lapsed /\ ~sample.local /\ ~sample.edge => ~machine'.active
       /\ sample.edge => machine'.active \/ Overdue(machine, now)]_vars

(* request_stop ends both threads, with everything closed, wherever they   *)
(* are (README: "SIGTERM and SIGINT perform a graceful stop").             *)
StopEndsWorker ==
  stopping ~> \/ pc = "aborted"
              \/ pc \in {"exited", "failed"} /\ onvifPc = "exited" /\ movie = 0

(* docs/compatibility.md, Operations: "per-camera failure isolation": a    *)
(* failure of one camera's output does not terminate the program.          *)
FailureIsolation == pc # "aborted"
=============================================================================
