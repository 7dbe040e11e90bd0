---------------------------- MODULE Application ----------------------------
(***************************************************************************)
(* The program around the cameras (Application::Impl, src/src/runtime.cpp, *)
(* and main.cpp): the main thread starts the HTTP server and one worker    *)
(* per camera, reloads the configuration on SIGHUP and shuts everything    *)
(* down on SIGTERM, while camera threads submit event hooks, the hook      *)
(* executor runs them, and HTTP clients ask for the status document, which *)
(* reads the workers under workers_mutex_.                                 *)
(*                                                                         *)
(* A configuration is a version of the file.  The workers, the server and  *)
(* the executor are what their own modules make of them: a worker ends     *)
(* once asked and ends its event before, the server's stop() waits for its *)
(* clients, and the executor runs the hooks of a camera in order and drops *)
(* what is queued when it stops.  Its queue has room: HookExecutor.tla says *)
(* what happens when it has none.                                          *)
(***************************************************************************)
EXTENDS Integers, Sequences

CONSTANTS
  Cameras,      (* camera_id of all configurations                         *)
  Versions,     (* contents the configuration file may have                *)
  FirstVersion, (* the one the program is started with                     *)
  NoVersion,    (* nothing is to be applied, but the program to end        *)
  Valid,        (* versions that load_config and validate() accept         *)
  CamerasOf,    (* Config::cameras of each version                         *)
  WithServer,   (* versions with webcontrol_port > 0                       *)
  Clients,      (* requests for the status document                        *)
  Nobody,       (* workers_mutex_ is free                                  *)
  Main,         (* the main thread                                         *)
  MaxHups,      (* bound on SIGHUPs                                        *)
  MaxEvents     (* bound on the events of all cameras together             *)

ASSUME ConfigurationAssumption ==
  /\ FirstVersion \in Valid /\ Valid \subseteq Versions /\ NoVersion \notin Versions
  /\ CamerasOf \in [Versions -> SUBSET Cameras] /\ WithServer \subseteq Versions
  /\ Main \notin Clients /\ Nobody \notin Clients \cup {Main}
  /\ MaxHups \in Nat /\ MaxEvents \in Nat

VARIABLES
  file,         (* the configuration file                                  *)
  fresh,        (* history: the last SIGHUP's file is not read yet         *)
  hups,         (* SIGHUPs so far                                          *)
  stopping,     (* stopping_                                               *)
  reloading,    (* reloading_                                              *)
  pc,           (* where the main thread is                                *)
  next,         (* the configuration being applied, NoVersion: shutdown    *)
  config,       (* config_                                                 *)
  generation,   (* how often config_ was replaced                          *)
  mutex,        (* who holds workers_mutex_                                *)
  workers,      (* workers_                                                *)
  starting,     (* the worker that is started but not in workers_ yet      *)
  asked,        (* workers asked to stop                                   *)
  thread,       (* the source thread of each camera                        *)
  made,         (* the generation its worker belongs to                    *)
  event,        (* cameras with an active event                            *)
  events,       (* events so far                                           *)
  server,       (* the generation http_ was made for, 0: null              *)
  serving,      (* HttpServer::running_                                    *)
  request,      (* where each status request is                            *)
  queue,        (* event hooks queued for each camera                      *)
  ran,          (* history: event hooks run for each camera                *)
  broken        (* history: cameras whose thread left during an event      *)

signalVars == <<file, fresh, hups, stopping, reloading>>
mainVars == <<pc, next, config, generation>>
workerVars == <<workers, starting, asked, thread, made>>
eventVars == <<event, events, broken>>
serverVars == <<server, serving>>
hookVars == <<queue, ran>>
vars == <<signalVars, mainVars, mutex, workerVars, eventVars, serverVars, request, hookVars>>

Init ==
  /\ file = FirstVersion /\ fresh = FALSE /\ hups = 0
  /\ stopping = FALSE /\ reloading = FALSE
  /\ pc = "lock" /\ next = FirstVersion /\ config = FirstVersion /\ generation = 0
  /\ mutex = Nobody /\ workers = {} /\ starting = {} /\ asked = {}
  /\ thread = [c \in Cameras |-> "none"] /\ made = [c \in Cameras |-> 0]
  /\ event = {} /\ events = 0 /\ broken = {}
  /\ server = 0 /\ serving = FALSE /\ request = [r \in Clients |-> "none"]
  /\ queue = [c \in Cameras |-> <<>>] /\ ran = [c \in Cameras |-> <<>>]

-----------------------------------------------------------------------------
(* Signals.                                                                *)

Alive == pc \notin {"returned", "threw"}

(* The operator leaves version v in the file and sends SIGHUP.             *)
Hup(v) ==
  /\ Alive /\ hups < MaxHups
  /\ hups' = hups + 1 /\ file' = v /\ fresh' = TRUE /\ reloading' = TRUE
  /\ UNCHANGED <<stopping, mainVars, mutex, workerVars, eventVars, serverVars, request,
                 hookVars>>
Term ==
  /\ Alive /\ ~stopping
  /\ stopping' = TRUE
  /\ UNCHANGED <<file, fresh, hups, reloading, mainVars, mutex, workerVars, eventVars,
                 serverVars, request, hookVars>>

-----------------------------------------------------------------------------
(* The main thread: run(), apply() and shutdown_workers().                 *)

(* The loop: a request to stop comes first, then one to reload.            *)
Loop ==
  /\ pc = "loop" /\ (stopping \/ reloading)
  /\ IF stopping
     THEN pc' = "lock" /\ next' = NoVersion /\ UNCHANGED reloading
     ELSE pc' = "load" /\ reloading' = FALSE /\ UNCHANGED next
  /\ UNCHANGED <<file, fresh, hups, stopping, config, generation, mutex, workerVars,
                 eventVars, serverVars, request, hookVars>>

Load ==
  /\ pc = "load"
  /\ fresh' = FALSE
  /\ IF file \in Valid
     THEN pc' = "lock" /\ next' = file
     ELSE pc' = "loop" /\ UNCHANGED next
  /\ UNCHANGED <<file, hups, stopping, reloading, config, generation, mutex, workerVars,
                 eventVars, serverVars, request, hookVars>>

(* shutdown_workers: all are asked, then joined, under workers_mutex_.     *)
AskWorkers ==
  /\ pc = "lock" /\ mutex = Nobody
  /\ mutex' = Main
  /\ asked' = workers
  /\ pc' = "join"
  /\ UNCHANGED <<signalVars, next, config, generation, workers, starting, thread, made,
                 eventVars, serverVars, request, hookVars>>

JoinableAtOnce == TRUE
Joinable == \A c \in workers : thread[c] = "ended"
JoinWorkersKeepingMutex ==
  /\ pc = "join" /\ Joinable
  /\ workers' = {} /\ asked' = {}
  /\ pc' = "server"
  /\ UNCHANGED <<signalVars, next, config, generation, mutex, starting, thread, made,
                 eventVars, serverVars, request, hookVars>>
JoinWorkersKeepingThem ==
  /\ pc = "join" /\ Joinable
  /\ mutex' = Nobody /\ asked' = {}
  /\ pc' = "server"
  /\ UNCHANGED <<signalVars, next, config, generation, workers, starting, thread, made,
                 eventVars, serverVars, request, hookVars>>
JoinWorkers ==
  /\ pc = "join" /\ Joinable
  /\ mutex' = Nobody /\ workers' = {} /\ asked' = {}
  /\ pc' = "server"
  /\ UNCHANGED <<signalVars, next, config, generation, starting, thread, made, eventVars,
                 serverVars, request, hookVars>>

(* http_->stop() waits for the server's clients; apply() resets http_.     *)
StopServer ==
  /\ pc = "server"
  /\ serving' = FALSE
  /\ pc' = "clients"
  /\ UNCHANGED <<signalVars, next, config, generation, mutex, workerVars, eventVars, server,
                 request, hookVars>>
JoinClients ==
  /\ pc = "clients" /\ \A r \in Clients : request[r] \in {"none", "done"}
  /\ server' = IF next = NoVersion THEN server ELSE 0
  /\ pc' = IF next = NoVersion THEN "hooks" ELSE "configure"
  /\ UNCHANGED <<signalVars, next, config, generation, mutex, workerVars, eventVars, serving,
                 request, hookVars>>

(* The last step of a shutdown: hooks_.stop() drops what is queued.        *)
StopHooks ==
  /\ pc = "hooks"
  /\ queue' = [c \in Cameras |-> <<>>]
  /\ pc' = "returned"
  /\ UNCHANGED <<signalVars, next, config, generation, mutex, workerVars, eventVars,
                 serverVars, request, ran>>

(* config_ is replaced, and the server started if there is to be one.      *)
Configure ==
  /\ pc = "configure"
  /\ config' = next /\ generation' = generation + 1
  /\ IF next \in WithServer
     THEN server' = generation + 1 /\ serving' = TRUE
     ELSE UNCHANGED serverVars
  /\ pc' = "start"
  /\ UNCHANGED <<signalVars, next, mutex, workerVars, eventVars, request, hookVars>>

(* The port cannot be bound: start() throws, http_ keeps the idle server.  *)
(* The loop reports the reload as rejected; at the start the program ends. *)
BindFails ==
  /\ pc = "configure" /\ next \in WithServer
  /\ config' = next /\ generation' = generation + 1
  /\ server' = generation + 1
  /\ pc' = IF generation = 0 THEN "threw" ELSE "loop"
  /\ UNCHANGED <<signalVars, next, mutex, workerVars, eventVars, serving, request, hookVars>>

(* Each worker's threads are started before it is added to workers_.       *)
Start(c) ==
  /\ pc = "start" /\ starting = {} /\ c \in CamerasOf[config] \ workers
  /\ starting' = {c}
  /\ thread' = [thread EXCEPT ![c] = "running"]
  /\ made' = [made EXCEPT ![c] = generation]
  /\ UNCHANGED <<signalVars, mainVars, mutex, workers, asked, eventVars, serverVars, request,
                 hookVars>>
Add ==
  /\ starting # {} /\ mutex = Nobody
  /\ workers' = workers \cup starting /\ starting' = {}
  /\ UNCHANGED <<signalVars, mainVars, mutex, asked, thread, made, eventVars, serverVars,
                 request, hookVars>>

Started == pc = "start" /\ starting = {} /\ CamerasOf[config] \subseteq workers
AppliedForgetting ==
  /\ Started
  /\ pc' = "loop" /\ reloading' = FALSE
  /\ UNCHANGED <<file, fresh, hups, stopping, next, config, generation, mutex, workerVars,
                 eventVars, serverVars, request, hookVars>>
Applied ==
  /\ Started
  /\ pc' = "loop"
  /\ UNCHANGED <<signalVars, next, config, generation, mutex, workerVars, eventVars,
                 serverVars, request, hookVars>>

MainThread ==
  \/ Loop \/ Load \/ AskWorkers \/ JoinWorkers \/ StopServer \/ JoinClients \/ StopHooks
  \/ Configure \/ BindFails \/ (\E c \in Cameras : Start(c)) \/ Add \/ Applied

-----------------------------------------------------------------------------
(* The source thread of camera c, and its hooks.                           *)

Submits(c, hook) == queue' = [queue EXCEPT ![c] = Append(@, hook)]

BeginEvent(c) ==
  /\ Alive /\ thread[c] = "running" /\ c \notin event /\ events < MaxEvents
  /\ event' = event \cup {c} /\ events' = events + 1
  /\ Submits(c, "event-start")
  /\ UNCHANGED <<signalVars, mainVars, mutex, workerVars, broken, serverVars, request, ran>>
EndEvent(c) ==
  /\ thread[c] = "running" /\ c \in event
  /\ event' = event \ {c}
  /\ Submits(c, "event-end")
  /\ UNCHANGED <<signalVars, mainVars, mutex, workerVars, events, broken, serverVars, request,
                 ran>>

(* The thread returns by itself: the mask could not be loaded.             *)
Fail(c) ==
  /\ thread[c] = "running"
  /\ thread' = [thread EXCEPT ![c] = "ended"]
  /\ event' = event \ {c} /\ broken' = broken \cup (event \cap {c})
  /\ UNCHANGED <<signalVars, mainVars, mutex, workers, starting, asked, made, events,
                 serverVars, request, hookVars>>

(* The thread notices the request to stop and ends its event.              *)
ObeyAbruptly(c) ==
  /\ c \in asked /\ thread[c] = "running"
  /\ thread' = [thread EXCEPT ![c] = "ended"]
  /\ event' = event \ {c}
  /\ UNCHANGED <<signalVars, mainVars, mutex, workers, starting, asked, made, events, broken,
                 serverVars, request, hookVars>>
Obey(c) ==
  /\ c \in asked /\ thread[c] = "running"
  /\ thread' = [thread EXCEPT ![c] = "ended"]
  /\ event' = event \ {c}
  /\ IF c \in event THEN Submits(c, "event-end") ELSE UNCHANGED queue
  /\ UNCHANGED <<signalVars, mainVars, mutex, workers, starting, asked, made, events, broken,
                 serverVars, request, ran>>

(* The executor runs the hooks of a camera one by one, in order.           *)
RunHook(c) ==
  /\ Alive /\ queue[c] # <<>>
  /\ queue' = [queue EXCEPT ![c] = Tail(@)]
  /\ ran' = [ran EXCEPT ![c] = Append(@, Head(queue[c]))]
  /\ UNCHANGED <<signalVars, mainVars, mutex, workerVars, eventVars, serverVars, request>>

Camera(c) == BeginEvent(c) \/ EndEvent(c) \/ Fail(c) \/ Obey(c) \/ RunHook(c)

-----------------------------------------------------------------------------
(* A request for the status document, status_json on a client's thread.    *)

Ask(r) ==
  /\ serving /\ request[r] = "none"
  /\ request' = [request EXCEPT ![r] = "waiting"]
  /\ UNCHANGED <<signalVars, mainVars, mutex, workerVars, eventVars, serverVars, hookVars>>
LockWorkers(r) ==
  /\ request[r] = "waiting" /\ mutex = Nobody
  /\ request' = [request EXCEPT ![r] = "reading"] /\ mutex' = r
  /\ UNCHANGED <<signalVars, mainVars, workerVars, eventVars, serverVars, hookVars>>
Reply(r) ==
  /\ request[r] = "reading"
  /\ request' = [request EXCEPT ![r] = "done"] /\ mutex' = Nobody
  /\ UNCHANGED <<signalVars, mainVars, workerVars, eventVars, serverVars, hookVars>>

Client(r) == Ask(r) \/ LockWorkers(r) \/ Reply(r)

(* The program has ended.                                                  *)
Ended == ~Alive /\ UNCHANGED vars

Next ==
  \/ (\E v \in Versions : Hup(v)) \/ Term \/ MainThread \/ Ended
  \/ (\E c \in Cameras : Camera(c)) \/ (\E r \in Clients : Client(r))

Spec == Init /\ [][Next]_vars

(* Threads are scheduled: the main thread, a camera thread that was asked  *)
(* to stop, and a status request that was accepted.                        *)
FairSpec ==
  /\ Spec
  /\ WF_vars(MainThread)
  /\ \A c \in Cameras : WF_vars(Obey(c))
  /\ \A r \in Clients : WF_vars(LockWorkers(r) \/ Reply(r))

-----------------------------------------------------------------------------
(* A camera has one source thread, of the current configuration, and the   *)
(* HTTP server it holds a pointer to is the one http_ owns; nobody serves  *)
(* or reads the workers without that server.                               *)
OneGeneration ==
  /\ \A c \in Cameras : thread[c] = "running" =>
       /\ c \in workers \cup starting /\ made[c] = generation
       /\ config \in WithServer => server = generation
  /\ \A r \in Clients : request[r] \in {"waiting", "reading"} => server = generation
  /\ \A r \in Clients : request[r] = "reading" <=> mutex = r

(* A hook script sees event-start and event-end of a camera alternate, also *)
(* over reloads, unless a thread left in the middle of an event.           *)
HooksAlternate ==
  \A c \in Cameras \ broken : \A i \in DOMAIN ran[c] :
    ran[c][i] = (IF i % 2 = 1 THEN "event-start" ELSE "event-end")

(* Between two reloads every camera of the configuration has its worker,   *)
(* or the server's port could not be bound and there is none at all.       *)
ReloadIsWhole ==
  pc = "loop" =>
    \/ workers = CamerasOf[config]
    \/ workers = {} /\ config \in WithServer /\ ~serving

(* The file is read as it was left before the last SIGHUP, or later, also  *)
(* if that came during a reload, unless the program stops.                 *)
ReloadAnswered == fresh ~> ~fresh \/ stopping \/ pc = "threw"

(* SIGTERM ends the program whatever it is doing: no status request waits  *)
(* for a mutex that waits for it.  The server's stop() is taken to return  *)
(* once its requests are done; HttpServer.tla says when it does not.       *)
TermEndsProgram == stopping ~> pc \in {"returned", "threw"}
=============================================================================
