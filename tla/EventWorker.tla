---------------------------- MODULE EventWorker -----------------------------
(***************************************************************************)
(* The event worker (src/packaging/vibe-motion-event-worker): one thread   *)
(* that runs a legacy handler for one queued event at a time, wakes when   *)
(* the daemon has finished a movie (wake_event_worker, src/src/            *)
(* runtime.cpp), and starts the periodic handler at its interval.          *)
(*                                                                         *)
(* Times are ticks, and times to come are counted down.  A turn of the     *)
(* loop takes no time: time passes only while the worker waits.  The queue *)
(* and the handlers are not under src/: a handler looks at the queue as    *)
(* soon as it runs, takes one event or finds it empty, and may then hang,  *)
(* fail, or leave a descendant that holds its output open.                 *)
(***************************************************************************)
EXTENDS Integers, FiniteSetsExt

CONSTANTS
  IdleDelay,         (* --idle-delay                                       *)
  PeriodicInterval,  (* --periodic-interval                                *)
  JobTimeout,        (* --job-timeout                                      *)
  Grace,             (* JobProcess.terminate(grace), stop_process          *)
  MaxQueue           (* bound on the events that wait                      *)

ASSUME WorkerAssumption ==
  /\ {IdleDelay, PeriodicInterval, JobTimeout} \subseteq Nat \ {0}
  /\ Grace \in Nat /\ MaxQueue \in Nat

VARIABLES
  queue,             (* the events that wait for a handler                 *)
  finishing,         (* a movie's hook has queued an event and is about to *)
                     (* complete                                           *)
  fifo,              (* there are bytes in the wake FIFO                   *)
  pc,                (* where the worker is                                *)
  stopping,          (* stopping                                           *)
  job,               (* job                                                *)
  periodic,          (* periodic: "none", "running" or "exited"            *)
  nextJob,           (* next_job_at                                        *)
  nextPeriodic,      (* next_periodic_at; negative: overdue                *)
  patience,          (* what is left of the grace of a termination         *)
  waiting,           (* history: ticks since an event was taken, or since  *)
                     (* the first one came                                 *)
  neglected,         (* history: those of them without a handler at work   *)
  woken              (* history: a wake-up was read since                  *)

worker == <<pc, stopping, job, periodic, nextJob, nextPeriodic, patience>>
history == <<waiting, neglected, woken>>
workerVars == <<queue, finishing, fifo, worker, history>>

(* A handler's process: whether it has looked into the queue and taken an  *)
(* event, whether it has exited, and how; whether its output is open.      *)
NoJob == [here |-> FALSE, looked |-> FALSE, took |-> FALSE, exited |-> FALSE,
          ok |-> FALSE, processed |-> FALSE, output |-> FALSE, age |-> 0]
NewJob == [NoJob EXCEPT !.here = TRUE, !.output = TRUE]

(* The longest an event may wait for its turn.                             *)
Bound == JobTimeout + Grace + IdleDelay

WorkerInit ==
  /\ queue \in 0..MaxQueue
  /\ finishing = FALSE /\ fifo = FALSE
  /\ pc = "turn" /\ stopping = FALSE
  /\ job = NoJob /\ periodic = "none"
  /\ nextJob = 0 /\ nextPeriodic = 0 /\ patience = 0
  /\ waiting = 0 /\ neglected = 0 /\ woken = FALSE

-----------------------------------------------------------------------------
(* The daemon and the handlers.                                            *)

(* A hook queues an event; not every event comes from this host's daemon.  *)
Queue(local) ==
  /\ queue < MaxQueue
  /\ local => ~finishing
  /\ queue' = queue + 1
  /\ finishing' = (finishing \/ local)
  /\ UNCHANGED <<fifo, worker, history>>

(* The completion of an on_movie_end hook: wake_event_worker, which does   *)
(* nothing when no worker has the FIFO open.                               *)
Wake ==
  /\ finishing
  /\ finishing' = FALSE
  /\ fifo' = (fifo \/ pc # "stopped")
  /\ UNCHANGED <<queue, worker, history>>

(* The handler takes an event, or there is none.                           *)
Look ==
  /\ job.here /\ ~job.looked /\ ~job.exited
  /\ job' = [job EXCEPT !.looked = TRUE, !.took = queue > 0]
  /\ queue' = Max({queue - 1, 0})
  /\ IF queue > 0
     THEN waiting' = 0 /\ neglected' = 0 /\ woken' = FALSE
     ELSE UNCHANGED history
  /\ UNCHANGED <<finishing, fifo, pc, stopping, periodic, nextJob, nextPeriodic, patience>>

(* It says that it has processed its event (_check_line), and it ends, of  *)
(* itself or by a signal.                                                  *)
Report ==
  /\ job.took /\ ~job.exited
  /\ job' = [job EXCEPT !.processed = TRUE]
  /\ UNCHANGED <<queue, finishing, fifo, pc, stopping, periodic, nextJob, nextPeriodic,
                 patience, history>>
JobExits(ok, output) ==
  /\ job.here /\ job.looked /\ ~job.exited
  /\ job' = [job EXCEPT !.exited = TRUE, !.ok = ok, !.output = output]
  /\ UNCHANGED <<queue, finishing, fifo, pc, stopping, periodic, nextJob, nextPeriodic,
                 patience, history>>
OutputCloses ==
  /\ job.exited /\ job.output
  /\ job' = [job EXCEPT !.output = FALSE]
  /\ UNCHANGED <<queue, finishing, fifo, pc, stopping, periodic, nextJob, nextPeriodic,
                 patience, history>>

PeriodicExits ==
  /\ periodic = "running"
  /\ periodic' = "exited"
  /\ UNCHANGED <<queue, finishing, fifo, pc, stopping, job, nextJob, nextPeriodic,
                 patience, history>>

(* SIGTERM or SIGINT; select is resumed.                                   *)
RequestStop ==
  /\ pc # "stopped"
  /\ stopping' = TRUE
  /\ UNCHANGED <<queue, finishing, fifo, pc, job, periodic, nextJob, nextPeriodic,
                 patience, history>>

-----------------------------------------------------------------------------
(* The loop.                                                               *)

(* JobProcess.poll, which is not None: the handler has exited and nobody   *)
(* holds its output.                                                       *)
Polled(j) == j.exited /\ ~j.output

(* JobProcess.timed_out                                                    *)
TimedOutLeader(j) == j.here /\ ~j.exited /\ j.age >= JobTimeout
TimedOut(j) == j.here /\ ~Polled(j) /\ j.age >= JobTimeout

(* The delay before the next check of the queue, after a check.            *)
DelayAfter(j) == IF j.ok /\ j.processed THEN 0 ELSE IdleDelay

(* The rest of a turn, with the job that is left: whatever has ended is    *)
(* collected and whatever is due is started.                               *)
Rest(left, delay) ==
  LET done == Polled(left)
      soon == IF periodic = "exited" THEN 0
              ELSE IF done THEN DelayAfter(left) ELSE delay
      idle == done \/ ~left.here
      free == periodic # "running"
      starts == free /\ nextPeriodic <= 0
  IN /\ periodic' = IF starts THEN "running" ELSE IF free THEN "none" ELSE periodic
     /\ nextPeriodic' = IF starts THEN PeriodicInterval ELSE nextPeriodic
     /\ job' = IF idle /\ soon <= 0 THEN NewJob ELSE IF idle THEN NoJob ELSE left
     /\ nextJob' = soon
     /\ pc' = "select"

Turn ==
  /\ pc = "turn" /\ ~stopping /\ ~TimedOut(job)
  /\ Rest(job, nextJob)
  /\ UNCHANGED <<queue, finishing, fifo, stopping, patience, history>>

(* A job beyond its time-out: its process group is asked to end and, after *)
(* the grace, killed.                                                      *)
Terminate ==
  /\ pc = "turn" /\ ~stopping /\ TimedOut(job)
  /\ pc' = "killing" /\ patience' = Grace
  /\ UNCHANGED <<queue, finishing, fifo, stopping, job, periodic, nextJob, nextPeriodic,
                 history>>
Gone == Polled(job) \/ patience = 0
Killed ==
  /\ pc = "killing" /\ Gone
  /\ Rest(NoJob, IF job.processed THEN 0 ELSE IdleDelay)
  /\ UNCHANGED <<queue, finishing, fifo, stopping, patience, history>>

(* select() returns, and a wake-up is read.                                *)
SelectDrains ==
  /\ pc = "select"
  /\ pc' = "turn"
  /\ fifo' = FALSE
  /\ UNCHANGED <<queue, finishing, stopping, job, periodic, nextJob, nextPeriodic, patience,
                 waiting, neglected>>
  /\ woken' = (woken \/ (fifo /\ queue > 0 /\ ~job.here))
Select ==
  /\ pc = "select"
  /\ pc' = "turn"
  /\ fifo' = FALSE
  /\ nextJob' = IF fifo THEN 0 ELSE nextJob
  /\ woken' = (woken \/ (fifo /\ queue > 0 /\ ~job.here))
  /\ UNCHANGED <<queue, finishing, stopping, job, periodic, nextPeriodic, patience,
                 waiting, neglected>>

(* finally: the job's process group is terminated, then the periodic       *)
(* handler; the FIFO is closed, and what is in it is lost.                 *)
Close ==
  /\ pc = "turn" /\ stopping
  /\ pc' = "closing" /\ patience' = Grace
  /\ UNCHANGED <<queue, finishing, fifo, stopping, job, periodic, nextJob, nextPeriodic,
                 history>>
JobClosed ==
  /\ pc = "closing" /\ (~job.here \/ Gone)
  /\ job' = NoJob
  /\ pc' = "ending" /\ patience' = Grace
  /\ UNCHANGED <<queue, finishing, fifo, stopping, periodic, nextJob, nextPeriodic, history>>
Stopped ==
  /\ pc = "ending" /\ (periodic # "running" \/ patience = 0)
  /\ periodic' = "none"
  /\ pc' = "stopped" /\ fifo' = FALSE
  /\ UNCHANGED <<queue, finishing, stopping, job, nextJob, nextPeriodic, patience, history>>

(* systemd starts it again: main, up to its loop.                          *)
Start ==
  /\ pc = "stopped"
  /\ pc' = "turn" /\ stopping' = FALSE
  /\ nextJob' = 0 /\ nextPeriodic' = 0 /\ patience' = 0
  /\ waiting' = 0 /\ neglected' = 0 /\ woken' = FALSE
  /\ UNCHANGED <<queue, finishing, fifo, job, periodic>>

-----------------------------------------------------------------------------
(* Time passes while select() has nothing to return for, which it has four *)
(* times a second while a handler runs, and during the grace.              *)
Due ==
  \/ fifo
  \/ IF job.here THEN Polled(job) \/ TimedOut(job) ELSE nextJob <= 0
  \/ periodic = "exited" \/ (periodic = "none" /\ nextPeriodic <= 0)
Tick ==
  /\ \/ pc = "select" /\ ~Due
     \/ pc = "killing" /\ ~Gone
     \/ pc = "closing" /\ job.here /\ ~Gone
     \/ pc = "ending" /\ periodic = "running" /\ patience > 0
  /\ job.here => job.looked
  /\ job' = IF job.here THEN [job EXCEPT !.age = Min({@ + 1, JobTimeout})] ELSE job
  /\ nextJob' = Max({nextJob - 1, 0})
  /\ nextPeriodic' = Max({nextPeriodic - 1, -Grace - 1})
  /\ patience' = Max({patience - 1, 0})
  /\ waiting' = IF queue > 0 THEN Min({waiting + 1, Bound + 1}) ELSE 0
  /\ neglected' = IF queue > 0 /\ ~job.here THEN Min({neglected + 1, IdleDelay + 1})
                  ELSE neglected
  /\ UNCHANGED <<queue, finishing, fifo, pc, stopping, periodic, woken>>

Handlers ==
  \/ Look \/ Report \/ OutputCloses \/ PeriodicExits
  \/ \E ok, output \in BOOLEAN : JobExits(ok, output)
Loop == Turn \/ Terminate \/ Killed \/ Select \/ Close \/ JobClosed \/ Stopped
WorkerNext ==
  \/ (\E local \in BOOLEAN : Queue(local)) \/ Wake \/ RequestStop \/ Start
  \/ Handlers \/ Loop \/ Tick

WorkerSpec == WorkerInit /\ [][WorkerNext]_workerVars

-----------------------------------------------------------------------------
(* "One stuck encoder cannot block the worker forever" and "a completed    *)
(* on_movie_end hook wakes an idle worker" (README): whatever handlers and *)
(* their descendants do, while the worker runs                             *)
(*  - an event waits no longer than one time-out with its grace and one    *)
(*    idle delay before the next is taken,                                 *)
(*  - not longer than the idle delay without a handler at work, and not at *)
(*    all once its wake-up was read by a worker without one,               *)
(*  - and the periodic handler is late by no more than a termination.      *)
Punctual ==
  ~stopping /\ pc # "stopped" =>
    /\ waiting <= Bound
    /\ neglected <= IdleDelay
    /\ woken /\ pc = "select" => job.here
    /\ periodic = "none" => nextPeriodic >= -Grace
=============================================================================
