---------------------------- MODULE HookExecutor ----------------------------
(***************************************************************************)
(* The hook executor (src/src/hooks.cpp): camera threads submit hooks to   *)
(* two bounded queues; one worker thread hands them to a separate          *)
(* supervisor process over a SOCK_SEQPACKET pair, receives what became of  *)
(* them, expires deadlines, restarts a lost supervisor and calls the       *)
(* completions; the supervisor forks the hook processes and reaps them.    *)
(*                                                                         *)
(* Hook j is the j-th submission, so the order of submission is the order  *)
(* of the numbers.  An argument vector, an exit status and an errno are    *)
(* abstracted; a hook may run for ever and may ignore SIGTERM.             *)
(***************************************************************************)
EXTENDS Integers, Sequences, FiniteSets, SequencesExt

CONSTANTS
  MaxJobs,        (* bound on the number of submissions                    *)
  Kinds,          (* the kinds of hook that are submitted                  *)
  Critical,       (* the kinds submitted with HookPriority::critical       *)
  SerialKey,      (* HookSubmitOptions::serial_key of each kind            *)
  CoalesceKey,    (* HookSubmitOptions::coalesce_key of each kind          *)
  NoKey,          (* the empty key                                         *)
  MaxPending,     (* HookExecutorOptions::max_pending                      *)
  MaxConcurrent,  (* HookExecutorOptions::max_concurrent                   *)
  SocketCap,      (* messages a direction of the socket pair holds         *)
  MaxCrashes      (* bound on crashes, of the supervisor or the program    *)

ASSUME OptionsAssumption ==
  /\ MaxJobs \in Nat
  /\ MaxPending \in Nat \ {0}
  /\ MaxConcurrent \in Nat \ {0}
  /\ SocketCap \in Nat \ {0}
  /\ MaxCrashes \in Nat
  /\ Critical \subseteq Kinds

VARIABLES
  kind,           (* kind[j]: the kind of the j-th submission              *)
  criticalJobs,   (* critical_jobs_                                        *)
  normalJobs,     (* jobs_                                                 *)
  child,          (* children_: the stage of each hook in that table       *)
  late,           (* children whose present deadline has passed            *)
  owed,           (* completions_: entries waiting for each hook           *)
  calls,          (* how often each hook's completion was called           *)
  unanswered,     (* hooks whose completion was destroyed uncalled         *)
  counters,       (* completed_, dropped_ and coalesced_                   *)
  stopping,       (* stopping_                                             *)
  failed,         (* supervisor_failed_                                    *)
  socketOpen,     (* supervisor_socket_ >= 0                               *)
  pc,             (* where the worker thread is in run()                   *)
  supervisor,     (* the supervisor process supervisor_pid_ stands for     *)
  kids,           (* the supervisor's table of forked hooks                *)
  outbox,         (* the response the supervisor is about to send          *)
  requests,       (* socket: worker to supervisor                          *)
  responses,      (* socket: supervisor to worker                          *)
  proc,           (* the process of each hook                              *)
  crashes         (* crashes so far                                        *)

queueVars == <<kind, criticalJobs, normalJobs>>
tableVars == <<child, late>>
resultVars == <<owed, calls, unanswered, counters>>
supervisorVars == <<supervisor, kids, outbox>>
socketVars == <<socketOpen, requests, responses>>
vars == <<queueVars, tableVars, resultVars, stopping, failed, pc,
          supervisorVars, socketVars, proc, crashes>>

Jobs == 1..MaxJobs

(* pid < 0; pid > 0; SIGTERM sent (timed_out); SIGKILL sent (sent_kill).   *)
Stages == {"launching", "running", "terminating", "killing"}

(* No process; before prctl and the getppid test; PDEATHSIG armed; leader  *)
(* of its own session, running the hook; exited or killed.                 *)
ProcStates == {"none", "forked", "armed", "leader", "dead"}

(* Gone: no process, reaped.  Draining: its stopping flag is set.  Killed: *)
(* SIGKILL sent by fail_supervisor.  Zombie: exited, not reaped.           *)
SupervisorStates == {"up", "draining", "killed", "zombie", "gone"}

WorkerSteps == {"waiting", "launch", "receive", "expire", "calling",
                "stop_supervisor", "reap_supervisor", "joined", "dead"}

Launched == "launched"
Finished == "finished"
Stop == 0             (* the request_stop message; a launch carries its hook *)
Responses == [type : {Launched, Finished}, job : Jobs]

Children == {j \in Jobs : child[j] # "none"}
Pending == ToSet(criticalJobs) \union ToSet(normalJobs)
PendingCount == Len(criticalJobs) + Len(normalJobs)

(* The worker holds mutex_ from its wake-up to the completions.            *)
MutexFree == pc \notin {"launch", "receive", "expire", "dead"}

SupervisorAlive == supervisor \in {"up", "draining"}
-----------------------------------------------------------------------------
(* Helpers                                                                 *)

(* The index, if any, of the first hook of q that is in S.                 *)
First(q, S) ==
  {i \in DOMAIN q : q[i] \in S /\ \A h \in 1..(i - 1) : q[h] \notin S}

SameSerialKey(i, j) ==
  /\ SerialKey[kind[i]] = SerialKey[kind[j]]
  /\ SerialKey[kind[i]] # NoKey

(* Mutant: a critical hook is launched beside a running one of its key.    *)
RunnableIfCritical ==
  {j \in 1..Len(kind) : kind[j] \in Critical \/ \A c \in Children : ~SameSerialKey(c, j)}

Runnable == {j \in 1..Len(kind) : \A c \in Children : ~SameSerialKey(c, j)}

(* pop_next_job: the choice, empty or a singleton, and the queues after it. *)
NextJob ==
  LET critical == First(criticalJobs, Runnable)
      normal == First(normalJobs, Runnable)
  IN IF critical # {}
     THEN {[job |-> criticalJobs[i], critical |-> RemoveAt(criticalJobs, i),
            normal |-> normalJobs] : i \in critical}
     ELSE {[job |-> normalJobs[i], critical |-> criticalJobs,
            normal |-> RemoveAt(normalJobs, i)] : i \in normal}

(* complete_job and finish: each hook of S is counted and its completion   *)
(* is put on completions_.                                                 *)
Owe(S) == owed' = [j \in Jobs |-> IF j \in S THEN owed[j] + 1 ELSE owed[j]]

Count(completed, dropped, coalesced) ==
  counters' = [completed |-> counters.completed + completed,
               dropped |-> counters.dropped + dropped,
               coalesced |-> counters.coalesced + coalesced]

(* Mutant: the hooks do not ask for PDEATHSIG.                             *)
OrphansSurvive(p) == p

(* The supervisor process is gone: the kernel sends PDEATHSIG to the hooks *)
(* that armed it.  A hook still before its prctl finds another parent.     *)
OrphansAfter(p) ==
  [j \in Jobs |-> IF j \in kids /\ p[j] \in {"armed", "leader"} THEN "dead" ELSE p[j]]

(* kill(-pid, SIGKILL): reaches the hook once it leads its own group.      *)
KillGroups(S) ==
  [j \in Jobs |-> IF j \in S /\ proc[j] = "leader" THEN "dead" ELSE proc[j]]
-----------------------------------------------------------------------------
(* The submitting threads                                                  *)

(* coalesce_pending finds this waiting hook to replace: at most one, in    *)
(* critical_jobs_ if there is one there.                                   *)
Superseded(k) ==
  LET same == {j \in 1..Len(kind) : CoalesceKey[kind[j]] = CoalesceKey[k]}
      critical == First(criticalJobs, same)
  IN IF CoalesceKey[k] = NoKey THEN {}
     ELSE IF critical # {} THEN {criticalJobs[i] : i \in critical}
     ELSE {normalJobs[i] : i \in First(normalJobs, same)}

(* evict_coalescible_job finds this waiting hook to drop.                  *)
Evictable ==
  LET coalescible == {j \in 1..Len(kind) : CoalesceKey[kind[j]] # NoKey}
  IN {normalJobs[i] : i \in First(normalJobs, coalescible)}

(* Mutant: the hook found is answered but not erased from its queue.       *)
QueueNotErased(q, S) == q

QueueWithout(q, S) ==
  LET found == First(q, S)
  IN IF found = {} THEN q ELSE RemoveAt(q, CHOOSE i \in found : TRUE)

(* The new hook enters the queue of its priority; the hooks of out leave.  *)
Enqueue(k, out) ==
  LET j == Len(kind) + 1
      critical == QueueWithout(criticalJobs, out)
      normal == QueueWithout(normalJobs, out)
  IN /\ kind' = Append(kind, k)
     /\ IF k \in Critical
        THEN /\ criticalJobs' = Append(critical, j)
             /\ normalJobs' = normal
        ELSE /\ criticalJobs' = critical
             /\ normalJobs' = Append(normal, j)
     /\ Owe(out)
     /\ UNCHANGED <<calls, unanswered>>

(* submit() counts the hook and returns false: its completion is destroyed. *)
Refuse(k) ==
  /\ kind' = Append(kind, k)
  /\ unanswered' = unanswered \union {Len(kind) + 1}
  /\ Count(0, 1, 0)
  /\ UNCHANGED <<criticalJobs, normalJobs, owed, calls>>

HasRoom == PendingCount < MaxPending

(* HookExecutor::submit.                                                   *)
Submit(k) ==
  /\ MutexFree
  /\ Len(kind) < MaxJobs
  /\ IF stopping THEN Refuse(k)
     ELSE IF Superseded(k) # {} THEN Enqueue(k, Superseded(k)) /\ Count(0, 0, 1)
     ELSE IF HasRoom THEN Enqueue(k, {}) /\ Count(0, 0, 0)
     ELSE IF k \in Critical /\ Evictable # {} THEN Enqueue(k, Evictable) /\ Count(0, 1, 0)
     ELSE Refuse(k)
  /\ UNCHANGED <<tableVars, stopping, failed, pc, supervisorVars, socketVars, proc, crashes>>

(* The critical section of HookExecutor::stop: waiting hooks are dropped,  *)
(* running ones get SIGTERM.  Its join is "pc = joined".                   *)
RequestStop ==
  LET running == {j \in Jobs : child[j] = "running"}
  IN /\ MutexFree
     /\ ~stopping
     /\ stopping' = TRUE
     /\ Count(0, PendingCount, 0)
     /\ unanswered' = unanswered \union Pending
     /\ criticalJobs' = <<>>
     /\ normalJobs' = <<>>
     /\ child' = [j \in Jobs |-> IF j \in running THEN "terminating" ELSE child[j]]
     /\ late' = late \ running
     /\ UNCHANGED <<kind, owed, calls, failed, pc, supervisorVars, socketVars, proc, crashes>>
-----------------------------------------------------------------------------
(* The worker thread                                                       *)

(* Mutant: the hook whose launch failed is forgotten.                      *)
ChildrenOnly(S) == Children

FailedHooks(S) == S \union Children

(* fail_supervisor, and the hooks of S completed with it: every child is   *)
(* finished with a failure, the groups with a known pid are killed, the    *)
(* supervisor is killed, or reaped if it is dead already.                  *)
FailSupervisor(S) ==
  /\ failed' = TRUE
  /\ socketOpen' = FALSE
  /\ requests' = <<>>
  /\ responses' = <<>>
  /\ supervisor' = IF supervisor = "zombie" THEN "gone" ELSE "killed"
  /\ child' = [j \in Jobs |-> "none"]
  /\ late' = {}
  /\ Owe(FailedHooks(S))
  /\ Count(Cardinality(FailedHooks(S)), 0, 0)
  /\ proc' = KillGroups({j \in Jobs : child[j] \in Stages \ {"launching"}})
  /\ UNCHANGED <<kids, outbox, calls, unanswered>>

(* The worker wakes up, at a notification or after 25 ms.  It restarts     *)
(* only a supervisor it has reaped; restart_delay may not have passed and  *)
(* the spawn may fail, so it may also go on without one.                   *)
(* Mutant: the restart does not wait until the old supervisor is reaped.   *)
MayRestartEarly == ~stopping /\ failed /\ ~(supervisor \in {"up", "draining"})

MayRestart == ~stopping /\ failed /\ supervisor = "gone"

RestartSupervisor ==
  /\ pc = "waiting"
  /\ MayRestart
  /\ supervisor' = "up"
  /\ kids' = {}
  /\ outbox' = {}
  /\ socketOpen' = TRUE
  /\ requests' = <<>>
  /\ responses' = <<>>
  /\ failed' = FALSE
  /\ pc' = "launch"
  /\ UNCHANGED <<queueVars, tableVars, resultVars, stopping, proc, crashes>>

Wake ==
  /\ pc = "waiting"
  /\ pc' = "launch"
  /\ UNCHANGED <<queueVars, tableVars, resultVars, stopping, failed, supervisorVars,
                 socketVars, proc, crashes>>

MayLaunch ==
  /\ pc = "launch"
  /\ ~stopping
  /\ ~failed
  /\ Cardinality(Children) < MaxConcurrent

(* launch(): the request fits in the socket.                               *)
LaunchSent ==
  /\ MayLaunch
  /\ SupervisorAlive
  /\ Len(requests) < SocketCap
  /\ \E next \in NextJob :
       /\ criticalJobs' = next.critical
       /\ normalJobs' = next.normal
       /\ requests' = Append(requests, next.job)
       /\ child' = [child EXCEPT ![next.job] = "launching"]
  /\ UNCHANGED <<kind, late, resultVars, stopping, failed, pc, supervisorVars,
                 socketOpen, responses, proc, crashes>>

(* launch(): EAGAIN.  The hook returns to the front of its queue and the   *)
(* launch loop ends.                                                       *)
(* Mutant: push_back.                                                      *)
RequeueBehind(next) ==
  IF kind[next.job] \in Critical
  THEN /\ criticalJobs' = Append(next.critical, next.job)
       /\ normalJobs' = next.normal
  ELSE /\ criticalJobs' = next.critical
       /\ normalJobs' = Append(next.normal, next.job)

Requeue(next) ==
  IF kind[next.job] \in Critical
  THEN /\ criticalJobs' = <<next.job>> \o next.critical
       /\ normalJobs' = next.normal
  ELSE /\ criticalJobs' = next.critical
       /\ normalJobs' = <<next.job>> \o next.normal

LaunchBackpressure ==
  /\ MayLaunch
  /\ SupervisorAlive
  /\ Len(requests) >= SocketCap
  /\ \E next \in NextJob : Requeue(next)
  /\ pc' = "receive"
  /\ UNCHANGED <<kind, tableVars, resultVars, stopping, failed, supervisorVars,
                 socketVars, proc, crashes>>

(* launch(): E2BIG.  The hook is completed without a process.              *)
LaunchTooLarge ==
  /\ MayLaunch
  /\ \E next \in NextJob :
       /\ criticalJobs' = next.critical
       /\ normalJobs' = next.normal
       /\ Owe({next.job})
  /\ Count(1, 0, 0)
  /\ UNCHANGED <<kind, tableVars, calls, unanswered, stopping, failed, pc, supervisorVars,
                 socketVars, proc, crashes>>

(* launch(): EPIPE.  The hook is completed and the supervisor is failed.   *)
LaunchBroken ==
  /\ MayLaunch
  /\ supervisor = "zombie"
  /\ \E next \in NextJob :
       /\ criticalJobs' = next.critical
       /\ normalJobs' = next.normal
       /\ FailSupervisor({next.job})
  /\ UNCHANGED <<kind, stopping, pc, crashes>>

LaunchDone ==
  /\ pc = "launch"
  /\ ~(MayLaunch /\ NextJob # {})
  /\ pc' = "receive"
  /\ UNCHANGED <<queueVars, tableVars, resultVars, stopping, failed, supervisorVars,
                 socketVars, proc, crashes>>

(* A peer that exits with requests unread resets the connection, and the   *)
(* error is reported before the responses that wait.                       *)
ConnectionReset == supervisor = "zombie" /\ requests # <<>>

(* receive_supervisor_results, one response.                               *)
ReceiveResponse ==
  /\ pc = "receive"
  /\ socketOpen
  /\ responses # <<>>
  /\ ~ConnectionReset
  /\ responses' = Tail(responses)
  /\ LET r == Head(responses)
     IN IF child[r.job] = "none" THEN UNCHANGED <<tableVars, resultVars>>
        ELSE IF r.type = Launched
        THEN /\ child' = [child EXCEPT ![r.job] = "running"]
             /\ late' = late \ {r.job}
             /\ UNCHANGED resultVars
        ELSE /\ child' = [child EXCEPT ![r.job] = "none"]
             /\ late' = late \ {r.job}
             /\ Owe({r.job})
             /\ Count(1, 0, 0)
             /\ UNCHANGED <<calls, unanswered>>
  /\ UNCHANGED <<queueVars, stopping, failed, pc, supervisorVars, socketOpen, requests,
                 proc, crashes>>

(* The end of the stream, or an error.                                     *)
(* Mutant: the end of the stream is taken for an empty socket.             *)
PeerError == ConnectionReset

PeerClosed == supervisor = "zombie" /\ (responses = <<>> \/ ConnectionReset)

(* receive_supervisor_results: EAGAIN, or no socket.  A failed supervisor  *)
(* is then reaped if it has died.                                          *)
ReceiveDone ==
  /\ pc = "receive"
  /\ socketOpen => responses = <<>> /\ ~PeerClosed
  /\ supervisor' = IF failed /\ supervisor = "zombie" THEN "gone" ELSE supervisor
  /\ pc' = "expire"
  /\ UNCHANGED <<queueVars, tableVars, resultVars, stopping, failed, kids, outbox,
                 socketVars, proc, crashes>>

(* receive_supervisor_results fails the supervisor.                        *)
ReceiveFailure ==
  /\ pc = "receive"
  /\ socketOpen
  /\ PeerClosed
  /\ FailSupervisor({})
  /\ pc' = "expire"
  /\ UNCHANGED <<queueVars, stopping, crashes>>

(* reap_and_expire: supervisor_response_timeout.                           *)
ResponseTimeout(j) ==
  /\ pc = "expire"
  /\ child[j] = "launching"
  /\ j \in late
  /\ FailSupervisor({})
  /\ UNCHANGED <<queueVars, stopping, pc, crashes>>

(* reap_and_expire: SIGTERM, which the hook may ignore.                    *)
MustTerminate(j) == child[j] = "running" /\ (stopping \/ j \in late)

Terminate(j) ==
  /\ pc = "expire"
  /\ MustTerminate(j)
  /\ child' = [child EXCEPT ![j] = "terminating"]
  /\ late' = late \ {j}
  /\ UNCHANGED <<queueVars, resultVars, stopping, failed, pc, supervisorVars,
                 socketVars, proc, crashes>>

(* reap_and_expire: SIGKILL after terminate_grace.                         *)
(* Mutant: no escalation to SIGKILL once stop() has sent SIGTERM.          *)
MustKillUnlessStopping(j) == child[j] = "terminating" /\ j \in late /\ ~stopping

MustKill(j) == child[j] = "terminating" /\ j \in late

ForceKill(j) ==
  /\ pc = "expire"
  /\ MustKill(j)
  /\ child' = [child EXCEPT ![j] = "killing"]
  /\ proc' = KillGroups({j})
  /\ late' = late \ {j}
  /\ UNCHANGED <<queueVars, resultVars, stopping, failed, pc, supervisorVars,
                 socketVars, crashes>>

(* Every deadline is handled, or the last completion has returned and the  *)
(* worker holds mutex_ again.                                              *)
CompletionsTurn ==
  \/ pc = "calling"
  \/ /\ pc = "expire"
     /\ \A j \in Jobs : ~MustTerminate(j) /\ ~MustKill(j)
     /\ \A j \in late : child[j] # "launching"

(* run(): a completion is taken from completions_, mutex_ is released and  *)
(* the completion called.  The order of completions_ is abstracted.        *)
CallCompletion(j) ==
  /\ CompletionsTurn
  /\ owed[j] > 0
  /\ owed' = [owed EXCEPT ![j] = @ - 1]
  /\ calls' = [calls EXCEPT ![j] = @ + 1]
  /\ pc' = "calling"
  /\ UNCHANGED <<queueVars, tableVars, unanswered, counters, stopping, failed,
                 supervisorVars, socketVars, proc, crashes>>

Idle == PendingCount = 0 /\ Children = {}

(* run(): no completion is left.  The worker leaves its loop when it is    *)
(* idle and stopping, and waits for a wake-up or 25 ms otherwise.          *)
CompletionsDone ==
  /\ CompletionsTurn
  /\ \A j \in Jobs : owed[j] = 0
  /\ pc' = IF Idle /\ stopping THEN "stop_supervisor" ELSE "waiting"
  /\ UNCHANGED <<queueVars, tableVars, resultVars, stopping, failed, supervisorVars,
                 socketVars, proc, crashes>>

(* stop_supervisor: the stop request is sent if it fits, and the socket is *)
(* closed; then waitpid blocks until the supervisor has exited.            *)
StopSupervisor ==
  /\ pc = "stop_supervisor"
  /\ requests' = IF socketOpen /\ SupervisorAlive /\ Len(requests) < SocketCap
                 THEN Append(requests, Stop) ELSE requests
  /\ socketOpen' = FALSE
  /\ pc' = "reap_supervisor"
  /\ UNCHANGED <<queueVars, tableVars, resultVars, stopping, failed, supervisorVars,
                 responses, proc, crashes>>

(* Mutant: stop() does not wait for a supervisor it has sent SIGKILL.      *)
SupervisorDoomed == supervisor \in {"killed", "zombie", "gone"}

SupervisorExited == supervisor \in {"zombie", "gone"}

ReapSupervisor ==
  /\ pc = "reap_supervisor"
  /\ SupervisorExited
  /\ supervisor' = "gone"
  /\ pc' = "joined"
  /\ UNCHANGED <<queueVars, tableVars, resultVars, stopping, failed, kids, outbox,
                 socketVars, proc, crashes>>

Worker ==
  \/ RestartSupervisor \/ Wake
  \/ LaunchSent \/ LaunchBackpressure \/ LaunchTooLarge \/ LaunchBroken \/ LaunchDone
  \/ ReceiveResponse \/ ReceiveDone \/ ReceiveFailure
  \/ \E j \in Jobs : ResponseTimeout(j) \/ Terminate(j) \/ ForceKill(j) \/ CallCompletion(j)
  \/ CompletionsDone
  \/ StopSupervisor \/ ReapSupervisor

(* A steady-clock deadline of a child passes: the response timeout, the    *)
(* run timeout or the grace period, by its stage.  terminate_grace is      *)
(* taken to cover the time a forked hook needs to reach its setsid.        *)
DeadlinePasses(j) ==
  /\ pc # "dead"
  /\ child[j] \in {"launching", "running", "terminating"}
  /\ j \notin late
  /\ child[j] = "terminating" => proc[j] \notin {"forked", "armed"}
  /\ late' = late \union {j}
  /\ UNCHANGED <<queueVars, child, resultVars, stopping, failed, pc, supervisorVars,
                 socketVars, proc, crashes>>
-----------------------------------------------------------------------------
(* The supervisor process                                                  *)

Respond(type, j) == outbox' = {[type |-> type, job |-> j]}

(* recv, pipe2 and fork: the hook is forked and "launched" is due, or one  *)
(* of the calls fails and "finished" is due.  Draining, a launch is        *)
(* ignored.                                                                *)
SupervisorReceive ==
  /\ SupervisorAlive
  /\ outbox = {}
  /\ requests # <<>>
  /\ requests' = Tail(requests)
  /\ LET j == Head(requests)
     IN \/ /\ j = Stop
           /\ supervisor' = "draining"
           /\ UNCHANGED <<kids, outbox, proc>>
        \/ /\ j # Stop
           /\ supervisor = "draining"
           /\ UNCHANGED <<supervisor, kids, outbox, proc>>
        \/ /\ j # Stop
           /\ supervisor = "up"
           /\ proc' = [proc EXCEPT ![j] = "forked"]
           /\ kids' = kids \union {j}
           /\ Respond(Launched, j)
           /\ UNCHANGED supervisor
        \/ /\ j # Stop
           /\ supervisor = "up"
           /\ Respond(Finished, j)
           /\ UNCHANGED <<supervisor, kids, proc>>
  /\ UNCHANGED <<queueVars, tableVars, resultVars, stopping, failed, pc, socketOpen,
                 responses, crashes>>

(* recv returns 0, or ECONNRESET when responses were left unread.          *)
SupervisorHangup ==
  /\ supervisor = "up"
  /\ outbox = {}
  /\ ~socketOpen
  /\ requests = <<>> \/ responses # <<>>
  /\ supervisor' = "draining"
  /\ UNCHANGED <<queueVars, tableVars, resultVars, stopping, failed, pc, kids, outbox,
                 socketVars, proc, crashes>>

(* send_response: blocks while the socket is full, fails when it is closed. *)
SupervisorSend ==
  /\ SupervisorAlive
  /\ outbox # {}
  /\ outbox' = {}
  /\ \/ /\ socketOpen
        /\ Len(responses) < SocketCap
        /\ \E r \in outbox : responses' = Append(responses, r)
        /\ UNCHANGED supervisor
     \/ /\ ~socketOpen
        /\ supervisor' = "draining"
        /\ UNCHANGED responses
  /\ UNCHANGED <<queueVars, tableVars, resultVars, stopping, failed, pc, kids,
                 socketOpen, requests, proc, crashes>>

(* waitpid returns a hook, whose "finished" is due.                        *)
SupervisorReap(j) ==
  /\ SupervisorAlive
  /\ outbox = {}
  /\ j \in kids
  /\ proc[j] = "dead"
  /\ kids' = kids \ {j}
  /\ Respond(Finished, j)
  /\ UNCHANGED <<queueVars, tableVars, resultVars, stopping, failed, pc, supervisor,
                 socketVars, proc, crashes>>

(* Draining, each turn of the loop kills the groups that are left.         *)
SupervisorKill(j) ==
  /\ supervisor = "draining"
  /\ outbox = {}
  /\ j \in kids
  /\ proc[j] = "leader"
  /\ proc' = KillGroups({j})
  /\ UNCHANGED <<queueVars, tableVars, resultVars, stopping, failed, pc, supervisorVars,
                 socketVars, crashes>>

(* The loop ends when it is stopping and no child is left.                 *)
MayExit == supervisor = "draining" /\ outbox = {} /\ kids = {}

SupervisorExit ==
  /\ MayExit
  /\ supervisor' = "zombie"
  /\ proc' = OrphansAfter(proc)
  /\ kids' = {}
  /\ UNCHANGED <<queueVars, tableVars, resultVars, stopping, failed, pc, outbox,
                 socketVars, crashes>>

SupervisorProcess ==
  \/ SupervisorReceive \/ SupervisorHangup \/ SupervisorSend \/ SupervisorExit
  \/ \E j \in Jobs : SupervisorReap(j) \/ SupervisorKill(j)
-----------------------------------------------------------------------------
(* The kernel and the hook processes                                       *)

Die ==
  /\ supervisor' = "zombie"
  /\ proc' = OrphansAfter(proc)
  /\ kids' = {}
  /\ outbox' = {}
  /\ UNCHANGED <<queueVars, tableVars, resultVars, stopping, failed, pc, socketVars>>

(* The SIGKILL of fail_supervisor takes effect.                            *)
SupervisorKilled == supervisor = "killed" /\ Die /\ UNCHANGED crashes

(* The supervisor is killed from outside, or crashes.                      *)
SupervisorCrash ==
  /\ SupervisorAlive
  /\ crashes < MaxCrashes
  /\ crashes' = crashes + 1
  /\ Die

(* The whole program is killed, or crashes: its end of the socket is       *)
(* closed, the supervisor and the hooks are left to themselves.            *)
ProgramDies ==
  /\ pc \notin {"joined", "dead"}
  /\ crashes < MaxCrashes
  /\ crashes' = crashes + 1
  /\ pc' = "dead"
  /\ socketOpen' = FALSE
  /\ UNCHANGED <<queueVars, tableVars, resultVars, stopping, failed, supervisorVars,
                 requests, responses, proc>>

(* prctl(PR_SET_PDEATHSIG), then exit if getppid is another process.       *)
HookArms(j) ==
  /\ proc[j] = "forked"
  /\ proc' = [proc EXCEPT ![j] = IF j \in kids THEN "armed" ELSE "dead"]
  /\ UNCHANGED <<queueVars, tableVars, resultVars, stopping, failed, pc, supervisorVars,
                 socketVars, crashes>>

(* setsid and execvp.                                                      *)
HookStarts(j) ==
  /\ proc[j] = "armed"
  /\ proc' = [proc EXCEPT ![j] = "leader"]
  /\ UNCHANGED <<queueVars, tableVars, resultVars, stopping, failed, pc, supervisorVars,
                 socketVars, crashes>>

(* The hook ends by itself, by SIGTERM, or because execvp failed.          *)
HookExits(j) ==
  /\ proc[j] = "leader"
  /\ proc' = [proc EXCEPT ![j] = "dead"]
  /\ UNCHANGED <<queueVars, tableVars, resultVars, stopping, failed, pc, supervisorVars,
                 socketVars, crashes>>

Environment ==
  \/ SupervisorKilled \/ SupervisorCrash \/ ProgramDies
  \/ \E j \in Jobs : HookArms(j) \/ HookStarts(j) \/ HookExits(j) \/ DeadlinePasses(j)
-----------------------------------------------------------------------------
(* The constructor has started the supervisor and the worker thread.       *)
Init ==
  /\ kind = <<>>
  /\ criticalJobs = <<>>
  /\ normalJobs = <<>>
  /\ child = [j \in Jobs |-> "none"]
  /\ late = {}
  /\ owed = [j \in Jobs |-> 0]
  /\ calls = [j \in Jobs |-> 0]
  /\ unanswered = {}
  /\ counters = [completed |-> 0, dropped |-> 0, coalesced |-> 0]
  /\ stopping = FALSE
  /\ failed = FALSE
  /\ socketOpen = TRUE
  /\ pc = "waiting"
  /\ supervisor = "up"
  /\ kids = {}
  /\ outbox = {}
  /\ requests = <<>>
  /\ responses = <<>>
  /\ proc = [j \in Jobs |-> "none"]
  /\ crashes = 0

(* After stop() has joined the worker nothing more needs to happen.        *)
Done == pc \in {"joined", "dead"} /\ UNCHANGED vars

Next ==
  \/ \E k \in Kinds : Submit(k)
  \/ RequestStop
  \/ Worker
  \/ SupervisorProcess
  \/ Environment
  \/ Done

Spec == Init /\ [][Next]_vars

(* Both processes and the kernel keep running, a respawn succeeds in the   *)
(* end, a deadline passes; a hook need not end, nobody need call stop.     *)
Fairness ==
  /\ WF_vars(Worker)
  /\ SF_vars(RestartSupervisor)
  /\ WF_vars(SupervisorReceive)
  /\ WF_vars(SupervisorHangup)
  /\ WF_vars(SupervisorSend)
  /\ WF_vars(SupervisorExit)
  /\ WF_vars(SupervisorKilled)
  /\ \A j \in Jobs : /\ WF_vars(SupervisorReap(j))
                     /\ WF_vars(SupervisorKill(j))
                     /\ WF_vars(HookArms(j))
                     /\ WF_vars(HookStarts(j))
                     /\ WF_vars(DeadlinePasses(j))

FairSpec == Spec /\ Fairness
-----------------------------------------------------------------------------
(* Properties                                                              *)

(* Types and sizes: the queues stay within max_pending whatever mix of     *)
(* coalescing, eviction and requeueing happens, and the children within    *)
(* max_concurrent.                                                         *)
TypeOK ==
  /\ kind \in Seq(Kinds) /\ Len(kind) <= MaxJobs
  /\ criticalJobs \in Seq(Jobs)
  /\ normalJobs \in Seq(Jobs)
  /\ PendingCount <= MaxPending
  /\ child \in [Jobs -> Stages \union {"none"}]
  /\ Cardinality(Children) <= MaxConcurrent
  /\ late \subseteq Children
  /\ owed \in [Jobs -> Nat]
  /\ calls \in [Jobs -> Nat]
  /\ unanswered \subseteq Jobs
  /\ counters \in [completed : Nat, dropped : Nat, coalesced : Nat]
  /\ stopping \in BOOLEAN
  /\ failed \in BOOLEAN
  /\ socketOpen \in BOOLEAN
  /\ pc \in WorkerSteps
  /\ supervisor \in SupervisorStates
  /\ kids \subseteq Jobs
  /\ outbox \subseteq Responses
  /\ requests \in Seq(Jobs \union {Stop})
  /\ responses \in Seq(Responses)
  /\ proc \in [Jobs -> ProcStates]
  /\ crashes \in 0..MaxCrashes

(* The counters of status() account for every submission: whatever path a  *)
(* hook leaves by, submitted = pending + running + completed + dropped +   *)
(* coalesced.                                                              *)
Conservation ==
  Len(kind) = PendingCount + Cardinality(Children)
              + counters.completed + counters.dropped + counters.coalesced

(* A hook that has left the queues and the table of children was either    *)
(* refused or dropped by stop(), and its completion is never called, or    *)
(* its completion is called exactly once: never lost when the supervisor   *)
(* fails, never repeated when a late response arrives after a failure.     *)
AnsweredOnce ==
  \A j \in Jobs :
    owed[j] + calls[j] =
      IF j \in (1..Len(kind)) \ (Pending \union Children \union unanswered) THEN 1 ELSE 0

(* "Jobs with the same non-empty key never overlap" (hooks.hpp): not only  *)
(* in the table but as processes, across supervisor crashes, lost          *)
(* responses and restarts.                                                 *)
SerialProcesses ==
  \A i, j \in 1..Len(kind) :
    i # j /\ SameSerialKey(i, j) => ~(proc[i] = "leader" /\ proc[j] = "leader")

(* The critical hooks of one serial key (one camera) start in the order of *)
(* their submission: when a later one has a process no earlier one waits,  *)
(* although the launch loop skips blocked hooks and backpressure puts a    *)
(* popped hook back.                                                       *)
StartOrder ==
  \A i, j \in 1..Len(kind) :
    /\ i < j
    /\ {kind[i], kind[j]} \subseteq Critical
    /\ SameSerialKey(i, j)
    /\ proc[j] # "none" \/ j \in Children
    => i \notin Pending

(* When stop() has returned no hook process runs or will ever run.         *)
StopLeavesNoHook ==
  pc = "joined" => \A j \in Jobs : /\ proc[j] \notin {"armed", "leader"}
                                   /\ j \in kids => proc[j] # "forked"

(* stop() returns, even if the hooks ignore SIGTERM and never end.         *)
StopTerminates == stopping ~> pc \in {"joined", "dead"}

(* No hook outlives the program: when the program dies without stop(), the *)
(* supervisor notices its end of the socket, or is dead already, and every *)
(* hook is ended, one that was being forked at that moment included.       *)
HooksDieWithProgram == pc = "dead" ~> [](\A j \in Jobs : proc[j] \in {"none", "dead"})

(* Every accepted hook has its completion called, or stop() comes first:   *)
(* crashes, hung hooks and full sockets delay it but never lose it.        *)
AcceptedIsAnswered ==
  \A j \in Jobs : j <= Len(kind) ~> calls[j] = 1 \/ j \in unanswered \/ stopping \/ pc = "dead"

(* The executor keeps the contract its submitters rely on.                 *)
Contract == INSTANCE HookContract WITH
  status <- [j \in Jobs |-> IF j > Len(kind) THEN "new"
                            ELSE IF j \in Pending THEN "pending"
                            ELSE IF j \in Children THEN "running"
                            ELSE IF j \in unanswered THEN "unanswered" ELSE "settled"],
  heard <- {j \in Jobs : calls[j] > 0},
  closed <- stopping

KeepsContract == Contract!Spec
=============================================================================
