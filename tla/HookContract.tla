---------------------------- MODULE HookContract ----------------------------
(***************************************************************************)
(* What the hook executor promises to the threads that submit hooks,       *)
(* without the supervisor process, the sockets or the deadlines: the life  *)
(* of one hook from its submission to the call of its completion, as the   *)
(* comments of HookSubmitOptions and of HookExecutor::submit describe it.  *)
(* HookExecutor is shown to implement this module.                         *)
(***************************************************************************)
EXTENDS Naturals, Sequences, FiniteSets

CONSTANTS
  MaxJobs,        (* bound on the number of submissions                    *)
  Kinds,          (* the kinds of hook that are submitted                  *)
  Critical,       (* the kinds submitted with HookPriority::critical       *)
  SerialKey,      (* HookSubmitOptions::serial_key of each kind            *)
  CoalesceKey,    (* HookSubmitOptions::coalesce_key of each kind          *)
  NoKey,          (* the empty key                                         *)
  MaxPending,     (* HookExecutorOptions::max_pending                      *)
  MaxConcurrent   (* HookExecutorOptions::max_concurrent                   *)

VARIABLES
  kind,           (* kind[j]: the kind of the j-th submission              *)
  status,         (* where hook j is in its life                           *)
  heard,          (* hooks whose completion was called                     *)
  closed          (* stop() was called                                     *)

vars == <<kind, status, heard, closed>>

Jobs == 1..MaxJobs

Having(s) == {j \in Jobs : status[j] = s}

SameSerialKey(i, j) ==
  /\ SerialKey[kind[i]] = SerialKey[kind[j]]
  /\ SerialKey[kind[i]] # NoKey

Init ==
  /\ kind = <<>>
  /\ status = [j \in Jobs |-> "new"]
  /\ heard = {}
  /\ closed = FALSE

(* submit() returns true; at most one coalescible waiting hook makes room. *)
Accept(k, out) ==
  /\ Len(kind) < MaxJobs
  /\ ~closed
  /\ out \subseteq Having("pending")
  /\ \A v \in out : out = {v} /\ CoalesceKey[kind[v]] # NoKey
  /\ Cardinality(Having("pending") \ out) < MaxPending
  /\ kind' = Append(kind, k)
  /\ status' = [j \in Jobs |-> IF j = Len(kind) + 1 THEN "pending"
                               ELSE IF j \in out THEN "settled" ELSE status[j]]
  /\ UNCHANGED <<heard, closed>>

(* submit() returns false. *)
Refuse(k) ==
  /\ Len(kind) < MaxJobs
  /\ kind' = Append(kind, k)
  /\ status' = [status EXCEPT ![Len(kind) + 1] = "unanswered"]
  /\ UNCHANGED <<heard, closed>>

(* A waiting hook starts: never beside another of its serial key, and a    *)
(* critical one never before an earlier critical one of its serial key.    *)
Start(j) ==
  /\ status[j] = "pending"
  /\ ~closed
  /\ Cardinality(Having("running")) < MaxConcurrent
  /\ \A i \in Having("running") : ~SameSerialKey(i, j)
  /\ kind[j] \in Critical =>
       \A i \in Having("pending") :
         i < j /\ kind[i] \in Critical => ~SameSerialKey(i, j)
  /\ status' = [status EXCEPT ![j] = "running"]
  /\ UNCHANGED <<kind, heard, closed>>

(* Hooks end: some that ran, or one that could not be launched.            *)
Settle(done) ==
  /\ done # {}
  /\ done \subseteq Having("running") \union Having("pending")
  /\ Cardinality(done \intersect Having("pending")) <= 1
  /\ status' = [j \in Jobs |-> IF j \in done THEN "settled" ELSE status[j]]
  /\ UNCHANGED <<kind, heard, closed>>

(* stop() forgets everything that has not started.                         *)
Close ==
  /\ ~closed
  /\ closed' = TRUE
  /\ status' = [j \in Jobs |-> IF status[j] = "pending" THEN "unanswered" ELSE status[j]]
  /\ UNCHANGED <<kind, heard>>

(* The completion of a settled hook is called, once.                       *)
Hear(j) ==
  /\ status[j] = "settled"
  /\ j \notin heard
  /\ heard' = heard \union {j}
  /\ UNCHANGED <<kind, status, closed>>

Next ==
  \/ \E k \in Kinds : Refuse(k) \/ \E out \in SUBSET Jobs : Accept(k, out)
  \/ \E j \in Jobs : Start(j) \/ Hear(j)
  \/ \E done \in SUBSET Jobs : Settle(done)
  \/ Close

Spec == Init /\ [][Next]_vars
=============================================================================
