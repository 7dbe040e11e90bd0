------------------------- MODULE OnvifStateTracker -------------------------
(***************************************************************************)
(* The states that ONVIF notifications assert (OnvifStateTracker,          *)
(* src/src/runtime_util.hpp) as operators on a tracker                     *)
(*    [since |-> active_since_, expired |-> expired_]                      *)
(* where since gives the time each active key was asserted.  A camera's    *)
(* mode is fixed: renewable leases (onvif_state_ttl > 0) or, in legacy     *)
(* mode, a hard lifetime (onvif_state_timeout).                            *)
(***************************************************************************)
EXTENDS Integers, Functions

CONSTANTS
  Keys,           (* keys of notifications: topic, source and key items    *)
  StateTimeout    (* onvif_state_ttl, or onvif_state_timeout               *)

ASSUME TrackerAssumption == StateTimeout \in Nat \ {0}

NoStates == [since |-> <<>>, expired |-> {}]

HasState(t) == DOMAIN t.since # {}

(* Keys are removed, put with the new time, or put unless they are there.  *)
Without(since, ks) == Restrict(since, DOMAIN since \ ks)
Renewed(since, k, now) ==
  [x \in DOMAIN since \cup {k} |-> IF x = k THEN now ELSE since[x]]
Asserted(since, k, now) ==
  [x \in DOMAIN since \cup {k} |-> IF x \in DOMAIN since THEN since[x] ELSE now]

(* What update returns: an assertion of an expired key is suppressed.      *)
Accepts(t, k, active, renewable) == ~active \/ renewable \/ k \notin t.expired

(* OnvifStateTracker::update.  A renewal moves the time of the assertion,  *)
(* a repetition in legacy mode (try_emplace) does not.                     *)
UpdatedAsRenewal(t, k, active, now, renewable) ==
  IF ~active THEN [since |-> Without(t.since, {k}), expired |-> t.expired \ {k}]
  ELSE IF ~Accepts(t, k, active, renewable) THEN t
  ELSE [since |-> Renewed(t.since, k, now), expired |-> t.expired \ {k}]
Updated(t, k, active, now, renewable) ==
  IF ~active THEN [since |-> Without(t.since, {k}), expired |-> t.expired \ {k}]
  ELSE IF renewable THEN [since |-> Renewed(t.since, k, now), expired |-> t.expired \ {k}]
  ELSE IF ~Accepts(t, k, active, renewable) THEN t
  ELSE [since |-> Asserted(t.since, k, now), expired |-> t.expired]

Stale(t, now) == {k \in DOMAIN t.since : now - t.since[k] >= StateTimeout}

(* OnvifStateTracker::expire                                               *)
ExpiredAnew(t, now, renewable) ==
  [since   |-> Without(t.since, Stale(t, now)),
   expired |-> IF renewable THEN t.expired ELSE Stale(t, now)]
Expired(t, now, renewable) ==
  [since   |-> Without(t.since, Stale(t, now)),
   expired |-> IF renewable THEN t.expired ELSE t.expired \cup Stale(t, now)]
=============================================================================
