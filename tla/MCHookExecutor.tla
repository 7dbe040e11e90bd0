--------------------------- MODULE MCHookExecutor ---------------------------
(***************************************************************************)
(* The kinds of hook that camera threads submit (CameraWorker::hook):      *)
(* critical event hooks and coalescible snapshot hooks, serialized by      *)
(* camera.  CameraOf gives the camera of each of the two kinds: the same,  *)
(* so that events and snapshots compete for one serial key, or different   *)
(* ones, so that hooks run beside each other and fill the socket.          *)
(***************************************************************************)
EXTENDS HookExecutor

CONSTANTS event, snapshot, A, B

MCKinds == {event, snapshot}
MCCritical == {event}
TwoCameras == [k \in MCKinds |-> IF k = event THEN A ELSE B]
OneCamera == [k \in MCKinds |-> A]
MCCoalesceKey == [k \in MCKinds |-> IF k = snapshot THEN A ELSE NoKey]
=============================================================================
