--------------------------- MODULE MCApplication ---------------------------
(***************************************************************************)
(* Instances of the application: a file that is first good, then replaced  *)
(* by one with another camera, by one without a server, or by a bad one.   *)
(***************************************************************************)
EXTENDS Application

CONSTANTS a, b, good, other, silent, bad, r1

MCCameras == {a, b}
MCVersions == {good, other, silent, bad}
MCValid == {good, other, silent}
MCCamerasOf ==
  [v \in MCVersions |-> IF v = good THEN {a, b} ELSE IF v = bad THEN {} ELSE {a}]
MCWithServer == {good, other}
MCClients == {r1}
=============================================================================
