---------------------------- MODULE MCTimelapse -----------------------------
(***************************************************************************)
(* Two cameras of one template for Timelapse.                              *)
(***************************************************************************)
EXTENDS Timelapse
=============================================================================
