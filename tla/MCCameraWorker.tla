---------------------------- MODULE MCCameraWorker ---------------------------
(***************************************************************************)
(* Instances of the camera worker: a topic that holds a state (Motion) and *)
(* an edge-triggered one (PeopleDetect); a camera with hard ONVIF          *)
(* lifetimes that records every frame of an event, and one with renewable  *)
(* leases, pictures and a mask that may fail.                              *)
(***************************************************************************)
EXTENDS CameraWorker

CONSTANTS motion, people

MCKeys == {motion, people}
MCHolding == {motion}

Legacy == [events |-> TRUE, movie |-> TRUE, picture |-> FALSE, allFrames |-> TRUE,
           renewable |-> FALSE, mask |-> FALSE, notices |-> 2,
           interrupts |-> 0]
Lease == [events |-> TRUE, movie |-> TRUE, picture |-> TRUE, allFrames |-> FALSE,
          renewable |-> TRUE, mask |-> TRUE, notices |-> 1,
          interrupts |-> 1]
MCCameras == {Legacy, Lease}
=============================================================================
