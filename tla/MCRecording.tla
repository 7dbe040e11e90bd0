---------------------------- MODULE MCRecording -----------------------------
(***************************************************************************)
(* The cameras of Recording's instance: some whose transport is detected,  *)
(* one whose clock jumps, one with a clock of its own (Baichuan), one that *)
(* a browser watches while only keyframes are decoded, one that reorders   *)
(* its frames and whose movies are encoded again, two that record the      *)
(* moving frames only on a disk that fails, copied or, from damaged        *)
(* packets, encoded again, and one that sends bursts and long groups of    *)
(* pictures.                                                               *)
(***************************************************************************)
EXTENDS Recording

LOCAL Steady ==
  [transport |-> "direct", url |-> "rtsp", userpass |-> TRUE,
   idle |-> "all", dynamic |-> FALSE, delay |-> 0, interval |-> 0, damaged |-> FALSE,
   allFrames |-> TRUE, codec |-> "copy", faults |-> FALSE,
   gaps |-> {1}, steps |-> {1}, packets |-> 5, events |-> 1]

JumpingClock == [Steady EXCEPT !.gaps = {1, 4}, !.steps = {-3, 1, 3, NoStamp},
                               !.packets = 4]
Automatic(url, userpass) ==
  [Steady EXCEPT !.transport = "auto", !.url = url, !.userpass = userpass,
                 !.gaps = {1, 4}, !.packets = 3]
OwnClock == [Steady EXCEPT !.transport = "baichuan", !.gaps = {0, 1, 4}]
Watched == [Steady EXCEPT !.idle = "keyframes", !.dynamic = TRUE, !.delay = 1,
                          !.damaged = TRUE]
Reordering == [Steady EXCEPT !.delay = 2, !.interval = 2, !.codec = "h264",
                             !.steps = {1, -4}]
Failing == [Steady EXCEPT !.allFrames = FALSE, !.faults = TRUE, !.packets = 6, !.events = 2]
FailingEncoder == [Failing EXCEPT !.codec = "h264", !.delay = 1, !.damaged = TRUE,
                                   !.packets = 5]
Long == [Steady EXCEPT !.gaps = {0, 1, 2}, !.packets = 6]

MCCameras ==
  {JumpingClock, OwnClock, Watched, Reordering, Failing, FailingEncoder, Long}
    \union {Automatic(url, userpass) : url \in {"onvif", "http", "rtsp"}, userpass \in BOOLEAN}
=============================================================================
