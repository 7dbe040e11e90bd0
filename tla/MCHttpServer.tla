---------------------------- MODULE MCHttpServer ----------------------------
(***************************************************************************)
(* The load of the HTTP server: three connections for JPEGs at a server    *)
(* with room for two, or one that watches an MP4 stream.                   *)
(***************************************************************************)
EXTENDS HttpServer

CONSTANTS c1, c2, c3

AllClients == {c1, c2, c3}
Jpegs == [clients |-> AllClients, routes |-> {Mjpeg, Still}, versions |-> 2]
OneJpeg == [Jpegs EXCEPT !.clients = {c1}]
Mp4s == [clients |-> {c1}, routes |-> {Video, Timelapse}, versions |-> 3]
AllLoads == {Jpegs, Mp4s}
JpegLoad == {OneJpeg}
=============================================================================
