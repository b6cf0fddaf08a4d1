---------------------------- MODULE MCOpWatch ----------------------------
(* OpWatch for TLC: three threads close the watch.                         *)
EXTENDS OpWatch
=============================================================================
