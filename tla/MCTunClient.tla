--------------------------- MODULE MCTunClient ---------------------------
(* TunClient for TLC: buffers of one or two bytes.                         *)
EXTENDS TunClient
=============================================================================
