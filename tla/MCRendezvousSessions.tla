----------------------- MODULE MCRendezvousSessions -----------------------
(* RendezvousSessions for TLC: the TTLs and the number of steps of the     *)
(* code for the Fast sessions, small windows and few sockets for the Symm  *)
(* ones.                                                                   *)
EXTENDS RendezvousSessions
=============================================================================
