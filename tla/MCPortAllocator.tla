-------------------------- MODULE MCPortAllocator --------------------------
(* The port pool for TLC: see the README for the bounds. *)
EXTENDS PortAllocator
=============================================================================
