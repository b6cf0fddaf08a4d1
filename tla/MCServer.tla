------------------------------ MODULE MCServer ------------------------------
(* The rendezvous server with a few nodes, for TLC. *)
EXTENDS Server, TLC

Symmetry == Permutations(Nodes) \cup Permutations(Sessions)
=============================================================================
