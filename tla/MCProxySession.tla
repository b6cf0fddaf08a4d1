-------------------------- MODULE MCProxySession --------------------------
(* ProxySession for TLC: a ring that is no multiple of a chunk.            *)
EXTENDS ProxySession
=============================================================================
