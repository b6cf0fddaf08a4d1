--------------------------- MODULE MCMTUDiscovery ---------------------------
(* MTUDiscovery for TLC with the bounds of UTPManager, for every path MTU  *)
(* in the interval and some around it.                                     *)
EXTENDS MTUDiscovery

MCPaths == 1000..1500
=============================================================================
