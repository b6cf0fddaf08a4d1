---------------------------- MODULE MCRendezvous ----------------------------
(***************************************************************************)
(* Two nodes and the server.  Either one node registers a connection or    *)
(* each node does, so that the connections cross.                          *)
(***************************************************************************)
EXTENDS Rendezvous, TLC

CONSTANTS n1, n2

MCMaxConnIdx == (n1 :> 1) @@ (n2 :> 1)

(* n1 registers a connection, everything else can happen to it.            *)
One == [registers |-> {<<n1, n1>>, <<n1, n2>>}, closes |-> {n1, n2}, fragile |-> {n1, n2},
        symmetric |-> SUBSET {n1, n2}]

(* Both register one.                                                      *)
Both == [registers |-> {<<n1, n2>>, <<n2, n1>>}, closes |-> {}, fragile |-> {},
         symmetric |-> {{}, {n1}, {n1, n2}}]

MCScenarios == {One, Both}
=============================================================================
