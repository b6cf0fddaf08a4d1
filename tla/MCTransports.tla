---------------------------- MODULE MCTransports ----------------------------
(***************************************************************************)
(* The ways in which DTun uses handles: the probe of two servers from one  *)
(* UDP port, the two ends of a rendezvous on the port of the hello, a      *)
(* server with two clients behind one NAT, and a node with a session to    *)
(* the server on one port that waits for a peer on another.                *)
(***************************************************************************)
EXTENDS Transports

Master == [ip |-> "master", id |-> 7]
Prober == [ip |-> "prober", id |-> 7]
Node1 == [ip |-> "node", id |-> 7]
Node2 == [ip |-> "node", id |-> 8]

(* The NAT of Node1 may change its port.                                   *)
MCUdp(peer) == IF peer = Node1 THEN {11, 12} ELSE {20 + peer.id}

Use(use, peer) == [use |-> use, port |-> "port", peer |-> peer]
UseOther(use, peer) == [use |-> use, port |-> "other", peer |-> peer]

Probe == [binds |-> <<Use("connect", Prober), Use("connect", Master)>>, share |-> TRUE,
          peers |-> {Prober, Master}]
RendezvousConn == [binds |-> <<Use("connect", Master), Use("connect", Node1)>>, share |-> FALSE,
                   peers |-> {Master, Node1}]
RendezvousAcc == [binds |-> <<Use("connect", Master), Use("rendezvous", NoPeer)>>,
                  share |-> FALSE, peers |-> {Master, Node1}]
Service == [binds |-> <<Use("listen", NoPeer)>>, share |-> FALSE, peers |-> {Node1, Node2}]
Node == [binds |-> <<Use("connect", Master), UseOther("rendezvous", NoPeer)>>,
         share |-> FALSE, peers |-> {Master, Node2}]

MCWorkloads == {Probe, RendezvousConn, RendezvousAcc, Service, Node}

=============================================================================
