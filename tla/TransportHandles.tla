-------------------------- MODULE TransportHandles --------------------------
(***************************************************************************)
(* What LTUDPManager and UTPManager share.  Both run streams over UDP      *)
(* sockets: a stream handle holds a reference (conn_) to the transport     *)
(* connection of its UDP port, which all handles of the port share.  A     *)
(* handle that is closed, from whatever thread, is put aside (addToKill)   *)
(* and killed on the reactor thread, after which the transport is kept for *)
(* a while so that the last packets get out.                               *)
(*                                                                         *)
(* The users of the handles are the workload: a sequence of binds, each of *)
(* a port and for connecting to a peer or for listening.                   *)
(***************************************************************************)
EXTENDS Integers, Sequences, FiniteSets, FiniteSetsExt, Functions, TLC

CONSTANTS
    Handles,    \* stream handles, numbers from 1
    Ports,      \* local UDP ports
    NoPort,
    Workloads,  \* [binds : Seq([use, port, peer]), share : BOOLEAN, peers : SUBSET Peers]
    Udp(_)      \* the UDP ports a peer's NAT gives it

(* A peer is [ip, id]: its address and the TCP or uTP port it connects     *)
(* from.  Several peers may be behind one NAT, with one ip.                *)

VARIABLES
    load,     \* the workload
    handles,  \* [Handles -> [at, use, port, peer, kill]]
    linger,   \* the transport that a posted onTransportConnectionKill holds
    heard     \* the UDP port a handle's peer was last heard from

handleVars == <<load, handles, linger, heard>>

NoPeer == [ip |-> "none", id |-> 0]

Unused == [at |-> "unused", use |-> "none", port |-> NoPort, peer |-> NoPeer, kill |-> "no"]

HandlesInit ==
    /\ load \in Workloads
    /\ handles = [h \in Handles |-> Unused]
    /\ linger = [h \in Handles |-> NoPort]
    /\ heard = [h \in Handles |-> 0]

-----------------------------------------------------------------------------
(* ConnectionInfo::conn, a weak pointer, still has its connection.         *)
Holds(h, p) == handles[h].port = p \/ linger[h] = p
Alive(p) == \E h \in Handles : Holds(h, p)

(* The transport that the handle had is gone.                              *)
canReuse(h) == handles[h].kill # "no" /\ ~Alive(load.binds[h].port)

(* The users: DMasterClient closes the handle of the probe and binds       *)
(* another one to its port at once (share); a rendezvous session binds the *)
(* port of its hello when the handle can be reused; the server and the     *)
(* sessions bind ports of their own.                                       *)
MayBind(h) ==
    /\ h <= Len(load.binds) /\ handles[h].at = "unused"
    /\ \A g \in 1..(h - 1) :
         /\ handles[g].at # "unused"
         /\ load.binds[g].port = load.binds[h].port =>
                IF load.share THEN handles[g].kill # "no" ELSE canReuse(g)

Bound(h) ==
    [Unused EXCEPT !.at = "bound", !.use = load.binds[h].use, !.port = load.binds[h].port]

(* Handles for what is accepted are numbered behind those of the users.    *)
Spare(h) == h > Len(load.binds) /\ handles[h].at = "unused"

(* Any thread closes a handle: addToKill.  Only a handle that connected to *)
(* the server is closed with "immediate" (DMasterSession).                 *)
close(h) ==
    /\ handles[h].at # "unused" /\ handles[h].kill = "no"
    /\ \E k \in {"close"} \cup (IF handles[h].use = "connect" THEN {"abort"} ELSE {}) :
         handles' = [handles EXCEPT ![h].kill = k]
    /\ UNCHANGED <<load, linger, heard>>

(* What a listener's callback does with the handle g of a new connection.  *)
(* A server keeps it.  A connector that waits for its rendezvous takes the *)
(* first one and lets go of the listener; a closed listener's callback is  *)
(* dropped, and with it the handle.                                        *)
Accepted(l, g, peer) ==
    LET new == [Unused EXCEPT !.at = "open", !.use = "accept", !.port = handles[l].port,
                              !.peer = peer]
    IN  IF handles[l].kill # "no"
        THEN [handles EXCEPT ![g] = [new EXCEPT !.kill = "close"]]
        ELSE [handles EXCEPT ![g] = new,
                             ![l].kill = IF handles[l].use = "rendezvous" THEN "close" ELSE "no"]

Doomed == {h \in Handles : handles[h].kill \in {"close", "abort"}}

(* Mutant of KilledHandles: the handle keeps its transport.                *)
KilledHandlesKeepConn(K) ==
    [h \in Handles |-> IF h \in K THEN [handles[h] EXCEPT !.kill = "done"] ELSE handles[h]]

(* The part of onKillHandles that is about the transport.                  *)
KilledHandles(K) ==
    [h \in Handles |-> IF h \in K THEN [handles[h] EXCEPT !.port = NoPort, !.kill = "done"]
                       ELSE handles[h]]
Lingering(K) == [h \in Handles |-> IF h \in K THEN handles[h].port ELSE linger[h]]

(* 250 ms or 1000 ms later.                                                *)
onTransportConnectionKill(h) ==
    /\ linger[h] # NoPort
    /\ linger' = [linger EXCEPT ![h] = NoPort]
    /\ UNCHANGED <<load, handles, heard>>

=============================================================================
