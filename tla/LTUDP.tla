------------------------------- MODULE LTUDP -------------------------------
(***************************************************************************)
(* LTUDPManager and its handles: TCP connections of lwIP (pcbs) over UDP   *)
(* sockets.  lwIP knows a pcb by its TCP ports and the peer's address; the *)
(* manager maps them to and from UDP ports.  The local TCP port of a pcb   *)
(* leads to its UDP port (localPortMap_) and so to the routes of the UDP   *)
(* port's transport (connCache_).  A transport that listens routes by the  *)
(* peer's TCP port, one that connects by numbers of its own (out ports),   *)
(* since the peer's TCP port is not known before it answers, and then back *)
(* (revPortMap).  A peer's UDP port may change at any time, with its NAT.  *)
(*                                                                         *)
(* lwIP is as the manager sees it: it demultiplexes segments, may fail a   *)
(* pcb at any time, and goes on for a while with a pcb that was closed.    *)
(***************************************************************************)
EXTENDS TransportHandles

CONSTANTS
    TcpPorts,  \* local TCP ports of lwIP, numbers
    OutPorts   \* out ports, numbers (from 0x400)

VARIABLES
    pcb,            \* [Handles -> pcb]: the pcb of a handle, see NewPcb
    connCache_,     \* UDP port -> ConnectionInfo
    localPortMap_,  \* TCP port -> UDP port
    leaks           \* [Ports -> Nat]: handles that were bound and never unbound

ltudpVars == <<pcb, connCache_, localPortMap_, leaks>>
vars == <<load, handles, linger, heard, pcb, connCache_, localPortMap_, leaks>>

(* A pcb is "listen", "syn" (connecting), "half" (being accepted), "est"   *)
(* or "closing".  It is the handle's (pcb_) until the handle is killed or  *)
(* the pcb fails, from then on lwIP's alone.  remote is pcbRemoteIp_ # 0;  *)
(* stale, that its UDP port was given another transport since.             *)
NoPcb ==
    [state |-> "none", own |-> FALSE, lport |-> 0, ip |-> "none", rport |-> 0,
     remote |-> FALSE, stale |-> FALSE]

NewInfo == [isAcceptor |-> FALSE, numHandles |-> 0, acceptorLocalPort |-> 0, peers |-> <<>>]
NewPeerInfo == [portMap |-> <<>>, revPortMap |-> <<>>]

Init ==
    /\ HandlesInit
    /\ pcb = [h \in Handles |-> NoPcb]
    /\ connCache_ = <<>> /\ localPortMap_ = <<>>
    /\ leaks = [p \in Ports |-> 0]

Put(f, k, v) == (k :> v) @@ f
Erase(f, S) == Restrict(f, DOMAIN f \ S)
First(S) == IF S = {} THEN {} ELSE {Min(S)}

-----------------------------------------------------------------------------
(* Routes.                                                                 *)

peerInfo(info, ip) == IF ip \in DOMAIN info.peers THEN info.peers[ip] ELSE NewPeerInfo

(* An entry whose last connection is gone forgets the peer's TCP port.     *)
pcbConnect(info, ip, port) ==
    LET pi == peerInfo(info, ip)
        known == {o \in DOMAIN pi.portMap : pi.portMap[o].port = port}
        out == Min(IF known # {} THEN known ELSE OutPorts \ DOMAIN pi.portMap)
        active == IF known # {} THEN pi.portMap[out].numActiveConns ELSE 0
        old == {t \in DOMAIN pi.revPortMap : active = 0 /\ pi.revPortMap[t] = out}
    IN  [out |-> out,
         info |-> [info EXCEPT !.peers = Put(@, ip,
            [portMap |-> Put(pi.portMap, out, [port |-> port, numActiveConns |-> active + 1]),
             revPortMap |-> Erase(pi.revPortMap, First(old))])]]

(* Mutant of Released: a handle that fails is disconnected only.           *)
ReleasedStillBound(cache, K) ==
    LET of(p) == {h \in K : pcb[h].own /\ localPortMap_[pcb[h].lport] = p}
    IN  [p \in DOMAIN cache |->
           [cache[p] EXCEPT
              !.peers = [ip \in DOMAIN @ |-> [@[ip] EXCEPT !.portMap =
                  [o \in DOMAIN @ |-> [@[o] EXCEPT !.numActiveConns =
                      @ - Cardinality({h \in of(p) :
                              pcb[h].remote /\ pcb[h].ip = ip /\ pcb[h].rport = o})]]]]]]

(* pcbDisconnect and pcbUnbind for the pcbs of the handles K.              *)
Released(cache, K) ==
    LET of(p) == {h \in K : pcb[h].own /\ localPortMap_[pcb[h].lport] = p}
    IN  [p \in DOMAIN cache |->
           [cache[p] EXCEPT
              !.numHandles = @ - Cardinality(of(p)),
              !.peers = [ip \in DOMAIN @ |-> [@[ip] EXCEPT !.portMap =
                  [o \in DOMAIN @ |-> [@[o] EXCEPT !.numActiveConns =
                      @ - Cardinality({h \in of(p) :
                              pcb[h].remote /\ pcb[h].ip = ip /\ pcb[h].rport = o})]]]]]]

(* A datagram of a peer that came from UDP port u: the routes after it and *)
(* the TCP port that lwIP gets to see; 0 if it is dropped.  A UDP port     *)
(* that another peer had before is taken from it.                          *)
routeIn(info, peer, u) ==
    LET pi == peerInfo(info, peer.ip)
        outs == {o \in DOMAIN pi.portMap : pi.portMap[o].port = u}
        rev == IF peer.id \in DOMAIN pi.revPortMap THEN pi.revPortMap
               ELSE IF outs = {} THEN <<>>
               ELSE Put(pi.revPortMap, peer.id, Min(outs))
        out == rev[peer.id]
        taken == IF pi.portMap[out].port = u THEN {} ELSE First(outs)
    IN  IF info.isAcceptor
        THEN [src |-> peer.id,
              info |-> [info EXCEPT !.peers = Put(@, peer.ip,
                 [pi EXCEPT !.portMap = Put(@, peer.id, [port |-> u, numActiveConns |-> 0])])]]
        ELSE IF rev = <<>> THEN [src |-> 0, info |-> info]
        ELSE [src |-> out,
              info |-> [info EXCEPT !.peers = Put(@, peer.ip,
                 [portMap |-> Erase([pi.portMap EXCEPT ![out].port = u], taken),
                  revPortMap |-> Erase(rev, First({t \in DOMAIN rev : rev[t] \in taken}))])]]

(* The UDP port a segment of a pcb is sent to, actualPort.                 *)
Dropped == -1
netifOutputFunc(c) ==
    LET p == localPortMap_[c.lport]
    IN  IF p \notin DOMAIN connCache_ \/ ~Alive(p) THEN Dropped
        ELSE LET pi == peerInfo(connCache_[p], c.ip)
             IN  IF c.rport \in DOMAIN pi.portMap THEN pi.portMap[c.rport].port ELSE 0

-----------------------------------------------------------------------------
(* Binding, connecting and listening.                                      *)

(* createTransportConnectionInternal, in any thread.                       *)
bind(h) ==
    LET p == load.binds[h].port
    IN  /\ MayBind(h)
        /\ handles' = [handles EXCEPT ![h] = Bound(h)]
        /\ IF Alive(p) THEN UNCHANGED <<pcb, connCache_, leaks>>
           ELSE /\ connCache_' = Put(connCache_, p, NewInfo)
                /\ pcb' = [g \in Handles |-> [pcb[g] EXCEPT
                              !.stale = @ \/ (pcb[g].lport # 0 /\ localPortMap_[pcb[g].lport] = p)]]
                /\ leaks' = [leaks EXCEPT ![p] = 0]
        /\ UNCHANGED <<load, linger, heard, localPortMap_>>

(* lwIP chooses a TCP port that no pcb has.                                *)
FreeTcpPorts == TcpPorts \ {pcb[h].lport : h \in Handles}

pcbBindConnector(info) ==
    [info EXCEPT !.isAcceptor = FALSE, !.acceptorLocalPort = 0, !.numHandles = @ + 1,
                 !.peers = IF info.isAcceptor THEN <<>> ELSE @]

pcbBindAcceptor(info, lport) ==
    [info EXCEPT !.isAcceptor = TRUE, !.acceptorLocalPort = lport, !.numHandles = @ + 1,
                 !.peers = IF info.isAcceptor THEN @ ELSE <<>>]

Starts(h) == handles[h].at = "bound" /\ handles[h].kill = "no"

Fails(h) == handles' = [handles EXCEPT ![h].at = "failed"]

(* LTUDPConnector::onStartConnect.  lwIP may have no memory for the pcb,   *)
(* the address may not be resolved any more (then the handle stays         *)
(* counted), tcp_connect may fail.                                         *)
onStartConnect(h) ==
    LET p == handles[h].port
        peer == load.binds[h].peer
    IN  /\ Starts(h) /\ handles[h].use = "connect"
        /\ \/ Fails(h) /\ UNCHANGED <<heard, pcb, connCache_, localPortMap_, leaks>>
           \/ \E lport \in FreeTcpPorts, u \in Udp(peer) :
                LET bound == pcbBindConnector(connCache_[p])
                    c == pcbConnect(bound, peer.ip, u)
                IN  /\ localPortMap_' = Put(localPortMap_, lport, p)
                    /\ \/ /\ Fails(h)
                          /\ connCache_' = [connCache_ EXCEPT ![p] = bound]
                          /\ leaks' = [leaks EXCEPT ![p] = @ + 1]
                          /\ UNCHANGED <<heard, pcb>>
                       \/ /\ Fails(h)
                          /\ connCache_' = [connCache_ EXCEPT ![p] = [c.info EXCEPT
                                !.numHandles = @ - 1,
                                !.peers[peer.ip].portMap[c.out].numActiveConns = @ - 1]]
                          /\ UNCHANGED <<heard, pcb, leaks>>
                       \/ /\ handles' = [handles EXCEPT ![h].at = "connecting", ![h].peer = peer]
                          /\ connCache_' = [connCache_ EXCEPT ![p] = c.info]
                          /\ pcb' = [pcb EXCEPT ![h] = [NoPcb EXCEPT
                                !.state = "syn", !.own = TRUE, !.lport = lport, !.ip = peer.ip,
                                !.rport = c.out, !.remote = TRUE]]
                          /\ heard' = [heard EXCEPT ![h] = u]
                          /\ UNCHANGED leaks
        /\ UNCHANGED <<load, linger>>

(* LTUDPAcceptor::onStartListen, LTUDPConnector::onStartConnect of an end  *)
(* that waits for its rendezvous.  lwIP may fail; nobody is told.          *)
onStartListen(h) ==
    LET p == handles[h].port
        info == connCache_[p]
    IN  /\ Starts(h) /\ handles[h].use # "connect"
        /\ \/ Fails(h) /\ UNCHANGED <<pcb, connCache_, localPortMap_>>
           \/ \E lport \in IF info.numHandles > 0 THEN {info.acceptorLocalPort} ELSE FreeTcpPorts :
                LET bound == pcbBindAcceptor(info, lport)
                IN  /\ localPortMap_' = Put(localPortMap_, lport, p)
                    /\ \/ /\ Fails(h)
                          /\ connCache_' = [connCache_ EXCEPT ![p] =
                                [bound EXCEPT !.numHandles = @ - 1]]
                          /\ UNCHANGED pcb
                       \/ /\ connCache_' = [connCache_ EXCEPT ![p] = bound]
                          /\ pcb' = [pcb EXCEPT ![h] = [NoPcb EXCEPT
                                !.state = "listen", !.own = TRUE, !.lport = lport]]
                          /\ handles' = [handles EXCEPT ![h].at = "listening"]
        /\ UNCHANGED <<load, linger, heard, leaks>>

-----------------------------------------------------------------------------
(* Segments and failures.                                                  *)

(* The pcb that lwIP finds for a segment, or the listener.                 *)
Matches(lport, ip, rport) ==
    {h \in Handles : /\ pcb[h].state \notin {"none", "listen"}
                     /\ pcb[h].lport = lport /\ pcb[h].ip = ip /\ pcb[h].rport = rport}
Listeners(lport) == {h \in Handles : pcb[h].state = "listen" /\ pcb[h].lport = lport}

(* errorFunc of the pcbs of the handles F.                                 *)
Failed(F) ==
    handles' = [h \in Handles |-> IF h \in F THEN [handles[h] EXCEPT !.at = "failed"]
                                  ELSE handles[h]]

(* listenerAcceptFunc and createStreamSocket(conn, pcb).                   *)
accept(cache, l, g, peer) ==
    /\ handles' = Accepted(l, g, peer)
    /\ pcb' = [pcb EXCEPT ![g].state = "est", ![g].own = TRUE]
    /\ connCache_' = [cache EXCEPT ![localPortMap_[pcb[g].lport]].numHandles = @ + 1]

(* What lwIP does with a segment for the pcb of h.                         *)
Segment(cache, h, peer) ==
    \/ UNCHANGED <<handles, pcb>> /\ connCache_' = cache
    \/ /\ pcb[h].state = "syn" /\ connCache_' = cache
       /\ pcb' = [pcb EXCEPT ![h].state = "est"]
       /\ handles' = [handles EXCEPT ![h].at = "open"]
    \/ /\ pcb[h].own /\ Failed({h})
       /\ pcb' = [pcb EXCEPT ![h] = NoPcb]
       /\ connCache_' = Released(cache, {h})
    \/ /\ ~pcb[h].own /\ (pcb[h].state = "half" => Listeners(pcb[h].lport) = {})
       /\ pcb' = [pcb EXCEPT ![h] = NoPcb]
       /\ UNCHANGED handles /\ connCache_' = cache
    \/ /\ pcb[h].state = "half"
       /\ \E l \in Listeners(pcb[h].lport) : accept(cache, l, h, peer)

(* A datagram of a peer arrives on p, on time or late.  It is meant for    *)
(* some pcb that p had; a listening transport passes all to its listener.  *)
onRecv(p, peer, u) ==
    LET r == routeIn(connCache_[p], peer, u)
        cache == [connCache_ EXCEPT ![p] = r.info]
        known == IF connCache_[p].isAcceptor THEN {connCache_[p].acceptorLocalPort}
                 ELSE {lport \in DOMAIN localPortMap_ : localPortMap_[lport] = p}
    IN  /\ r.src # 0
        /\ \E dst \in known :
             \/ \E h \in Matches(dst, peer.ip, r.src) : Segment(cache, h, peer)
             \/ /\ Matches(dst, peer.ip, r.src) = {}
                /\ connCache_' = cache /\ UNCHANGED handles
                /\ \/ UNCHANGED pcb
                   \/ /\ Listeners(dst) # {}
                      /\ \E g \in First({h \in Handles : Spare(h) /\ pcb[h].state = "none"}) :
                           pcb' = [pcb EXCEPT ![g] = [NoPcb EXCEPT
                              !.state = "half", !.lport = dst, !.ip = peer.ip, !.rport = r.src]]
        /\ heard' = [h \in Handles |-> IF handles'[h].port = p /\ handles'[h].peer = peer THEN u
                                       ELSE heard[h]]
        /\ UNCHANGED <<load, linger, localPortMap_, leaks>>

(* lwIP's timers give up on some pcbs, and every fourth time the           *)
(* transports that are gone are removed from the cache.                    *)
onTcpTimeout ==
    /\ \E F \in SUBSET {h \in Handles : pcb[h].state # "none" /\ pcb[h].state # "listen"} :
         /\ Failed({h \in F : pcb[h].own})
         /\ pcb' = [h \in Handles |-> IF h \in F THEN NoPcb ELSE pcb[h]]
         /\ LET cache == Released(connCache_, F)
            IN  \/ connCache_' = cache
               \/ connCache_' = Restrict(cache, {p \in DOMAIN cache : Alive(p)})
    /\ UNCHANGED <<load, linger, heard, localPortMap_, leaks>>

(* A connection that is closed goes on until the peer has all, unless      *)
(* there is data that nobody read; the others are gone at once.            *)
onKillHandles ==
    /\ Doomed # {}
    /\ handles' = KilledHandles(Doomed) /\ linger' = Lingering(Doomed)
    /\ connCache_' = Released(connCache_, Doomed)
    /\ \E closing \in SUBSET {h \in Doomed : pcb[h].state = "est" /\ handles[h].kill = "close"} :
         pcb' = [h \in Handles |->
                   IF h \in closing THEN [pcb[h] EXCEPT !.state = "closing", !.own = FALSE]
                   ELSE IF h \in Doomed /\ pcb[h].own THEN NoPcb ELSE pcb[h]]
    /\ UNCHANGED <<load, heard, localPortMap_, leaks>>

Reclaim ==
    \/ onKillHandles
    \/ (\E h \in Handles : onTransportConnectionKill(h)) /\ UNCHANGED ltudpVars

Next ==
    \/ \E h \in Handles : bind(h) \/ onStartConnect(h) \/ onStartListen(h)
    \/ \E p \in DOMAIN connCache_, peer \in load.peers : \E u \in Udp(peer) :
         Alive(p) /\ onRecv(p, peer, u)
    \/ onTcpTimeout
    \/ (\E h \in Handles : close(h)) /\ UNCHANGED ltudpVars
    \/ Reclaim

Spec == Init /\ [][Next]_vars

-----------------------------------------------------------------------------
(* The counters of a transport are exact, so that none of the asserts on   *)
(* them fails (185, 222, 325, 340) and no transport is used to listen and  *)
(* to connect at a time: whatever fails, is closed, killed or accepted in  *)
(* whatever order, numHandles counts the pcbs that handles have on it,     *)
(* numActiveConns those of each route, and the local TCP port of each      *)
(* leads back to the transport.                                            *)
CountsExact ==
    /\ \A h \in Handles : pcb[h].own =>
         LET p == handles[h].port
         IN  /\ p \in DOMAIN connCache_ /\ localPortMap_[pcb[h].lport] = p
             /\ connCache_[p].isAcceptor <=> ~pcb[h].remote
             /\ connCache_[p].isAcceptor => connCache_[p].acceptorLocalPort = pcb[h].lport
    /\ \A p \in DOMAIN connCache_ :
         LET info == connCache_[p]
             on == {h \in Handles : pcb[h].own /\ handles[h].port = p}
         IN  /\ info.numHandles = Cardinality(on) + leaks[p]
             /\ \A ip \in DOMAIN info.peers : \A o \in DOMAIN info.peers[ip].portMap :
                  info.peers[ip].portMap[o].numActiveConns =
                     Cardinality({h \in on : pcb[h].remote /\ pcb[h].ip = ip /\ pcb[h].rport = o})
    /\ \A h \in Handles : Starts(h) =>
         LET info == connCache_[handles[h].port]
         IN  info.numHandles = 0 \/ (info.isAcceptor <=> handles[h].use # "connect")

(* What a connection sends goes to the UDP port its peer was last heard    *)
(* from, across changes of the port, failures and closes of others, and    *)
(* never to another peer; what lwIP still sends for a closed one goes to   *)
(* its peer or nowhere, as long as its UDP port has no new transport.      *)
SentToPeer ==
    \A h \in Handles :
      LET c == pcb[h]
          peer == IF handles[h].peer = NoPeer THEN [ip |-> c.ip, id |-> c.rport]
                  ELSE handles[h].peer
      IN  /\ c.own /\ c.state # "listen" => netifOutputFunc(c) = heard[h]
          /\ c.state \in {"half", "closing"} /\ ~c.stale =>
                netifOutputFunc(c) \in {Dropped} \cup Udp(peer)

(* "assert(actualPort != 0)" (LTUDPManager.cpp:445): whatever lwIP sends   *)
(* while there is a transport has a route.                                 *)
AlwaysRouted ==
    \A h \in Handles : pcb[h].state \notin {"none", "listen"} => netifOutputFunc(pcb[h]) # 0

=============================================================================
