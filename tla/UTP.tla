-------------------------------- MODULE UTP --------------------------------
(***************************************************************************)
(* UTPManager and its handles: uTP sockets of libutp over UDP sockets.     *)
(* libutp knows a socket by its peer's address and a 16 byte port that the *)
(* end which connects chose at random; the manager's routes lead from them *)
(* to the UDP port that the peer has.  A route is there as long as a       *)
(* socket uses it; a datagram that belongs to no socket has one while it   *)
(* is handled, so that it can be answered.                                 *)
(*                                                                         *)
(* libutp is as the manager sees it: it may fail a socket at any time, and *)
(* goes on for a while with one that was closed after it was connected.    *)
(***************************************************************************)
EXTENDS TransportHandles

VARIABLES
    sock,       \* [Handles -> utp_socket]: the socket of a handle, see NoSock
    connCache_  \* UDP port -> ConnectionInfo

utpVars == <<sock, connCache_>>
vars == <<load, handles, linger, heard, sock, connCache_>>

(* A socket is "listen" (never initialized), "syn" (connecting or being    *)
(* accepted), "est", "fin" (closed when it was connected), "dead" (to be   *)
(* destroyed) or "reset" (never to be).  lport is its user data's          *)
(* localPort; own, that the user data have a handle; stale, that its UDP   *)
(* port was given another transport since.                                 *)
NoSock == [state |-> "none", own |-> FALSE, lport |-> NoPort, addr |-> <<"none", 0>>,
           stale |-> FALSE]

(* 0 is no handle.  peers maps an address and uTP port to the UDP port and *)
(* whether there is an MTU discovery.                                      *)
NewInfo == [acceptorHandle |-> 0, utpSocks |-> {}, peers |-> <<>>]

Init ==
    /\ HandlesInit
    /\ sock = [h \in Handles |-> NoSock]
    /\ connCache_ = <<>>

Put(f, k, v) == (k :> v) @@ f
Erase(f, S) == Restrict(f, DOMAIN f \ S)
First(S) == IF S = {} THEN {} ELSE {Min(S)}

(* The UDP port that a socket's packet is sent to, actualPort.             *)
Dropped == -1
utpSendToFunc(s) ==
    IF s.lport \notin DOMAIN connCache_ \/ ~Alive(s.lport) THEN Dropped
    ELSE LET peers == connCache_[s.lport].peers
         IN  IF s.addr \in DOMAIN peers THEN peers[s.addr].port ELSE 0

-----------------------------------------------------------------------------
(* Binding, connecting and listening.                                      *)

(* createTransportConnectionInternal, in any thread.                       *)
bind(h) ==
    LET p == load.binds[h].port
    IN  /\ MayBind(h)
        /\ handles' = [handles EXCEPT ![h] = Bound(h)]
        /\ IF Alive(p) THEN UNCHANGED utpVars
           ELSE /\ connCache_' = Put(connCache_, p, NewInfo)
                /\ sock' = [g \in Handles |-> [sock[g] EXCEPT !.stale = @ \/ sock[g].lport = p]]
        /\ UNCHANGED <<load, linger, heard>>

Starts(h) == handles[h].at = "bound" /\ handles[h].kill = "no"

Fails(h) == handles' = [handles EXCEPT ![h].at = "failed"]

(* UTPConnector::onStartConnect, bindConnector; the random port is the     *)
(* handle's number.  There may be no address or no random number.          *)
onStartConnect(h) ==
    LET p == handles[h].port
        peer == load.binds[h].peer
        addr == <<peer.ip, h>>
    IN  /\ Starts(h) /\ handles[h].use = "connect"
        /\ \/ Fails(h) /\ UNCHANGED <<heard, sock, connCache_>>
           \/ \E u \in Udp(peer) :
                /\ handles' = [handles EXCEPT ![h].at = "connecting", ![h].peer = peer]
                /\ sock' = [sock EXCEPT ![h] = [NoSock EXCEPT
                      !.state = "syn", !.own = TRUE, !.lport = p, !.addr = addr]]
                /\ connCache_' = [connCache_ EXCEPT
                      ![p].utpSocks = @ \cup {h},
                      ![p].peers = Put(@, addr, [port |-> u, mtuDiscovery |-> TRUE])]
                /\ heard' = [heard EXCEPT ![h] = u]
        /\ UNCHANGED <<load, linger>>

(* UTPAcceptor::onStartListen, UTPConnector::onStartConnect of an end that *)
(* waits for its rendezvous; bindAcceptor.                                 *)
onStartListen(h) ==
    LET p == handles[h].port
    IN  /\ Starts(h) /\ handles[h].use # "connect"
        /\ \/ Fails(h) /\ UNCHANGED utpVars
           \/ /\ connCache_[p].acceptorHandle = 0
              /\ handles' = [handles EXCEPT ![h].at = "listening"]
              /\ sock' = [sock EXCEPT ![h] = [NoSock EXCEPT
                    !.state = "listen", !.own = TRUE, !.lport = p]]
              /\ connCache_' = [connCache_ EXCEPT
                    ![p].acceptorHandle = h, ![p].utpSocks = @ \cup {h}]
        /\ UNCHANGED <<load, linger, heard>>

-----------------------------------------------------------------------------
(* Datagrams, timeouts and kills.                                          *)

(* onError of the handles F: unbind and utp_close.                         *)
Failed(F) ==
    handles' = [h \in Handles |-> IF h \in F THEN [handles[h] EXCEPT !.at = "failed"]
                                  ELSE handles[h]]

(* What libutp does with a datagram for the socket of h: nothing that is   *)
(* seen here, connect it, have its first byte acknowledged, reset it, or   *)
(* end it; a reset of one that is dead already keeps it from being         *)
(* destroyed.                                                              *)
Packet(h) ==
    \/ UNCHANGED <<handles, sock>>
    \/ /\ sock[h].state = "syn" /\ UNCHANGED handles
       /\ sock' = [sock EXCEPT ![h].state = "est"]
    \/ /\ sock[h].state = "est" /\ handles[h].at = "connecting" /\ UNCHANGED sock
       /\ handles' = [handles EXCEPT ![h].at = "open"]
    \/ /\ sock[h].own /\ Failed({h})
       /\ sock' = [sock EXCEPT ![h].state = "dead", ![h].own = FALSE]
    \/ /\ sock[h].state \in {"fin", "dead"} /\ UNCHANGED handles
       /\ sock' = [sock EXCEPT ![h].state = IF @ = "fin" THEN "dead" ELSE "reset"]

(* Mutant of Routed: the UDP port of a peer is as it was at first.         *)
RoutedAtFirst(info, addr, u) ==
    [info EXCEPT !.peers = IF addr \in DOMAIN @ THEN @
                           ELSE Put(@, addr, [port |-> u, mtuDiscovery |-> FALSE])]

(* The routes during a datagram from UDP port u: a new one, or the peer's  *)
(* UDP port has changed.                                                   *)
Routed(info, addr, u) ==
    [info EXCEPT !.peers = Put(@, addr,
        [port |-> u, mtuDiscovery |-> addr \in DOMAIN @ /\ @[addr].mtuDiscovery])]

(* A datagram of a peer arrives on p, on time or late: one of a connection *)
(* that the peer started, or that h has or had with it.  utpOnFirewallFunc *)
(* and utpOnAcceptFunc are for the first one of the peer's; whatever has   *)
(* no MTU discovery in the end loses its route.                            *)
onRecv(p, peer, id, u) ==
    LET addr == <<peer.ip, id>>
        info == Routed(connCache_[p], addr, u)
        known == {h \in Handles : sock[h].addr = addr}
        left == [info EXCEPT !.peers = IF @[addr].mtuDiscovery THEN @ ELSE Erase(@, {addr})]
        l == info.acceptorHandle
    IN  /\ \/ /\ \E h \in known : Packet(h)
              /\ connCache_' = [connCache_ EXCEPT ![p] = left]
           \/ /\ known = {} /\ UNCHANGED <<handles, sock>>
              /\ connCache_' = [connCache_ EXCEPT ![p] = left]
           \/ /\ known = {} /\ l # 0
              /\ \E g \in First({h \in Handles : Spare(h) /\ sock[h].state = "none"}) :
                   /\ handles' = Accepted(l, g, peer)
                   /\ sock' = [sock EXCEPT ![g] = [NoSock EXCEPT
                         !.state = "syn", !.own = TRUE, !.lport = p, !.addr = addr]]
                   /\ connCache_' = [connCache_ EXCEPT ![p] = [info EXCEPT
                         !.utpSocks = @ \cup {g}, !.peers[addr].mtuDiscovery = TRUE]]
        /\ heard' = [h \in Handles |-> IF sock'[h].addr = addr THEN u ELSE heard[h]]
        /\ UNCHANGED <<load, linger>>

(* removeUtpSock of the sockets D, of the transports that still have them. *)
Destroyed(cache, D) ==
    [p \in DOMAIN cache |-> [cache[p] EXCEPT
        !.utpSocks = @ \ D,
        !.peers = Erase(@, {sock[h].addr : h \in D \cap cache[p].utpSocks})]]

(* utp_check_timeouts gives up on some sockets and destroys the dead ones; *)
(* then the transports that are gone are removed from the cache.           *)
onUTPTimeout ==
    /\ \E F \in SUBSET {h \in Handles : sock[h].state \in {"syn", "est", "fin"}} :
         LET D == F \cup {h \in Handles : sock[h].state = "dead"}
             cache == Destroyed(connCache_, D)
         IN  /\ Failed({h \in F : sock[h].own})
             /\ sock' = [h \in Handles |-> IF h \in D THEN NoSock ELSE sock[h]]
             /\ connCache_' = Restrict(cache, {p \in DOMAIN cache : Alive(p)})
    /\ UNCHANGED <<load, linger, heard>>

(* kill, unbind and utp_close.  A listener's socket is deleted at once.    *)
onKillHandles ==
    LET mine == {h \in Doomed : sock[h].own}
        lost == {h \in mine : sock[h].state = "listen"}
    IN  /\ Doomed # {}
        /\ handles' = KilledHandles(Doomed) /\ linger' = Lingering(Doomed)
        /\ sock' = [h \in Handles |->
              IF h \in lost THEN NoSock
              ELSE IF h \in mine
              THEN [sock[h] EXCEPT !.own = FALSE, !.state = IF @ = "est" THEN "fin" ELSE "dead"]
              ELSE sock[h]]
        /\ connCache_' = [p \in DOMAIN connCache_ |-> [connCache_[p] EXCEPT
              !.utpSocks = @ \ lost, !.acceptorHandle = IF @ \in lost THEN 0 ELSE @]]
        /\ UNCHANGED <<load, heard>>

Reclaim ==
    \/ onKillHandles
    \/ (\E h \in Handles : onTransportConnectionKill(h)) /\ UNCHANGED utpVars

Next ==
    \/ \E h \in Handles : bind(h) \/ onStartConnect(h) \/ onStartListen(h)
    \/ \E p \in DOMAIN connCache_, peer \in load.peers : \E u \in Udp(peer) :
         /\ Alive(p)
         /\ \E id \in {peer.id} \cup {h \in 1..Len(load.binds) :
                                        load.binds[h].port = p /\ handles[h].peer = peer} :
              onRecv(p, peer, id, u)
    \/ onUTPTimeout
    \/ (\E h \in Handles : close(h)) /\ UNCHANGED utpVars
    \/ Reclaim

Spec == Init /\ [][Next]_vars

-----------------------------------------------------------------------------
(* The routes of a transport are those of its sockets, each with an MTU    *)
(* discovery, so that no route is left when the last socket is gone        *)
(* (assert(peers.empty()), 62) and a socket that is destroyed finds its    *)
(* route (79, 85); the listener is one of its sockets and finds no other   *)
(* one before it (256); a handle's socket is on the transport it holds.    *)
RoutesExact ==
    /\ \A p \in DOMAIN connCache_ :
         LET info == connCache_[p]
             l == info.acceptorHandle
         IN  /\ \A h \in info.utpSocks : sock[h].state # "none" /\ sock[h].lport = p
             /\ DOMAIN info.peers =
                   {sock[h].addr : h \in {g \in info.utpSocks : sock[g].state # "listen"}}
             /\ \A a \in DOMAIN info.peers : info.peers[a].mtuDiscovery
             /\ {h \in info.utpSocks : sock[h].state = "listen"} = {l} \ {0}
    /\ \A h \in Handles :
         /\ sock[h].own => /\ sock[h].lport = handles[h].port
                           /\ h \in connCache_[sock[h].lport].utpSocks
         /\ Starts(h) /\ handles[h].use # "connect" =>
               connCache_[handles[h].port].acceptorHandle = 0

(* What a connection sends goes to the UDP port its peer was last heard    *)
(* from; what libutp still sends for a closed one goes to its peer or      *)
(* nowhere, as long as its UDP port has no new transport.                  *)
SentToPeer ==
    \A h \in Handles :
      LET s == sock[h]
      IN  /\ s.own /\ s.state # "listen" => utpSendToFunc(s) = heard[h]
          /\ s.state = "fin" /\ ~s.stale => utpSendToFunc(s) \in {Dropped, heard[h]}

(* "assert(actualPort != 0)" (UTPManager.cpp:419): whatever libutp sends   *)
(* while there is a transport has a route.                                 *)
AlwaysRouted ==
    \A h \in Handles : sock[h].state \in {"syn", "est", "fin"} => utpSendToFunc(sock[h]) # 0

=============================================================================
