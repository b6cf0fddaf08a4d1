----------------------------- MODULE Transports -----------------------------
(***************************************************************************)
(* The transports that dmaster and dnode choose from (a program runs one   *)
(* of them, dnode/main.cpp:133): the handles of LTUDPManager, those of     *)
(* UTPManager, and a connection that one of them made.                     *)
(*                                                                         *)
(* Fairness: the reactor runs what is posted to it (onKillHandles) and its *)
(* timers (onTransportConnectionKill).  Nothing is assumed of the users,   *)
(* the peers or the network.                                               *)
(***************************************************************************)
EXTENDS TransportHandles

CONSTANTS
    Protos,              \* what is to be looked at: "ltudp", "utp", "stream"
    TcpPorts, OutPorts,  \* of LTUDP
    Sizes, MaxQueue, MaxBytes, SndBuf, RcvBuf  \* of StreamConnection

ASSUME TransportsAssumption ==
    /\ Protos \subseteq {"ltudp", "utp", "stream"}
    /\ IsFiniteSet(Handles) /\ Handles \subseteq Nat \ {0} /\ NoPort \notin Ports
    /\ OutPorts \subseteq Nat \ {0} /\ TcpPorts \subseteq Nat \ {0}
    /\ Sizes \subseteq Nat \ {0} /\ {MaxQueue, MaxBytes, SndBuf, RcvBuf} \subseteq Nat \ {0}

VARIABLES
    proto,
    connCache_,                 \* of LTUDP or of UTP
    pcb, localPortMap_, leaks,  \* of LTUDP
    sock,                       \* of UTP
    stream                      \* of StreamConnection

L == INSTANCE LTUDP
U == INSTANCE UTP
S == INSTANCE StreamConnection

allVars == <<handleVars, proto, connCache_, pcb, localPortMap_, leaks, sock, stream>>

(* What LTUDP, UTP and StreamConnection do not share.                      *)
InLTUDP == proto = "ltudp" /\ UNCHANGED <<proto, sock, stream>>
InUTP == proto = "utp" /\ UNCHANGED <<proto, pcb, localPortMap_, leaks, stream>>
InStream == proto = "stream" /\ UNCHANGED <<handleVars, proto, connCache_, pcb, localPortMap_, leaks, sock>>

Init ==
    /\ proto \in Protos
    /\ L!Init /\ sock = [h \in Handles |-> U!NoSock]
    /\ IF proto = "stream" THEN S!Init /\ load = CHOOSE w \in Workloads : TRUE
       ELSE stream = S!NewStream(FALSE, FALSE)

Next ==
    \/ InLTUDP /\ L!Next
    \/ InUTP /\ U!Next
    \/ InStream /\ S!Next

Reclaim == (InLTUDP /\ L!Reclaim) \/ (InUTP /\ U!Reclaim)

FairSpec == Init /\ [][Next]_allVars /\ WF_allVars(Reclaim)

-----------------------------------------------------------------------------
(* L!CountsExact and U!RoutesExact: whatever fails, is closed, killed or   *)
(* accepted in whatever order, what a manager knows of a transport (the    *)
(* number of handles, the routes and how many use each) is what its        *)
(* handles really have, so that none of its asserts on them fails.         *)
BookkeepingExact ==
    /\ proto = "ltudp" => L!CountsExact
    /\ proto = "utp" => U!RoutesExact

(* L!SentToPeer and U!SentToPeer: what a connection sends goes to the UDP  *)
(* port that its peer was last heard from, across remapping by the peer's  *)
(* NAT, other peers at the same address and late datagrams.                *)
SentToPeer ==
    /\ proto = "ltudp" => L!SentToPeer
    /\ proto = "utp" => U!SentToPeer

(* S!WritesSound and S!ReadsSound: acknowledgements find their writes,     *)
(* writes that wait have something under way that calls onHandleWrite      *)
(* again, and no read waits while there is something to tell it.           *)
StreamSound == proto = "stream" => S!WritesSound /\ S!ReadsSound

(* A transport does not outlive its users: again and again, every one that *)
(* is there is held by a handle that is not closed.  Else canReuse would   *)
(* never let a rendezvous session have the port of its hello back.         *)
Reusable ==
    []<>(\A p \in Ports : Alive(p) => \E h \in Handles : Holds(h, p) /\ handles[h].kill = "no")

(* "assert(actualPort != 0)" (UTPManager.cpp:419, LTUDPManager.cpp:445):   *)
(* whatever libutp or lwIP sends while there is a transport has a route.   *)
AlwaysRouted ==
    /\ proto = "ltudp" => L!AlwaysRouted
    /\ proto = "utp" => U!AlwaysRouted

=============================================================================
