------------------------------- MODULE Server -------------------------------
(***************************************************************************)
(* dmaster: the rendezvous server (dmaster/Server.cpp, Session.cpp).       *)
(* Nodes keep one persistent session each; through it they create and      *)
(* close connections to other nodes, and the server relays what the two    *)
(* ends need for hole punching.  Short-lived Fast, Symm and Probe sessions *)
(* carry a node's external address.                                        *)
(*                                                                         *)
(* The server runs on one reactor thread, so a handler is one action: the  *)
(* Session callback that parsed the message and the Server handler it      *)
(* calls.  sent is the wire: what the last step wrote, each message at     *)
(* most once per session and connection.                                   *)
(***************************************************************************)
EXTENDS Naturals, FiniteSets

CONSTANTS
    Nodes,      \* node ids
    NoNode,     \* 0, the nodeId_ of a session that has not said HELLO
    Sessions,   \* Session objects; an address is reused once the object is freed
    Indices,    \* values of ConnId::connIdx
    Ports       \* nonzero peer ports, as getPeerName and the probe report them

ASSUME NodeAssumption == NoNode \notin Nodes

ASSUME PortAssumption == Ports \subseteq Nat \ {0}

ConnIds == [nodeId: Nodes, connIdx: Indices]

Types == {"Unknown", "Persistent", "Probe", "Fast", "Symm"}

Modes == {"FAST", "SYMM_CONN", "SYMM_ACC"}

(* MSG_CONN and MSG_CONN_STATUS, the latter by its status code. *)
OpenMsgs == {"CONN", "PENDING"}
ErrMsgs == {"ERR_UNKNOWN", "ERR_NOTFOUND", "ERR_SYMM"}
EndMsgs == {"ESTABLISHED", "ERR_CANCELED"} \cup ErrMsgs

(* MSG_FAST, MSG_SYMM, MSG_READY and MSG_NEXT *)
RelayMsgs == {"FAST", "SYMM", "READY", "NEXT"}

(* from is the node whose step the message reports.  FAST and SYMM carry   *)
(* that node's address; in the others it is not on the wire.               *)
Messages ==
    [to: Sessions, msg: OpenMsgs \cup EndMsgs, connId: ConnIds, mode: Modes, from: Nodes]
        \cup [to: Sessions, msg: RelayMsgs, connId: ConnIds, from: Nodes]
        \cup [to: Sessions, msg: {"PROBE"}, port: Ports \cup {0}]

VARIABLES
    sessions_,  \* the sessions that exist
    type_,      \* Session::type_
    nodeId_,    \* Session::nodeId_
    symm_,      \* Session::symm_
    peerPort_,  \* Session::peerPort_; 0, like peerIp_, if getPeerName failed
    conns_,     \* ConnId -> Conn
    sent,       \* the messages the last step sent
    told        \* history: per session, the connections its client was told of
                \* and has neither closed nor been told the end of

sessionVars == <<sessions_, type_, nodeId_, symm_, peerPort_>>

vars == <<sessionVars, conns_, sent, told>>

Conn == [srcSess: Sessions, dstSess: Sessions, srcMode: Modes, dstMode: Modes]

TypeOK ==
    /\ sessions_ \subseteq Sessions
    /\ type_ \in [Sessions -> Types]
    /\ nodeId_ \in [Sessions -> Nodes \cup {NoNode}]
    /\ symm_ \in [Sessions -> BOOLEAN]
    /\ peerPort_ \in [Sessions -> Ports \cup {0}]
    /\ DOMAIN conns_ \subseteq ConnIds
    /\ conns_ \in [DOMAIN conns_ -> Conn]
    /\ sent \subseteq Messages
    /\ told \in [Sessions -> SUBSET ConnIds]

Init ==
    /\ sessions_ = {}
    /\ type_ = [s \in Sessions |-> "Unknown"]
    /\ nodeId_ = [s \in Sessions |-> NoNode]
    /\ symm_ = [s \in Sessions |-> FALSE]
    /\ peerPort_ = [s \in Sessions |-> 0]
    /\ conns_ = [c \in {} |-> {}]
    /\ sent = {}
    /\ told = [s \in Sessions |-> {}]

-----------------------------------------------------------------------------
(* Session::send... *)

sendConnStatus(s, c, status, mode, n) ==
    [to |-> s, msg |-> status, connId |-> c, mode |-> mode, from |-> n]

sendConnRequest(s, c, mode, n) ==
    [to |-> s, msg |-> "CONN", connId |-> c, mode |-> mode, from |-> n]

sendRelay(s, c, msg, n) == [to |-> s, msg |-> msg, connId |-> c, from |-> n]

(* The connections a message of M tells s something of kind K about. *)
About(M, s, K) == {m.connId : m \in {x \in M : x.to = s /\ x.msg \in K}}

(* The step sends M; known is what the clients knew before they read it. *)
Send(M, known) ==
    /\ sent' = M
    /\ told' = [s \in Sessions |->
                   (known[s] \cup About(M, s, OpenMsgs)) \ About(M, s, EndMsgs)]

-----------------------------------------------------------------------------
(* Lookups. *)

PersistentOf(n) == {s \in sessions_ : nodeId_[s] = n /\ type_[s] = "Persistent"}

EndsOf(c) == {conns_[c].srcSess, conns_[c].dstSess}

ConnsOf(s) == {c \in DOMAIN conns_ : s \in EndsOf(c)}

(* Mutant of PeerSess: the ends are mixed up. *)
PeerSessSelf(c, s) == s

(* The other end of c, and its mode: srcSess is compared first. *)
PeerSess(c, s) == IF s = conns_[c].srcSess THEN conns_[c].dstSess ELSE conns_[c].srcSess
PeerMode(c, s) == IF s = conns_[c].srcSess THEN conns_[c].dstMode ELSE conns_[c].srcMode

(* conns_ without the connections in C *)
Without(C) == [c \in DOMAIN conns_ \ C |-> conns_[c]]

-----------------------------------------------------------------------------
(* Sessions come and go. *)

(* The Session constructor asks for the peer address at once and puts up   *)
(* with not getting it.                                                    *)
onAccept(s, port) ==
    /\ s \notin sessions_
    /\ sessions_' = sessions_ \cup {s}
    /\ type_' = [type_ EXCEPT ![s] = "Unknown"]
    /\ nodeId_' = [nodeId_ EXCEPT ![s] = NoNode]
    /\ symm_' = [symm_ EXCEPT ![s] = FALSE]
    /\ peerPort_' = [peerPort_ EXCEPT ![s] = port]
    /\ conns_' = conns_
    /\ Send({}, told)

(* Mutant of CancelMsgs: the client that lost its peer is not told. *)
CancelMsgsNone(s, C) == {}

(* What removeSession sends for the connections C of s. *)
CancelMsgs(s, C) ==
    {sendConnStatus(PeerSess(c, s), c, "ERR_CANCELED", PeerMode(c, s), nodeId_[s]) : c \in C}

(* removeSession *)
RemoveSession(s) ==
    LET gone == IF type_[s] = "Persistent" THEN ConnsOf(s) ELSE {} IN
    /\ conns_' = Without(gone)
    /\ sessions_' = sessions_ \ {s}
    /\ Send(CancelMsgs(s, gone), [told EXCEPT ![s] = {}])

(* The connection broke, a write failed or the message code was unknown.   *)
onSessionError(s) ==
    /\ s \in sessions_
    /\ RemoveSession(s)
    /\ UNCHANGED <<type_, nodeId_, symm_, peerPort_>>

(* Mutant of Overridden: the node's earlier session is left alone. *)
OverriddenNone(s, n) == {}

(* The sessions one of which a HELLO of node n on s overrides. *)
Overridden(s, n) == PersistentOf(n) \ {s}

(* Session::onRecvMsgHello, onSessionStartPersistent *)
onRecvMsgHello(s, n, probePort) ==
    /\ s \in sessions_
    /\ type_' = [type_ EXCEPT ![s] = "Persistent"]
    /\ nodeId_' = [nodeId_ EXCEPT ![s] = n]
    /\ symm_' = [symm_ EXCEPT ![s] = probePort # 0 /\ probePort # peerPort_[s]]
    /\ peerPort_' = peerPort_
    /\ IF Overridden(s, n) = {}
       THEN sessions_' = sessions_ /\ conns_' = conns_ /\ Send({}, told)
       ELSE \E other \in Overridden(s, n) : RemoveSession(other)

(* Session::onRecvMsgHelloProbe *)
onRecvMsgHelloProbe(s) ==
    /\ s \in sessions_
    /\ type_' = [type_ EXCEPT ![s] = "Probe"]
    /\ UNCHANGED <<sessions_, nodeId_, symm_, peerPort_, conns_>>
    /\ Send({[to |-> s, msg |-> "PROBE", port |-> peerPort_[s]]}, told)

-----------------------------------------------------------------------------
(* Messages. *)

(* Mutant of Relay: a session that is no end of c is taken for its dst. *)
RelayUnchecked(p, c, msg, n) ==
    IF c \notin DOMAIN conns_ THEN {} ELSE {sendRelay(PeerSess(c, p), c, msg, n)}

(* msg goes to the other end of c if p is one of its ends. *)
Relay(p, c, msg, n) ==
    IF c \notin ConnsOf(p) THEN {} ELSE {sendRelay(PeerSess(c, p), c, msg, n)}

(* Session::onRecvMsgHelloFast and onSessionHelloFast, and the same for    *)
(* Symm: the address goes to the peer of the node's persistent session.    *)
HelloAddress(s, n, c, type, msg) ==
    /\ s \in sessions_
    /\ type_' = [type_ EXCEPT ![s] = type]
    /\ nodeId_' = [nodeId_ EXCEPT ![s] = n]
    /\ UNCHANGED <<sessions_, symm_, peerPort_, conns_>>
    /\ IF peerPort_[s] = 0 \/ PersistentOf(n) = {}
       THEN Send({}, told)
       ELSE \E p \in PersistentOf(n) : Send(Relay(p, c, msg, n), told)

onSessionHelloFast(s, n, c) == HelloAddress(s, n, c, "Fast", "FAST")

onSessionHelloSymm(s, n, c) == HelloAddress(s, n, c, "Symm", "SYMM")

(* Why a request of s for connection c to node n is refused; empty if it   *)
(* is not.                                                                 *)
Refusals(s, c, n) ==
    IF nodeId_[s] # c.nodeId \/ n = c.nodeId \/ peerPort_[s] = 0 \/ c \in DOMAIN conns_
    THEN {"ERR_UNKNOWN"}
    ELSE IF PersistentOf(n) = {} THEN {"ERR_NOTFOUND"}
    ELSE IF \E d \in PersistentOf(n) : peerPort_[d] = 0 THEN {"ERR_UNKNOWN"}
    ELSE IF \E d \in PersistentOf(n) : symm_[s] /\ symm_[d] THEN {"ERR_SYMM"}
    ELSE {}

(* The end behind a symmetric NAT connects, the other one accepts. *)
ModeOf(s, d) ==
    IF symm_[s] THEN "SYMM_CONN" ELSE IF symm_[d] THEN "SYMM_ACC" ELSE "FAST"

Refuse(s, c, n) ==
    \E e \in Refusals(s, c, n) :
        /\ conns_' = conns_
        /\ Send({sendConnStatus(s, c, e, "FAST", nodeId_[s])}, told)

Create(s, c, n) ==
    /\ Refusals(s, c, n) = {}
    /\ \E d \in PersistentOf(n) :
        /\ conns_' = [x \in DOMAIN conns_ \cup {c} |->
                         IF x = c THEN [srcSess |-> s, dstSess |-> d,
                                        srcMode |-> ModeOf(s, d), dstMode |-> ModeOf(d, s)]
                         ELSE conns_[x]]
        /\ Send({sendConnStatus(s, c, "PENDING", ModeOf(s, d), nodeId_[s]),
                 sendConnRequest(d, c, ModeOf(d, s), nodeId_[s])}, told)

onSessionConnCreate(s, c, n) ==
    /\ s \in sessions_
    /\ Refuse(s, c, n) \/ Create(s, c, n)
    /\ UNCHANGED sessionVars

onSessionConnClose(s, c, established) ==
    /\ s \in sessions_
    /\ UNCHANGED sessionVars
    /\ conns_' = Without({c} \cap ConnsOf(s))
    /\ Send({sendConnStatus(PeerSess(x, s), x,
                            IF established THEN "ESTABLISHED" ELSE "ERR_CANCELED",
                            PeerMode(x, s), nodeId_[s]) : x \in {c} \cap ConnsOf(s)},
            [told EXCEPT ![s] = @ \ {c}])

(* onSessionReady, onSessionNext *)
RelayMessage(s, c, msg) ==
    /\ s \in sessions_
    /\ UNCHANGED <<sessionVars, conns_>>
    /\ Send(Relay(s, c, msg, nodeId_[s]), told)

onSessionReady(s, c) == RelayMessage(s, c, "READY")

onSessionNext(s, c) == RelayMessage(s, c, "NEXT")

(* What the nodes do: the first message of a session, one of the HELLOs,   *)
(* says what the session is for; the others follow on persistent sessions. *)
(* A node asks for connections under ids of its own that it is not using.  *)
(* What it says of a connection may be late: the connection may have       *)
(* ended, or its id may be in use again.                                   *)
FirstMessage(s) ==
    \/ \E n \in Nodes, port \in Ports \cup {0} : onRecvMsgHello(s, n, port)
    \/ onRecvMsgHelloProbe(s)
    \/ \E n \in Nodes, c \in ConnIds : onSessionHelloFast(s, n, c) \/ onSessionHelloSymm(s, n, c)

LaterMessage(s) ==
    \E c \in ConnIds :
        \/ /\ c.nodeId = nodeId_[s] /\ c \notin told[s]
           /\ \E n \in Nodes : onSessionConnCreate(s, c, n)
        \/ \E established \in BOOLEAN : onSessionConnClose(s, c, established)
        \/ onSessionReady(s, c)
        \/ onSessionNext(s, c)

Next ==
    \E s \in Sessions :
        \/ \E port \in Ports \cup {0} : onAccept(s, port)
        \/ onSessionError(s)
        \/ type_[s] = "Unknown" /\ FirstMessage(s)
        \/ type_[s] = "Persistent" /\ LaterMessage(s)

Spec == Init /\ [][Next]_vars

-----------------------------------------------------------------------------
(* Properties. *)

(* A node has one persistent session at most, also while it reconnects     *)
(* before its old session was seen to break: findPersistentSession never   *)
(* has a choice and onSessionStartPersistent may stop at the first match.  *)
OnePersistent ==
    \A s, t \in sessions_ :
        type_[s] = "Persistent" /\ type_[t] = "Persistent" /\ nodeId_[s] = nodeId_[t] => s = t

(* The entries of conns_ join live persistent sessions of two nodes, the   *)
(* first of which the id belongs to, and the modes fit the NATs: the end   *)
(* behind a symmetric NAT connects, never both are behind one.             *)
ConnSound ==
    \A c \in DOMAIN conns_ :
        LET s == conns_[c].srcSess
            d == conns_[c].dstSess
        IN  /\ s \in sessions_ /\ type_[s] = "Persistent" /\ nodeId_[s] = c.nodeId
            /\ d \in sessions_ /\ type_[d] = "Persistent" /\ nodeId_[d] \in Nodes \ {c.nodeId}
            /\ ~(symm_[s] /\ symm_[d])
            /\ conns_[c].srcMode = ModeOf(s, d)
            /\ conns_[c].dstMode = ModeOf(d, s)

(* A client holds a connection open exactly as long as the server does:    *)
(* whatever ends it, a close by the peer, the loss of the peer's session   *)
(* or its replacement, the surviving end is told, and nobody waits for an  *)
(* answer about a connection the server has forgotten.                     *)
EndsAreTold == \A s \in Sessions : told[s] = IF s \in sessions_ THEN ConnsOf(s) ELSE {}

(* Sessions, connections and what the clients know of them agree.          *)
SessionsSound == OnePersistent /\ ConnSound /\ EndsAreTold

(* What a session is sent about a connection fits what it was told before: *)
(* it opens once, and rendezvous messages and its end come only while it   *)
(* is open, from the node at the other end.  A refusal answers the         *)
(* session's own request.                                                  *)
StreamsWellFormed ==
    [][\A m \in sent' :
        m.msg # "PROBE" =>
            LET s == m.to
                c == m.connId
            IN  CASE m.msg \in OpenMsgs -> c \notin told[s] /\ m.from = c.nodeId
                  [] m.msg \in ErrMsgs -> c \notin told[s] /\ m.from = nodeId_[s]
                  [] OTHER -> c \in told[s] /\ m.from = nodeId_[PeerSess(c, s)]]_vars
=============================================================================
