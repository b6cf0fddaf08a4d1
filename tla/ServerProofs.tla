---------------------------- MODULE ServerProofs ----------------------------
(* The rendezvous server's invariants for any number of nodes, sessions    *)
(* and connections.                                                        *)
EXTENDS Server, TLAPS

USE ZenonT(3), SMTT(30)

(* A session is persistent only once it has said which node it is. *)
Named == \A s \in Sessions : type_[s] = "Persistent" => nodeId_[s] \in Nodes

IInv == TypeOK /\ Named /\ OnePersistent /\ ConnSound /\ EndsAreTold

(* The two ends of a connection differ, and PeerSess finds the other one. *)
LEMMA PeerProperties ==
    ASSUME IInv, NEW s \in Sessions, NEW c \in ConnsOf(s)
    PROVE  /\ c \in DOMAIN conns_ /\ c \in ConnIds
           /\ PeerSess(c, s) \in sessions_ /\ PeerSess(c, s) # s
           /\ EndsOf(c) = {s, PeerSess(c, s)}
           /\ PeerMode(c, s) \in Modes
           /\ s \in sessions_ /\ type_[s] = "Persistent" /\ nodeId_[s] \in Nodes
           /\ nodeId_[PeerSess(c, s)] \in Nodes /\ type_[PeerSess(c, s)] = "Persistent"
<1>1. c \in DOMAIN conns_ /\ s \in {conns_[c].srcSess, conns_[c].dstSess} /\ c \in ConnIds
  BY DEF ConnsOf, EndsOf, IInv, TypeOK
<1>2. conns_[c] \in Conn
  BY <1>1 DEF IInv, TypeOK
<1>3. /\ conns_[c].srcSess \in sessions_ /\ conns_[c].dstSess \in sessions_
      /\ nodeId_[conns_[c].srcSess] # nodeId_[conns_[c].dstSess]
      /\ type_[conns_[c].srcSess] = "Persistent" /\ type_[conns_[c].dstSess] = "Persistent"
      /\ nodeId_[conns_[c].srcSess] \in Nodes /\ nodeId_[conns_[c].dstSess] \in Nodes
  <2>1. ConnSound /\ Named /\ sessions_ \subseteq Sessions
    BY DEF IInv, TypeOK
  <2> QED BY <2>1, <1>1 DEF ConnSound, Named
<1>4. conns_[c].srcMode \in Modes /\ conns_[c].dstMode \in Modes
  BY <1>2 DEF Conn
<1> QED BY <1>1, <1>3, <1>4 DEF PeerSess, PeerMode, EndsOf

(* removeSession tells the other end of each connection of s, and only it. *)
LEMMA RemoveTells ==
    ASSUME IInv, NEW s \in sessions_, RemoveSession(s)
    PROVE  /\ conns_' = Without(ConnsOf(s))
           /\ sessions_' = sessions_ \ {s}
           /\ sent' = CancelMsgs(s, ConnsOf(s)) /\ sent' \subseteq Messages
           /\ told' = [t \in Sessions |-> IF t = s THEN {} ELSE told[t] \ ConnsOf(s)]
<1> DEFINE gone == IF type_[s] = "Persistent" THEN ConnsOf(s) ELSE {}
           M == CancelMsgs(s, ConnsOf(s))
<1>0. s \in Sessions /\ told \in [Sessions -> SUBSET ConnIds]
  BY DEF IInv, TypeOK
<1>1. gone = ConnsOf(s)
  BY <1>0, PeerProperties
<1>2. /\ conns_' = Without(ConnsOf(s)) /\ sessions_' = sessions_ \ {s}
      /\ Send(M, [told EXCEPT ![s] = {}])
  BY <1>1 DEF RemoveSession
<1>3. ASSUME NEW t \in Sessions
      PROVE  /\ About(M, t, OpenMsgs) = {}
             /\ About(M, t, EndMsgs) = {c \in ConnsOf(s) : PeerSess(c, s) = t}
  <2> DEFINE msg(c) == sendConnStatus(PeerSess(c, s), c, "ERR_CANCELED", PeerMode(c, s), nodeId_[s])
  <2>1. M = {msg(c) : c \in ConnsOf(s)}
    BY DEF CancelMsgs
  <2>2. \A c : msg(c).to = PeerSess(c, s) /\ msg(c).msg = "ERR_CANCELED" /\ msg(c).connId = c
    BY DEF sendConnStatus
  <2> HIDE DEF M, msg
  <2>3. "ERR_CANCELED" \in EndMsgs /\ "ERR_CANCELED" \notin OpenMsgs
    BY DEF EndMsgs, OpenMsgs
  <2>4. About(M, t, OpenMsgs) = {}
    BY <2>1, <2>2, <2>3 DEF About
  <2>5. ASSUME NEW c \in About(M, t, EndMsgs) PROVE c \in ConnsOf(s) /\ PeerSess(c, s) = t
    BY <2>1, <2>2 DEF About
  <2>6. ASSUME NEW c \in ConnsOf(s), PeerSess(c, s) = t PROVE c \in About(M, t, EndMsgs)
    <3>1. msg(c) \in {x \in M : x.to = t /\ x.msg \in EndMsgs}
      BY <2>1, <2>2, <2>3, <2>6
    <3> QED BY <3>1, <2>2 DEF About
  <2> QED BY <2>4, <2>5, <2>6
<1>4. ASSUME NEW t \in Sessions, t # s
      PROVE  told[t] \ About(M, t, EndMsgs) = told[t] \ ConnsOf(s)
  <2>1. told[t] \subseteq ConnsOf(t)
    BY DEF IInv, EndsAreTold
  <2>2. ASSUME NEW c \in told[t], c \in ConnsOf(s)
        PROVE  PeerSess(c, s) = t
    <3>1. t \in EndsOf(c)
      BY <2>1, <2>2 DEF ConnsOf
    <3> QED BY <3>1, <2>2, <1>0, <1>4, PeerProperties
  <2> QED BY <2>2, <1>3
<1>5. told' = [t \in Sessions |-> IF t = s THEN {} ELSE told[t] \ ConnsOf(s)]
  <2>1. told' = [t \in Sessions |->
                   ([told EXCEPT ![s] = {}][t] \cup About(M, t, OpenMsgs)) \ About(M, t, EndMsgs)]
    BY <1>2 DEF Send
  <2>2. ASSUME NEW t \in Sessions
        PROVE  ([told EXCEPT ![s] = {}][t] \cup About(M, t, OpenMsgs)) \ About(M, t, EndMsgs)
                 = IF t = s THEN {} ELSE told[t] \ ConnsOf(s)
    BY <1>0, <1>3, <1>4
  <2> QED BY <2>1, <2>2
<1>6. M \subseteq Messages
  <2> SUFFICES ASSUME NEW c \in ConnsOf(s)
               PROVE  sendConnStatus(PeerSess(c, s), c, "ERR_CANCELED", PeerMode(c, s), nodeId_[s])
                        \in Messages
    BY DEF CancelMsgs
  <2>1. PeerSess(c, s) \in Sessions /\ c \in ConnIds /\ PeerMode(c, s) \in Modes /\ nodeId_[s] \in Nodes
    <3>1. sessions_ \subseteq Sessions
      BY DEF IInv, TypeOK
    <3> QED BY <3>1, <1>0, PeerProperties
  <2> QED BY <2>1 DEF sendConnStatus, Messages, EndMsgs
<1> QED BY <1>2, <1>5, <1>6 DEF Send

(* A step that leaves the table alone, and the persistent sessions too,    *)
(* keeps the table sound and the clients informed.                         *)
LEMMA TableUnchanged ==
    ASSUME IInv, conns_' = conns_, told' = told, sessions_ \subseteq sessions_',
           \A s \in sessions_ : type_[s] = "Persistent" =>
               type_'[s] = type_[s] /\ nodeId_'[s] = nodeId_[s] /\ symm_'[s] = symm_[s]
    PROVE  ConnSound' /\ EndsAreTold'
<1>1. ConnSound'
  <2> SUFFICES ASSUME NEW c \in DOMAIN conns_
               PROVE  LET s == conns_[c].srcSess
                          d == conns_[c].dstSess
                      IN  /\ s \in sessions_' /\ type_'[s] = "Persistent" /\ nodeId_'[s] = c.nodeId
                          /\ d \in sessions_' /\ type_'[d] = "Persistent"
                          /\ nodeId_'[d] \in Nodes \ {c.nodeId}
                          /\ ~(symm_'[s] /\ symm_'[d])
                          /\ conns_[c].srcMode = ModeOf(s, d)'
                          /\ conns_[c].dstMode = ModeOf(d, s)'
    BY DEF ConnSound, ModeOf
  <2> DEFINE s == conns_[c].srcSess
             d == conns_[c].dstSess
  <2>1. /\ s \in sessions_ /\ type_[s] = "Persistent" /\ nodeId_[s] = c.nodeId
        /\ d \in sessions_ /\ type_[d] = "Persistent" /\ nodeId_[d] \in Nodes \ {c.nodeId}
        /\ ~(symm_[s] /\ symm_[d])
        /\ conns_[c].srcMode = ModeOf(s, d)
        /\ conns_[c].dstMode = ModeOf(d, s)
    BY DEF IInv, ConnSound
  <2> HIDE DEF s, d
  <2>2. /\ type_'[s] = type_[s] /\ nodeId_'[s] = nodeId_[s] /\ symm_'[s] = symm_[s]
        /\ type_'[d] = type_[d] /\ nodeId_'[d] = nodeId_[d] /\ symm_'[d] = symm_[d]
    BY <2>1
  <2>3. s' = s /\ d' = d
    BY DEF s, d
  <2> QED BY <2>1, <2>2, <2>3 DEF ModeOf, s, d
<1>2. EndsAreTold'
  <2> SUFFICES ASSUME NEW s \in Sessions
               PROVE  told[s] = IF s \in sessions_' THEN ConnsOf(s) ELSE {}
    BY DEF EndsAreTold, ConnsOf, EndsOf
  <2>1. told[s] = IF s \in sessions_ THEN ConnsOf(s) ELSE {}
    BY DEF IInv, EndsAreTold
  <2>2. s \notin sessions_ => ConnsOf(s) = {}
    BY PeerProperties
  <2> QED BY <2>1, <2>2
<1> QED BY <1>1, <1>2

(* The same for a step that removes the session r and its connections. *)
LEMMA TableWithout ==
    ASSUME IInv, NEW r \in sessions_, RemoveSession(r),
           \A s \in sessions_ \ {r} : type_[s] = "Persistent" =>
               type_'[s] = type_[s] /\ nodeId_'[s] = nodeId_[s] /\ symm_'[s] = symm_[s]
    PROVE  ConnSound' /\ EndsAreTold'
<1>0. /\ conns_' = Without(ConnsOf(r))
      /\ sessions_' = sessions_ \ {r}
      /\ told' = [t \in Sessions |-> IF t = r THEN {} ELSE told[t] \ ConnsOf(r)]
  BY RemoveTells
<1>1. ASSUME NEW c \in DOMAIN conns_'
      PROVE  /\ c \in DOMAIN conns_ /\ c \notin ConnsOf(r) /\ conns_'[c] = conns_[c]
  BY <1>0 DEF Without
<1>2. ConnSound'
  <2> SUFFICES ASSUME NEW c \in DOMAIN conns_'
               PROVE  (LET s == conns_[c].srcSess
                           d == conns_[c].dstSess
                       IN  /\ s \in sessions_ /\ type_[s] = "Persistent" /\ nodeId_[s] = c.nodeId
                           /\ d \in sessions_ /\ type_[d] = "Persistent"
                           /\ nodeId_[d] \in Nodes \ {c.nodeId}
                           /\ ~(symm_[s] /\ symm_[d])
                           /\ conns_[c].srcMode = ModeOf(s, d)
                           /\ conns_[c].dstMode = ModeOf(d, s))'
    BY DEF ConnSound, ModeOf
  <2>a. c \in DOMAIN conns_ /\ c \notin ConnsOf(r) /\ conns_'[c] = conns_[c]
    BY <1>1
  <2> DEFINE s == conns_[c].srcSess
             d == conns_[c].dstSess
  <2>1. /\ s \in sessions_ /\ type_[s] = "Persistent" /\ nodeId_[s] = c.nodeId
        /\ d \in sessions_ /\ type_[d] = "Persistent" /\ nodeId_[d] \in Nodes \ {c.nodeId}
        /\ ~(symm_[s] /\ symm_[d])
        /\ conns_[c].srcMode = ModeOf(s, d)
        /\ conns_[c].dstMode = ModeOf(d, s)
    BY <2>a DEF IInv, ConnSound
  <2>b. s # r /\ d # r
    BY <2>a DEF ConnsOf, EndsOf
  <2>c. s' = s /\ d' = d
    BY <2>a
  <2> HIDE DEF s, d
  <2>2. /\ type_'[s] = type_[s] /\ nodeId_'[s] = nodeId_[s] /\ symm_'[s] = symm_[s]
        /\ type_'[d] = type_[d] /\ nodeId_'[d] = nodeId_[d] /\ symm_'[d] = symm_[d]
    BY <2>1, <2>b
  <2> QED BY <1>0, <2>a, <2>b, <2>c, <2>1, <2>2 DEF ModeOf, s, d
<1>3. EndsAreTold'
  <2> SUFFICES ASSUME NEW s \in Sessions
               PROVE  told'[s] = IF s \in sessions_' THEN ConnsOf(s)' ELSE {}
    BY DEF EndsAreTold
  <2>1. told[s] = IF s \in sessions_ THEN ConnsOf(s) ELSE {}
    BY DEF IInv, EndsAreTold
  <2>2. ConnsOf(s)' = ConnsOf(s) \ ConnsOf(r)
    BY <1>0 DEF ConnsOf, EndsOf, Without
  <2> QED BY Zenon, <1>0, <2>1, <2>2
<1> QED BY <1>2, <1>3

(* Typing of conns_ once some connections have left it. *)
LEMMA WithoutType ==
    ASSUME TypeOK, NEW C, conns_' = Without(C)
    PROVE  DOMAIN conns_' \subseteq ConnIds /\ conns_' \in [DOMAIN conns_' -> Conn]
BY DEF Without, TypeOK

(* A relayed message goes to the other end and changes nobody's view. *)
LEMMA RelayTells ==
    ASSUME IInv, NEW p \in Sessions, NEW c, NEW msg \in RelayMsgs, NEW n \in Nodes,
           Send(Relay(p, c, msg, n), told)
    PROVE  sent' \subseteq Messages /\ told' = told
<1> DEFINE M == Relay(p, c, msg, n)
<1>0. told \in [Sessions -> SUBSET ConnIds] /\ sessions_ \subseteq Sessions
  BY DEF IInv, TypeOK
<1>1. M \subseteq Messages /\ \A m \in M : m.msg = msg
  <2>1. CASE c \in ConnsOf(p)
    <3>1. PeerSess(c, p) \in Sessions /\ c \in ConnIds
      BY <2>1, <1>0, PeerProperties
    <3> QED BY <2>1, <3>1 DEF Relay, sendRelay, Messages
  <2>2. CASE c \notin ConnsOf(p)
    BY <2>2 DEF Relay
  <2> QED BY <2>1, <2>2
<1>2. msg \notin OpenMsgs /\ msg \notin EndMsgs
  BY DEF RelayMsgs, OpenMsgs, EndMsgs, ErrMsgs
<1>3. \A t : About(M, t, OpenMsgs) = {} /\ About(M, t, EndMsgs) = {}
  BY <1>1, <1>2 DEF About
<1> HIDE DEF M
<1>4. sent' = M /\ told' = [t \in Sessions |->
                               (told[t] \cup About(M, t, OpenMsgs)) \ About(M, t, EndMsgs)]
  BY DEF Send, M
<1> QED BY <1>0, <1>1, <1>3, <1>4

(* A step that sends nothing changes nobody's view. *)
LEMMA SilenceTells ==
    ASSUME TypeOK, Send({}, told)
    PROVE  sent' = {} /\ told' = told
<1>1. \A t, K : About({}, t, K) = {}
  BY DEF About
<1> QED BY <1>1 DEF Send, TypeOK

-----------------------------------------------------------------------------
(* Each handler keeps the invariant. *)

(* A new session is nobody's yet. *)
LEMMA AcceptKeepsIInv ==
    ASSUME IInv, NEW s \in Sessions, NEW port \in Ports \cup {0}, onAccept(s, port)
    PROVE  IInv'
<1>1. sent' = {} /\ told' = told
  BY SilenceTells DEF onAccept, IInv
<1>2. TypeOK' /\ Named'
  BY <1>1 DEF onAccept, IInv, TypeOK, Named, Types
<1>3. OnePersistent'
  BY DEF onAccept, IInv, TypeOK, OnePersistent
<1>4. ConnSound' /\ EndsAreTold'
  <2>1. \A t \in sessions_ : type_'[t] = type_[t] /\ nodeId_'[t] = nodeId_[t] /\ symm_'[t] = symm_[t]
    BY Zenon DEF onAccept, IInv, TypeOK
  <2> QED BY Zenon, <1>1, <2>1, TableUnchanged DEF onAccept
<1> QED BY <1>2, <1>3, <1>4 DEF IInv

(* A session that goes takes its connections along. *)
LEMMA ErrorKeepsIInv ==
    ASSUME IInv, NEW s \in Sessions, onSessionError(s)
    PROVE  IInv'
<1>1. /\ s \in sessions_ /\ RemoveSession(s)
      /\ type_' = type_ /\ nodeId_' = nodeId_ /\ symm_' = symm_ /\ peerPort_' = peerPort_
  BY DEF onSessionError
<1>2. /\ conns_' = Without(ConnsOf(s)) /\ sessions_' = sessions_ \ {s} /\ sent' \subseteq Messages
      /\ told' = [t \in Sessions |-> IF t = s THEN {} ELSE told[t] \ ConnsOf(s)]
  BY <1>1, RemoveTells
<1>3. DOMAIN conns_' \subseteq ConnIds /\ conns_' \in [DOMAIN conns_' -> Conn]
  BY <1>2, WithoutType DEF IInv
<1>4. TypeOK' /\ Named' /\ OnePersistent'
  BY <1>1, <1>2, <1>3 DEF IInv, TypeOK, Named, OnePersistent
<1>5. ConnSound' /\ EndsAreTold'
  BY <1>1, TableWithout
<1> QED BY <1>4, <1>5 DEF IInv

(* HELLO leaves the node with the new session only. *)
LEMMA HelloKeepsIInv ==
    ASSUME IInv, NEW s \in Sessions, NEW n \in Nodes, NEW port \in Ports \cup {0},
           type_[s] = "Unknown", onRecvMsgHello(s, n, port)
    PROVE  IInv'
<1>1. /\ s \in sessions_ /\ type_[s] = "Unknown"
      /\ type_' = [type_ EXCEPT ![s] = "Persistent"] /\ nodeId_' = [nodeId_ EXCEPT ![s] = n]
      /\ symm_' \in [Sessions -> BOOLEAN] /\ peerPort_' = peerPort_
      /\ \A t \in Sessions \ {s} : symm_'[t] = symm_[t]
  BY DEF onRecvMsgHello, IInv, TypeOK
<1>2. /\ \A t \in Sessions \ {s} : type_'[t] = type_[t] /\ nodeId_'[t] = nodeId_[t]
      /\ type_'[s] = "Persistent" /\ nodeId_'[s] = n
      /\ type_' \in [Sessions -> Types] /\ nodeId_' \in [Sessions -> Nodes \cup {NoNode}]
  BY <1>1 DEF IInv, TypeOK, Types
<1>3. Named'
  BY <1>1, <1>2 DEF IInv, Named
<1>4. CASE Overridden(s, n) = {}
  <2>1. sessions_' = sessions_ /\ conns_' = conns_ /\ Send({}, told)
    BY <1>4 DEF onRecvMsgHello
  <2>2. sent' = {} /\ told' = told
    BY <2>1, SilenceTells DEF IInv
  <2>3. TypeOK'
    BY <1>1, <1>2, <2>1, <2>2 DEF IInv, TypeOK
  <2>4. OnePersistent'
    <3>1. \A t \in sessions_ : type_[t] = "Persistent" => nodeId_[t] # n
      BY <1>1, <1>4 DEF Overridden, PersistentOf
    <3> QED BY <3>1, <2>1, <1>1, <1>2 DEF IInv, TypeOK, OnePersistent
  <2>5. \A t \in sessions_ : type_[t] = "Persistent" =>
            type_'[t] = type_[t] /\ nodeId_'[t] = nodeId_[t] /\ symm_'[t] = symm_[t]
    BY <1>1, <1>2 DEF IInv, TypeOK
  <2>6. ConnSound' /\ EndsAreTold'
    BY <2>1, <2>2, <2>5, TableUnchanged
  <2> QED BY <1>3, <2>3, <2>4, <2>6 DEF IInv
<1>5. CASE Overridden(s, n) # {}
  <2>1. PICK other \in Overridden(s, n) : RemoveSession(other)
    BY <1>5 DEF onRecvMsgHello
  <2>2. /\ other \in sessions_ /\ other # s /\ nodeId_[other] = n /\ type_[other] = "Persistent"
    BY <2>1 DEF Overridden, PersistentOf
  <2>3. /\ conns_' = Without(ConnsOf(other)) /\ sessions_' = sessions_ \ {other}
        /\ sent' \subseteq Messages
        /\ told' = [t \in Sessions |-> IF t = other THEN {} ELSE told[t] \ ConnsOf(other)]
    BY <2>1, <2>2, RemoveTells
  <2>4. DOMAIN conns_' \subseteq ConnIds /\ conns_' \in [DOMAIN conns_' -> Conn]
    BY <2>3, WithoutType DEF IInv
  <2>5. TypeOK'
    BY <1>1, <1>2, <2>3, <2>4 DEF IInv, TypeOK
  <2>6. OnePersistent'
    <3>1. \A t \in sessions_ \ {other} : type_[t] = "Persistent" => nodeId_[t] # n
      BY <2>2 DEF IInv, OnePersistent
    <3> QED BY <3>1, <2>3, <1>1, <1>2 DEF IInv, TypeOK, OnePersistent
  <2>7. \A t \in sessions_ \ {other} : type_[t] = "Persistent" =>
            type_'[t] = type_[t] /\ nodeId_'[t] = nodeId_[t] /\ symm_'[t] = symm_[t]
    BY <1>1, <1>2 DEF IInv, TypeOK
  <2>8. ConnSound' /\ EndsAreTold'
    BY <2>1, <2>2, <2>7, TableWithout
  <2> QED BY <1>3, <2>5, <2>6, <2>8 DEF IInv
<1> QED BY <1>4, <1>5

(* The sessions that carry an address or a probe never become persistent. *)
LEMMA ShortLivedKeepsIInv ==
    ASSUME IInv, NEW s \in sessions_, NEW type \in {"Probe", "Fast", "Symm"},
           type_[s] = "Unknown", type_' = [type_ EXCEPT ![s] = type],
           \A t \in Sessions \ {s} : nodeId_'[t] = nodeId_[t],
           nodeId_' \in [Sessions -> Nodes \cup {NoNode}],
           UNCHANGED <<sessions_, symm_, peerPort_, conns_>>,
           sent' \subseteq Messages, told' = told
    PROVE  IInv'
<1>1. /\ \A t \in Sessions \ {s} : type_'[t] = type_[t]
      /\ type_'[s] # "Persistent" /\ type_' \in [Sessions -> Types]
  BY DEF IInv, TypeOK, Types
<1>2. TypeOK' /\ Named'
  BY <1>1 DEF IInv, TypeOK, Named
<1>3. OnePersistent'
  BY <1>1 DEF IInv, TypeOK, OnePersistent
<1>4. \A t \in sessions_ : type_[t] = "Persistent" =>
          type_'[t] = type_[t] /\ nodeId_'[t] = nodeId_[t] /\ symm_'[t] = symm_[t]
  BY <1>1 DEF IInv, TypeOK
<1>5. ConnSound' /\ EndsAreTold'
  BY <1>4, TableUnchanged
<1> QED BY <1>2, <1>3, <1>5 DEF IInv

(* The answer to HELLO_PROBE concerns no connection. *)
LEMMA ProbeKeepsIInv ==
    ASSUME IInv, NEW s \in Sessions, type_[s] = "Unknown", onRecvMsgHelloProbe(s)
    PROVE  IInv' /\ \A m \in sent' : m.msg = "PROBE"
<1> DEFINE m == [to |-> s, msg |-> "PROBE", port |-> peerPort_[s]]
<1>1. s \in sessions_ /\ Send({m}, told) /\ told \in [Sessions -> SUBSET ConnIds]
  BY DEF onRecvMsgHelloProbe, IInv, TypeOK
<1>2. m \in Messages /\ m.msg = "PROBE"
  BY DEF Messages, IInv, TypeOK
<1>3. "PROBE" \notin OpenMsgs /\ "PROBE" \notin EndMsgs
  BY DEF OpenMsgs, EndMsgs, ErrMsgs
<1> HIDE DEF m
<1>4. \A t : About({m}, t, OpenMsgs) = {} /\ About({m}, t, EndMsgs) = {}
  BY <1>2, <1>3 DEF About
<1>5. sent' = {m} /\ told' = told
  BY <1>1, <1>4 DEF Send
<1>6. /\ type_[s] = "Unknown" /\ type_' = [type_ EXCEPT ![s] = "Probe"]
      /\ UNCHANGED <<sessions_, nodeId_, symm_, peerPort_, conns_>>
  BY DEF onRecvMsgHelloProbe
<1>7. IInv'
  <2>1. nodeId_' \in [Sessions -> Nodes \cup {NoNode}] /\ sent' \subseteq Messages
    BY <1>2, <1>5, <1>6 DEF IInv, TypeOK
  <2> QED BY Zenon, <1>1, <1>5, <1>6, <2>1, ShortLivedKeepsIInv
<1> QED BY <1>2, <1>5, <1>7

(* HELLO_FAST and HELLO_SYMM: at most one message leaves, to the other end *)
(* of the connection.                                                      *)
LEMMA HelloAddressSends ==
    ASSUME IInv, NEW s \in Sessions, NEW n \in Nodes, NEW c, NEW type, NEW msg \in RelayMsgs,
           HelloAddress(s, n, c, type, msg)
    PROVE  /\ sent' \subseteq Messages /\ told' = told
           /\ sent' = {} \/ \E p \in PersistentOf(n) : sent' = Relay(p, c, msg, n)
<1>1. CASE peerPort_[s] = 0 \/ PersistentOf(n) = {}
  <2>1. Send({}, told)
    BY <1>1 DEF HelloAddress
  <2>2. sent' = {} /\ told' = told
    BY <2>1, SilenceTells DEF IInv
  <2> QED BY <2>2
<1>2. CASE ~(peerPort_[s] = 0 \/ PersistentOf(n) = {})
  <2>1. PICK p \in PersistentOf(n) : Send(Relay(p, c, msg, n), told)
    BY <1>2 DEF HelloAddress
  <2>2. p \in Sessions
    BY DEF PersistentOf, IInv, TypeOK
  <2>3. sent' \subseteq Messages /\ told' = told
    BY <2>1, <2>2, RelayTells
  <2> QED BY <2>1, <2>3 DEF Send
<1> QED BY <1>1, <1>2

(* Neither does it touch the sessions that connections join. *)
LEMMA HelloAddressKeepsIInv ==
    ASSUME IInv, NEW s \in Sessions, NEW n \in Nodes, NEW c, NEW type \in {"Fast", "Symm"},
           NEW msg \in RelayMsgs, type_[s] = "Unknown", HelloAddress(s, n, c, type, msg)
    PROVE  IInv'
<1>1. sent' \subseteq Messages /\ told' = told
  BY HelloAddressSends
<1>2. /\ s \in sessions_ /\ type_[s] = "Unknown" /\ type_' = [type_ EXCEPT ![s] = type]
      /\ nodeId_' = [nodeId_ EXCEPT ![s] = n]
      /\ UNCHANGED <<sessions_, symm_, peerPort_, conns_>>
  BY DEF HelloAddress
<1>3. /\ nodeId_' \in [Sessions -> Nodes \cup {NoNode}]
      /\ \A t \in Sessions \ {s} : nodeId_'[t] = nodeId_[t]
  BY <1>2 DEF IInv, TypeOK
<1> QED BY Zenon, <1>1, <1>2, <1>3, ShortLivedKeepsIInv

(* READY and NEXT are passed on. *)
LEMMA RelayKeepsIInv ==
    ASSUME IInv, NEW s \in Sessions, NEW c, NEW msg \in RelayMsgs,
           type_[s] = "Persistent", RelayMessage(s, c, msg)
    PROVE  IInv' /\ sent' = Relay(s, c, msg, nodeId_[s])
<1>1. /\ type_[s] = "Persistent" /\ Send(Relay(s, c, msg, nodeId_[s]), told)
      /\ UNCHANGED <<sessions_, type_, nodeId_, symm_, peerPort_, conns_>>
  BY DEF RelayMessage, sessionVars
<1>2. nodeId_[s] \in Nodes
  BY <1>1 DEF IInv, Named
<1>3. sent' \subseteq Messages /\ told' = told
  BY <1>1, <1>2, RelayTells
<1>4. TypeOK' /\ Named' /\ OnePersistent'
  BY <1>1, <1>3 DEF IInv, TypeOK, Named, OnePersistent
<1>5. ConnSound' /\ EndsAreTold'
  BY <1>1, <1>3, TableUnchanged
<1> QED BY <1>1, <1>4, <1>5 DEF IInv, Send

(* A refused request is answered and forgotten. *)
LEMMA RefuseKeepsIInv ==
    ASSUME IInv, NEW s \in sessions_, type_[s] = "Persistent", NEW c \in ConnIds, NEW n \in Nodes,
           c \notin told[s], Refuse(s, c, n), UNCHANGED sessionVars
    PROVE  /\ IInv'
           /\ \E e \in ErrMsgs : sent' = {sendConnStatus(s, c, e, "FAST", nodeId_[s])}
<1>1. PICK e \in Refusals(s, c, n) :
          conns_' = conns_ /\ Send({sendConnStatus(s, c, e, "FAST", nodeId_[s])}, told)
  BY DEF Refuse
<1>2. e \in ErrMsgs
  BY DEF Refusals, ErrMsgs
<1> DEFINE m == sendConnStatus(s, c, e, "FAST", nodeId_[s])
<1>3. m.to = s /\ m.msg = e /\ m.connId = c
  BY DEF sendConnStatus
<1>4. s \in Sessions /\ nodeId_[s] \in Nodes /\ told \in [Sessions -> SUBSET ConnIds]
  BY DEF IInv, TypeOK, Named
<1>5. m \in Messages
  BY <1>2, <1>4 DEF sendConnStatus, Messages, EndMsgs, Modes
<1> HIDE DEF m
<1>6. e \in EndMsgs /\ e \notin OpenMsgs
  BY <1>2 DEF EndMsgs, ErrMsgs, OpenMsgs
<1>7. \A t : About({m}, t, OpenMsgs) = {} /\ About({m}, t, EndMsgs) \subseteq {c}
  BY <1>3, <1>6 DEF About
<1>8. \A t : t # s => About({m}, t, EndMsgs) = {}
  BY <1>3 DEF About
<1>9. sent' = {m} /\ told' = told
  <2>1. sent' = {m} /\ told' = [t \in Sessions |->
                 (told[t] \cup About({m}, t, OpenMsgs)) \ About({m}, t, EndMsgs)]
    BY <1>1 DEF Send, m
  <2>2. \A t \in Sessions :
            (told[t] \cup About({m}, t, OpenMsgs)) \ About({m}, t, EndMsgs) = told[t]
    BY <1>7, <1>8
  <2> QED BY Zenon, <2>1, <2>2, <1>4
<1>10. TypeOK' /\ Named' /\ OnePersistent'
  BY <1>1, <1>5, <1>9 DEF IInv, TypeOK, Named, OnePersistent, sessionVars
<1>11. ConnSound' /\ EndsAreTold'
  BY <1>1, <1>9, TableUnchanged DEF sessionVars
<1> QED BY <1>2, <1>9, <1>10, <1>11 DEF IInv, m

(* What accepting a request does. *)
Created(s, c, n, d) ==
    /\ type_[d] = "Persistent" /\ nodeId_[d] = n /\ d # s /\ n # c.nodeId
    /\ nodeId_[s] = c.nodeId /\ c \notin DOMAIN conns_ /\ ~(symm_[s] /\ symm_[d])
    /\ conns_' = [x \in DOMAIN conns_ \cup {c} |->
                     IF x = c THEN [srcSess |-> s, dstSess |-> d,
                                    srcMode |-> ModeOf(s, d), dstMode |-> ModeOf(d, s)]
                     ELSE conns_[x]]
    /\ sent' = {sendConnStatus(s, c, "PENDING", ModeOf(s, d), nodeId_[s]),
                sendConnRequest(d, c, ModeOf(d, s), nodeId_[s])}
    /\ sent' \subseteq Messages
    /\ told' = [t \in Sessions |-> IF t \in {s, d} THEN told[t] \cup {c} ELSE told[t]]

(* A request that is granted opens the connection at both ends. *)
LEMMA CreateTells ==
    ASSUME IInv, NEW s \in sessions_, type_[s] = "Persistent", NEW c \in ConnIds, NEW n \in Nodes,
           Create(s, c, n), UNCHANGED sessionVars
    PROVE  \E d \in sessions_ : Created(s, c, n, d)
<1>1. PICK d \in PersistentOf(n) :
        /\ conns_' = [x \in DOMAIN conns_ \cup {c} |->
                         IF x = c THEN [srcSess |-> s, dstSess |-> d,
                                        srcMode |-> ModeOf(s, d), dstMode |-> ModeOf(d, s)]
                         ELSE conns_[x]]
        /\ Send({sendConnStatus(s, c, "PENDING", ModeOf(s, d), nodeId_[s]),
                 sendConnRequest(d, c, ModeOf(d, s), nodeId_[s])}, told)
  BY Zenon DEF Create
<1>2. /\ nodeId_[s] = c.nodeId /\ n # c.nodeId /\ c \notin DOMAIN conns_ /\ ~(symm_[s] /\ symm_[d])
  BY Zenon, <1>1 DEF Create, Refusals
<1>3. d \in sessions_ /\ nodeId_[d] = n /\ type_[d] = "Persistent" /\ d # s
  BY Zenon, <1>1, <1>2 DEF PersistentOf
<1>4. s \in Sessions /\ d \in Sessions /\ nodeId_[s] \in Nodes /\ told \in [Sessions -> SUBSET ConnIds]
  BY <1>3 DEF IInv, TypeOK, Named
<1> DEFINE a == sendConnStatus(s, c, "PENDING", ModeOf(s, d), nodeId_[s])
           b == sendConnRequest(d, c, ModeOf(d, s), nodeId_[s])
<1>5. /\ a.to = s /\ a.msg = "PENDING" /\ a.connId = c
      /\ b.to = d /\ b.msg = "CONN" /\ b.connId = c
  BY DEF sendConnStatus, sendConnRequest
<1>6. ModeOf(s, d) \in Modes /\ ModeOf(d, s) \in Modes
  BY DEF ModeOf, Modes
<1>7. a \in Messages /\ b \in Messages
  BY <1>4, <1>6 DEF sendConnStatus, sendConnRequest, Messages, OpenMsgs
<1>8. sent' = {a, b} /\ told' = [t \in Sessions |->
          (told[t] \cup About({a, b}, t, OpenMsgs)) \ About({a, b}, t, EndMsgs)]
  BY Zenon, <1>1 DEF Send
<1> HIDE DEF a, b
<1>9. \A t \in Sessions : /\ About({a, b}, t, EndMsgs) = {}
                          /\ About({a, b}, t, OpenMsgs) = IF t \in {s, d} THEN {c} ELSE {}
  <2>1. "PENDING" \in OpenMsgs /\ "CONN" \in OpenMsgs /\ "PENDING" \notin EndMsgs /\ "CONN" \notin EndMsgs
    BY DEF OpenMsgs, EndMsgs, ErrMsgs
  <2> TAKE t \in Sessions
  <2>2. About({a, b}, t, EndMsgs) = {}
    BY <1>5, <2>1 DEF About
  <2>3. About({a, b}, t, OpenMsgs) \subseteq {c}
    BY <1>5 DEF About
  <2>4. ASSUME t \notin {s, d} PROVE About({a, b}, t, OpenMsgs) = {}
    BY <1>5, <2>4 DEF About
  <2>5. ASSUME t = s PROVE c \in About({a, b}, t, OpenMsgs)
    BY <1>5, <2>1, <2>5 DEF About
  <2>6. ASSUME t = d PROVE c \in About({a, b}, t, OpenMsgs)
    BY <1>5, <2>1, <2>6 DEF About
  <2> QED BY <2>2, <2>3, <2>4, <2>5, <2>6
<1>10. told' = [t \in Sessions |-> IF t \in {s, d} THEN told[t] \cup {c} ELSE told[t]]
  <2>1. \A t \in Sessions : (told[t] \cup About({a, b}, t, OpenMsgs)) \ About({a, b}, t, EndMsgs)
                              = IF t \in {s, d} THEN told[t] \cup {c} ELSE told[t]
    BY <1>9
  <2> QED BY <1>8, <2>1
<1>11. sent' \subseteq Messages
  BY <1>7, <1>8
<1>12. Created(s, c, n, d)
  BY Zenon, <1>1, <1>2, <1>3, <1>8, <1>10, <1>11 DEF a, b, Created
<1> QED BY <1>3, <1>12

(* The new entry is sound. *)
LEMMA CreateKeepsIInv ==
    ASSUME IInv, NEW s \in sessions_, type_[s] = "Persistent", NEW c \in ConnIds, NEW n \in Nodes,
           Create(s, c, n), UNCHANGED sessionVars
    PROVE  IInv'
<1>0. PICK d \in sessions_ : Created(s, c, n, d)
  BY CreateTells
<1>1. /\ type_[d] = "Persistent" /\ nodeId_[d] = n /\ d # s /\ n # c.nodeId
      /\ nodeId_[s] = c.nodeId /\ c \notin DOMAIN conns_ /\ ~(symm_[s] /\ symm_[d])
      /\ conns_' = [x \in DOMAIN conns_ \cup {c} |->
                       IF x = c THEN [srcSess |-> s, dstSess |-> d,
                                      srcMode |-> ModeOf(s, d), dstMode |-> ModeOf(d, s)]
                       ELSE conns_[x]]
      /\ sent' \subseteq Messages
      /\ told' = [t \in Sessions |-> IF t \in {s, d} THEN told[t] \cup {c} ELSE told[t]]
  BY <1>0 DEF Created
<1>2. /\ sessions_' = sessions_ /\ type_' = type_ /\ nodeId_' = nodeId_ /\ symm_' = symm_
      /\ peerPort_' = peerPort_
  BY DEF sessionVars
<1>3. s \in Sessions /\ d \in Sessions
  BY DEF IInv, TypeOK
<1>4. /\ DOMAIN conns_' = DOMAIN conns_ \cup {c}
      /\ \A x \in DOMAIN conns_ : conns_'[x] = conns_[x]
      /\ conns_'[c] = [srcSess |-> s, dstSess |-> d, srcMode |-> ModeOf(s, d), dstMode |-> ModeOf(d, s)]
  BY <1>1
<1>5. conns_'[c] \in Conn
  <2>1. ModeOf(s, d) \in Modes /\ ModeOf(d, s) \in Modes
    BY DEF ModeOf, Modes
  <2> QED BY SMTT(30), <1>3, <1>4, <2>1 DEF Conn
<1>6. DOMAIN conns_' \subseteq ConnIds /\ conns_' \in [DOMAIN conns_' -> Conn]
  <2>1. \A x \in DOMAIN conns_' : conns_'[x] \in Conn
    BY <1>4, <1>5 DEF IInv, TypeOK
  <2> QED BY Zenon, <1>1, <1>4, <2>1 DEF IInv, TypeOK
<1>7. TypeOK' /\ Named' /\ OnePersistent'
  BY <1>1, <1>2, <1>6 DEF IInv, TypeOK, Named, OnePersistent
<1>8. ConnSound'
  <2> SUFFICES ASSUME NEW x \in DOMAIN conns_'
               PROVE  (LET p == conns_[x].srcSess
                           q == conns_[x].dstSess
                       IN  /\ p \in sessions_ /\ type_[p] = "Persistent" /\ nodeId_[p] = x.nodeId
                           /\ q \in sessions_ /\ type_[q] = "Persistent"
                           /\ nodeId_[q] \in Nodes \ {x.nodeId}
                           /\ ~(symm_[p] /\ symm_[q])
                           /\ conns_[x].srcMode = ModeOf(p, q)
                           /\ conns_[x].dstMode = ModeOf(q, p))'
    BY Zenon DEF ConnSound, ModeOf
  <2>1. CASE x = c
    BY Zenon, <1>1, <1>2, <1>4, <2>1 DEF ModeOf
  <2>2. CASE x # c
    <3>1. x \in DOMAIN conns_ /\ conns_'[x] = conns_[x]
      BY <1>4, <2>2
    <3> QED BY Zenon, <1>2, <3>1 DEF IInv, ConnSound, ModeOf
  <2> QED BY Zenon, <2>1, <2>2
<1>9. EndsAreTold'
  <2> SUFFICES ASSUME NEW t \in Sessions
               PROVE  told'[t] = IF t \in sessions_' THEN ConnsOf(t)' ELSE {}
    BY DEF EndsAreTold
  <2>1. told[t] = IF t \in sessions_ THEN ConnsOf(t) ELSE {}
    BY DEF IInv, EndsAreTold
  <2>2. \A x \in DOMAIN conns_ : EndsOf(x)' = EndsOf(x)
    BY <1>4 DEF EndsOf
  <2>3. EndsOf(c)' = {s, d}
    BY <1>4 DEF EndsOf
  <2>4. ConnsOf(t)' = IF t \in {s, d} THEN ConnsOf(t) \cup {c} ELSE ConnsOf(t)
    BY Zenon, <1>1, <1>4, <2>2, <2>3 DEF ConnsOf
  <2>5. told'[t] = IF t \in {s, d} THEN told[t] \cup {c} ELSE told[t]
    BY Zenon, <1>1
  <2> QED BY <1>2, <2>1, <2>4, <2>5
<1> QED BY <1>7, <1>8, <1>9 DEF IInv

(* A close ends the connection at the other end too, if it was one. *)
LEMMA CloseTells ==
    ASSUME IInv, NEW s \in Sessions, NEW c \in ConnIds, NEW est,
           onSessionConnClose(s, c, est)
    PROVE  /\ sent' \subseteq Messages
           /\ \A m \in sent' : /\ c \in ConnsOf(s) /\ m.to = PeerSess(c, s) /\ m.connId = c
                               /\ m.from = nodeId_[s] /\ m.msg \in {"ESTABLISHED", "ERR_CANCELED"}
           /\ conns_' = Without({c} \cap ConnsOf(s))
           /\ told' = [t \in Sessions |-> IF t = s THEN told[t] \ {c}
                                          ELSE told[t] \ ({c} \cap ConnsOf(s))]
<1> DEFINE st == IF est THEN "ESTABLISHED" ELSE "ERR_CANCELED"
           msg == sendConnStatus(PeerSess(c, s), c, st, PeerMode(c, s), nodeId_[s])
           M == IF c \in ConnsOf(s) THEN {msg} ELSE {}
<1>0. told \in [Sessions -> SUBSET ConnIds] /\ sessions_ \subseteq Sessions
  BY DEF IInv, TypeOK
<1>1. st \in {"ESTABLISHED", "ERR_CANCELED"}
  OBVIOUS
<1>2. /\ msg.to = PeerSess(c, s) /\ msg.msg = st /\ msg.connId = c /\ msg.from = nodeId_[s]
  BY DEF sendConnStatus
<1>3. c \in ConnsOf(s) => msg \in Messages
  <2> SUFFICES ASSUME c \in ConnsOf(s) PROVE msg \in Messages
    OBVIOUS
  <2>1. PeerSess(c, s) \in Sessions /\ PeerMode(c, s) \in Modes /\ nodeId_[s] \in Nodes
    BY <1>0, PeerProperties
  <2> HIDE DEF st
  <2> QED BY <1>1, <2>1 DEF sendConnStatus, Messages, EndMsgs
<1>4. conns_' = Without({c} \cap ConnsOf(s)) /\ Send(M, [told EXCEPT ![s] = @ \ {c}])
  <2>1. {sendConnStatus(PeerSess(x, s), x, st, PeerMode(x, s), nodeId_[s]) : x \in {c} \cap ConnsOf(s)} = M
    <3> DEFINE f(x) == sendConnStatus(PeerSess(x, s), x, st, PeerMode(x, s), nodeId_[s])
    <3>1. msg = f(c)
      OBVIOUS
    <3> HIDE DEF f, msg, st
    <3>2. {f(x) : x \in {c} \cap ConnsOf(s)} = M
      BY <3>1
    <3> QED BY <3>2 DEF f
  <2> QED BY <2>1 DEF onSessionConnClose
<1> HIDE DEF st, msg
<1>5. sent' = M
  BY <1>4 DEF Send
<1>6. ASSUME NEW t \in Sessions
      PROVE  /\ About(M, t, OpenMsgs) = {}
             /\ About(M, t, EndMsgs) = IF c \in ConnsOf(s) /\ t = PeerSess(c, s) THEN {c} ELSE {}
  <2>1. st \in EndMsgs /\ st \notin OpenMsgs
    BY <1>1 DEF EndMsgs, OpenMsgs
  <2>2. About(M, t, OpenMsgs) = {}
    BY <1>2, <2>1 DEF About
  <2>3. ASSUME c \in ConnsOf(s), t = PeerSess(c, s) PROVE About(M, t, EndMsgs) = {c}
    BY <1>2, <2>1, <2>3 DEF About
  <2>4. ASSUME ~(c \in ConnsOf(s) /\ t = PeerSess(c, s)) PROVE About(M, t, EndMsgs) = {}
    BY <1>2, <2>4 DEF About
  <2> QED BY <2>2, <2>3, <2>4
<1>7. told' = [t \in Sessions |-> IF t = s THEN told[t] \ {c} ELSE told[t] \ ({c} \cap ConnsOf(s))]
  <2>1. told' = [t \in Sessions |->
           ([told EXCEPT ![s] = @ \ {c}][t] \cup About(M, t, OpenMsgs)) \ About(M, t, EndMsgs)]
    BY <1>4 DEF Send
  <2>2. ASSUME NEW t \in Sessions
        PROVE  ([told EXCEPT ![s] = @ \ {c}][t] \cup About(M, t, OpenMsgs)) \ About(M, t, EndMsgs)
                 = IF t = s THEN told[t] \ {c} ELSE told[t] \ ({c} \cap ConnsOf(s))
    <3>1. CASE t = s
      <4>1. About(M, t, EndMsgs) = {}
        BY Zenon, <1>6, <3>1, PeerProperties
      <4> QED BY <1>0, <1>6, <3>1, <4>1
    <3>2. CASE t # s
      <4>1. [told EXCEPT ![s] = @ \ {c}][t] = told[t]
        BY <1>0, <3>2
      <4>2. CASE c \in ConnsOf(s)
        <5>1. c \in told[t] => t = PeerSess(c, s)
          <6>1. c \in told[t] => t \in EndsOf(c)
            BY Zenon DEF IInv, EndsAreTold, ConnsOf
          <6> QED BY <3>2, <4>2, <6>1, PeerProperties
        <5> QED BY <1>6, <3>2, <4>1, <4>2, <5>1
      <4>3. CASE c \notin ConnsOf(s)
        BY <1>6, <3>2, <4>1, <4>3
      <4> QED BY <4>2, <4>3
    <3> QED BY <3>1, <3>2
  <2> QED BY Zenon, <2>1, <2>2
<1>8. sent' \subseteq Messages
  BY <1>3, <1>5
<1>9. \A m \in sent' : /\ c \in ConnsOf(s) /\ m.to = PeerSess(c, s) /\ m.connId = c
                       /\ m.from = nodeId_[s] /\ m.msg \in {"ESTABLISHED", "ERR_CANCELED"}
  BY <1>1, <1>2, <1>5
<1> QED BY Zenon, <1>4, <1>7, <1>8, <1>9

(* What is left of the table is sound and known to its ends. *)
LEMMA CloseKeepsIInv ==
    ASSUME IInv, NEW s \in Sessions, NEW c \in ConnIds, NEW est \in BOOLEAN,
           onSessionConnClose(s, c, est)
    PROVE  IInv'
<1> DEFINE C == {c} \cap ConnsOf(s)
<1>1. /\ sessions_' = sessions_ /\ type_' = type_ /\ nodeId_' = nodeId_ /\ symm_' = symm_
      /\ peerPort_' = peerPort_ /\ s \in sessions_
  BY DEF onSessionConnClose, sessionVars
<1>2. /\ sent' \subseteq Messages /\ conns_' = Without(C)
      /\ told' = [t \in Sessions |-> IF t = s THEN told[t] \ {c} ELSE told[t] \ C]
  <2>1. sent' \subseteq Messages
    BY Zenon, CloseTells
  <2>2. conns_' = Without(C)
    BY CloseTells
  <2>3. told' = [t \in Sessions |-> IF t = s THEN told[t] \ {c} ELSE told[t] \ C]
    BY Zenon, CloseTells
  <2> QED BY <2>1, <2>2, <2>3
<1>3. DOMAIN conns_' \subseteq ConnIds /\ conns_' \in [DOMAIN conns_' -> Conn]
  BY Zenon, <1>2, WithoutType DEF IInv
<1>4. told' \in [Sessions -> SUBSET ConnIds]
  BY <1>2 DEF IInv, TypeOK
<1>5. TypeOK' /\ Named' /\ OnePersistent'
  BY Zenon, <1>1, <1>2, <1>3, <1>4 DEF IInv, TypeOK, Named, OnePersistent
<1>6. DOMAIN conns_' = DOMAIN conns_ \ C /\ \A x \in DOMAIN conns_' : conns_'[x] = conns_[x]
  BY <1>2 DEF Without
<1>7. ConnSound'
  BY SMTT(30), <1>1, <1>6 DEF IInv, ConnSound, ModeOf
<1>8. EndsAreTold'
  <2> SUFFICES ASSUME NEW t \in Sessions
               PROVE  told'[t] = IF t \in sessions_' THEN ConnsOf(t)' ELSE {}
    BY DEF EndsAreTold
  <2>1. told[t] = IF t \in sessions_ THEN ConnsOf(t) ELSE {}
    BY DEF IInv, EndsAreTold
  <2>2. ConnsOf(t)' = ConnsOf(t) \ C
    BY <1>6 DEF ConnsOf, EndsOf
  <2>3. told'[t] = IF t = s THEN told[t] \ {c} ELSE told[t] \ C
    BY <1>2
  <2> QED BY <1>1, <2>1, <2>2, <2>3
<1> QED BY <1>5, <1>7, <1>8 DEF IInv

-----------------------------------------------------------------------------
(* The invariant holds at first. *)
LEMMA InitIInv == Init => IInv
<1> SUFFICES ASSUME Init PROVE IInv
  OBVIOUS
<1>1. DOMAIN conns_ = {}
  BY DEF Init
<1>2. TypeOK
  BY <1>1 DEF Init, TypeOK, Types
<1> QED BY <1>1, <1>2 DEF Init, IInv, Named, OnePersistent, ConnSound, EndsAreTold, ConnsOf

(* Every step keeps it. *)
LEMMA NextIInv == IInv /\ [Next]_vars => IInv'
<1> SUFFICES ASSUME IInv, [Next]_vars PROVE IInv'
  OBVIOUS
<1>1. CASE UNCHANGED vars
  BY SMTT(30), <1>1 DEF vars, sessionVars, IInv, TypeOK, Named, OnePersistent, ConnSound, EndsAreTold,
              ConnsOf, EndsOf, ModeOf
<1>2. ASSUME NEW s \in Sessions, NEW port \in Ports \cup {0}, onAccept(s, port) PROVE IInv'
  BY <1>2, AcceptKeepsIInv
<1>3. ASSUME NEW s \in Sessions, onSessionError(s) PROVE IInv'
  BY <1>3, ErrorKeepsIInv
<1>4. ASSUME NEW s \in Sessions, NEW n \in Nodes, NEW port \in Ports \cup {0},
             type_[s] = "Unknown", onRecvMsgHello(s, n, port)
      PROVE  IInv'
  BY <1>4, HelloKeepsIInv
<1>5. ASSUME NEW s \in Sessions, type_[s] = "Unknown", onRecvMsgHelloProbe(s) PROVE IInv'
  BY <1>5, ProbeKeepsIInv
<1>6. ASSUME NEW s \in Sessions, NEW c \in ConnIds, NEW n \in Nodes, type_[s] = "Unknown",
             onSessionHelloFast(s, n, c) \/ onSessionHelloSymm(s, n, c)
      PROVE  IInv'
  <2>1. "FAST" \in RelayMsgs /\ "SYMM" \in RelayMsgs
    BY DEF RelayMsgs
  <2> QED BY <1>6, <2>1, HelloAddressKeepsIInv DEF onSessionHelloFast, onSessionHelloSymm
<1>7. ASSUME NEW s \in Sessions, NEW c \in ConnIds, NEW n \in Nodes, c \notin told[s],
             type_[s] = "Persistent", onSessionConnCreate(s, c, n)
      PROVE  IInv'
  <2>1. /\ s \in sessions_ /\ type_[s] = "Persistent" /\ UNCHANGED sessionVars
        /\ Refuse(s, c, n) \/ Create(s, c, n)
    BY Zenon, <1>7 DEF onSessionConnCreate
  <2> QED BY Zenon, <1>7, <2>1, RefuseKeepsIInv, CreateKeepsIInv
<1>8. ASSUME NEW s \in Sessions, NEW c \in ConnIds, NEW est \in BOOLEAN,
             onSessionConnClose(s, c, est)
      PROVE  IInv'
  BY <1>8, CloseKeepsIInv
<1>9. ASSUME NEW s \in Sessions, NEW c \in ConnIds, type_[s] = "Persistent",
             onSessionReady(s, c) \/ onSessionNext(s, c)
      PROVE  IInv'
  <2>1. "READY" \in RelayMsgs /\ "NEXT" \in RelayMsgs
    BY DEF RelayMsgs
  <2> QED BY <1>9, <2>1, RelayKeepsIInv DEF onSessionReady, onSessionNext
<1> QED BY Zenon, <1>1, <1>2, <1>3, <1>4, <1>5, <1>6, <1>7, <1>8, <1>9 DEF Next, FirstMessage, LaterMessage

(* For any number of nodes, sessions and connections: a node has at most   *)
(* one persistent session, the connections the server knows join live      *)
(* sessions in modes that fit their NATs, and each client holds exactly    *)
(* the connections that the server holds for its session.                  *)
THEOREM ServerInvariant == Spec => [](TypeOK /\ SessionsSound)
<1>1. IInv => TypeOK /\ SessionsSound
  BY DEF IInv, SessionsSound
<1> QED BY <1>1, InitIInv, NextIInv, PTL DEF Spec

-----------------------------------------------------------------------------
(* The body of StreamsWellFormed for one message. *)
WellFormed(m) ==
    m.msg # "PROBE" =>
        LET s == m.to
            c == m.connId
        IN  CASE m.msg \in OpenMsgs -> c \notin told[s] /\ m.from = c.nodeId
              [] m.msg \in ErrMsgs -> c \notin told[s] /\ m.from = nodeId_[s]
              [] OTHER -> c \in told[s] /\ m.from = nodeId_[PeerSess(c, s)]

(* A message from an end of an open connection to the other end. *)
LEMMA FromPeer ==
    ASSUME IInv, NEW s \in Sessions, NEW c \in ConnsOf(s), NEW m,
           m.to = PeerSess(c, s), m.connId = c, m.from = nodeId_[s],
           m.msg \notin OpenMsgs, m.msg \notin ErrMsgs
    PROVE  WellFormed(m)
<1> DEFINE p == PeerSess(c, s)
<1>1. /\ c \in DOMAIN conns_ /\ p \in sessions_ /\ p # s /\ EndsOf(c) = {s, p}
  BY PeerProperties
<1>2. p \in Sessions
  BY <1>1 DEF IInv, TypeOK
<1>3. PeerSess(c, p) = s
  BY <1>1 DEF PeerSess, EndsOf
<1>4. c \in told[p]
  BY Zenon, <1>1, <1>2 DEF IInv, EndsAreTold, ConnsOf
<1> HIDE DEF p
<1>5. m.to = p
  BY DEF p
<1> QED BY <1>3, <1>4, <1>5 DEF WellFormed

(* The messages of removeSession are such messages. *)
LEMMA CancelWellFormed ==
    ASSUME IInv, NEW r \in Sessions, NEW m \in CancelMsgs(r, ConnsOf(r))
    PROVE  WellFormed(m)
<1>1. PICK c \in ConnsOf(r) :
          m = sendConnStatus(PeerSess(c, r), c, "ERR_CANCELED", PeerMode(c, r), nodeId_[r])
  BY DEF CancelMsgs
<1>2. m.to = PeerSess(c, r) /\ m.connId = c /\ m.from = nodeId_[r] /\ m.msg = "ERR_CANCELED"
  BY <1>1 DEF sendConnStatus
<1>3. m.msg \notin OpenMsgs /\ m.msg \notin ErrMsgs
  BY <1>2 DEF OpenMsgs, ErrMsgs
<1> QED BY <1>2, <1>3, FromPeer

(* The same for a relayed message. *)
LEMMA RelayWellFormed ==
    ASSUME IInv, NEW p \in Sessions, NEW c, NEW msg \in RelayMsgs, NEW m \in Relay(p, c, msg, nodeId_[p])
    PROVE  WellFormed(m)
<1>1. c \in ConnsOf(p) /\ m = sendRelay(PeerSess(c, p), c, msg, nodeId_[p])
  BY DEF Relay
<1>2. m.to = PeerSess(c, p) /\ m.connId = c /\ m.from = nodeId_[p] /\ m.msg = msg
  BY <1>1 DEF sendRelay
<1>3. m.msg \notin OpenMsgs /\ m.msg \notin ErrMsgs
  BY <1>2 DEF OpenMsgs, ErrMsgs, RelayMsgs
<1> QED BY <1>1, <1>2, <1>3, FromPeer

(* The same for the answer to a request and the offer to the other node. *)
LEMMA CreateWellFormed ==
    ASSUME IInv, NEW s \in Sessions, NEW c \in ConnIds, NEW n \in Nodes, c \notin told[s],
           type_[s] = "Persistent", onSessionConnCreate(s, c, n), NEW m \in sent'
    PROVE  WellFormed(m)
<1>1. /\ s \in sessions_ /\ type_[s] = "Persistent" /\ UNCHANGED sessionVars
      /\ Refuse(s, c, n) \/ Create(s, c, n)
  BY DEF onSessionConnCreate
<1>2. CASE Refuse(s, c, n)
  <2>1. PICK e \in ErrMsgs : sent' = {sendConnStatus(s, c, e, "FAST", nodeId_[s])}
    BY Zenon, <1>1, <1>2, RefuseKeepsIInv
  <2>2. m.to = s /\ m.msg = e /\ m.connId = c /\ m.from = nodeId_[s]
    BY SMTT(30), <2>1 DEF sendConnStatus
  <2>3. m.msg \in ErrMsgs /\ m.msg \notin OpenMsgs
    BY <2>2 DEF OpenMsgs, ErrMsgs
  <2> QED BY <2>2, <2>3 DEF WellFormed
<1>3. CASE Create(s, c, n)
  <2>0. PICK d \in sessions_ : Created(s, c, n, d)
    BY <1>1, <1>3, CreateTells
  <2>1. /\ nodeId_[s] = c.nodeId /\ c \notin DOMAIN conns_
        /\ sent' = {sendConnStatus(s, c, "PENDING", ModeOf(s, d), nodeId_[s]),
                    sendConnRequest(d, c, ModeOf(d, s), nodeId_[s])}
    BY Zenon, <2>0 DEF Created
  <2>2. m.to \in {s, d} /\ m.msg \in OpenMsgs /\ m.connId = c /\ m.from = nodeId_[s]
    <3>1. CASE m = sendConnStatus(s, c, "PENDING", ModeOf(s, d), nodeId_[s])
      <4>1. m.to = s /\ m.msg = "PENDING" /\ m.connId = c /\ m.from = nodeId_[s]
        BY <3>1 DEF sendConnStatus
      <4> QED BY <4>1 DEF OpenMsgs
    <3>2. CASE m = sendConnRequest(d, c, ModeOf(d, s), nodeId_[s])
      <4>1. m.to = d /\ m.msg = "CONN" /\ m.connId = c /\ m.from = nodeId_[s]
        BY <3>2 DEF sendConnRequest
      <4> QED BY <4>1 DEF OpenMsgs
    <3> QED BY Zenon, <2>1, <3>1, <3>2
  <2>3. c \notin told[d]
    <3>1. d \in Sessions
      BY DEF IInv, TypeOK
    <3> QED BY Zenon, <2>1, <3>1 DEF IInv, EndsAreTold, ConnsOf
  <2>4. m.msg \notin ErrMsgs
    BY Zenon, <2>2 DEF OpenMsgs, ErrMsgs
  <2> QED BY <2>1, <2>2, <2>3, <2>4 DEF WellFormed
<1> QED BY <1>1, <1>2, <1>3

(* Every message of a step fits what its receiver was told before. *)
LEMMA NextWellFormed == IInv /\ Next => \A m \in sent' : WellFormed(m)
<1> SUFFICES ASSUME IInv, Next, NEW m \in sent' PROVE WellFormed(m)
  OBVIOUS
<1>0. TypeOK /\ sessions_ \subseteq Sessions
  BY DEF IInv, TypeOK
<1>2. ASSUME NEW s \in Sessions, NEW port \in Ports \cup {0}, onAccept(s, port) PROVE WellFormed(m)
  BY <1>0, <1>2, SilenceTells DEF onAccept
<1>3. ASSUME NEW s \in Sessions, onSessionError(s) PROVE WellFormed(m)
  BY <1>3, RemoveTells, CancelWellFormed DEF onSessionError
<1>4. ASSUME NEW s \in Sessions, NEW n \in Nodes, NEW port \in Ports \cup {0},
             type_[s] = "Unknown", onRecvMsgHello(s, n, port)
      PROVE  WellFormed(m)
  <2>1. CASE Overridden(s, n) = {}
    <3>1. Send({}, told)
      BY <1>4, <2>1 DEF onRecvMsgHello
    <3> QED BY <1>0, <3>1, SilenceTells
  <2>2. CASE Overridden(s, n) # {}
    <3>1. PICK other \in Overridden(s, n) : RemoveSession(other)
      BY <1>4, <2>2 DEF onRecvMsgHello
    <3>2. other \in sessions_ /\ other \in Sessions
      BY <1>0 DEF Overridden, PersistentOf
    <3> QED BY <3>1, <3>2, RemoveTells, CancelWellFormed
  <2> QED BY <2>1, <2>2
<1>5. ASSUME NEW s \in Sessions, type_[s] = "Unknown", onRecvMsgHelloProbe(s) PROVE WellFormed(m)
  <2>1. m.msg = "PROBE"
    BY <1>5, ProbeKeepsIInv
  <2> QED BY <2>1 DEF WellFormed
<1>6. ASSUME NEW s \in Sessions, NEW c \in ConnIds, NEW n \in Nodes, type_[s] = "Unknown",
             onSessionHelloFast(s, n, c) \/ onSessionHelloSymm(s, n, c)
      PROVE  WellFormed(m)
  <2>1. PICK type \in Types, msg \in RelayMsgs : HelloAddress(s, n, c, type, msg)
    <3>1. "FAST" \in RelayMsgs /\ "SYMM" \in RelayMsgs /\ "Fast" \in Types /\ "Symm" \in Types
      BY DEF RelayMsgs, Types
    <3> QED BY <1>6, <3>1 DEF onSessionHelloFast, onSessionHelloSymm
  <2>2. PICK p \in PersistentOf(n) : sent' = Relay(p, c, msg, n)
    BY <2>1, HelloAddressSends
  <2>3. p \in Sessions /\ nodeId_[p] = n
    BY <1>0 DEF PersistentOf
  <2> QED BY <2>2, <2>3, RelayWellFormed
<1>7. ASSUME NEW s \in Sessions, NEW c \in ConnIds, NEW n \in Nodes, c \notin told[s],
             type_[s] = "Persistent", onSessionConnCreate(s, c, n)
      PROVE  WellFormed(m)
  BY Zenon, <1>7, CreateWellFormed
<1>8. ASSUME NEW s \in Sessions, NEW c \in ConnIds, NEW est \in BOOLEAN,
             onSessionConnClose(s, c, est)
      PROVE  WellFormed(m)
  <2>1. /\ c \in ConnsOf(s) /\ m.to = PeerSess(c, s) /\ m.connId = c
        /\ m.from = nodeId_[s] /\ m.msg \in {"ESTABLISHED", "ERR_CANCELED"}
    BY Zenon, <1>8, CloseTells
  <2>2. m.msg \notin OpenMsgs /\ m.msg \notin ErrMsgs
    BY <2>1 DEF OpenMsgs, ErrMsgs
  <2> QED BY <2>1, <2>2, FromPeer
<1>9. ASSUME NEW s \in Sessions, NEW c \in ConnIds, type_[s] = "Persistent",
             onSessionReady(s, c) \/ onSessionNext(s, c)
      PROVE  WellFormed(m)
  <2>1. PICK msg \in RelayMsgs : RelayMessage(s, c, msg)
    BY <1>9 DEF onSessionReady, onSessionNext, RelayMsgs
  <2>2. sent' = Relay(s, c, msg, nodeId_[s])
    BY Zenon, <1>9, <2>1, RelayKeepsIInv
  <2> QED BY <2>2, RelayWellFormed
<1> QED BY Zenon, <1>2, <1>3, <1>4, <1>5, <1>6, <1>7, <1>8, <1>9 DEF Next, FirstMessage, LaterMessage

(* For any number of nodes, sessions and connections: what a client reads  *)
(* about a connection is a well-formed conversation with the node at its   *)
(* other end.                                                              *)
THEOREM ServerStreams == Spec => StreamsWellFormed
<1>1. IInv /\ [Next]_vars =>
        [\A m \in sent' :
            m.msg # "PROBE" =>
                LET s == m.to
                    c == m.connId
                IN  CASE m.msg \in OpenMsgs -> c \notin told[s] /\ m.from = c.nodeId
                      [] m.msg \in ErrMsgs -> c \notin told[s] /\ m.from = nodeId_[s]
                      [] OTHER -> c \in told[s] /\ m.from = nodeId_[PeerSess(c, s)]]_vars
  BY NextWellFormed DEF WellFormed
<1> QED BY <1>1, InitIInv, NextIInv, PTL DEF Spec, StreamsWellFormed
=============================================================================
