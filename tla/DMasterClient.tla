--------------------------- MODULE DMasterClient ---------------------------
(***************************************************************************)
(* dnode's client of the rendezvous server (dnode/DMasterClient.cpp).  It  *)
(* registers connections, keeps the queue of rendezvous to run, starts a   *)
(* rendezvous session for each and hands the result to whoever registered  *)
(* the connection or, on the accepting side, to a proxy session.           *)
(*                                                                         *)
(* Three threads call it: M, tun2socks' main thread, registers and closes; *)
(* R, the reactor of the connection to the server, reads messages; Local,  *)
(* the reactor of the sessions' sockets and timers, which is R itself      *)
(* unless the tunnels run over UDT.  The mutex m_ is given up around every *)
(* call out of the class, so a handler is a first step and the calls it    *)
(* has left: calls[n][t] is that stack for thread t of node n.             *)
(*                                                                         *)
(* The rendezvous sessions are known here by their contract: once started, *)
(* a session reports the outcome once, on a reactor thread; its destructor *)
(* waits for the session's callbacks that other threads are running.  The  *)
(* server is known by the contract Serve.                                  *)
(***************************************************************************)
EXTENDS Naturals, Sequences, FiniteSets

CONSTANTS
    Nodes,          \* node ids
    Clients,        \* the nodes that are modelled
    MaxConnIdx,     \* per node, a bound on the connections it registers
    Local           \* the thread of localMgr_'s reactor: "R", or "L" with UDT

ASSUME ClientAssumption ==
    /\ Clients \subseteq Nodes
    /\ MaxConnIdx \in [Nodes -> Nat]
    /\ Local \in {"R", "L"}

Reactors == {"R", Local}
Threads == {"M"} \cup Reactors

ConnIds == UNION {[nodeId: {n}, connIdx: 1..MaxConnIdx[n]] : n \in Nodes}

RendezvousModes == {"FAST", "SYMM_CONN", "SYMM_ACC"}

ConnState ==
    [peer: Nodes,               \* the node of remoteIp
     mode: RendezvousModes \cup {"Unknown"},
     status: {"None", "Pending", "Established"},
     callback: BOOLEAN,         \* callback is set: n registered the connection
     rSess: {"none", "created", "started"},
     keepalive: BOOLEAN,
     proxySession: BOOLEAN]

(* What a thread has left to do after it gave up m_. *)
Calls ==
    [op: {"onRendezvous", "onEstablished", "callback", "stored"}, conn: ConnIds, ok: BOOLEAN]
        \cup [op: {"onMsg", "release", "proxy", "return"}, conn: ConnIds]
        \cup [op: {"lock", "unlock", "process"}]

VARIABLES
    conn_,              \* conn_ is set
    connStates_,
    rendezvousConnIds_,
    nextConnIdx_,
    m_,                 \* the thread that holds m_ between two steps, or "free"
    calls,              \* per thread, the calls it has left, innermost first
    armed,              \* started sessions that have not reported yet
    users,              \* the registered connections not closed yet
    toServer, toClient, \* the two directions of the connection to the server
    symm_,              \* the NAT type of each node, which the server knows
    told,               \* what the server told the node of, as in Server
    begun,              \* history: sessions that were started
    heard,              \* history: the connections the node was asked to accept
    answers             \* history: the calls of each connection's callback

tableVars == <<conn_, connStates_, rendezvousConnIds_, nextConnIdx_>>
sessionVars == <<armed, begun>>
wireVars == <<toServer, toClient, told, heard, symm_>>
vars == <<tableVars, m_, calls, sessionVars, users, wireVars, answers>>

Init ==
    /\ conn_ = [n \in Nodes |-> TRUE]
    /\ connStates_ = [n \in Nodes |-> [c \in {} |-> {}]]
    /\ rendezvousConnIds_ = [n \in Nodes |-> <<>>]
    /\ nextConnIdx_ = [n \in Nodes |-> 0]
    /\ m_ = [n \in Nodes |-> "free"]
    /\ calls = [n \in Nodes |-> [t \in Threads |-> <<>>]]
    /\ armed = [n \in Nodes |-> {}]
    /\ users = [n \in Nodes |-> {}]
    /\ toServer = [n \in Nodes |-> <<>>]
    /\ toClient = [n \in Nodes |-> <<>>]
    /\ symm_ \in [Nodes -> BOOLEAN]
    /\ told = [n \in Nodes |-> {}]
    /\ begun = [n \in Nodes |-> {}]
    /\ heard = [n \in Nodes |-> {}]
    /\ answers = [c \in ConnIds |-> <<>>]

-----------------------------------------------------------------------------
(* Helpers. *)

Known(n) == DOMAIN connStates_[n]

Elements(q) == {q[i] : i \in 1..Len(q)}
Distinct(q) == \A i, j \in 1..Len(q) : q[i] = q[j] => i = j

(* connStates_ of n with c erased, or with c mapped to e. *)
Erased(n, c) == [connStates_ EXCEPT ![n] = [x \in Known(n) \ {c} |-> @[x]]]
Put(n, c, e) == [connStates_ EXCEPT ![n] = [x \in Known(n) \cup {c} |->
                                               IF x = c THEN e ELSE @[x]]]

Started(n, mode) ==
    \E c \in Known(n) : connStates_[n][c].rSess = "started" /\ connStates_[n][c].mode = mode

(* Mutant of Removed: the id is left in the queue. *)
RemovedNot(n, c) == rendezvousConnIds_

(* rendezvousConnIds_ of n with c removed.  An id is there once at most    *)
(* (QueueSound), so that remove() takes one place out of the list.         *)
Without(q, c) ==
    IF c \notin Elements(q) THEN q
    ELSE LET k == CHOOSE i \in 1..Len(q) : q[i] = c
         IN  SubSeq(q, 1, k - 1) \o SubSeq(q, k + 1, Len(q))

Removed(n, c) == [rendezvousConnIds_ EXCEPT ![n] = Without(@, c)]

create(c, d) == [msg |-> "CREATE", connId |-> c, dst |-> d]
close(c, established) == [msg |-> "CLOSE", connId |-> c, established |-> established]

(* sendMsg drops the message without a connection. *)
sendMsg(n, m) == toServer' = IF conn_[n] THEN [toServer EXCEPT ![n] = Append(@, m)] ELSE toServer

(* Thread t of n has something left to do, and its first call is op. *)
Top(n, t, op) == calls[n][t] # <<>> /\ Head(calls[n][t]).op = op

(* The first call of t is replaced by the calls in s. *)
Instead(n, t, s) == calls' = [calls EXCEPT ![n][t] = s \o Tail(@)]

(* A thread enters the class from outside. *)
Enter(n, t) == calls[n][t] = <<>> /\ m_[n] = "free" /\ UNCHANGED m_
Continue(n, t, s) == calls' = [calls EXCEPT ![n][t] = s]

releaseOf(c, e) == IF e.rSess = "none" THEN <<>> ELSE <<[op |-> "release", conn |-> c]>>

callbackOf(c, e, ok) ==
    IF e.callback THEN <<[op |-> "callback", conn |-> c, ok |-> ok]>> ELSE <<>>
process == <<[op |-> "process"]>>

-----------------------------------------------------------------------------
(* M: the registering side. *)

(* The server is asked at once: nothing is queued and no session of mode   *)
(* SYMM_CONN is running.                                                   *)
CreateNow(n) == rendezvousConnIds_[n] = <<>> /\ ~Started(n, "SYMM_CONN")

StatusAtRegister(now) == IF now THEN "Pending" ELSE "None"

(* The index 0 is skipped: an id that is all zero stands for no connection. *)
NewConnId(n) ==
    [nodeId |-> n, connIdx |-> IF nextConnIdx_[n] = 0 THEN 1 ELSE nextConnIdx_[n]]

registerConnection(n, d) ==
    LET c == NewConnId(n)
        now == CreateNow(n)
    IN
    /\ Enter(n, "M")
    /\ conn_[n]
    /\ c.connIdx <= MaxConnIdx[n]
    /\ nextConnIdx_' = [nextConnIdx_ EXCEPT ![n] = c.connIdx + 1]
    /\ connStates_' = Put(n, c, [peer |-> d, mode |-> "Unknown",
                                 status |-> StatusAtRegister(now),
                                 callback |-> TRUE, rSess |-> "none",
                                 keepalive |-> FALSE, proxySession |-> FALSE])
    /\ rendezvousConnIds_' = [rendezvousConnIds_ EXCEPT ![n] = Append(@, c)]
    /\ IF now THEN sendMsg(n, create(c, d)) ELSE UNCHANGED toServer
    /\ users' = [users EXCEPT ![n] = @ \cup {c}]
    /\ UNCHANGED <<conn_, calls, sessionVars, toClient, told, heard, symm_, answers>>

(* Mutant of CloseCalls: the session is destroyed with m_ taken again. *)
CloseCallsLocked(c, e) == <<[op |-> "lock"]>> \o releaseOf(c, e) \o process

CloseCalls(c, e) == releaseOf(c, e) \o process

(* The owner of the connection is being destroyed. *)
closeConnection(n, c) ==
    /\ Enter(n, "M")
    /\ c \in users[n]
    /\ users' = [users EXCEPT ![n] = @ \ {c}]
    /\ IF c \notin Known(n)
       THEN UNCHANGED <<tableVars, calls, toServer>>
       ELSE LET e == connStates_[n][c] IN
            /\ connStates_' = Erased(n, c)
            /\ rendezvousConnIds_' = Removed(n, c)
            /\ IF e.status = "Pending" THEN sendMsg(n, close(c, FALSE)) ELSE UNCHANGED toServer
            /\ Continue(n, "M", CloseCalls(c, e))
            /\ UNCHANGED <<conn_, nextConnIdx_>>
    /\ UNCHANGED <<sessionVars, toClient, told, heard, symm_, answers>>

-----------------------------------------------------------------------------
(* R: the connection to the server. *)

Receive(n, msgs) ==
    /\ Enter(n, "R")
    /\ conn_[n]
    /\ toClient[n] # <<>>
    /\ Head(toClient[n]).msg \in msgs
    /\ toClient' = [toClient EXCEPT ![n] = Tail(@)]
    /\ UNCHANGED <<conn_, nextConnIdx_, sessionVars, users, toServer, told, heard, symm_, answers>>

onRecvMsgConn(n) ==
    LET m == Head(toClient[n]) IN
    /\ Receive(n, {"CONN"})
    /\ IF m.connId \in Known(n)
       THEN UNCHANGED <<connStates_, rendezvousConnIds_, calls>>
       ELSE /\ connStates_' = Put(n, m.connId,
                  [peer |-> m.connId.nodeId, mode |-> m.mode, status |-> "Pending",
                   callback |-> FALSE, rSess |-> "created",
                   keepalive |-> FALSE, proxySession |-> FALSE])
            /\ rendezvousConnIds_' = [rendezvousConnIds_ EXCEPT ![n] = Append(@, m.connId)]
            /\ Continue(n, "R", process)

(* onRecvMsgConnStatus, by the status code *)
onPending(n) ==
    LET m == Head(toClient[n]) IN
    /\ Receive(n, {"PENDING"})
    /\ UNCHANGED rendezvousConnIds_
    /\ IF m.connId \notin Known(n)
       THEN UNCHANGED <<connStates_, calls>>
       ELSE /\ connStates_' = [connStates_ EXCEPT ![n][m.connId].mode = m.mode]
            /\ Continue(n, "R", process)

onEstablishedStatus(n) ==
    LET m == Head(toClient[n]) IN
    /\ Receive(n, {"ESTABLISHED"})
    /\ UNCHANGED rendezvousConnIds_
    /\ IF m.connId \notin Known(n)
       THEN UNCHANGED <<connStates_, calls>>
       ELSE IF connStates_[n][m.connId].rSess = "none"
       THEN UNCHANGED connStates_ /\ Continue(n, "R", process)
       ELSE /\ connStates_' = [connStates_ EXCEPT ![n][m.connId].status = "Established"]
            /\ Continue(n, "R", <<[op |-> "onEstablished", conn |-> m.connId,
                                   ok |-> connStates_[n][m.connId].mode = "FAST"],
                                  [op |-> "lock"],
                                  [op |-> "release", conn |-> m.connId]>> \o process)

onErrorStatus(n) ==
    LET m == Head(toClient[n]) IN
    /\ Receive(n, {"ERROR"})
    /\ IF m.connId \notin Known(n)
       THEN UNCHANGED <<connStates_, rendezvousConnIds_, calls>>
       ELSE LET e == connStates_[n][m.connId] IN
            /\ connStates_' = Erased(n, m.connId)
            /\ rendezvousConnIds_' = Removed(n, m.connId)
            /\ Continue(n, "R", releaseOf(m.connId, e) \o callbackOf(m.connId, e, FALSE)
                                    \o process)

onRecvMsgOther(n) ==
    LET c == Head(toClient[n]).connId IN
    /\ Receive(n, {"RELAY"})
    /\ UNCHANGED <<connStates_, rendezvousConnIds_>>
    /\ IF c \in Known(n) /\ connStates_[n][c].rSess # "none"
                         /\ connStates_[n][c].status # "Established"
       THEN Continue(n, "R", <<[op |-> "onMsg", conn |-> c], [op |-> "lock"],
                               [op |-> "release", conn |-> c], [op |-> "unlock"]>>)
       ELSE UNCHANGED calls

(* A read or a write on the connection failed; there is no reconnect. *)
onConnectionLost(n) ==
    /\ Enter(n, "R")
    /\ conn_[n]
    /\ conn_' = [conn_ EXCEPT ![n] = FALSE]
    /\ UNCHANGED <<connStates_, rendezvousConnIds_, nextConnIdx_, calls, sessionVars,
                   users, wireVars, answers>>

-----------------------------------------------------------------------------
(* processRendezvous: one turn of the loop that every handler ends with.   *)
(* The thread takes m_ with the first turn and keeps it to the last.       *)

(* Mutant of Waits: sessions of mode SYMM_CONN run side by side. *)
WaitsForServer(n, e) == e.mode = "Unknown" /\ e.status # "None"

(* Mutant of Waits: one session at a time, whatever its mode. *)
WaitsForAny(n, e) ==
    \/ e.mode = "Unknown" /\ e.status # "None"
    \/ e.mode # "Unknown" /\ \E mode \in RendezvousModes : Started(n, mode)

(* The head of the queue waits for the server's answer or for the session  *)
(* of mode SYMM_CONN that is running.                                      *)
Waits(n, e) ==
    \/ e.mode = "Unknown" /\ e.status # "None"
    \/ e.mode = "SYMM_CONN" /\ Started(n, "SYMM_CONN")

Turn(n, t) ==
    /\ Top(n, t, "process")
    /\ m_[n] \in {"free", t}
    /\ UNCHANGED <<conn_, nextConnIdx_, users, toClient, told, heard, symm_, answers>>

processEnd(n, t) ==
    LET q == rendezvousConnIds_[n] IN
    /\ Turn(n, t)
    /\ conn_[n] /\ q # <<>> => Waits(n, connStates_[n][Head(q)])
    /\ m_' = [m_ EXCEPT ![n] = "free"]
    /\ Instead(n, t, <<>>)
    /\ UNCHANGED <<connStates_, rendezvousConnIds_, toServer, armed, begun>>

processCreate(n, t) ==
    LET c == Head(rendezvousConnIds_[n])
        e == connStates_[n][c]
    IN
    /\ Turn(n, t)
    /\ conn_[n] /\ rendezvousConnIds_[n] # <<>>
    /\ e.mode = "Unknown" /\ e.status = "None"
    /\ connStates_' = [connStates_ EXCEPT ![n][c].status = "Pending"]
    /\ sendMsg(n, create(c, e.peer))
    /\ m_' = [m_ EXCEPT ![n] = "free"]
    /\ Instead(n, t, <<>>)
    /\ UNCHANGED <<rendezvousConnIds_, armed, begun>>

(* start() of the session succeeds or fails: for want of ports or sockets. *)
processStart(n, t, ok) ==
    LET c == Head(rendezvousConnIds_[n])
        e == connStates_[n][c]
    IN
    /\ Turn(n, t)
    /\ conn_[n] /\ rendezvousConnIds_[n] # <<>>
    /\ e.mode # "Unknown" /\ ~Waits(n, e)
    /\ rendezvousConnIds_' = [rendezvousConnIds_ EXCEPT ![n] = Tail(@)]
    /\ begun' = [begun EXCEPT ![n] = @ \cup {c}]
    /\ IF ok
       THEN /\ connStates_' = [connStates_ EXCEPT ![n][c].rSess = "started"]
            /\ armed' = [armed EXCEPT ![n] = @ \cup {c}]
            /\ m_' = [m_ EXCEPT ![n] = t]
            /\ UNCHANGED <<calls, toServer>>
       ELSE /\ connStates_' = Erased(n, c)
            /\ sendMsg(n, close(c, FALSE))
            /\ m_' = [m_ EXCEPT ![n] = "free"]
            /\ Instead(n, t, <<[op |-> "release", conn |-> c]>>
                                 \o callbackOf(c, e, FALSE) \o process)
            /\ UNCHANGED armed

-----------------------------------------------------------------------------
(* The other calls a handler has left. *)

Inner(n, t, op) ==
    /\ Top(n, t, op)
    /\ UNCHANGED <<conn_, nextConnIdx_, users, toClient, told, heard, symm_, begun>>

(* No one else holds a reference to the session of c that the first call   *)
(* of t gives up: neither the map nor another call.                        *)
LastReference(n, t, c) ==
    /\ \A u \in Threads : \A i \in DOMAIN calls[n][u] :
        calls[n][u][i] = [op |-> "release", conn |-> c] => u = t /\ i = 1
    /\ c \in Known(n) => connStates_[n][c].rSess = "none"

(* Thread u is in a callback of the session of c. *)
InSession(n, u, c) == \E i \in DOMAIN calls[n][u] : calls[n][u][i] = [op |-> "return", conn |-> c]

(* The destructor of the session of c would wait for another thread. *)
MustWait(n, t, c) == LastReference(n, t, c) /\ \E u \in Threads \ {t} : InSession(n, u, c)

(* A reference to the session goes away, and with the last one the session. *)
release(n, t) ==
    LET c == Head(calls[n][t]).conn IN
    /\ Inner(n, t, "release")
    /\ ~MustWait(n, t, c)
    /\ armed' = IF LastReference(n, t, c) THEN [armed EXCEPT ![n] = @ \ {c}] ELSE armed
    /\ Instead(n, t, <<>>)
    /\ UNCHANGED <<connStates_, rendezvousConnIds_, m_, toServer, answers>>

lock(n, t) ==
    /\ Inner(n, t, "lock")
    /\ m_[n] = "free"
    /\ m_' = [m_ EXCEPT ![n] = t]
    /\ Instead(n, t, <<>>)
    /\ UNCHANGED <<connStates_, rendezvousConnIds_, armed, toServer, answers>>

unlock(n, t) ==
    /\ Inner(n, t, "unlock")
    /\ m_' = [m_ EXCEPT ![n] = "free"]
    /\ Instead(n, t, <<>>)
    /\ UNCHANGED <<connStates_, rendezvousConnIds_, armed, toServer, answers>>

callback(n, t) ==
    LET k == Head(calls[n][t]) IN
    /\ Inner(n, t, "callback")
    /\ answers' = [answers EXCEPT ![k.conn] = Append(@, IF k.ok THEN "ok" ELSE "error")]
    /\ Instead(n, t, <<>>)
    /\ UNCHANGED <<connStates_, rendezvousConnIds_, m_, armed, toServer>>

(* What CLOSE says of a connection whose session reported. *)
EstablishedFlag(e, ok) == ok \/ e.status = "Established"

(* Mutant of Reported: a failed connection stays in the table, too. *)
ReportedKept(n, c, e, ok) ==
    Put(n, c, [e EXCEPT !.rSess = "none", !.status = "Established", !.keepalive = TRUE])

(* The table after the session of c reported. *)
Reported(n, c, e, ok) ==
    IF ok THEN Put(n, c, [e EXCEPT !.rSess = "none", !.status = "Established", !.keepalive = TRUE])
    ELSE Erased(n, c)

(* onRendezvous: the session of c reports.  A socket that cannot be bound  *)
(* to a handle turns success into an error.                                *)
onRendezvous(n, t) ==
    LET c == Head(calls[n][t]).conn IN
    /\ Inner(n, t, "onRendezvous")
    /\ m_[n] = "free"
    /\ UNCHANGED <<rendezvousConnIds_, m_, armed, answers>>
    /\ IF c \notin Known(n)
       THEN Instead(n, t, <<>>) /\ UNCHANGED <<connStates_, toServer>>
       ELSE LET e == connStates_[n][c] IN
            \E ok \in {FALSE, Head(calls[n][t]).ok} :
                /\ connStates_' = Reported(n, c, e, ok)
                /\ IF ok /\ e.status = "Established" THEN UNCHANGED toServer
                   ELSE sendMsg(n, close(c, EstablishedFlag(e, ok)))
                /\ Instead(n, t, releaseOf(c, e) \o callbackOf(c, e, ok)
                        \o (IF ok /\ ~e.callback THEN <<[op |-> "proxy", conn |-> c]>> ELSE <<>>)
                        \o process)

(* The accepting side starts a proxy session and then stores it. *)
proxy(n, t, ok) ==
    LET c == Head(calls[n][t]).conn IN
    /\ Inner(n, t, "proxy")
    /\ Instead(n, t, <<[op |-> "stored", conn |-> c, ok |-> ok]>>)
    /\ UNCHANGED <<connStates_, rendezvousConnIds_, m_, armed, toServer, answers>>

stored(n, t) ==
    LET k == Head(calls[n][t]) IN
    /\ Inner(n, t, "stored")
    /\ m_[n] = "free"
    /\ connStates_' = IF k.conn \notin Known(n) THEN connStates_
                      ELSE IF k.ok
                      THEN [connStates_ EXCEPT ![n][k.conn].proxySession = TRUE]
                      ELSE Erased(n, k.conn)
    /\ Instead(n, t, <<>>)
    /\ UNCHANGED <<rendezvousConnIds_, m_, armed, toServer, answers>>

-----------------------------------------------------------------------------
(* Rendezvous sessions and proxy sessions, by contract. *)

reports(c, ok) == <<[op |-> "onRendezvous", conn |-> c, ok |-> ok], [op |-> "return", conn |-> c]>>

(* A session reports, from a callback of a socket or a timer. *)
Report(n, t, c, ok) ==
    /\ t \in Reactors
    /\ calls[n][t] = <<>>
    /\ c \in armed[n]
    /\ armed' = [armed EXCEPT ![n] = @ \ {c}]
    /\ Continue(n, t, reports(c, ok))
    /\ UNCHANGED <<tableVars, m_, begun, users, wireVars, answers>>

(* onEstablished: a Fast session succeeds at once, the others go on. *)
onEstablished(n, t) ==
    LET c == Head(calls[n][t]).conn
        now == c \in armed[n] /\ Head(calls[n][t]).ok
    IN
    /\ Inner(n, t, "onEstablished")
    /\ armed' = IF now THEN [armed EXCEPT ![n] = @ \ {c}] ELSE armed
    /\ Instead(n, t, IF now THEN reports(c, TRUE) ELSE <<>>)
    /\ UNCHANGED <<connStates_, rendezvousConnIds_, m_, toServer, answers>>

(* onMsg: the session goes on, or fails at once. *)
onMsg(n, t, fails) ==
    LET c == Head(calls[n][t]).conn IN
    /\ Inner(n, t, "onMsg")
    /\ fails => c \in armed[n]
    /\ armed' = IF fails THEN [armed EXCEPT ![n] = @ \ {c}] ELSE armed
    /\ Instead(n, t, IF fails THEN reports(c, FALSE) ELSE <<>>)
    /\ UNCHANGED <<connStates_, rendezvousConnIds_, m_, toServer, answers>>

(* The callback of the session returns to the reactor. *)
return(n, t) ==
    /\ Inner(n, t, "return")
    /\ Instead(n, t, <<>>)
    /\ UNCHANGED <<connStates_, rendezvousConnIds_, m_, armed, toServer, answers>>

(* The proxy session of c is done: it was stored, or is about to be. *)
onProxyDone(n, t, c) ==
    /\ t \in Reactors
    /\ Enter(n, t)
    /\ c \in Known(n)
    /\ \/ connStates_[n][c].proxySession
       \/ \E u \in Threads : Top(n, u, "stored")
                             /\ Head(calls[n][u]) = [op |-> "stored", conn |-> c, ok |-> TRUE]
    /\ connStates_' = Erased(n, c)
    /\ UNCHANGED <<conn_, rendezvousConnIds_, nextConnIdx_, calls, sessionVars, users,
                   wireVars, answers>>

-----------------------------------------------------------------------------
(* The steps of node n. *)

Message(n) ==
    \/ onRecvMsgConn(n)
    \/ onPending(n)
    \/ onEstablishedStatus(n)
    \/ onErrorStatus(n)
    \/ onRecvMsgOther(n)

(* Thread t goes on with what it has left to do. *)
Proceed(n, t) ==
    \/ processEnd(n, t) \/ processCreate(n, t)
    \/ \E ok \in BOOLEAN : processStart(n, t, ok) \/ proxy(n, t, ok) \/ onMsg(n, t, ok)
    \/ release(n, t) \/ lock(n, t) \/ unlock(n, t) \/ return(n, t)
    \/ onRendezvous(n, t) \/ callback(n, t) \/ stored(n, t) \/ onEstablished(n, t)

User(n) ==
    \/ \E d \in Nodes : registerConnection(n, d)
    \/ \E c \in ConnIds : closeConnection(n, c)

Session(n) ==
    \E c \in ConnIds, t \in Reactors :
        (\E ok \in BOOLEAN : Report(n, t, c, ok)) \/ onProxyDone(n, t, c)

-----------------------------------------------------------------------------
(* The server, by contract.  In one step it reads at most one message from *)
(* a node, and what it writes to a node fits what it told the node before. *)

opens(c, msg, mode) == [msg |-> msg, connId |-> c, mode |-> mode]
says(c, msg) == [msg |-> msg, connId |-> c]

(* A step of the server as n sees it: what is left of toServer[n], what is *)
(* written to n, and told[n] after it.                                     *)
effect(in, out, known) == [in |-> in, out |-> out, told |-> known]

(* The mode of n's end of a connection with k; none if both are symmetric. *)
ModesOf(n, k) ==
    IF symm_[n] THEN (IF symm_[k] THEN {} ELSE {"SYMM_CONN"})
    ELSE IF symm_[k] THEN {"SYMM_ACC"} ELSE {"FAST"}

(* The server reads m from n. *)
Answers(n, m) ==
    LET rest == Tail(toServer[n]) IN
    CASE m.msg = "CREATE" ->
            {effect(rest, <<says(m.connId, "ERROR")>>, told[n])}
            \cup {effect(rest, <<opens(m.connId, "PENDING", mode)>>, told[n] \cup {m.connId}) :
                    mode \in IF m.dst = n \/ m.connId \in told[n] THEN {} ELSE ModesOf(n, m.dst)}
      [] m.msg = "CLOSE" -> {effect(rest, <<>>, told[n] \ {m.connId})}

(* Another node asks for a connection with n, under an id it did not use   *)
(* before.                                                                 *)
Requests(n) ==
    UNION {{effect(toServer[n], <<opens(c, "CONN", mode)>>, told[n] \cup {c}) :
            mode \in ModesOf(n, c.nodeId)} : c \in {x \in ConnIds : x.nodeId # n} \ heard[n]}

(* The peer relays a message, or was successful, which takes two sessions. *)
PeerMessages(n) ==
    {effect(toServer[n], <<says(c, "RELAY")>>, told[n]) : c \in told[n]}
    \cup {effect(toServer[n], <<says(c, "ESTABLISHED")>>, told[n] \ {c}) :
        c \in told[n] \cap begun[n]}

(* The peer closes a connection, or is gone and with it some connections,  *)
(* in some order.                                                          *)
Orders(S) == {q \in UNION {[1..k -> S] : k \in 1..Cardinality(S)} : Distinct(q)}

Cancels(n) ==
    {effect(toServer[n], [i \in 1..Len(q) |-> says(q[i], "ERROR")], told[n] \ Elements(q)) :
        q \in Orders(told[n])}

(* The server does nothing to n, or loses its connection with n. *)
Others(n) == {effect(toServer[n], <<>>, told[n]), effect(toServer[n], <<>>, {})}

Effects(n) ==
    (IF toServer[n] = <<>> THEN {} ELSE Answers(n, Head(toServer[n])))
        \cup Requests(n) \cup PeerMessages(n) \cup Cancels(n) \cup Others(n)

Serve ==
    /\ \E f \in [Clients -> UNION {Effects(n) : n \in Clients}] :
        /\ \A n \in Clients : f[n] \in Effects(n)
        /\ toServer' = [n \in Nodes |-> IF n \in Clients THEN f[n].in ELSE toServer[n]]
        /\ toClient' = [n \in Nodes |-> IF n \in Clients THEN toClient[n] \o f[n].out
                                        ELSE toClient[n]]
        /\ told' = [n \in Nodes |-> IF n \in Clients THEN f[n].told ELSE told[n]]
    /\ heard' = [n \in Nodes |-> heard[n] \cup {c \in told'[n] : c.nodeId # n}]
    /\ UNCHANGED <<tableVars, m_, calls, sessionVars, users, symm_, answers>>

Next ==
    \/ \E n \in Clients :
        \/ User(n)
        \/ Message(n)
        \/ onConnectionLost(n)
        \/ \E t \in Threads : Proceed(n, t)
        \/ Session(n)
    \/ Serve

Spec == Init /\ [][Next]_vars

-----------------------------------------------------------------------------
(* Properties. *)

ToServer == [msg: {"CREATE"}, connId: ConnIds, dst: Nodes]
                \cup [msg: {"CLOSE"}, connId: ConnIds, established: BOOLEAN]

ToClient == [msg: {"CONN", "PENDING"}, connId: ConnIds, mode: RendezvousModes]
                \cup [msg: {"ESTABLISHED", "ERROR", "RELAY"}, connId: ConnIds]

TypeOK ==
    /\ conn_ \in [Nodes -> BOOLEAN]
    /\ \A n \in Nodes : Known(n) \subseteq ConnIds /\ connStates_[n] \in [Known(n) -> ConnState]
    /\ rendezvousConnIds_ \in [Nodes -> Seq(ConnIds)]
    /\ nextConnIdx_ \in [Nodes -> Nat]
    /\ m_ \in [Nodes -> Threads \cup {"free"}]
    /\ calls \in [Nodes -> [Threads -> Seq(Calls)]]
    /\ armed \in [Nodes -> SUBSET ConnIds]
    /\ users \in [Nodes -> SUBSET ConnIds]
    /\ toServer \in [Nodes -> Seq(ToServer)]
    /\ toClient \in [Nodes -> Seq(ToClient)]
    /\ told \in [Nodes -> SUBSET ConnIds]
    /\ heard \in [Nodes -> SUBSET ConnIds]
    /\ begun \in [Nodes -> SUBSET ConnIds]
    /\ answers \in [ConnIds -> Seq({"ok", "error"})]

Queued(n) == Elements(rendezvousConnIds_[n])

(* The queue names connections of the table, each once, that have no       *)
(* session started, no port kept alive and no proxy session (the asserts   *)
(* of processRendezvous), and it names every connection whose session was  *)
(* not started: no rendezvous is run twice and none is forgotten, whatever *)
(* closes, cancels and failed starts hit the queue in between.  One        *)
(* request at most waits for the server's answer, and it is the head of    *)
(* the queue: an answer always lets the queue go on.                       *)
QueueSound ==
    /\ TypeOK
    /\ \A n \in Nodes :
        /\ Distinct(rendezvousConnIds_[n])
        /\ Queued(n) \subseteq Known(n)
        /\ \A c \in Known(n) :
            LET e == connStates_[n][c] IN
            IF c \in Queued(n)
            THEN e.rSess # "started" /\ ~e.keepalive /\ ~e.proxySession /\ c \notin begun[n]
            ELSE c \in begun[n] /\ (e.rSess = "started" \/ e.keepalive)
        /\ \A c \in Known(n) :
            connStates_[n][c].mode = "Unknown" /\ connStates_[n][c].status = "Pending"
                => c = Head(rendezvousConnIds_[n])

(* A node behind a symmetric NAT runs one rendezvous at a time: two would  *)
(* disturb each other's port prediction.                                   *)
OneSymmConn ==
    \A n \in Nodes : \A c, d \in Known(n) :
        /\ connStates_[n][c].mode = "SYMM_CONN" /\ connStates_[n][c].rSess = "started"
        /\ connStates_[n][d].mode = "SYMM_CONN" /\ connStates_[n][d].rSess = "started"
        => c = d

(* What is on the way to the node fits its table when it arrives, also if  *)
(* the node closed or registered connections meanwhile: PENDING finds a    *)
(* request that waits for it, ESTABLISHED a connection whose mode is known *)
(* (the asserts of onRecvMsgConnStatus).                                   *)
StatusExpected ==
    \A n \in Nodes : \A i \in DOMAIN toClient[n] :
        LET m == toClient[n][i] IN
        m.connId \in Known(n) =>
            LET e == connStates_[n][m.connId] IN
            /\ m.msg = "PENDING" => e.mode = "Unknown" /\ e.status = "Pending"
            /\ m.msg = "ESTABLISHED" => e.mode # "Unknown" \/ \E j \in 1..(i - 1) :
                    toClient[n][j].connId = m.connId /\ toClient[n][j].msg = "PENDING"

(* The asserts of DMasterClient on its table, its queue and the server's   *)
(* answers hold, in whatever order calls, closes and answers meet.         *)
TableSound == QueueSound /\ StatusExpected

(* A session's destructor waits for the session's callbacks in other       *)
(* threads, and those callbacks take m_: so no thread destroys the last    *)
(* reference to a session with a callback running while it holds m_.       *)
NoWaitUnderLock ==
    \A n \in Nodes, t \in Threads :
        m_[n] = t /\ Top(n, t, "release") => ~MustWait(n, t, Head(calls[n][t]).conn)
=============================================================================
