----------------------------- MODULE Rendezvous -----------------------------
(***************************************************************************)
(* The nodes and the rendezvous server together: DMasterClient on every    *)
(* node, Server, and the connections between them, each a FIFO in either   *)
(* direction that may break.  The model starts when every node has said    *)
(* HELLO; a node's persistent session carries the node's name.             *)
(*                                                                         *)
(* Relayed messages belong to the rendezvous sessions and are left to the  *)
(* models of those; here a session ends with an outcome of its own.        *)
(***************************************************************************)
EXTENDS Naturals, FiniteSets, SequencesExt

CONSTANTS
    Nodes,
    NoNode,
    MaxConnIdx,     \* per node, a bound on the connections it registers
    Scenarios       \* which nodes register connections, which close them, and
                    \* which may lose the server: [registers, closes, fragile]

VARIABLES
    \* of the nodes
    conn_, connStates_, rendezvousConnIds_, nextConnIdx_, m_, calls, armed, users,
    begun, answers,
    \* of the connections between them and the server
    toServer, toClient, told, heard,
    \* of the server
    sessions_, type_, nodeId_, symm_, peerPort_, conns_, sent,
    \* the nodes whose connection to the server broke
    broken,
    scenario

C == INSTANCE DMasterClient WITH Clients <- Nodes, Local <- "R"

S == INSTANCE Server WITH Sessions <- Nodes, Ports <- {1},
                          Indices <- {c.connIdx : c \in C!ConnIds}

nodeVars == <<conn_, connStates_, rendezvousConnIds_, nextConnIdx_, m_, calls, armed, users,
              begun, answers>>
serverVars == <<sessions_, type_, nodeId_, symm_, peerPort_, conns_>>

vars == <<nodeVars, toServer, toClient, told, heard, serverVars, sent, broken, scenario>>

Init ==
    /\ C!Init
    /\ sessions_ = Nodes
    /\ type_ = [n \in Nodes |-> "Persistent"]
    /\ nodeId_ = [n \in Nodes |-> n]
    /\ peerPort_ = [n \in Nodes |-> 1]
    /\ conns_ = [c \in {} |-> {}]
    /\ sent = {}
    /\ broken = {}
    /\ scenario \in Scenarios
    /\ {n \in Nodes : symm_[n]} \in scenario.symmetric

-----------------------------------------------------------------------------
(* A message of the server as the client tells it from others. *)
Received(m) ==
    IF m.msg \in S!OpenMsgs THEN C!opens(m.connId, m.msg, m.mode)
    ELSE C!says(m.connId, IF m.msg = "ESTABLISHED" THEN "ESTABLISHED" ELSE "ERROR")

(* What the server sends goes out, in some order. *)
Deliver ==
    /\ \E order \in SetToSeqs(sent') :
        toClient' = [n \in Nodes |->
            LET mine == SelectSeq(order, LAMBDA m : m.to = n)
            IN  toClient[n] \o [i \in DOMAIN mine |-> Received(mine[i])]]
    /\ heard' = [n \in Nodes |-> heard[n] \cup {c \in told'[n] : c.nodeId # n}]

(* A thread of n that has calls left touches n's variables, appends to     *)
(* toServer[n] and extends begun, which only lets others do more: its      *)
(* steps commute with those of the server and of the other nodes.  So they *)
(* wait until n is settled, and nothing is lost; the threads of n itself   *)
(* interleave as they like.                                                *)
Settled(N) == \A n \in N : \A t \in C!Threads : calls[n][t] = <<>>

-----------------------------------------------------------------------------
(* The server. *)

ServerReceives(n) ==
    /\ Settled(Nodes)
    /\ n \in sessions_
    /\ toServer[n] # <<>>
    /\ LET m == Head(toServer[n]) IN
       \/ m.msg = "CREATE" /\ S!onSessionConnCreate(n, m.connId, m.dst)
       \/ m.msg = "CLOSE" /\ S!onSessionConnClose(n, m.connId, m.established)
    /\ toServer' = [toServer EXCEPT ![n] = Tail(@)]
    /\ Deliver
    /\ UNCHANGED <<nodeVars, broken, scenario>>

(* The connection of n breaks.  The two ends notice on their own, with     *)
(* what was on the way delivered or not.                                   *)
Break(n) ==
    /\ Settled(Nodes)
    /\ n \in scenario.fragile \ broken
    /\ broken' = broken \cup {n}
    /\ sent' = {}
    /\ UNCHANGED <<nodeVars, toServer, toClient, told, heard, serverVars, scenario>>

ServerLoses(n) ==
    /\ Settled(Nodes)
    /\ n \in broken
    /\ S!onSessionError(n)
    /\ Deliver
    /\ UNCHANGED <<nodeVars, toServer, broken, scenario>>

-----------------------------------------------------------------------------
(* The nodes. *)

OfNode(n) ==
    /\ Settled(Nodes \ {n})
    /\ sent' = {}
    /\ UNCHANGED <<serverVars, broken, scenario>>

NodeLoses(n) == n \in broken /\ C!onConnectionLost(n) /\ OfNode(n)

Message(n) == C!Message(n) /\ OfNode(n)

Proceed(n, t) == C!Proceed(n, t) /\ OfNode(n)

User(n) ==
    /\ \/ \E d \in {x \in Nodes : <<n, x>> \in scenario.registers} : C!registerConnection(n, d)
       \/ n \in scenario.closes /\ \E c \in C!ConnIds : C!closeConnection(n, c)
    /\ OfNode(n)

(* A session succeeds only against a session that was started. *)
MaySucceed(n, c) ==
    c \in C!Known(n) =>
        LET peer == connStates_[n][c].peer IN peer # n /\ c \in begun[peer]

Report(n, c) ==
    /\ \E ok \in {FALSE} \cup {x \in {TRUE} : MaySucceed(n, c)} : C!Report(n, "R", c, ok)
    /\ OfNode(n)

ProxyDone(n, c) == C!onProxyDone(n, "R", c) /\ OfNode(n)

Next ==
    \E n \in Nodes :
        \/ ServerReceives(n) \/ Break(n) \/ ServerLoses(n) \/ NodeLoses(n)
        \/ Message(n) \/ User(n)
        \/ \E t \in C!Threads : Proceed(n, t)
        \/ \E c \in C!ConnIds : Report(n, c) \/ ProxyDone(n, c)

Spec == Init /\ [][Next]_vars

(* The session of c at n is bound to come to an end: both ends are at it   *)
(* and n's end is the one that runs out of attempts, or the other end was  *)
(* successful, which starts a timer or completes n's end at once.          *)
MustReport(n, c) ==
    /\ c \in armed[n] \cap C!Known(n)
    /\ LET e == connStates_[n][c] IN
       \/ e.status = "Established"
       \/ /\ c \in armed[e.peer]
          /\ e.mode = "SYMM_ACC" \/ (e.mode = "FAST" /\ c.nodeId = n)

(* What has to happen: threads run, messages that were sent arrive, broken *)
(* connections are noticed and sessions come to an end.                    *)
Progress ==
    \E n \in Nodes :
        \/ ServerReceives(n) \/ ServerLoses(n) \/ NodeLoses(n) \/ Message(n)
        \/ \E t \in C!Threads : Proceed(n, t)
        \/ \E c \in C!ConnIds : MustReport(n, c) /\ Report(n, c)

(* Some of it happens as long as there is any.  Users and proxy sessions   *)
(* are free to do nothing.                                                 *)
FairSpec == Spec /\ WF_vars(Progress)

-----------------------------------------------------------------------------
(* Properties. *)

(* Whenever nothing is on the way, the server's table and a node's agree:  *)
(* it holds exactly the connections the node takes to be pending.  No      *)
(* crossing of closes, cancels and successes leaves an entry behind at one *)
(* end only.  And the ends of a connection agree on what to do: they never *)
(* run rendezvous of modes that do not fit.                                *)
Agreement ==
    /\ \A n \in sessions_ :
        conn_[n] /\ toServer[n] = <<>> /\ toClient[n] = <<>> /\ Settled({n}) =>
            S!ConnsOf(n) = {c \in C!Known(n) : connStates_[n][c].status = "Pending"}
    /\ \A n, k \in Nodes : \A c \in C!Known(n) \cap C!Known(k) :
        n # k /\ connStates_[n][c].rSess = "started" /\ connStates_[k][c].rSess = "started" =>
            <<connStates_[n][c].mode, connStates_[k][c].mode>>
                \in {<<"FAST", "FAST">>, <<"SYMM_CONN", "SYMM_ACC">>, <<"SYMM_ACC", "SYMM_CONN">>}

(* Each end keeps the contract that the other is modelled against: with    *)
(* the real server as its environment a node behaves as DMasterClient      *)
(* says, whose server may answer as it likes within limits, and with real  *)
(* nodes as its clients the server behaves as Server says, whose clients   *)
(* may ask as they like (ids of their own, not in use).                    *)
ContractsKept ==
    /\ C!Spec
    /\ [][S!Next \/ (sent' = {} /\ UNCHANGED <<serverVars, told>>)]_vars

(* The callback of a connection is told of success once, and of failure    *)
(* once: nothing follows a failure.  (A failure may follow a success: the  *)
(* peer gave up while the success was on its way to the server.)           *)
CallbackDiscipline ==
    \A c \in C!ConnIds : answers[c] \in {<<>>, <<"ok">>, <<"error">>, <<"ok", "error">>}

(* A registered connection is answered, unless its owner closes it or the  *)
(* node loses the server: no queue is stuck behind a rendezvous that the   *)
(* other end has not come to, and no cycle of queues waits on itself.      *)
Answered ==
    []<>(\A n \in Nodes : \A c \in users[n] :
            c.nodeId = n => answers[c] # <<>> \/ n \in broken)
=============================================================================
