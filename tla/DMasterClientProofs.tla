------------------------ MODULE DMasterClientProofs ------------------------
(***************************************************************************)
(* DMasterClient keeps its table, its queue and the messages on the way in *)
(* step, for any number of nodes, connections and messages: the rest of    *)
(* its steps keep the inductive invariant, and what the runs check follows *)
(* from it.                                                                *)
(***************************************************************************)
EXTENDS DMasterClientLemmas

USE ZenonT(3), SMTT(30)

-----------------------------------------------------------------------------
(* A turn of processRendezvous.                                            *)

(* The queue is empty or its head has to wait.                             *)
LEMMA StepEnd ==
  ASSUME IInv, NEW n \in Nodes, NEW t \in Threads, processEnd(n, t)
  PROVE  IInv'
<1>1. /\ Top(n, t, "process") /\ m_' = [m_ EXCEPT ![n] = "free"] /\ Instead(n, t, <<>>)
      /\ UNCHANGED <<connStates_, rendezvousConnIds_, toServer, armed, begun, conn_, nextConnIdx_, users, toClient,
                     told, heard, answers>>
  BY Zenon DEF processEnd, Turn
<1>2. calls[n][t] # <<>> /\ "free" # "M" /\ "free" \in Threads \cup {"free"} /\ begun[n] \subseteq begun[n]
  BY <1>1 DEF Top
<1>3. <<>> \in Seq(CallsOf(t, begun[n]))
  OBVIOUS
<1>4. CallsKept(n, begun[n])
  BY Zenon, <1>1, <1>2, <1>3, CallFree
<1>5. /\ Elsewhere(armed, armed', n) /\ armed'[n] \subseteq begun[n] /\ conn_' \in [Nodes -> BOOLEAN]
      /\ answers' \in [ConnIds -> Seq({"ok", "error"})]
  BY Zenon, <1>1, LeftAlone
<1> QED  BY Zenon, <1>1, <1>4, <1>5, QuietStep

(* The head of the queue.                                                  *)
LEMMA HeadEntry ==
  ASSUME NEW tab, NEW q, NEW beg, Table(tab, q, beg), q # <<>>, NEW c, c = Head(q)
  PROVE  c \in ConnIds /\ c \in DOMAIN tab /\ c \notin beg /\ Waiting(tab[c]) /\ tab[c] \in ConnState
<1>1. c \in Elements(q)
  BY Zenon, QueueTail DEF Table
<1>2. tab \in [DOMAIN tab -> ConnState] /\ DOMAIN tab \subseteq ConnIds
  BY Zenon DEF Table
<1> QED  BY Zenon, <1>1, <1>2 DEF Table

(* The server is asked for the head of the queue.                          *)
LEMMA StepCreate ==
  ASSUME IInv, NEW n \in Nodes, NEW t \in Threads, processCreate(n, t)
  PROVE  IInv'
<1>1. PICK tab, q, beg, next, hrd, ts, tc : View(n, tab, q, beg, next, hrd, ts, tc)
  BY Zenon, AtNode
<1> /\ tab = connStates_[n] /\ q = rendezvousConnIds_[n] /\ beg = begun[n]
    /\ next = nextConnIdx_[n] /\ hrd = heard[n] /\ ts = toServer[n] /\ tc = toClient[n]
    /\ Table(tab, q, beg) /\ Wire(n, tab, beg, next, hrd, ts, tc)
    /\ beg \subseteq beg /\ beg \subseteq beg \cup DOMAIN tab /\ Fewer(ts, ts, ToServer) /\ Fewer(tc, tc, ToClient)
  BY Zenon, <1>1 DEF View
<1>2. PICK c : c = Head(q)
  OBVIOUS
<1>3. /\ Top(n, t, "process") /\ conn_[n] /\ q # <<>> /\ tab[c].mode = "Unknown" /\ tab[c].status = "None"
      /\ connStates_' = [connStates_ EXCEPT ![n][c].status = "Pending"]
      /\ sendMsg(n, create(c, tab[c].peer))
      /\ m_' = [m_ EXCEPT ![n] = "free"] /\ Instead(n, t, <<>>)
      /\ UNCHANGED <<rendezvousConnIds_, armed, begun, conn_, nextConnIdx_, users, toClient, told, heard, answers>>
  BY Zenon, <1>2 DEF processCreate, Turn
<1>4. c \in ConnIds /\ c \in DOMAIN tab /\ c \notin beg /\ Waiting(tab[c]) /\ tab[c] \in ConnState
  BY Zenon, <1>2, <1>3, HeadEntry
<1>5. ~Asked(tab[c]) /\ ~Has(ts, "CREATE", c) /\ ~Has(tc, "PENDING", c)
  <2>1. ~Asked(tab[c])
    BY <1>3 DEF Asked
  <2> QED  BY Zenon, <1>4, <2>1 DEF Wire
<1>6. PICK e : e = [tab[c] EXCEPT !.status = "Pending"]
  OBVIOUS
<1>7. /\ e \in ConnState /\ e.status = "Pending" /\ e.mode = tab[c].mode /\ e.rSess = tab[c].rSess
      /\ e.keepalive = tab[c].keepalive /\ e.proxySession = tab[c].proxySession /\ tab[c].peer \in Nodes
  BY <1>4, <1>6 DEF ConnState
<1>8. Waiting(e) /\ Asked(e) /\ (Symm(e) => Symm(tab[c])) /\ (e.mode = "Unknown" => tab[c].mode = "Unknown")
  BY Zenon, <1>3, <1>4, <1>7 DEF Waiting, Asked, Symm
<1>9. connStates_' = [connStates_ EXCEPT ![n] = [tab EXCEPT ![c] = e]]
  BY Zenon, <1>3, <1>6, ExceptField
<1>10. PICK new : Becomes(connStates_, connStates_', n, new) /\ Puts(new, tab, c, e)
  BY Zenon, <1>4, <1>9, ChangeIs DEF Known
<1>11. Table(new, q, beg)
  BY Zenon, <1>2, <1>3, <1>4, <1>7, <1>8, <1>10, TableChange
<1>12. Wire(n, new, beg, next, hrd, ts, tc)
  BY <1>4, <1>5, <1>8, <1>10, WirePuts
<1>13. PICK us : us = Append(ts, create(c, tab[c].peer))
  OBVIOUS
<1>14. Wire(n, new, beg, next, hrd, us, tc)
  <2>1. c \in DOMAIN new /\ Asked(new[c])
    BY Zenon, <1>8, <1>10 DEF Puts
  <2> QED  BY Zenon, <1>4, <1>5, <1>7, <1>12, <1>13, <2>1, WireAsk
<1>15. Becomes(toServer, toServer', n, us)
  <2>1. toServer' = [toServer EXCEPT ![n] = us]
    BY Zenon, <1>3, <1>13 DEF sendMsg
  <2> QED  BY Zenon, <2>1, ElsewhereExcept DEF IInv, Maps
<1>16. CallsKept(n, beg)
  <2>1. calls[n][t] # <<>> /\ "free" # "M" /\ "free" \in Threads \cup {"free"}
    BY <1>3 DEF Top
  <2>2. <<>> \in Seq(CallsOf(t, beg))
    OBVIOUS
  <2> QED  BY Zenon, <1>3, <2>1, <2>2, CallFree
<1>17. /\ Becomes(rendezvousConnIds_, rendezvousConnIds_', n, q) /\ Becomes(begun, begun', n, beg)
       /\ Becomes(nextConnIdx_, nextConnIdx_', n, next) /\ Becomes(toClient, toClient', n, tc)
       /\ Elsewhere(armed, armed', n) /\ armed'[n] \subseteq beg /\ conn_' \in [Nodes -> BOOLEAN]
       /\ users' \in [Nodes -> SUBSET ConnIds] /\ answers' \in [ConnIds -> Seq({"ok", "error"})]
  BY Zenon, <1>3, LeftAlone
<1> QED  BY Zenon, <1>3, <1>10, <1>11, <1>14, <1>15, <1>16, <1>17, NodeStep

(* The session of the head of the queue is started, or start() fails and   *)
(* the entry is dropped.                                                   *)
LEMMA StepStart ==
  ASSUME IInv, NEW n \in Nodes, NEW t \in Threads, NEW ok \in BOOLEAN, processStart(n, t, ok)
  PROVE  IInv'
<1>1. PICK tab, q, beg, next, hrd, ts, tc : View(n, tab, q, beg, next, hrd, ts, tc)
  BY Zenon, AtNode
<1> /\ tab = connStates_[n] /\ q = rendezvousConnIds_[n] /\ beg = begun[n]
    /\ next = nextConnIdx_[n] /\ hrd = heard[n] /\ ts = toServer[n] /\ tc = toClient[n]
    /\ Table(tab, q, beg) /\ Wire(n, tab, beg, next, hrd, ts, tc)
    /\ Fewer(ts, ts, ToServer) /\ Fewer(tc, tc, ToClient)
  BY Zenon, <1>1 DEF View
<1>2. PICK c : c = Head(q)
  OBVIOUS
<1>3. PICK ran : ran = beg \cup {c}
  OBVIOUS
<1>4. /\ Top(n, t, "process") /\ conn_[n] /\ q # <<>> /\ tab[c].mode # "Unknown" /\ ~Waits(n, tab[c])
      /\ rendezvousConnIds_' = [rendezvousConnIds_ EXCEPT ![n] = Tail(q)]
      /\ begun' = [begun EXCEPT ![n] = ran]
      /\ UNCHANGED <<conn_, nextConnIdx_, users, toClient, told, heard, answers>>
  BY Zenon, <1>2, <1>3 DEF processStart, Turn
<1>5. c \in ConnIds /\ c \in DOMAIN tab /\ c \notin beg /\ Waiting(tab[c]) /\ tab[c] \in ConnState
  BY Zenon, <1>2, <1>4, HeadEntry
<1>6. beg \subseteq ran /\ ran \subseteq beg \cup DOMAIN tab
  BY Zenon, <1>3, <1>5
<1>7. /\ Becomes(rendezvousConnIds_, rendezvousConnIds_', n, Tail(q)) /\ Becomes(begun, begun', n, ran)
  BY Zenon, <1>4, ElsewhereExcept DEF IInv, Maps
<1>8. /\ Becomes(nextConnIdx_, nextConnIdx_', n, next) /\ Becomes(toClient, toClient', n, tc)
      /\ conn_' \in [Nodes -> BOOLEAN] /\ users' \in [Nodes -> SUBSET ConnIds]
      /\ answers' \in [ConnIds -> Seq({"ok", "error"})]
  BY Zenon, <1>4, LeftAlone
<1>9. CASE ok
  <2>1. /\ connStates_' = [connStates_ EXCEPT ![n][c].rSess = "started"]
        /\ armed' = [armed EXCEPT ![n] = armed[n] \cup {c}] /\ m_' = [m_ EXCEPT ![n] = t]
        /\ UNCHANGED <<calls, toServer>>
    BY Zenon, <1>2, <1>9 DEF processStart
  <2>2. PICK e : e = [tab[c] EXCEPT !.rSess = "started"]
    OBVIOUS
  <2>3. e \in ConnState /\ e.rSess = "started" /\ e.mode = tab[c].mode
    BY <1>5, <2>2 DEF ConnState
  <2>4. Ran(e) /\ ~Asked(tab[c])
    BY Zenon, <1>4, <2>3 DEF Ran, Asked
  <2>5. Symm(e) => \A x \in DOMAIN tab : ~Symm(tab[x])
    BY Zenon, <1>4, <2>3 DEF Symm, Waits, Started, Known
  <2>6. connStates_' = [connStates_ EXCEPT ![n] = [tab EXCEPT ![c] = e]]
    BY Zenon, <2>1, <2>2, ExceptField
  <2>7. PICK new : Becomes(connStates_, connStates_', n, new) /\ Puts(new, tab, c, e)
    BY Zenon, <1>5, <2>6, ChangeIs DEF Known
  <2>8. Table(new, Tail(q), ran)
    BY Zenon, <1>2, <1>3, <1>4, <2>3, <2>4, <2>5, <2>7, TableStart
  <2>9. Wire(n, new, ran, next, hrd, ts, tc)
    <3>1. e.mode = "Unknown" => tab[c].mode = "Unknown"
      BY Zenon, <2>3
    <3> QED  BY <1>5, <1>6, <2>4, <2>7, <3>1, WirePuts
  <2>10. CallsKept(n, ran)
    BY Zenon, <1>4, <1>6, <2>1, CallTurn
  <2>11. Elsewhere(armed, armed', n) /\ armed'[n] \subseteq ran
    <3>1. Becomes(armed, armed', n, armed[n] \cup {c})
      BY Zenon, <2>1, ElsewhereExcept DEF IInv, Maps
    <3>2. armed[n] \subseteq beg
      BY Zenon DEF IInv, NodeInv
    <3> QED  BY Zenon, <1>3, <3>1, <3>2 DEF Becomes
  <2>12. Becomes(toServer, toServer', n, ts)
    BY Zenon, <2>1, LeftAlone
  <2> QED  BY Zenon, <1>4, <1>7, <1>8, <2>7, <2>8, <2>9, <2>10, <2>11, <2>12, NodeStep
<1>10. CASE ~ok
  <2>1. PICK e : e = tab[c]
    OBVIOUS
  <2>2. PICK s : s = <<[op |-> "release", conn |-> c]>> \o callbackOf(c, e, FALSE) \o process
    OBVIOUS
  <2>3. /\ connStates_' = Erased(n, c) /\ sendMsg(n, close(c, FALSE))
        /\ m_' = [m_ EXCEPT ![n] = "free"] /\ Instead(n, t, s) /\ UNCHANGED armed
    BY Zenon, <1>2, <1>10, <2>1, <2>2 DEF processStart
  <2>4. PICK new : Becomes(connStates_, connStates_', n, new) /\ Drops(new, tab, c)
    BY Zenon, <2>3, ErasedIs
  <2>5. PICK us : Becomes(toServer, toServer', n, us) /\ Fewer(us, ts, ToServer)
    BY Zenon, <1>5, <2>3, CloseSent
  <2>6. Table(new, Tail(q), ran)
    BY Zenon, <1>2, <1>3, <1>4, <2>4, TableFail
  <2>7. Wire(n, new, ran, next, hrd, us, tc)
    BY Zenon, <1>6, <2>4, <2>5, WireDrops
  <2>8. CallsKept(n, ran)
    <3>1. s \in Seq(CallsOf(t, ran))
      BY Zenon, <1>5, <2>2, Leaves, ConcatProperties
    <3>2. calls[n][t] # <<>> /\ "free" # "M" /\ "free" \in Threads \cup {"free"}
      BY <1>4 DEF Top
    <3> QED  BY Zenon, <1>6, <2>3, <3>1, <3>2, CallFree
  <2>9. Elsewhere(armed, armed', n) /\ armed'[n] \subseteq ran
    BY Zenon, <1>6, <2>3, LeftAlone
  <2> QED  BY Zenon, <1>4, <1>7, <1>8, <2>4, <2>5, <2>6, <2>7, <2>8, <2>9, NodeStep
<1> QED  BY Zenon, <1>9, <1>10

-----------------------------------------------------------------------------
(* The other calls that a handler has left.                                *)

(* What the first call of a thread names: a connection, and for some calls *)
(* one whose session was started.                                          *)
LEMMA TopCall ==
  ASSUME IInv, NEW n \in Nodes, NEW t \in Threads, NEW op, Top(n, t, op)
  PROVE  /\ op \in {"onRendezvous", "proxy", "stored"} => Head(calls[n][t]).conn \in begun[n]
         /\ op \notin {"lock", "unlock", "process"} => Head(calls[n][t]).conn \in ConnIds
         /\ op \in {"onRendezvous", "onEstablished", "callback", "stored"} => Head(calls[n][t]).ok \in BOOLEAN
         /\ op \notin {"release", "process", "callback"} => t # "M"
<1>1. PICK k : k = Head(calls[n][t])
  OBVIOUS
<1>2. k.op = op /\ calls[n][t] # <<>>
  BY Zenon, <1>1 DEF Top
<1>3. Stacks(calls[n], begun[n])
  BY Zenon DEF IInv, NodeInv
<1>4. k \in CallsOf(t, begun[n])
  BY Zenon, <1>1, <1>2, <1>3, FirstCall
<1>5. /\ k \in Calls /\ (op \in {"onRendezvous", "proxy", "stored"} => k.conn \in begun[n])
      /\ (t = "M" => op \in {"release", "process", "callback"})
  BY Zenon, <1>2, <1>4 DEF CallsOf
<1>6. /\ op \notin {"lock", "unlock", "process"} => k.conn \in ConnIds
      /\ op \in {"onRendezvous", "onEstablished", "callback", "stored"} => k.ok \in BOOLEAN
  BY <1>2, <1>5 DEF Calls
<1> QED  BY Zenon, <1>1, <1>5, <1>6

(* The set of sessions that have not reported, after a step that takes one *)
(* out of it.                                                              *)
LEMMA Disarmed ==
  ASSUME IInv, NEW n \in Nodes, NEW c, armed' = armed \/ armed' = [armed EXCEPT ![n] = @ \ {c}]
  PROVE  Elsewhere(armed, armed', n) /\ armed'[n] \subseteq begun[n]
<1>1. CASE armed' = armed
  BY Zenon, <1>1, LeftAlone
<1>2. CASE armed' = [armed EXCEPT ![n] = @ \ {c}]
  <2>1. Becomes(armed, armed', n, armed[n] \ {c})
    BY Zenon, <1>2, ElsewhereExcept DEF IInv, Maps
  <2>2. armed[n] \subseteq begun[n]
    BY Zenon DEF IInv, NodeInv
  <2> QED  BY Zenon, <2>1, <2>2 DEF Becomes
<1> QED  BY Zenon, <1>1, <1>2

(* A call that leaves the table, the queue and the lock alone.             *)
LEMMA InnerStep ==
  ASSUME IInv, NEW n \in Nodes, NEW t \in Threads, NEW op, Inner(n, t, op), op # "process",
         NEW s \in Seq(CallsOf(t, begun[n])), Instead(n, t, s),
         UNCHANGED <<connStates_, rendezvousConnIds_, m_, toServer>>,
         NEW c, armed' = armed \/ armed' = [armed EXCEPT ![n] = @ \ {c}],
         answers' \in [ConnIds -> Seq({"ok", "error"})]
  PROVE  IInv'
<1>1. Top(n, t, op) /\ UNCHANGED <<conn_, nextConnIdx_, users, toClient, told, heard, begun>>
  BY Zenon DEF Inner
<1>2. CallsKept(n, begun[n])
  BY Zenon, <1>1, CallQuiet
<1>3. conn_' \in [Nodes -> BOOLEAN]
  BY Zenon, <1>1, LeftAlone
<1>4. Elsewhere(armed, armed', n) /\ armed'[n] \subseteq begun[n]
  BY Zenon, Disarmed
<1> QED  BY Zenon, <1>1, <1>2, <1>3, <1>4, QuietStep

(* A reference to a session is dropped.                                    *)
LEMMA StepRelease ==
  ASSUME IInv, NEW n \in Nodes, NEW t \in Threads, release(n, t)
  PROVE  IInv'
<1>1. PICK c : c = Head(calls[n][t]).conn
  OBVIOUS
<1>2. /\ Inner(n, t, "release") /\ Instead(n, t, <<>>)
      /\ armed' = armed \/ armed' = [armed EXCEPT ![n] = @ \ {c}]
      /\ UNCHANGED <<connStates_, rendezvousConnIds_, m_, toServer, answers>>
  BY Zenon, <1>1 DEF release
<1>3. <<>> \in Seq(CallsOf(t, begun[n])) /\ "release" # "process"
  OBVIOUS
<1>4. answers' \in [ConnIds -> Seq({"ok", "error"})]
  BY Zenon, <1>2, LeftAlone
<1> QED  BY Zenon, <1>2, <1>3, <1>4, InnerStep

(* A callback of a session returns.                                        *)
LEMMA StepReturn ==
  ASSUME IInv, NEW n \in Nodes, NEW t \in Threads, return(n, t)
  PROVE  IInv'
<1>1. /\ Inner(n, t, "return") /\ Instead(n, t, <<>>)
      /\ UNCHANGED <<connStates_, rendezvousConnIds_, m_, armed, toServer, answers>>
  BY Zenon DEF return
<1>2. <<>> \in Seq(CallsOf(t, begun[n])) /\ "return" # "process"
  OBVIOUS
<1>3. answers' \in [ConnIds -> Seq({"ok", "error"})]
  BY Zenon, <1>1, LeftAlone
<1> QED  BY Zenon, <1>1, <1>2, <1>3, InnerStep

(* The user's callback is called.                                          *)
LEMMA StepCallback ==
  ASSUME IInv, NEW n \in Nodes, NEW t \in Threads, callback(n, t)
  PROVE  IInv'
<1>1. PICK k : k = Head(calls[n][t])
  OBVIOUS
<1>2. /\ Inner(n, t, "callback") /\ Instead(n, t, <<>>)
      /\ answers' = [answers EXCEPT ![k.conn] = Append(@, IF k.ok THEN "ok" ELSE "error")]
      /\ UNCHANGED <<connStates_, rendezvousConnIds_, m_, armed, toServer>>
  BY Zenon, <1>1 DEF callback
<1>3. <<>> \in Seq(CallsOf(t, begun[n])) /\ "callback" # "process"
  OBVIOUS
<1>4. k.conn \in ConnIds
  BY <1>1, <1>2, TopCall DEF Inner
<1>5. answers \in [ConnIds -> Seq({"ok", "error"})]
  BY Zenon DEF IInv, Basics
<1>6. answers' \in [ConnIds -> Seq({"ok", "error"})]
  BY <1>2, <1>4, <1>5
<1> QED  BY Zenon, <1>2, <1>3, <1>6, InnerStep

(* The proxy session is started, or fails to.                              *)
LEMMA StepProxy ==
  ASSUME IInv, NEW n \in Nodes, NEW t \in Threads, NEW ok \in BOOLEAN, proxy(n, t, ok)
  PROVE  IInv'
<1>1. PICK c : c = Head(calls[n][t]).conn
  OBVIOUS
<1>2. PICK s : s = <<[op |-> "stored", conn |-> c, ok |-> ok]>>
  OBVIOUS
<1>3. /\ Inner(n, t, "proxy") /\ Instead(n, t, s)
      /\ UNCHANGED <<connStates_, rendezvousConnIds_, m_, armed, toServer, answers>>
  BY Zenon, <1>1, <1>2 DEF proxy
<1>4. c \in ConnIds /\ c \in begun[n] /\ t # "M"
  BY <1>1, <1>3, TopCall DEF Inner
<1>5. s \in Seq(CallsOf(t, begun[n])) /\ "proxy" # "process"
  BY Zenon, <1>2, <1>4, ReactorLeaves
<1>6. answers' \in [ConnIds -> Seq({"ok", "error"})]
  BY Zenon, <1>3, LeftAlone
<1> QED  BY Zenon, <1>3, <1>5, <1>6, InnerStep

(* A session reports from within a call: it was started.                   *)
LEMMA Reporting ==
  ASSUME IInv, NEW n \in Nodes, NEW t \in Threads, t # "M", NEW c \in ConnIds, NEW ok \in BOOLEAN,
         NEW s, s = <<>> \/ (s = reports(c, ok) /\ c \in armed[n])
  PROVE  s \in Seq(CallsOf(t, begun[n]))
<1>1. armed[n] \subseteq begun[n]
  BY Zenon DEF IInv, NodeInv
<1>2. <<>> \in Seq(CallsOf(t, begun[n]))
  OBVIOUS
<1> QED  BY Zenon, <1>1, <1>2, ReactorLeaves

(* onEstablished of a session: it reports, or goes on.                     *)
LEMMA StepOnEstablished ==
  ASSUME IInv, NEW n \in Nodes, NEW t \in Threads, onEstablished(n, t)
  PROVE  IInv'
<1>1. PICK c : c = Head(calls[n][t]).conn
  OBVIOUS
<1>2. PICK s : s = IF c \in armed[n] /\ Head(calls[n][t]).ok THEN reports(c, TRUE) ELSE <<>>
  OBVIOUS
<1>3. /\ Inner(n, t, "onEstablished") /\ Instead(n, t, s)
      /\ armed' = armed \/ armed' = [armed EXCEPT ![n] = @ \ {c}]
      /\ UNCHANGED <<connStates_, rendezvousConnIds_, m_, toServer, answers>>
  BY Zenon, <1>1, <1>2 DEF onEstablished
<1>4. c \in ConnIds /\ t # "M" /\ "onEstablished" # "process"
  BY <1>1, <1>3, TopCall DEF Inner
<1>5. s = <<>> \/ (s = reports(c, TRUE) /\ c \in armed[n])
  BY Zenon, <1>2
<1>6. s \in Seq(CallsOf(t, begun[n]))
  BY Zenon, <1>4, <1>5, Reporting
<1>7. answers' \in [ConnIds -> Seq({"ok", "error"})]
  BY Zenon, <1>3, LeftAlone
<1> QED  BY Zenon, <1>3, <1>4, <1>6, <1>7, InnerStep

(* onMsg of a session: it reports, or goes on.                             *)
LEMMA StepOnMsg ==
  ASSUME IInv, NEW n \in Nodes, NEW t \in Threads, NEW fails \in BOOLEAN, onMsg(n, t, fails)
  PROVE  IInv'
<1>1. PICK c : c = Head(calls[n][t]).conn
  OBVIOUS
<1>2. PICK s : s = IF fails THEN reports(c, FALSE) ELSE <<>>
  OBVIOUS
<1>3. /\ Inner(n, t, "onMsg") /\ Instead(n, t, s) /\ (fails => c \in armed[n])
      /\ armed' = armed \/ armed' = [armed EXCEPT ![n] = @ \ {c}]
      /\ UNCHANGED <<connStates_, rendezvousConnIds_, m_, toServer, answers>>
  BY Zenon, <1>1, <1>2 DEF onMsg
<1>4. c \in ConnIds /\ t # "M" /\ "onMsg" # "process"
  BY <1>1, <1>3, TopCall DEF Inner
<1>5. s = <<>> \/ (s = reports(c, FALSE) /\ c \in armed[n])
  BY Zenon, <1>2, <1>3
<1>6. s \in Seq(CallsOf(t, begun[n]))
  BY Zenon, <1>4, <1>5, Reporting
<1>7. answers' \in [ConnIds -> Seq({"ok", "error"})]
  BY Zenon, <1>3, LeftAlone
<1> QED  BY Zenon, <1>3, <1>4, <1>6, <1>7, InnerStep

(* A thread takes m_, or gives it back.                                    *)
LEMMA StepLock ==
  ASSUME IInv, NEW n \in Nodes, NEW t \in Threads, lock(n, t) \/ unlock(n, t)
  PROVE  IInv'
<1>1. PICK u \in {t, "free"} : m_' = [m_ EXCEPT ![n] = u]
  BY Zenon DEF lock, unlock
<1>2. /\ Top(n, t, "lock") \/ Top(n, t, "unlock")
      /\ Instead(n, t, <<>>)
      /\ UNCHANGED <<connStates_, rendezvousConnIds_, armed, toServer, answers, conn_, nextConnIdx_, users,
                     toClient, told, heard, begun>>
  BY Zenon DEF lock, unlock, Inner
<1>3. t # "M"
  BY <1>2, TopCall
<1>4. u # "M" /\ u \in Threads \cup {"free"} /\ calls[n][t] # <<>> /\ begun[n] \subseteq begun[n]
  BY <1>1, <1>2, <1>3 DEF Top
<1>5. <<>> \in Seq(CallsOf(t, begun[n]))
  OBVIOUS
<1>6. CallsKept(n, begun[n])
  BY Zenon, <1>1, <1>2, <1>4, <1>5, CallFree
<1>7. /\ Elsewhere(armed, armed', n) /\ armed'[n] \subseteq begun[n] /\ conn_' \in [Nodes -> BOOLEAN]
      /\ answers' \in [ConnIds -> Seq({"ok", "error"})]
  BY Zenon, <1>2, LeftAlone
<1> QED  BY Zenon, <1>2, <1>6, <1>7, QuietStep

(* A session reports of itself, on a timer or a packet.                    *)
LEMMA StepReport ==
  ASSUME IInv, NEW n \in Nodes, NEW t \in Reactors, NEW c \in ConnIds, NEW ok \in BOOLEAN, Report(n, t, c, ok)
  PROVE  IInv'
<1>1. /\ c \in armed[n] /\ armed' = [armed EXCEPT ![n] = @ \ {c}] /\ Continue(n, t, reports(c, ok))
      /\ UNCHANGED <<conn_, connStates_, rendezvousConnIds_, nextConnIdx_, m_, begun, users, toServer, toClient,
                     told, heard, answers>>
  BY Zenon DEF Report, tableVars, wireVars
<1>2. t \in Threads /\ t # "M"
  BY Zenon, ThreadNames
<1>3. PICK s : s = reports(c, ok)
  OBVIOUS
<1>4. s \in Seq(CallsOf(t, begun[n]))
  BY Zenon, <1>1, <1>2, <1>3, Reporting
<1>5. IsFun(calls, Nodes) /\ IsFun(calls[n], Threads) /\ Stacks(calls[n], begun[n]) /\ Lock(calls[n], m_[n])
  BY Zenon DEF IInv, Maps, NodeInv
<1>6. calls' = [calls EXCEPT ![n][t] = s]
  BY Zenon, <1>1, <1>3 DEF Continue
<1>7. /\ Elsewhere(calls, calls', n) /\ IsFun(calls'[n], Threads) /\ Stacks(calls'[n], begun[n])
      /\ \A u \in Threads \ {t} : calls'[n][u] = calls[n][u]
  BY Zenon, <1>2, <1>4, <1>5, <1>6, ContinueStep
<1>8. m_' \in [Nodes -> Threads \cup {"free"}] /\ Elsewhere(m_, m_', n) /\ m_'[n] = m_[n]
  BY Zenon, <1>1, LockSame
<1>9. Lock(calls'[n], m_'[n])
  <2>1. "M" \in Threads \ {t}
    BY Zenon, <1>2 DEF Threads
  <2>2. calls'[n]["M"] = calls[n]["M"]
    BY Zenon, <1>7, <2>1
  <2> QED  BY Zenon, <1>5, <1>8, <2>2 DEF Lock
<1>10. CallsKept(n, begun[n])
  BY Zenon, <1>7, <1>8, <1>9 DEF CallsKept
<1>11. Elsewhere(armed, armed', n) /\ armed'[n] \subseteq begun[n]
  BY Zenon, <1>1, Disarmed
<1>12. conn_' \in [Nodes -> BOOLEAN] /\ answers' \in [ConnIds -> Seq({"ok", "error"})]
  BY Zenon, <1>1, LeftAlone
<1> QED  BY Zenon, <1>1, <1>10, <1>11, <1>12, QuietStep

(* A session reports, or its proxy session is stored: the table changes.   *)
LEMMA EntryStep ==
  ASSUME IInv, NEW n \in Nodes, NEW t \in Threads, NEW op, Inner(n, t, op), op # "process",
         NEW s \in Seq(CallsOf(t, begun[n])), Instead(n, t, s),
         UNCHANGED <<rendezvousConnIds_, m_, armed, answers>>,
         NEW new, NEW us, Becomes(connStates_, connStates_', n, new), Becomes(toServer, toServer', n, us),
         Table(new, rendezvousConnIds_[n], begun[n]),
         Wire(n, new, begun[n], nextConnIdx_[n], heard[n], us, toClient[n])
  PROVE  IInv'
<1>1. Top(n, t, op) /\ UNCHANGED <<conn_, nextConnIdx_, users, toClient, told, heard, begun>>
  BY Zenon DEF Inner
<1>2. CallsKept(n, begun[n])
  BY Zenon, <1>1, CallQuiet
<1>3. /\ Becomes(rendezvousConnIds_, rendezvousConnIds_', n, rendezvousConnIds_[n])
      /\ Becomes(nextConnIdx_, nextConnIdx_', n, nextConnIdx_[n]) /\ Becomes(begun, begun', n, begun[n])
      /\ Becomes(toClient, toClient', n, toClient[n]) /\ Elsewhere(armed, armed', n) /\ armed'[n] \subseteq begun[n]
      /\ conn_' \in [Nodes -> BOOLEAN] /\ users' \in [Nodes -> SUBSET ConnIds]
      /\ answers' \in [ConnIds -> Seq({"ok", "error"})]
  BY Zenon, <1>1, LeftAlone
<1> QED  BY Zenon, <1>1, <1>2, <1>3, NodeStep

(* The entry of a connection whose session was started.                    *)
LEMMA RanEntry ==
  ASSUME NEW tab, NEW q, NEW beg, Table(tab, q, beg), NEW c \in beg, c \in DOMAIN tab
  PROVE  Ran(tab[c]) /\ ~Asked(tab[c]) /\ tab[c] \in ConnState
<1>1. tab \in [DOMAIN tab -> ConnState]
  BY Zenon DEF Table
<1>2. Ran(tab[c])
  BY Zenon DEF Table
<1> QED  BY Zenon, <1>1, <1>2 DEF Ran, Asked

(* onRendezvous: the head of the callback, under m_.                       *)
LEMMA StepOnRendezvous ==
  ASSUME IInv, NEW n \in Nodes, NEW t \in Threads, onRendezvous(n, t)
  PROVE  IInv'
<1>1. PICK c : c = Head(calls[n][t]).conn
  OBVIOUS
<1>2. Inner(n, t, "onRendezvous") /\ UNCHANGED <<rendezvousConnIds_, m_, armed, answers>>
  BY Zenon DEF onRendezvous
<1>3. c \in ConnIds /\ c \in begun[n] /\ t # "M" /\ Head(calls[n][t]).ok \in BOOLEAN /\ "onRendezvous" # "process"
  BY <1>1, <1>2, TopCall DEF Inner
<1>4. CASE c \notin Known(n)
  <2>1. Instead(n, t, <<>>) /\ UNCHANGED <<connStates_, toServer>>
    BY Zenon, <1>1, <1>4 DEF onRendezvous
  <2>2. <<>> \in Seq(CallsOf(t, begun[n]))
    OBVIOUS
  <2>3. answers' \in [ConnIds -> Seq({"ok", "error"})]
    BY Zenon, <1>2, LeftAlone
  <2> QED  BY Zenon, <1>2, <1>3, <2>1, <2>2, <2>3, InnerStep
<1>5. CASE c \in Known(n)
  <2>1. PICK tab, q, beg, next, hrd, ts, tc : View(n, tab, q, beg, next, hrd, ts, tc)
    BY Zenon, AtNode
  <2> /\ tab = connStates_[n] /\ q = rendezvousConnIds_[n] /\ beg = begun[n]
      /\ next = nextConnIdx_[n] /\ hrd = heard[n] /\ ts = toServer[n] /\ tc = toClient[n]
      /\ Table(tab, q, beg) /\ Wire(n, tab, beg, next, hrd, ts, tc)
      /\ beg \subseteq beg /\ beg \subseteq beg \cup DOMAIN tab /\ Fewer(tc, tc, ToClient)
    BY Zenon, <2>1 DEF View
  <2>2. PICK e : e = connStates_[n][c]
    OBVIOUS
  <2>3. PICK ok \in {FALSE, Head(calls[n][t]).ok} :
            /\ connStates_' = Reported(n, c, e, ok)
            /\ UNCHANGED toServer \/ sendMsg(n, close(c, EstablishedFlag(e, ok)))
            /\ Instead(n, t, releaseOf(c, e) \o callbackOf(c, e, ok)
                             \o (IF ok /\ ~e.callback THEN <<[op |-> "proxy", conn |-> c]>> ELSE <<>>) \o process)
    BY Zenon, <1>1, <1>5, <2>2 DEF onRendezvous
  <2>4. ok \in BOOLEAN /\ EstablishedFlag(e, ok) \in BOOLEAN
    BY Zenon, <1>3, <2>3 DEF EstablishedFlag
  <2>5. PICK us : Becomes(toServer, toServer', n, us) /\ Fewer(us, ts, ToServer)
    <3>1. Fewer(ts, ts, ToServer)
      BY Zenon, <2>1 DEF View
    <3> QED  BY Zenon, <1>3, <2>3, <2>4, <3>1, CloseSent, LeftAlone
  <2>6. c \in DOMAIN tab /\ Ran(e) /\ ~Asked(e) /\ e \in ConnState /\ e = tab[c]
    BY Zenon, <1>3, <1>5, <2>2, RanEntry DEF Known
  <2>7. PICK new : Becomes(connStates_, connStates_', n, new) /\ Table(new, q, beg)
                   /\ Wire(n, new, beg, next, hrd, us, tc)
    <3>1. CASE ok
      <4>1. PICK f : f = [e EXCEPT !.rSess = "none", !.status = "Established", !.keepalive = TRUE]
        OBVIOUS
      <4>2. f \in ConnState /\ f.rSess = "none" /\ f.mode = e.mode /\ f.keepalive = TRUE
        BY <2>6, <4>1 DEF ConnState
      <4>3. Ran(f) /\ ~Asked(f) /\ ~Symm(f) /\ (f.mode = "Unknown" => e.mode = "Unknown")
        BY <2>6, <4>2 DEF Ran, Asked, Symm
      <4>4. connStates_' = Put(n, c, f)
        BY Zenon, <2>3, <3>1, <4>1 DEF Reported
      <4>5. PICK new : Becomes(connStates_, connStates_', n, new) /\ Puts(new, tab, c, f)
        BY Zenon, <4>4, PutIs
      <4>6. Table(new, q, beg)
        BY Zenon, <1>3, <2>6, <4>2, <4>3, <4>5, TableChange
      <4>7. Wire(n, new, beg, next, hrd, us, tc)
        BY <2>5, <2>6, <4>3, <4>5, WirePuts
      <4> QED  BY Zenon, <4>5, <4>6, <4>7
    <3>2. CASE ~ok
      <4>1. PICK new : Becomes(connStates_, connStates_', n, new) /\ Drops(new, tab, c)
        BY Zenon, <2>3, <3>2, ErasedIs DEF Reported
      <4>2. Table(new, q, beg)
        BY Zenon, <1>3, <4>1, TableForget
      <4>3. Wire(n, new, beg, next, hrd, us, tc)
        BY Zenon, <2>5, <4>1, WireDrops
      <4> QED  BY Zenon, <4>1, <4>2, <4>3
    <3> QED  BY Zenon, <3>1, <3>2
  <2>8. PICK s : s = releaseOf(c, e) \o callbackOf(c, e, ok)
                     \o (IF ok /\ ~e.callback THEN <<[op |-> "proxy", conn |-> c]>> ELSE <<>>) \o process
    OBVIOUS
  <2>9. s \in Seq(CallsOf(t, begun[n]))
    <3>1. PICK p : p = IF ok /\ ~e.callback THEN <<[op |-> "proxy", conn |-> c]>> ELSE <<>>
      OBVIOUS
    <3>2. p \in Seq(CallsOf(t, begun[n]))
      BY Zenon, <1>3, <3>1, Leaves, ReactorLeaves
    <3>3. /\ releaseOf(c, e) \in Seq(CallsOf(t, begun[n])) /\ callbackOf(c, e, ok) \in Seq(CallsOf(t, begun[n]))
          /\ process \in Seq(CallsOf(t, begun[n]))
      BY Zenon, <1>3, <2>4, Leaves
    <3>4. releaseOf(c, e) \o callbackOf(c, e, ok) \o p \o process \in Seq(CallsOf(t, begun[n]))
      BY Zenon, <3>2, <3>3, ConcatProperties
    <3> QED  BY Zenon, <2>8, <3>1, <3>4
  <2>10. Instead(n, t, s)
    BY Zenon, <2>3, <2>8
  <2> QED  BY Zenon, <1>2, <1>3, <2>5, <2>7, <2>9, <2>10, EntryStep
<1> QED  BY Zenon, <1>4, <1>5

(* onRendezvous again, once the proxy session was tried.                   *)
LEMMA StepStored ==
  ASSUME IInv, NEW n \in Nodes, NEW t \in Threads, stored(n, t)
  PROVE  IInv'
<1>1. PICK k : k = Head(calls[n][t])
  OBVIOUS
<1>2. PICK c : c = k.conn
  OBVIOUS
<1>3. /\ Inner(n, t, "stored") /\ Instead(n, t, <<>>)
      /\ UNCHANGED <<rendezvousConnIds_, m_, armed, toServer, answers>>
      /\ c \notin Known(n) => connStates_' = connStates_
      /\ c \in Known(n) /\ k.ok => connStates_' = [connStates_ EXCEPT ![n][c].proxySession = TRUE]
      /\ c \in Known(n) /\ ~k.ok => connStates_' = Erased(n, c)
  BY Zenon, <1>1, <1>2 DEF stored
<1>4. c \in begun[n] /\ "stored" # "process" /\ <<>> \in Seq(CallsOf(t, begun[n]))
  <2>1. c \in begun[n]
    BY <1>1, <1>2, <1>3, TopCall DEF Inner
  <2> QED  BY <2>1
<1>5. PICK tab, q, beg, next, hrd, ts, tc : View(n, tab, q, beg, next, hrd, ts, tc)
  BY Zenon, AtNode
<1> /\ tab = connStates_[n] /\ q = rendezvousConnIds_[n] /\ beg = begun[n]
    /\ next = nextConnIdx_[n] /\ hrd = heard[n] /\ ts = toServer[n] /\ tc = toClient[n]
    /\ Table(tab, q, beg) /\ Wire(n, tab, beg, next, hrd, ts, tc)
    /\ beg \subseteq beg /\ beg \subseteq beg \cup DOMAIN tab /\ Fewer(ts, ts, ToServer) /\ Fewer(tc, tc, ToClient)
  BY Zenon, <1>5 DEF View
<1>6. PICK new : Becomes(connStates_, connStates_', n, new) /\ Table(new, q, beg)
                 /\ Wire(n, new, beg, next, hrd, ts, tc)
  <2>1. CASE c \notin Known(n)
    BY Zenon, <1>3, <2>1, LeftAlone
  <2>2. CASE c \in Known(n) /\ k.ok
    <3>1. c \in DOMAIN tab /\ Ran(tab[c]) /\ ~Asked(tab[c]) /\ tab[c] \in ConnState
      BY Zenon, <1>4, <2>2, RanEntry DEF Known
    <3>2. PICK f : f = [tab[c] EXCEPT !.proxySession = TRUE]
      OBVIOUS
    <3>3. f \in ConnState /\ f.rSess = tab[c].rSess /\ f.mode = tab[c].mode /\ f.keepalive = tab[c].keepalive
      BY <3>1, <3>2 DEF ConnState
    <3>4. Ran(f) /\ ~Asked(f) /\ (Symm(f) => Symm(tab[c])) /\ (f.mode = "Unknown" => tab[c].mode = "Unknown")
      BY Zenon, <3>1, <3>3 DEF Ran, Asked, Symm
    <3>5. connStates_' = [connStates_ EXCEPT ![n] = [tab EXCEPT ![c] = f]]
      BY Zenon, <1>3, <2>2, <3>2, ExceptField
    <3>6. PICK new : Becomes(connStates_, connStates_', n, new) /\ Puts(new, tab, c, f)
      BY Zenon, <2>2, <3>5, ChangeIs
    <3>7. Table(new, q, beg)
      BY Zenon, <1>4, <3>1, <3>3, <3>4, <3>6, TableChange
    <3>8. Wire(n, new, beg, next, hrd, ts, tc)
      BY <3>1, <3>4, <3>6, WirePuts
    <3> QED  BY Zenon, <3>6, <3>7, <3>8
  <2>3. CASE c \in Known(n) /\ ~k.ok
    <3>1. PICK new : Becomes(connStates_, connStates_', n, new) /\ Drops(new, tab, c)
      BY Zenon, <1>3, <2>3, ErasedIs
    <3>2. Table(new, q, beg)
      BY Zenon, <1>4, <3>1, TableForget
    <3>3. Wire(n, new, beg, next, hrd, ts, tc)
      BY Zenon, <3>1, WireDrops
    <3> QED  BY Zenon, <3>1, <3>2, <3>3
  <2> QED  BY Zenon, <2>1, <2>2, <2>3
<1>7. Becomes(toServer, toServer', n, ts)
  BY Zenon, <1>3, LeftAlone
<1> QED  BY Zenon, <1>3, <1>4, <1>6, <1>7, EntryStep

(* onProxyDone: the entry of a connection that was in use is erased.       *)
LEMMA StepProxyDone ==
  ASSUME IInv, NEW n \in Nodes, NEW t \in Reactors, NEW c, onProxyDone(n, t, c)
  PROVE  IInv'
<1>1. /\ Enter(n, t) /\ c \in Known(n) /\ connStates_' = Erased(n, c)
      /\ UNCHANGED <<conn_, rendezvousConnIds_, nextConnIdx_, calls, armed, begun, users, toServer, toClient,
                     told, heard, answers>>
  BY Zenon DEF onProxyDone, sessionVars, wireVars
<1>2. PICK tab, q, beg, next, hrd, ts, tc : View(n, tab, q, beg, next, hrd, ts, tc)
  BY Zenon, AtNode
<1> /\ tab = connStates_[n] /\ q = rendezvousConnIds_[n] /\ beg = begun[n]
    /\ next = nextConnIdx_[n] /\ hrd = heard[n] /\ ts = toServer[n] /\ tc = toClient[n]
    /\ Table(tab, q, beg) /\ Wire(n, tab, beg, next, hrd, ts, tc)
    /\ beg \subseteq beg /\ beg \subseteq beg \cup DOMAIN tab /\ Fewer(ts, ts, ToServer) /\ Fewer(tc, tc, ToClient)
  BY Zenon, <1>2 DEF View
<1>3. c \in beg
  <2>1. CASE connStates_[n][c].proxySession
    <3>1. ~Waiting(tab[c])
      BY Zenon, <2>1 DEF Waiting
    <3> QED  BY Zenon, <1>1, <3>1 DEF Table, Known
  <2>2. CASE \E u \in Threads : /\ Top(n, u, "stored")
                                /\ Head(calls[n][u]) = [op |-> "stored", conn |-> c, ok |-> TRUE]
    <3>1. PICK u \in Threads : /\ Top(n, u, "stored")
                               /\ Head(calls[n][u]) = [op |-> "stored", conn |-> c, ok |-> TRUE]
      BY Zenon, <2>2
    <3>2. Head(calls[n][u]).conn = c
      BY <3>1
    <3>3. Head(calls[n][u]).conn \in begun[n]
      BY Zenon, <3>1, TopCall
    <3> QED  BY Zenon, <3>2, <3>3
  <2> QED  BY Zenon, <2>1, <2>2 DEF onProxyDone
<1>4. PICK new : Becomes(connStates_, connStates_', n, new) /\ Drops(new, tab, c)
  BY Zenon, <1>1, ErasedIs
<1>5. Table(new, q, beg)
  BY Zenon, <1>3, <1>4, TableForget
<1>6. Wire(n, new, beg, next, hrd, ts, tc)
  BY Zenon, <1>4, WireDrops
<1>7. CallsKept(n, beg)
  BY Zenon, <1>1, CallEnter, ThreadNames
<1>8. /\ Becomes(rendezvousConnIds_, rendezvousConnIds_', n, q) /\ Becomes(nextConnIdx_, nextConnIdx_', n, next)
      /\ Becomes(begun, begun', n, beg) /\ Becomes(toServer, toServer', n, ts)
      /\ Becomes(toClient, toClient', n, tc) /\ Elsewhere(armed, armed', n) /\ armed'[n] \subseteq beg
      /\ conn_' \in [Nodes -> BOOLEAN] /\ users' \in [Nodes -> SUBSET ConnIds]
      /\ answers' \in [ConnIds -> Seq({"ok", "error"})]
  BY Zenon, <1>1, LeftAlone
<1> QED  BY Zenon, <1>1, <1>4, <1>5, <1>6, <1>7, <1>8, NodeStep

-----------------------------------------------------------------------------
(* The server.                                                             *)

(* It writes to n what the table does not hear of.                         *)
LEMMA ServeOthers ==
  ASSUME NEW n, NEW tab, NEW beg, NEW next, NEW hrd, NEW ts, NEW tc,
         Wire(n, tab, beg, next, hrd, ts, tc), NEW all, hrd \subseteq all, all \subseteq ConnIds,
         NEW us, Fewer(us, ts, ToServer), NEW o \in Seq(ToClient), \A i \in 1..Len(o) : o[i].msg \notin Keys
  PROVE  Wire(n, tab, beg, next, all, us, tc \o o)
<1>1. tc \in Seq(ToClient)
  BY Zenon DEF Wire
<1>2. Fewer(tc \o o, tc, ToClient)
  BY Zenon, <1>1, FewerConcat
<1>3. DOMAIN tab \subseteq DOMAIN tab /\ beg \subseteq beg /\ beg \subseteq beg \cup DOMAIN tab
  BY Zenon
<1> QED  BY Zenon, <1>2, <1>3, WireKeeps

(* Or nothing.                                                             *)
LEMMA ServeNothing ==
  ASSUME NEW n, NEW tab, NEW beg, NEW next, NEW hrd, NEW ts, NEW tc,
         Wire(n, tab, beg, next, hrd, ts, tc), NEW all, hrd \subseteq all, all \subseteq ConnIds,
         NEW us, Fewer(us, ts, ToServer)
  PROVE  Wire(n, tab, beg, next, all, us, tc) /\ Wire(n, tab, beg, next, all, us, tc \o <<>>)
<1>1. tc \in Seq(ToClient)
  BY Zenon DEF Wire
<1>2. Fewer(tc, tc, ToClient)
  BY Zenon, <1>1, FewerSame
<1>3. DOMAIN tab \subseteq DOMAIN tab /\ beg \subseteq beg /\ beg \subseteq beg \cup DOMAIN tab
  BY Zenon
<1>4. Wire(n, tab, beg, next, all, us, tc)
  BY Zenon, <1>2, <1>3, WireKeeps
<1>5. tc \o <<>> = tc
  BY <1>1
<1> QED  BY Zenon, <1>4, <1>5

(* What the server writes.                                                 *)
LEMMA Said ==
  ASSUME NEW c \in ConnIds, NEW n, NEW k, NEW mode \in ModesOf(n, k), NEW msg \in {"CONN", "PENDING"},
         NEW p, p = opens(c, msg, mode)
  PROVE  p \in ToClient /\ p.msg = msg /\ p.connId = c
<1>1. mode \in RendezvousModes
  BY DEF ModesOf, RendezvousModes
<1> QED  BY <1>1 DEF opens, ToClient

(* A message without a mode is of its type.                                *)
LEMMA Told ==
  ASSUME NEW c \in ConnIds, NEW msg \in {"ESTABLISHED", "ERROR", "RELAY"}
  PROVE  says(c, msg) \in ToClient /\ says(c, msg).msg = msg /\ says(c, msg).connId = c
<1> QED  BY DEF says, ToClient

(* The outcome of the server's step, at n: the invariant of the wires with *)
(* what it wrote, and with the connections of told added to heard.         *)
Outcome(n, g) ==
    /\ g.told \subseteq ConnIds
    /\ Wire(n, connStates_[n], begun[n], nextConnIdx_[n], heard[n] \cup {c \in g.told : c.nodeId # n},
            g.in, toClient[n] \o g.out)

(* An outcome, from its three parts.                                       *)
LEMMA Effect ==
  ASSUME NEW n, NEW i, NEW o, NEW k, NEW g, g = effect(i, o, k), k \subseteq ConnIds,
         Wire(n, connStates_[n], begun[n], nextConnIdx_[n], heard[n] \cup {c \in k : c.nodeId # n},
              i, toClient[n] \o o)
  PROVE  Outcome(n, g)
<1>1. g.in = i /\ g.out = o /\ g.told = k
  BY DEF effect
<1> QED  BY Zenon, <1>1 DEF Outcome

(* The server reads CREATE or CLOSE, and answers the first with PENDING or *)
(* an error.                                                               *)
LEMMA ServeAnswers ==
  ASSUME IInv, NEW n \in Nodes, toServer[n] # <<>>, NEW g \in Answers(n, Head(toServer[n]))
  PROVE  Outcome(n, g)
<1>1. PICK tab, q, beg, next, hrd, ts, tc : View(n, tab, q, beg, next, hrd, ts, tc)
  BY Zenon, AtNode
<1> /\ tab = connStates_[n] /\ beg = begun[n]
    /\ next = nextConnIdx_[n] /\ hrd = heard[n] /\ ts = toServer[n] /\ tc = toClient[n]
    /\ Wire(n, tab, beg, next, hrd, ts, tc) /\ hrd \subseteq ConnIds
  BY Zenon, <1>1 DEF View
<1>2. PICK m : m = Head(ts)
  OBVIOUS
<1>3. PICK us : us = Tail(ts)
  OBVIOUS
<1>4. PICK c : c = m.connId
  OBVIOUS
<1>5. told[n] \subseteq ConnIds
  BY Zenon DEF IInv, NodeInv
<1>6. ts \in Seq(ToServer) /\ Unique(ts, "CREATE")
  BY Zenon DEF Wire
<1>7. m \in ToServer /\ Fewer(us, ts, ToServer)
      /\ (m.msg = "CREATE" => Has(ts, "CREATE", c) /\ ~Has(us, "CREATE", c))
  BY Zenon, <1>2, <1>3, <1>4, <1>6, WireTail, FewerTail
<1>8. c \in ConnIds /\ m.msg \in {"CREATE", "CLOSE"}
  BY <1>4, <1>7 DEF ToServer
<1>9. CASE m.msg = "CLOSE"
  <2>1. g = effect(us, <<>>, told[n] \ {c})
    <3>1. m.msg # "CREATE"
      BY <1>9
    <3>2. Answers(n, m) = {effect(us, <<>>, told[n] \ {c})}
      BY <1>3, <1>4, <1>9, <3>1 DEF Answers
    <3> QED  BY Zenon, <1>2, <3>2
  <2>2. PICK all : all = hrd \cup {x \in told[n] \ {c} : x.nodeId # n}
    OBVIOUS
  <2>3. hrd \subseteq all /\ all \subseteq ConnIds /\ told[n] \ {c} \subseteq ConnIds
    BY Zenon, <1>5, <2>2
  <2>4. Wire(n, tab, beg, next, all, us, tc \o <<>>)
    BY Zenon, <1>7, <2>3, ServeNothing
  <2> QED  BY Zenon, <2>1, <2>2, <2>3, <2>4, Effect
<1>10. CASE m.msg = "CREATE"
  <2>1. \/ g = effect(us, <<says(c, "ERROR")>>, told[n])
        \/ \E mode \in ModesOf(n, m.dst) : g = effect(us, <<opens(c, "PENDING", mode)>>, told[n] \cup {c})
    <3>1. g \in {effect(us, <<says(c, "ERROR")>>, told[n])}
                \cup {effect(us, <<opens(c, "PENDING", mode)>>, told[n] \cup {c}) :
                        mode \in IF m.dst = n \/ c \in told[n] THEN {} ELSE ModesOf(n, m.dst)}
      BY <1>2, <1>3, <1>4, <1>10 DEF Answers
    <3> QED  BY Zenon, <3>1
  <2>2. CASE g = effect(us, <<says(c, "ERROR")>>, told[n])
    <3>1. PICK all : all = hrd \cup {x \in told[n] : x.nodeId # n}
      OBVIOUS
    <3>2. hrd \subseteq all /\ all \subseteq ConnIds
      BY Zenon, <1>5, <3>1
    <3>3. PICK o : o = <<says(c, "ERROR")>>
      OBVIOUS
    <3>4. o \in Seq(ToClient) /\ \A i \in 1..Len(o) : o[i].msg \notin Keys
      BY <1>8, <3>3, Told DEF Keys
    <3>5. Wire(n, tab, beg, next, all, us, tc \o o)
      BY Zenon, <1>7, <3>2, <3>4, ServeOthers
    <3> QED  BY Zenon, <1>5, <2>2, <3>1, <3>3, <3>5, Effect
  <2>3. ASSUME NEW mode \in ModesOf(n, m.dst), g = effect(us, <<opens(c, "PENDING", mode)>>, told[n] \cup {c})
        PROVE  Outcome(n, g)
    <3>1. PICK all : all = hrd \cup {x \in told[n] \cup {c} : x.nodeId # n}
      OBVIOUS
    <3>2. hrd \subseteq all /\ all \subseteq ConnIds /\ told[n] \cup {c} \subseteq ConnIds
      BY Zenon, <1>5, <1>8, <3>1
    <3>3. PICK p : p = opens(c, "PENDING", mode)
      OBVIOUS
    <3>4. p \in ToClient /\ p.msg = "PENDING" /\ p.connId = c
      BY SMT, <1>8, <3>3, Said
    <3>5. Wire(n, tab, beg, next, all, us, tc)
      BY Zenon, <1>7, <3>2, ServeNothing
    <3>6. Own(n, c, next) /\ (c \in DOMAIN tab => Asked(tab[c])) /\ ~Has(us, "CREATE", c) /\ ~Has(tc, "PENDING", c)
      BY Zenon, <1>7, <1>8, <1>10 DEF Wire
    <3>7. "PENDING" # "CONN" /\ "PENDING" # "ESTABLISHED"
      OBVIOUS
    <3>8. Wire(n, tab, beg, next, all, us, tc \o <<p>>)
      BY Zenon, <1>8, <3>4, <3>5, <3>6, <3>7, WireSay
    <3> QED  BY Zenon, <2>3, <3>1, <3>2, <3>3, <3>8, Effect
  <2> QED  BY Zenon, <2>1, <2>2, <2>3
<1> QED  BY Zenon, <1>8, <1>9, <1>10

(* The server tells n of another node's new connection.                    *)
LEMMA ServeRequests ==
  ASSUME IInv, NEW n \in Nodes, NEW g \in Requests(n)
  PROVE  Outcome(n, g)
<1>1. PICK tab, q, beg, next, hrd, ts, tc : View(n, tab, q, beg, next, hrd, ts, tc)
  BY Zenon, AtNode
<1> /\ tab = connStates_[n] /\ beg = begun[n]
    /\ next = nextConnIdx_[n] /\ hrd = heard[n] /\ ts = toServer[n] /\ tc = toClient[n]
    /\ Wire(n, tab, beg, next, hrd, ts, tc) /\ hrd \subseteq ConnIds /\ Fewer(ts, ts, ToServer)
  BY Zenon, <1>1 DEF View
<1>2. PICK c \in {x \in ConnIds : x.nodeId # n} \ heard[n] :
          \E mode \in ModesOf(n, c.nodeId) : g = effect(ts, <<opens(c, "CONN", mode)>>, told[n] \cup {c})
  BY Zenon DEF Requests
<1>3. PICK mode \in ModesOf(n, c.nodeId) : g = effect(ts, <<opens(c, "CONN", mode)>>, told[n] \cup {c})
  BY Zenon, <1>2
<1>4. c \in ConnIds /\ c.nodeId # n /\ c \notin hrd /\ told[n] \subseteq ConnIds
  BY Zenon, <1>2 DEF IInv, NodeInv
<1>5. PICK all : all = hrd \cup {x \in told[n] \cup {c} : x.nodeId # n}
  OBVIOUS
<1>6. hrd \subseteq all /\ all \subseteq ConnIds /\ told[n] \cup {c} \subseteq ConnIds /\ c \in all
  BY Zenon, <1>4, <1>5
<1>7. PICK p : p = opens(c, "CONN", mode)
  OBVIOUS
<1>8. p \in ToClient /\ p.msg = "CONN" /\ p.connId = c
  BY SMT, <1>4, <1>7, Said
<1>9. Wire(n, tab, beg, next, all, ts, tc)
  BY Zenon, <1>6, ServeNothing
<1>10. c \notin DOMAIN tab /\ c \notin beg /\ ~Has(tc, "CONN", c)
  BY Zenon, <1>4 DEF Wire, Used
<1>11. "CONN" # "PENDING" /\ "CONN" # "ESTABLISHED"
  OBVIOUS
<1>12. Wire(n, tab, beg, next, all, ts, tc \o <<p>>)
  BY Zenon, <1>4, <1>6, <1>8, <1>9, <1>10, <1>11, WireSay
<1> QED  BY Zenon, <1>3, <1>5, <1>6, <1>7, <1>12, Effect

(* The server passes on what the peer of a connection of n says.           *)
LEMMA ServePeer ==
  ASSUME IInv, NEW n \in Nodes, NEW g \in PeerMessages(n)
  PROVE  Outcome(n, g)
<1>1. PICK tab, q, beg, next, hrd, ts, tc : View(n, tab, q, beg, next, hrd, ts, tc)
  BY Zenon, AtNode
<1> /\ tab = connStates_[n] /\ beg = begun[n]
    /\ next = nextConnIdx_[n] /\ hrd = heard[n] /\ ts = toServer[n] /\ tc = toClient[n]
    /\ Wire(n, tab, beg, next, hrd, ts, tc) /\ hrd \subseteq ConnIds /\ Fewer(ts, ts, ToServer)
  BY Zenon, <1>1 DEF View
<1>2. PICK c \in told[n], msg \in {"RELAY", "ESTABLISHED"}, k \in SUBSET told[n] :
          g = effect(ts, <<says(c, msg)>>, k) /\ (msg = "ESTABLISHED" => c \in beg)
  <2>1. CASE \E c \in told[n] : g = effect(ts, <<says(c, "RELAY")>>, told[n])
    <3>1. "RELAY" # "ESTABLISHED"
      OBVIOUS
    <3> QED  BY Zenon, <2>1, <3>1
  <2>2. CASE \E c \in told[n] \cap begun[n] : g = effect(ts, <<says(c, "ESTABLISHED")>>, told[n] \ {c})
    <3>1. PICK c \in told[n] \cap begun[n] : g = effect(ts, <<says(c, "ESTABLISHED")>>, told[n] \ {c})
      BY Zenon, <2>2
    <3>2. told[n] \ {c} \in SUBSET told[n]
      BY Zenon
    <3> QED  BY Zenon, <3>1, <3>2
  <2> QED  BY Zenon, <2>1, <2>2 DEF PeerMessages
<1>3. told[n] \subseteq ConnIds
  BY Zenon DEF IInv, NodeInv
<1>4. PICK all : all = hrd \cup {x \in k : x.nodeId # n}
  OBVIOUS
<1>5. c \in ConnIds /\ hrd \subseteq all /\ all \subseteq ConnIds /\ k \subseteq ConnIds
  BY Zenon, <1>2, <1>3, <1>4
<1>6. PICK p : p = says(c, msg)
  OBVIOUS
<1>7. p \in ToClient /\ p.msg = msg /\ p.connId = c /\ msg # "PENDING" /\ msg # "CONN"
  BY <1>5, <1>6, Told
<1>8. Wire(n, tab, beg, next, all, ts, tc)
  BY Zenon, <1>5, ServeNothing
<1>9. Wire(n, tab, beg, next, all, ts, tc \o <<p>>)
  BY Zenon, <1>2, <1>5, <1>7, <1>8, WireSay
<1> QED  BY Zenon, <1>2, <1>4, <1>5, <1>6, <1>9, Effect

(* The peers of some connections are gone, or nothing happens to n.        *)
LEMMA ServeCancels ==
  ASSUME IInv, NEW n \in Nodes, NEW g \in Cancels(n) \cup Others(n)
  PROVE  Outcome(n, g)
<1>1. PICK tab, q, beg, next, hrd, ts, tc : View(n, tab, q, beg, next, hrd, ts, tc)
  BY Zenon, AtNode
<1> /\ tab = connStates_[n] /\ beg = begun[n]
    /\ next = nextConnIdx_[n] /\ hrd = heard[n] /\ ts = toServer[n] /\ tc = toClient[n]
    /\ Wire(n, tab, beg, next, hrd, ts, tc) /\ hrd \subseteq ConnIds /\ Fewer(ts, ts, ToServer)
  BY Zenon, <1>1 DEF View
<1>2. told[n] \subseteq ConnIds
  BY Zenon DEF IInv, NodeInv
<1>3. PICK o \in Seq(ToClient), k \in SUBSET told[n] :
          g = effect(ts, o, k) /\ \A i \in 1..Len(o) : o[i].msg \notin Keys
  <2>1. <<>> \in Seq(ToClient) /\ \A i \in 1..Len(<<>>) : <<>>[i].msg \notin Keys
    OBVIOUS
  <2>2. CASE g \in Others(n)
    <3>1. told[n] \in SUBSET told[n] /\ {} \in SUBSET told[n]
      BY Zenon
    <3> QED  BY Zenon, <2>1, <2>2, <3>1 DEF Others
  <2>3. CASE g \in Cancels(n)
    <3>1. PICK p \in Orders(told[n]) :
              g = effect(ts, [i \in 1..Len(p) |-> says(p[i], "ERROR")], told[n] \ Elements(p))
      BY Zenon, <2>3 DEF Cancels
    <3>2. PICK l \in Nat : p \in [1..l -> told[n]]
      BY <3>1 DEF Orders
    <3>3. Len(p) = l /\ \A i \in 1..l : p[i] \in ConnIds
      BY <1>2, <3>2
    <3>4. PICK o : o = [i \in 1..Len(p) |-> says(p[i], "ERROR")]
      OBVIOUS
    <3>5. \A i \in 1..l : o[i] \in ToClient /\ o[i].msg = "ERROR"
      BY <3>3, <3>4, Told
    <3>6. o \in Seq(ToClient) /\ Len(o) = l
      BY <3>2, <3>3, <3>4, <3>5
    <3>7. \A i \in 1..Len(o) : o[i].msg \notin Keys
      BY <3>5, <3>6 DEF Keys
    <3>8. told[n] \ Elements(p) \in SUBSET told[n]
      BY Zenon
    <3> QED  BY Zenon, <3>1, <3>4, <3>6, <3>7, <3>8
  <2> QED  BY Zenon, <2>2, <2>3
<1>4. PICK all : all = hrd \cup {x \in k : x.nodeId # n}
  OBVIOUS
<1>5. hrd \subseteq all /\ all \subseteq ConnIds /\ k \subseteq ConnIds
  BY Zenon, <1>2, <1>3, <1>4
<1>6. Wire(n, tab, beg, next, all, ts, tc \o o)
  BY Zenon, <1>3, <1>5, ServeOthers
<1> QED  BY Zenon, <1>3, <1>4, <1>5, <1>6, Effect

(* A step of the server, which does something to several nodes at once.    *)
LEMMA StepServe ==
  ASSUME IInv, Serve
  PROVE  IInv'
<1>1. PICK f : /\ \A n \in Clients : f[n] \in Effects(n)
               /\ toServer' = [n \in Nodes |-> IF n \in Clients THEN f[n].in ELSE toServer[n]]
               /\ toClient' = [n \in Nodes |-> IF n \in Clients THEN toClient[n] \o f[n].out ELSE toClient[n]]
               /\ told' = [n \in Nodes |-> IF n \in Clients THEN f[n].told ELSE told[n]]
  BY Zenon DEF Serve
<1>2. /\ heard' = [n \in Nodes |-> heard[n] \cup {c \in told'[n] : c.nodeId # n}]
      /\ UNCHANGED <<conn_, connStates_, rendezvousConnIds_, nextConnIdx_, m_, calls, armed, begun, users, answers>>
  BY Zenon DEF Serve, tableVars, sessionVars
<1>3. Maps' /\ Basics'
  <2>1. IsFun(toServer', Nodes) /\ IsFun(toClient', Nodes) /\ IsFun(told', Nodes) /\ IsFun(heard', Nodes)
    BY Zenon, <1>1, <1>2 DEF IsFun
  <2> QED  BY Zenon, <1>2, <2>1 DEF IInv, Maps, Basics
<1>4. ASSUME NEW n \in Nodes PROVE NodeInv(n)'
  <2>1. heard'[n] = heard[n] \cup {c \in told'[n] : c.nodeId # n}
    BY Zenon, <1>2
  <2>2. NodeInv(n)
    BY Zenon DEF IInv
  <2>3. /\ told'[n] \subseteq ConnIds
        /\ Wire(n, connStates_[n], begun[n], nextConnIdx_[n], heard'[n], toServer'[n], toClient'[n])
    <3>1. CASE n \in Clients
      <4>1. toServer'[n] = f[n].in /\ toClient'[n] = toClient[n] \o f[n].out /\ told'[n] = f[n].told
        BY Zenon, <1>1, <3>1
      <4>2. f[n] \in Effects(n)
        BY Zenon, <1>1, <3>1
      <4>3. \/ toServer[n] # <<>> /\ f[n] \in Answers(n, Head(toServer[n]))
            \/ f[n] \in Requests(n) \/ f[n] \in PeerMessages(n) \/ f[n] \in Cancels(n) \cup Others(n)
        BY Zenon, <4>2 DEF Effects
      <4>4. Outcome(n, f[n])
        BY Zenon, <4>3, ServeAnswers, ServeRequests, ServePeer, ServeCancels
      <4> QED  BY Zenon, <2>1, <4>1, <4>4 DEF Outcome
    <3>2. CASE n \notin Clients
      <4>1. toServer'[n] = toServer[n] /\ toClient'[n] = toClient[n] /\ told'[n] = told[n]
        BY Zenon, <1>1, <3>2
      <4>2. /\ told[n] \subseteq ConnIds /\ heard[n] \subseteq ConnIds /\ toServer[n] \in Seq(ToServer)
            /\ Wire(n, connStates_[n], begun[n], nextConnIdx_[n], heard[n], toServer[n], toClient[n])
        BY Zenon, <2>2 DEF NodeInv, Wire
      <4>3. heard[n] \subseteq heard'[n] /\ heard'[n] \subseteq ConnIds
        BY Zenon, <2>1, <4>1, <4>2
      <4>4. Wire(n, connStates_[n], begun[n], nextConnIdx_[n], heard'[n], toServer[n], toClient[n])
        BY Zenon, <4>2, <4>3, FewerSame, ServeNothing
      <4> QED  BY Zenon, <4>1, <4>2, <4>4
    <3> QED  BY Zenon, <3>1, <3>2
  <2> QED  BY Zenon, <1>2, <2>2, <2>3 DEF NodeInv
<1> QED  BY Zenon, <1>3, <1>4 DEF IInv

-----------------------------------------------------------------------------
(* The invariant holds at first,                                           *)
LEMMA InvInit == Init => IInv
<1> SUFFICES ASSUME Init PROVE IInv
  OBVIOUS
<1>1. Maps
  BY Zenon DEF Init, Maps, IsFun
<1>2. Basics
  <2>1. <<>> \in Seq({"ok", "error"}) /\ {} \in SUBSET ConnIds /\ TRUE \in BOOLEAN
    OBVIOUS
  <2> QED  BY Zenon, <2>1 DEF Init, Basics
<1>3. ASSUME NEW n \in Nodes PROVE NodeInv(n)
  <2>1. PICK tab : tab = connStates_[n]
    OBVIOUS
  <2>2. tab = [c \in {} |-> {}] /\ DOMAIN tab = {}
    BY Zenon, <2>1 DEF Init
  <2>3. /\ rendezvousConnIds_[n] = <<>> /\ nextConnIdx_[n] = 0 /\ m_[n] = "free" /\ armed[n] = {}
        /\ begun[n] = {} /\ toServer[n] = <<>> /\ toClient[n] = <<>> /\ told[n] = {} /\ heard[n] = {}
        /\ calls[n] = [t \in Threads |-> <<>>]
    BY Zenon DEF Init
  <2>4. tab \in [DOMAIN tab -> ConnState]
    BY Zenon, <2>2
  <2>5. \A S : <<>> \in Seq(S)
    OBVIOUS
  <2>6. Elements(<<>>) = {} /\ Distinct(<<>>)
    BY DEF Elements, Distinct
  <2>7. \A K, c : ~Has(<<>>, K, c) /\ Unique(<<>>, K)
    BY DEF Has, Unique
  <2>8. Table(tab, <<>>, {})
    BY Zenon, <2>2, <2>4, <2>5, <2>6 DEF Table
  <2>9. 0 \in Nat
    OBVIOUS
  <2>10. Wire(n, tab, {}, 0, {}, <<>>, <<>>)
    BY Zenon, <2>2, <2>5, <2>7, <2>9 DEF Wire
  <2>11. IsFun(calls[n], Threads) /\ Stacks(calls[n], {}) /\ "free" # "M"
    BY Zenon, <2>3, <2>5 DEF IsFun, Stacks
  <2> QED  BY Zenon, <2>1, <2>3, <2>8, <2>10, <2>11 DEF NodeInv, Lock
<1> QED  BY Zenon, <1>1, <1>2, <1>3 DEF IInv

(* and every step keeps it: one of a thread with calls left,               *)
LEMMA InvProceed ==
  ASSUME IInv, NEW n \in Nodes, NEW t \in Threads, Proceed(n, t)
  PROVE  IInv'
<1>1. CASE processEnd(n, t) \/ processCreate(n, t) \/ release(n, t)
  BY Zenon, <1>1, StepEnd, StepCreate, StepRelease
<1>2. CASE \E ok \in BOOLEAN : processStart(n, t, ok) \/ proxy(n, t, ok) \/ onMsg(n, t, ok)
  BY Zenon, <1>2, StepStart, StepProxy, StepOnMsg
<1>3. CASE lock(n, t) \/ unlock(n, t) \/ return(n, t)
  BY Zenon, <1>3, StepLock, StepReturn
<1>4. CASE onRendezvous(n, t) \/ callback(n, t) \/ stored(n, t) \/ onEstablished(n, t)
  BY Zenon, <1>4, StepOnRendezvous, StepCallback, StepStored, StepOnEstablished
<1> QED  BY Zenon, <1>1, <1>2, <1>3, <1>4 DEF Proceed

(* or of one that is called from outside, or of the server.                *)
LEMMA InvNext == IInv /\ [Next]_vars => IInv'
<1> SUFFICES ASSUME IInv, [Next]_vars PROVE IInv'
  OBVIOUS
<1>1. ASSUME NEW n \in Clients,
             User(n) \/ Message(n) \/ onConnectionLost(n) \/ (\E t \in Threads : Proceed(n, t)) \/ Session(n)
      PROVE  IInv'
  <2>1. n \in Nodes
    BY ClientAssumption
  <2>2. CASE User(n)
    BY Zenon, <2>1, <2>2, StepRegister, StepClose DEF User
  <2>3. CASE Message(n)
    BY Zenon, <2>1, <2>3, StepConn, StepPending, StepEstablished, StepError, StepOther DEF Message
  <2>4. CASE onConnectionLost(n)
    BY Zenon, <2>1, <2>4, StepLost
  <2>5. CASE \E t \in Threads : Proceed(n, t)
    BY Zenon, <2>1, <2>5, InvProceed
  <2>6. CASE Session(n)
    BY Zenon, <2>1, <2>6, StepReport, StepProxyDone DEF Session
  <2> QED  BY Zenon, <1>1, <2>2, <2>3, <2>4, <2>5, <2>6
<1>2. CASE Serve
  BY Zenon, <1>2, StepServe
<1>3. CASE UNCHANGED vars
  <2>1. UNCHANGED <<conn_, connStates_, rendezvousConnIds_, nextConnIdx_, m_, calls, armed, begun, users,
                    toServer, toClient, told, heard, answers>>
    BY Zenon, <1>3 DEF vars, tableVars, sessionVars, wireVars
  <2> QED  BY Zenon, <2>1 DEF IInv, Maps, Basics, NodeInv
<1> QED  BY Zenon, <1>1, <1>2, <1>3 DEF Next

(* So the invariant holds in every state that is reached.                  *)
LEMMA InvAlways == Spec => []IInv
<1> QED  BY InvInit, InvNext, PTL DEF Spec

-----------------------------------------------------------------------------
(* For any number of nodes, connections and messages, and in whatever      *)
(* order registrations, closes, answers, cancels and failed starts meet,   *)
(* the queue of rendezvous names each connection whose session was not     *)
(* started, once, and no other; one request at most waits for the server,  *)
(* at the head of the queue; and the answers on the way find the entries   *)
(* that the asserts of onRecvMsgConnStatus expect.                         *)
THEOREM ClientTable == Spec => []TableSound
<1>1. IInv => TableSound
  BY InvTable
<1> QED  BY <1>1, InvAlways, PTL

(* A node runs one rendezvous of mode SYMM_CONN at a time: two would       *)
(* disturb each other's port prediction.                                   *)
THEOREM ClientOneSymm == Spec => []OneSymmConn
<1>1. IInv => OneSymmConn
  BY InvTable
<1> QED  BY <1>1, InvAlways, PTL

(* With one reactor, the thread that destroys a rendezvous session does    *)
(* not wait for the session's callback in another thread while it holds    *)
(* m_, which that callback takes.                                          *)
THEOREM ClientNoWait ==
  ASSUME Local = "R"
  PROVE  Spec => []NoWaitUnderLock
<1>1. IInv => NoWaitUnderLock
  BY InvWait
<1> QED  BY <1>1, InvAlways, PTL
=============================================================================
