--------------------------- MODULE ReactorProofs ---------------------------
(***************************************************************************)
(* The safety of the reactors for any handlers, descriptors and threads:   *)
(* HandlersSafe and EpollInStep.                                           *)
(***************************************************************************)
EXTENDS Reactor, TLAPS

USE ZenonT(3), SMTT(30)

Closing == {"wait", "woken", "close"}
InHandler == {"handle", "callback", "return"}

(* The types of the variables.                                             *)
Shape ==
    /\ load \in Workloads
    /\ handlers_ \in [{h \in Handlers : life[h] = "live"} -> SUBSET Ops]
    /\ pollHandlers_ \in [DOMAIN pollHandlers_ ->
                            [cookie : Handlers, pollEvents : SUBSET Ops, notInEpoll : BOOLEAN]]
    /\ DOMAIN pollHandlers_ \subseteq Socks
    /\ open \subseteq Socks
    /\ sock \in [Handlers -> Socks \cup {None}]
    /\ life \in [Handlers -> {"unborn", "live", "closing", "gone"}]
    /\ queue \in [Handlers -> [Ops -> 0..MaxQueue]]
    /\ signals \in 0..MaxSignals
    /\ cur \in [h : Handlers \cup {None}, op : Ops \cup {"none"}, rest : SUBSET {"r"},
                back : {"none", "events", "tokens", "broken"}]
    /\ call \in [Everyone -> [op : {"idle", "update"} \cup Closing, h : Handlers \cup {None},
                              s : Socks \cup {None}, passed : BOOLEAN]]

(* Every descriptor has one owner: a handler, or a close that is about to  *)
(* give it back.                                                           *)
Owned ==
    /\ \A h \in Handlers : life[h] = "live" => sock[h] # None
    /\ \A h \in Handlers : sock[h] # None => sock[h] \in open /\ life[h] \in {"live", "closing"}
    /\ \A g, h \in Handlers : sock[g] = sock[h] /\ sock[h] # None => g = h
    /\ \A t \in Everyone : call[t].op \in Closing =>
        /\ call[t].h \in Handlers /\ life[call[t].h] = "closing"
        /\ call[t].op # "close" => sock[call[t].h] # None
        /\ call[t].op = "close" => /\ sock[call[t].h] = None /\ call[t].s \in open
                                   /\ \A h \in Handlers : sock[h] # call[t].s
    /\ \A t, u \in Everyone : call[t].op \in Closing /\ call[u].op \in Closing /\ t # u =>
        /\ call[t].h # call[u].h
        /\ call[t].op = "close" /\ call[u].op = "close" => call[t].s # call[u].s

(* A descriptor that the loop knows belongs to the handler it knows it     *)
(* for, or has been taken out of the kernel's set.                         *)
Registered ==
    \A s \in DOMAIN pollHandlers_ :
        /\ life[pollHandlers_[s].cookie] # "unborn"
        /\ ~pollHandlers_[s].notInEpoll => sock[pollHandlers_[s].cookie] = s

(* Where run() is and what it is calling.                                  *)
Control ==
    /\ currentlyHandling_ = IF at \in InHandler THEN cur.h ELSE None
    /\ at \in {"handle", "return"} => cur.h # None
    /\ at \in InHandler /\ cur.h # None => cur.back \in {"events", "broken"} /\ cur.op \in Ops
    /\ at \in InHandler /\ cur.h = None => cur.op = "none"
    /\ at # "callback" => call[Run].op = "idle"
    /\ call[Run].op \notin {"wait", "woken"}
    /\ at = "destroyed" =>
        /\ DOMAIN pollHandlers_ = {}
        /\ \A t \in Everyone : call[t].op = "idle"
        /\ \A h \in Handlers : life[h] \in {"unborn", "gone"}

(* The handler that is being called is there, or its own callback has      *)
(* closed it.                                                              *)
Present ==
    /\ at \in {"handle", "return"} => sock[cur.h] # None
    /\ at = "callback" /\ cur.h # None =>
        \/ sock[cur.h] # None \/ life[cur.h] = "gone"
        \/ call[Run].op = "close" /\ call[Run].h = cur.h
    /\ \A t \in Threads : call[t].op = "close" => currentlyHandling_ # call[t].h
    /\ call[Run].op = "update" =>
        /\ call[Run].h \in Handlers
        /\ \/ life[call[Run].h] = "live"
           \/ life[call[Run].h] = "closing" /\ currentlyHandling_ = call[Run].h

(* The loop has still to look at op of the descriptor s.                   *)
ToCome(s, op) ==
    \/ at \in {"top", "poll", "polled"}
    \/ at = "events" /\ <<s, op>> \in ev
    \/ at \in InHandler /\ cur.back = "events" /\ <<s, op>> \in ev
    \/ at = "broken" /\ <<s, "w">> \in ev
    \/ at \in InHandler /\ cur.back = "broken" /\ <<s, "w">> \in ev

(* What a handler asked the loop for is in its queue, or it is about to    *)
(* take it back.                                                           *)
Wanting ==
    \A h \in DOMAIN handlers_ : \A op \in handlers_[h] :
        queue[h][op] > 0 \/ (call[Run].op = "update" /\ call[Run].h = h)

(* What the loop was told to wait for, and has still to look at, is in a   *)
(* queue.                                                                  *)
Awaited ==
    \A s \in DOMAIN pollHandlers_ : \A op \in pollHandlers_[s].pollEvents :
        pollHandlers_[s].cookie \in DOMAIN handlers_ /\ ToCome(s, op) =>
            queue[pollHandlers_[s].cookie][op] > 0

(* So is what it has called a handler for; and it does not come to it      *)
(* again.                                                                  *)
Serving ==
    /\ at = "handle" => queue[cur.h][cur.op] > 0
    /\ at \in InHandler /\ cur.h \in DOMAIN handlers_ =>
        /\ \A op \in cur.rest : queue[cur.h][op] > 0
        /\ cur.rest # {} => cur.op = "w"
        /\ cur.back = "events" => <<sock[cur.h], cur.op>> \notin ev /\ cur.rest = {}
        /\ cur.back = "broken" => <<sock[cur.h], "w">> \notin ev

Signalled == <<None, "r">> \in ev => signals > 0

IInv ==
    /\ Shape /\ Owned /\ Registered /\ EpollInStep /\ Control /\ Present
    /\ Wanting /\ Awaited /\ Serving /\ Signalled

-----------------------------------------------------------------------------
(* The invariant contains HandlersSafe.                                    *)
LEMMA InvImplies == IInv => HandlersSafe /\ EpollInStep
<1> SUFFICES ASSUME IInv PROVE HandlersSafe /\ EpollInStep  OBVIOUS
<1> USE DEF IInv
<1>1. TypeOK
  <2>1. DOMAIN handlers_ \subseteq Handlers /\ \A h \in DOMAIN handlers_ : handlers_[h] \subseteq Ops
    BY DEF Shape
  <2>2. \A s \in DOMAIN pollHandlers_ :
          pollHandlers_[s] \in [cookie : Handlers, pollEvents : SUBSET Ops, notInEpoll : BOOLEAN]
    BY DEF Shape
  <2>3. DOMAIN epoll \subseteq Socks
    BY DEF Shape, EpollInStep
  <2> QED  BY <2>1, <2>2, <2>3 DEF Shape, TypeOK
<1>2. at = "handle" => /\ life[cur.h] \in {"live", "closing"}
                       /\ sock[cur.h] # None
                       /\ queue[cur.h][cur.op] > 0
  BY DEF Shape, Owned, Present, Serving, Control, InHandler
<1>3. call[Run].op = "update" => life[call[Run].h] # "gone"
  BY DEF Present
<1>4. \A t \in Threads : call[t].op = "close" => currentlyHandling_ # call[t].h
  BY DEF Present
<1>5. \A h \in DOMAIN handlers_ :
        sock[h] \in open /\ \A g \in DOMAIN handlers_ : sock[g] = sock[h] => g = h
  BY DEF Shape, Owned
<1>6. DOMAIN handlers_ = {h \in Handlers : life[h] = "live"}
  BY DEF Shape
<1>7. at = "destroyed" => DOMAIN handlers_ = {} /\ DOMAIN pollHandlers_ = {}
  BY <1>6 DEF Control
<1> QED  BY <1>1, <1>2, <1>3, <1>4, <1>5, <1>7 DEF HandlersSafe

(* At first there are no handlers.                                         *)
LEMMA InvInit == Init => IInv
<1> SUFFICES ASSUME Init PROVE IInv  OBVIOUS
<1> USE ReactorAssumption DEF Init
<1>0. \A t \in Everyone : call[t] = Idle
  OBVIOUS
<1>1. Shape
  BY DEF Shape, Idle, Call, NoCall, Closing
<1>2. Owned
  BY <1>0 DEF Owned, Idle, Call, Closing
<1>3. Registered /\ EpollInStep
  BY DEF Registered, EpollInStep
<1>4. Control
  BY <1>0 DEF Control, InHandler, Idle, Call, Everyone
<1>5. Present
  BY <1>0 DEF Present, Idle, Call, Everyone
<1>6. Wanting /\ Awaited /\ Signalled
  BY DEF Wanting, Awaited, Signalled
<1>7. Serving
  BY DEF Serving, InHandler
<1> QED  BY <1>1, <1>2, <1>3, <1>4, <1>5, <1>6, <1>7 DEF IInv

-----------------------------------------------------------------------------
(* What the workloads say of handlers and descriptors.                     *)
LEMMA LoadTypes ==
    ASSUME load \in Workloads
    PROVE  /\ Used \subseteq Handlers
           /\ load.socks \subseteq Socks
           /\ \A h \in Used : load.uses[h] \subseteq Ops
<1>1. load \in Workload
  BY ReactorAssumption
<1>2. PICK H \in SUBSET Handlers : load.uses \in [H -> SUBSET {"r", "w"}]
  BY <1>1 DEF Workload
<1> QED  BY <1>1, <1>2 DEF Workload, Used, Ops

(* A signal more does no harm.                                             *)
LEMMA SignalTypes ==
    ASSUME signals \in 0..MaxSignals, NEW t, SignalFrom(t) \/ signalWr
    PROVE  signals' \in 0..MaxSignals /\ signals' >= signals
BY ReactorAssumption DEF SignalFrom, signalWr

(* A new handler has a descriptor that nobody owns, and nothing to do.     *)
LEMMA AddStep ==
    ASSUME IInv, NEW t \in Everyone, NEW h \in Used, NEW s \in load.socks, add(t, h, s)
    PROVE  IInv'
<1> USE DEF IInv
<1>1. h \in Handlers /\ s \in Socks /\ s # None /\ life[h] = "unborn" /\ s \notin open
  BY LoadTypes, ReactorAssumption DEF Shape, add
<1>2. signals' \in 0..MaxSignals /\ signals' >= signals
  BY SignalTypes DEF add, Shape
<1>3. sock[h] = None
  BY <1>1 DEF Owned
<1>4. \A x \in DOMAIN pollHandlers_ : pollHandlers_[x].cookie # h
  BY <1>1 DEF Registered
<1>5. at \in InHandler => cur.h # h
  BY <1>1, <1>3, ReactorAssumption DEF Present, Owned, InHandler, Closing, Everyone
<1>6. Shape'
  BY <1>1, <1>2 DEF add, Shape, loop
<1>7. Owned'
  BY <1>1, <1>3 DEF add, Shape, Owned
<1>8. Registered'
  BY <1>1, <1>4 DEF add, Registered, Shape
<1>9. EpollInStep'
  BY <1>1, <1>4 DEF add, EpollInStep, Shape
<1>10. Control'
  BY <1>1 DEF add, Control, loop, Begins
<1>11. Present'
  BY <1>1, <1>5 DEF add, Present, loop, Shape, Owned, Control, InHandler, Everyone
<1>12. Wanting'
  BY <1>1 DEF add, Wanting, Shape
<1>13. Awaited'
  BY ZenonT(20), <1>1, <1>4 DEF add, Awaited, loop, Shape, ToCome
<1>14. Serving'
  BY <1>1, <1>5 DEF add, Serving, loop, Shape
<1>15. Signalled'
  BY <1>2 DEF add, Signalled, loop, Shape
<1> QED  BY <1>6, <1>7, <1>8, <1>9, <1>10, <1>11, <1>12, <1>13, <1>14, <1>15

(* A request more: the thread that made it is about to tell the reactor.   *)
LEMMA RequestStep ==
    ASSUME IInv, NEW t \in Everyone, NEW h \in Used, NEW op \in Ops, request(t, h, op)
    PROVE  IInv'
<1> USE DEF IInv
<1>1. h \in Handlers /\ call[t].op = "idle" /\ (t = Run => at = "callback") /\ at # "destroyed"
  BY LoadTypes DEF Shape, request, Begins, Idle, Call
<1>2. /\ call' = [call EXCEPT ![t] = Call("update", h, None)]
      /\ call'[t] = Call("update", h, None)
      /\ \A u \in Everyone \ {t} : call'[u] = call[u]
  BY DEF request, Shape
<1>3. queue' \in [Handlers -> [Ops -> 0..MaxQueue]]
  BY <1>1, ReactorAssumption DEF request, Shape
<1>4. \A g \in Handlers, o \in Ops : queue'[g][o] >= queue[g][o]
  BY <1>1 DEF request, Shape
<1>5. Shape'
  BY <1>1, <1>2, <1>3 DEF request, Shape, registry, loop, Call
<1>6. Owned'
  BY <1>1, <1>2 DEF request, Owned, Closing, Call
<1>7. Registered' /\ EpollInStep'
  BY DEF request, Registered, EpollInStep, registry
<1>8. Control'
  BY <1>1, <1>2 DEF request, Control, loop, registry, Call, Everyone
<1>9. Present'
  BY <1>1, <1>2, ReactorAssumption DEF request, Present, loop, Call, Everyone, MayUse
<1>10. Wanting'
  BY <1>1, <1>2, <1>3, <1>4 DEF request, Wanting, registry, Everyone, Shape
<1>11. Awaited'
  BY <1>3, <1>4 DEF request, Awaited, ToCome, registry, loop, Shape
<1>12. Serving'
  BY <1>3, <1>4 DEF request, Serving, Control, InHandler, registry, loop, Shape
<1>13. Signalled'
  BY DEF request, Signalled, loop
<1> QED  BY <1>5, <1>6, <1>7, <1>8, <1>9, <1>10, <1>11, <1>12, <1>13

(* update() makes handlers_ agree with the queues.                         *)
LEMMA UpdateStep ==
    ASSUME IInv, NEW t \in Everyone, update(t)
    PROVE  IInv'
<1> USE DEF IInv
<1> DEFINE h == call[t].h
<1>1. call[t].op = "update" /\ (t = Run => at = "callback") /\ at # "destroyed"
  BY DEF update, Control
<1>2. /\ call'[t] = Idle
      /\ \A u \in Everyone \ {t} : call'[u] = call[u]
      /\ call' = [call EXCEPT ![t] = Idle]
  BY DEF update, Shape
<1>3. signals' \in 0..MaxSignals /\ signals' >= signals
  BY SignalTypes DEF update, Shape
<1>4. /\ DOMAIN handlers_' = DOMAIN handlers_
      /\ \A g \in DOMAIN handlers_ :
          handlers_'[g] = IF g = h THEN getPollEvents(g) ELSE handlers_[g]
      /\ handlers_' \in [{g \in Handlers : life[g] = "live"} -> SUBSET Ops]
  BY DEF update, Shape, getPollEvents
<1>5. Shape'
  BY <1>2, <1>3, <1>4 DEF update, Shape, users, loop, Idle, Call
<1>6. Owned'
  BY <1>1, <1>2 DEF update, Owned, Closing, Idle, Call, users
<1>7. Registered' /\ EpollInStep'
  BY <1>4 DEF update, Registered, EpollInStep, users
<1>8. Control'
  BY <1>1, <1>2 DEF update, Control, loop, users, Idle, Call, Everyone
<1>9. Present'
  BY <1>1, <1>2 DEF update, Present, loop, users, Idle, Call, Everyone
<1>10. Wanting'
  BY <1>1, <1>2, <1>4 DEF update, Wanting, users, Everyone, getPollEvents
<1>11. Awaited'
  BY <1>4 DEF update, Awaited, ToCome, users, loop
<1>12. Serving'
  BY <1>4 DEF update, Serving, users, loop
<1>13. Signalled'
  BY <1>3 DEF update, Signalled, loop, Shape
<1> QED  BY <1>5, <1>6, <1>7, <1>8, <1>9, <1>10, <1>11, <1>12, <1>13

(* remove() goes on to its end when neither a poll nor a call of the       *)
(* handler is in the way: the kernel forgets the descriptor before it can  *)
(* be closed.                                                              *)
LEMMA RemovedStep ==
    ASSUME IInv, NEW t \in Everyone, NEW h \in Handlers, Removed(t, h),
           sock[h] # None,
           \/ call[t].op = "idle" /\ life[h] = "live"
           \/ call[t].op = "woken" /\ call[t].h = h,
           life' = [life EXCEPT ![h] = "closing"],
           handlers_' = [x \in DOMAIN handlers_ \ {h} |-> handlers_[x]],
           signals' \in 0..MaxSignals, signals' >= signals,
           UNCHANGED <<load, open, queue, loop>>,
           t # Run => currentlyHandling_ # h,
           t = Run => at = "callback",
           at # "destroyed",
           t # Run /\ call[Run].op = "update" => call[Run].h # h
    PROVE  IInv'
<1> USE DEF IInv
<1> DEFINE s == sock[h]
<1>1. /\ call'[t] = Call("close", h, s)
      /\ call' = [call EXCEPT ![t] = Call("close", h, s)]
      /\ \A u \in Everyone \ {t} : call'[u] = call[u]
      /\ sock'[h] = None /\ \A g \in Handlers \ {h} : sock'[g] = sock[g]
      /\ sock' \in [Handlers -> Socks \cup {None}]
  BY DEF Removed, Shape
<1>2. \A u \in Everyone \ {t} : call[u].op \in Closing => call[u].h # h
  BY DEF Owned, Closing
<1>3. /\ DOMAIN pollHandlers_' = DOMAIN pollHandlers_
      /\ pollHandlers_' \in [DOMAIN pollHandlers_ ->
                            [cookie : Handlers, pollEvents : SUBSET Ops, notInEpoll : BOOLEAN]]
      /\ \A x \in DOMAIN pollHandlers_ :
          /\ pollHandlers_'[x].cookie = pollHandlers_[x].cookie
          /\ pollHandlers_'[x].pollEvents = pollHandlers_[x].pollEvents
          /\ pollHandlers_'[x].notInEpoll =
                (pollHandlers_[x].notInEpoll \/ pollHandlers_[x].cookie = h)
  <2>1. \A x \in DOMAIN pollHandlers_ : pollHandlers_[x].cookie = h =>
          pollHandlers_[x].notInEpoll \/ x = s
    BY DEF Registered
  <2>2. CASE s \in DOMAIN pollHandlers_ /\ pollHandlers_[s].cookie = h
    <3> DEFINE e == [pollHandlers_[s] EXCEPT !.notInEpoll = TRUE]
    <3>1. pollHandlers_' = [pollHandlers_ EXCEPT ![s] = e]
      BY <2>2 DEF Removed
    <3>2. pollHandlers_[s] \in [cookie : Handlers, pollEvents : SUBSET Ops, notInEpoll : BOOLEAN]
      BY <2>2 DEF Shape
    <3>3. /\ e \in [cookie : Handlers, pollEvents : SUBSET Ops, notInEpoll : BOOLEAN]
          /\ e.cookie = pollHandlers_[s].cookie /\ e.pollEvents = pollHandlers_[s].pollEvents
          /\ e.notInEpoll = TRUE
      BY <3>2, Zenon
    <3> HIDE DEF e
    <3>4. DOMAIN pollHandlers_' = DOMAIN pollHandlers_ /\ pollHandlers_'[s] = e
          /\ \A x \in DOMAIN pollHandlers_ \ {s} : pollHandlers_'[x] = pollHandlers_[x]
      BY <2>2, <3>1
    <3>5. pollHandlers_' \in [DOMAIN pollHandlers_ ->
                            [cookie : Handlers, pollEvents : SUBSET Ops, notInEpoll : BOOLEAN]]
      BY <3>1, <3>3, Zenon DEF Shape
    <3>6. ASSUME NEW x \in DOMAIN pollHandlers_, x # s
          PROVE  pollHandlers_[x].notInEpoll =
                    (pollHandlers_[x].notInEpoll \/ pollHandlers_[x].cookie = h)
      <4>1. pollHandlers_[x].notInEpoll \in BOOLEAN
        BY DEF Shape
      <4> QED  BY <2>1, <3>6, <4>1
    <3> QED  BY <2>2, <3>3, <3>4, <3>5, <3>6
  <2>3. CASE ~(s \in DOMAIN pollHandlers_ /\ pollHandlers_[s].cookie = h)
    BY <2>1, <2>3, Zenon DEF Removed, Shape
  <2> QED  BY <2>2, <2>3
<1>4. h \notin DOMAIN handlers_' /\ DOMAIN handlers_' = DOMAIN handlers_ \ {h}
      /\ \A x \in DOMAIN handlers_ \ {h} : handlers_'[x] = handlers_[x]
  OBVIOUS
<1>5. Shape'
  <2>1. {g \in Handlers : life'[g] = "live"} = {g \in Handlers : life[g] = "live"} \ {h}
    BY DEF Shape
  <2>2. handlers_' \in [{g \in Handlers : life'[g] = "live"} -> SUBSET Ops]
    BY <2>1 DEF Shape
  <2>3. life' \in [Handlers -> {"unborn", "live", "closing", "gone"}]
    BY DEF Shape
  <2>4. Call("close", h, s) \in [op : {"idle", "update"} \cup Closing, h : Handlers \cup {None},
                                 s : Socks \cup {None}, passed : BOOLEAN]
    BY DEF Call, Closing, Shape
  <2>5. call' \in [Everyone -> [op : {"idle", "update"} \cup Closing, h : Handlers \cup {None},
                                s : Socks \cup {None}, passed : BOOLEAN]]
    BY <1>1, <2>4 DEF Shape
  <2> QED  BY <1>1, <1>3, <2>2, <2>3, <2>5 DEF Shape, loop
<1>6. Owned'
  <2>1. /\ call'[t].op = "close" /\ call'[t].h = h /\ call'[t].s = s /\ open' = open
        /\ life'[h] = "closing" /\ \A g \in Handlers \ {h} : life'[g] = life[g]
    BY <1>1 DEF Call, Shape
  <2>2. s \in open /\ s # None /\ \A g \in Handlers : sock'[g] # s
    BY <1>1 DEF Owned
  <2>3. \A g \in Handlers :
          /\ life'[g] = "live" => sock'[g] # None
          /\ sock'[g] # None => sock'[g] \in open' /\ life'[g] \in {"live", "closing"}
    BY <1>1, <2>1 DEF Owned
  <2>4. \A x, g \in Handlers : sock'[x] = sock'[g] /\ sock'[g] # None => x = g
    BY <1>1 DEF Owned
  <2>5. \A u \in Everyone \ {t} : call[u].op = "close" => call[u].s # None /\ call[u].s # s
    BY ReactorAssumption DEF Owned, Shape, Closing
  <2>6. ASSUME NEW u \in Everyone, call'[u].op \in Closing
        PROVE  /\ call'[u].h \in Handlers /\ life'[call'[u].h] = "closing"
               /\ call'[u].op # "close" => sock'[call'[u].h] # None
               /\ call'[u].op = "close" => /\ sock'[call'[u].h] = None /\ call'[u].s \in open'
                                           /\ \A g \in Handlers : sock'[g] # call'[u].s
    <3>1. CASE u = t
      BY <1>1, <2>1, <2>2, <3>1
    <3>2. CASE u # t
      <4>1. call[u].op \in Closing /\ call'[u] = call[u]
        BY <1>1, <2>6, <3>2
      <4>2. call[u].h # h
        BY <1>2, <3>2, <4>1
      <4> QED  BY <1>1, <2>1, <2>5, <3>2, <4>1, <4>2 DEF Owned
    <3> QED  BY <3>1, <3>2
  <2>7. \A u, v \in Everyone : call'[u].op \in Closing /\ call'[v].op \in Closing /\ u # v =>
          /\ call'[u].h # call'[v].h
          /\ call'[u].op = "close" /\ call'[v].op = "close" => call'[u].s # call'[v].s
    BY <1>1, <1>2, <2>1, <2>5 DEF Owned
  <2> QED  BY ONLY <2>3, <2>4, <2>6, <2>7 DEF Owned
<1>7. Registered'
  BY <1>1, <1>3 DEF Registered, Shape
<1>8. EpollInStep'
  <2>1. \A x \in DOMAIN pollHandlers_ :
          ~pollHandlers_[x].notInEpoll /\ pollHandlers_[x].cookie = h => x = s
    BY DEF Registered
  <2>2. /\ DOMAIN epoll' = {x \in DOMAIN epoll : pollHandlers_[x].cookie # h}
        /\ \A x \in DOMAIN epoll' : epoll'[x] = epoll[x]
    BY <2>1 DEF EpollInStep, Removed
  <2> QED  BY <2>2, <1>3, <1>4 DEF EpollInStep
<1>9. Control'
  BY <1>1 DEF Control, loop, Call, Everyone
<1>10. Present'
  BY <1>1, ReactorAssumption DEF Present, Control, InHandler, loop, Call, Everyone, Shape
<1>11. Wanting'
  BY <1>1, <1>4 DEF Wanting, Everyone, Call
<1>12. Awaited'
  BY <1>3, <1>4 DEF Awaited, ToCome, loop
<1>13. Serving'
  BY <1>1, <1>4, Zenon DEF Serving, loop, Shape
<1>14. Signalled'
  BY DEF Signalled, loop, Shape
<1> QED  BY <1>5, <1>6, <1>7, <1>8, <1>9, <1>10, <1>11, <1>12, <1>13, <1>14

(* remove() goes on at once, or waits.                                     *)
LEMMA RemoveStep ==
    ASSUME IInv, NEW t \in Everyone, NEW h \in Used, remove(t, h)
    PROVE  IInv'
<1> USE DEF IInv
<1>1. /\ h \in Handlers /\ h # None /\ call[t].op = "idle" /\ life[h] = "live"
      /\ (t = Run => at = "callback") /\ at # "destroyed" /\ sock[h] # None
  BY LoadTypes, ReactorAssumption DEF Shape, Owned, remove, Begins, Idle, Call
<1>2. signals' \in 0..MaxSignals /\ signals' >= signals
  BY SignalTypes DEF remove, Shape
<1>3. t # Run /\ call[Run].h = h => currentlyHandling_ = h
  BY DEF remove, Everyone
<1>4. CASE ~isSameThread(t) /\ Blocked(h, FALSE)
  <2>1. t # Run
    BY <1>4 DEF isSameThread
  <2>2. /\ call'[t] = Call("wait", h, None)
        /\ call' = [call EXCEPT ![t] = Call("wait", h, None)]
        /\ \A u \in Everyone \ {t} : call'[u] = call[u]
        /\ UNCHANGED <<pollHandlers_, epoll, sock>>
    BY <1>4 DEF remove, Shape
  <2>3. /\ h \notin DOMAIN handlers_' /\ DOMAIN handlers_' = DOMAIN handlers_ \ {h}
        /\ \A x \in DOMAIN handlers_ \ {h} : handlers_'[x] = handlers_[x]
    BY DEF remove
  <2>4. \A u \in Everyone : call[u].op \in Closing => call[u].h # h
    BY <1>1 DEF Owned
  <2>5. Shape'
    BY <1>1, <1>2, <2>2 DEF remove, Shape, loop, Call, Closing
  <2>6. Owned'
    BY <1>1, <2>2, <2>4 DEF remove, Owned, Shape, Call, Closing
  <2>7. Registered' /\ EpollInStep'
    BY <1>1, <2>2, <2>3 DEF remove, Registered, EpollInStep, Shape
  <2>8. Control'
    BY <1>1, <2>1, <2>2 DEF remove, Control, loop, Everyone
  <2>9. Present'
    BY <1>1, <1>3, <2>1, <2>2 DEF remove, Present, loop, Call, Everyone, Shape
  <2>10. Wanting' /\ Awaited' /\ Serving'
    BY <2>1, <2>2, <2>3 DEF remove, Wanting, Awaited, ToCome, Serving, loop, Everyone
  <2>11. Signalled'
    BY <1>2 DEF remove, Signalled, loop, Shape
  <2> QED  BY <2>5, <2>6, <2>7, <2>8, <2>9, <2>10, <2>11
<1>5. CASE ~(~isSameThread(t) /\ Blocked(h, FALSE))
  <2>1. t # Run => currentlyHandling_ # h
    BY <1>1, <1>5 DEF isSameThread, Blocked, Control, InHandler
  <2> QED  BY <1>1, <1>2, <1>3, <1>5, <2>1, RemovedStep, Zenon DEF remove
<1> QED  BY <1>4, <1>5

(* A thread that waits in remove() looks again.                            *)
LEMMA WakeStep ==
    ASSUME IInv, NEW t \in Everyone, wake(t)
    PROVE  IInv'
<1> USE DEF IInv
<1> DEFINE h == call[t].h
<1>1. /\ call[t].op = "woken" /\ t # Run /\ h \in Handlers
      /\ life[h] = "closing" /\ sock[h] # None /\ at # "destroyed"
  BY DEF wake, Control, Owned, Closing
<1>2. CASE Blocked(h, call[t].passed)
  <2>1. /\ call'[t] = [call[t] EXCEPT !.op = "wait"]
        /\ \A u \in Everyone \ {t} : call'[u] = call[u]
        /\ call' \in [Everyone -> [op : {"idle", "update"} \cup Closing, h : Handlers \cup {None},
                              s : Socks \cup {None}, passed : BOOLEAN]]
        /\ UNCHANGED <<pollHandlers_, epoll, sock>>
    <3>1. call' = [call EXCEPT ![t] = [call[t] EXCEPT !.op = "wait"]]
          /\ UNCHANGED <<pollHandlers_, epoll, sock>>
      BY <1>2 DEF wake
    <3>2. [call[t] EXCEPT !.op = "wait"] \in
            [op : {"idle", "update"} \cup Closing, h : Handlers \cup {None},
             s : Socks \cup {None}, passed : BOOLEAN]
      <4>1. call[t] \in [op : {"idle", "update"} \cup Closing, h : Handlers \cup {None},
                         s : Socks \cup {None}, passed : BOOLEAN]
        BY DEF Shape
      <4>2. "wait" \in {"idle", "update"} \cup Closing
        BY DEF Closing
      <4> HIDE DEF IInv
      <4> QED  BY ONLY <4>1, <4>2
    <3> QED  BY <3>1, <3>2 DEF Shape
  <2>2. call'[t].op = "wait" /\ call'[t].h = h
    BY <2>1 DEF Shape
  <2>3. Shape' /\ Registered' /\ EpollInStep'
    BY <2>1 DEF wake, Shape, loop, Registered, EpollInStep
  <2>4. Owned'
    BY <1>1, <2>1, <2>2 DEF wake, Owned, Closing
  <2>5. Control' /\ Present'
    BY <1>1, <2>1, <2>2 DEF wake, Control, Present, loop, Everyone
  <2>6. Wanting' /\ Awaited' /\ Serving' /\ Signalled'
    BY <1>1, <2>1 DEF wake, Wanting, Awaited, ToCome, Serving, Signalled, loop, Everyone
  <2> QED  BY <2>3, <2>4, <2>5, <2>6
<1>3. CASE ~Blocked(h, call[t].passed)
  <2>1. Removed(t, h) /\ currentlyHandling_ # h
    BY <1>3 DEF wake, Blocked
  <2>2. life' = [life EXCEPT ![h] = "closing"]
    BY <1>1 DEF wake, Shape
  <2>3. handlers_' = [x \in DOMAIN handlers_ \ {h} |-> handlers_[x]]
    BY <1>1 DEF wake, Shape
  <2>4. call[Run].op = "update" => call[Run].h # h
    BY <1>1, <2>1 DEF Present
  <2>5. signals' \in 0..MaxSignals /\ signals' >= signals
        /\ UNCHANGED <<load, open, queue, loop>>
    BY DEF wake, Shape
  <2> QED  BY <1>1, <2>1, <2>2, <2>3, <2>4, <2>5, RemovedStep, Zenon
<1> QED  BY <1>2, <1>3

(* A descriptor is closed that no handler has and the kernel does not poll. *)
LEMMA CloseStep ==
    ASSUME IInv, NEW t \in Everyone, close(t)
    PROVE  IInv'
<1> USE DEF IInv
<1> DEFINE h == call[t].h
           s == call[t].s
<1>1. /\ call[t].op = "close" /\ h \in Handlers /\ life[h] = "closing" /\ sock[h] = None
      /\ (t = Run => at = "callback") /\ at # "destroyed" /\ \A g \in Handlers : sock[g] # s
  BY DEF close, Control, Owned, Closing
<1>2. /\ call'[t] = Idle /\ call' = [call EXCEPT ![t] = Idle]
      /\ \A u \in Everyone \ {t} : call'[u] = call[u]
      /\ life'[h] = "gone" /\ \A g \in Handlers \ {h} : life'[g] = life[g]
      /\ life' \in [Handlers -> {"unborn", "live", "closing", "gone"}]
      /\ queue' \in [Handlers -> [Ops -> 0..MaxQueue]]
      /\ \A g \in Handlers \ {h} : queue'[g] = queue[g]
      /\ open' = open \ {s}
  BY <1>1, ReactorAssumption DEF close, Destroyed, Shape
<1>3. at = "handle" => cur.h # h
  BY <1>1 DEF Present
<1>4. t # Run => currentlyHandling_ # h
  BY <1>1 DEF Present, Everyone
<1>5. h \notin DOMAIN handlers_ /\ DOMAIN handlers_ \subseteq Handlers
  BY <1>1 DEF Shape
<1>6. Shape'
  <2>1. {g \in Handlers : life'[g] = "live"} = {g \in Handlers : life[g] = "live"}
    BY <1>1, <1>2
  <2> QED  BY <1>2, <2>1 DEF close, Shape, registry, loop, Idle, Call
<1>7. Owned'
  <2>1. call'[t].op = "idle" /\ UNCHANGED sock
    BY <1>2 DEF close, Idle, Call
  <2>2. \A u \in Everyone \ {t} : call[u].op \in Closing =>
          call[u].h # h /\ (call[u].op = "close" => call[u].s # s)
    BY <1>1 DEF Owned, Closing
  <2>3. \A g \in Handlers :
          /\ life'[g] = "live" => sock[g] # None
          /\ sock[g] # None => sock[g] \in open' /\ life'[g] \in {"live", "closing"}
    BY <1>1, <1>2 DEF Owned
  <2>4. ASSUME NEW u \in Everyone, call'[u].op \in Closing
        PROVE  /\ u # t /\ call'[u] = call[u] /\ call[u].h \in Handlers /\ life'[call[u].h] = "closing"
               /\ call[u].op # "close" => sock[call[u].h] # None
               /\ call[u].op = "close" => /\ sock[call[u].h] = None /\ call[u].s \in open'
                                          /\ \A g \in Handlers : sock[g] # call[u].s
    <3>1. u # t /\ call'[u] = call[u] /\ call[u].op \in Closing
      BY <1>2, <2>1, <2>4 DEF Closing
    <3> QED  BY <1>2, <2>2, <3>1 DEF Owned
  <2>5. \A x, y \in Handlers : sock'[x] = sock'[y] /\ sock'[y] # None => x = y
    BY <2>1 DEF Owned
  <2>6. \A u, v \in Everyone : call'[u].op \in Closing /\ call'[v].op \in Closing /\ u # v =>
          /\ call'[u].h # call'[v].h
          /\ call'[u].op = "close" /\ call'[v].op = "close" => call'[u].s # call'[v].s
    <3>1. \A u, v \in Everyone : call[u].op \in Closing /\ call[v].op \in Closing /\ u # v =>
            /\ call[u].h # call[v].h
            /\ call[u].op = "close" /\ call[v].op = "close" => call[u].s # call[v].s
      BY Zenon DEF Owned
    <3>2. \A u \in Everyone : call'[u].op \in Closing => call'[u] = call[u]
      BY ONLY <2>4
    <3> QED  BY ONLY <3>1, <3>2
  <2> QED  BY ONLY <2>1, <2>3, <2>4, <2>5, <2>6 DEF Owned
<1>8. Registered'
  BY <1>2 DEF close, Registered, registry, Shape
<1>9. EpollInStep'
  BY <1>1, <1>2 DEF close, EpollInStep, Registered, registry, Shape
<1>10. Control'
  BY <1>1, <1>2 DEF close, Control, loop, registry, Idle, Call, Everyone
<1>11. Present'
  BY <1>1, <1>2, <1>4 DEF close, Present, Control, InHandler, loop, Idle, Call, Everyone, Shape
<1>12. Wanting'
  BY <1>1, <1>2, <1>5 DEF close, Wanting, registry, Everyone
<1>13. Awaited'
  BY <1>2, <1>5 DEF close, Awaited, ToCome, registry, loop
<1>14. Serving'
  BY <1>2, <1>3, <1>5 DEF close, Serving, Control, InHandler, registry, loop, Shape
<1>15. Signalled'
  BY DEF close, Signalled, loop
<1> QED  BY <1>6, <1>7, <1>8, <1>9, <1>10, <1>11, <1>12, <1>13, <1>14, <1>15

(* The descriptor of a connector goes to a connection.                     *)
LEMMA HandOverStep ==
    ASSUME IInv, NEW t \in Everyone, NEW g \in Used, handOver(t, g)
    PROVE  IInv'
<1> USE DEF IInv
<1> DEFINE h == call[t].h
           s == call[t].s
<1>1. /\ call[t].op = "close" /\ h \in Handlers /\ life[h] = "closing" /\ sock[h] = None
      /\ (t = Run => at = "callback") /\ at # "destroyed" /\ \A x \in Handlers : sock[x] # s
      /\ s \in open /\ s \in Socks /\ s # None
  BY ReactorAssumption DEF handOver, Control, Owned, Closing, Shape
<1>2. g \in Handlers /\ g # None /\ g # h /\ life[g] = "unborn" /\ sock[g] = None
  BY <1>1, LoadTypes, ReactorAssumption DEF handOver, Shape, Owned
<1>3. /\ call'[t] = Idle /\ call' = [call EXCEPT ![t] = Idle]
      /\ \A u \in Everyone \ {t} : call'[u] = call[u]
      /\ life'[h] = "gone" /\ life'[g] = "live" /\ \A x \in Handlers \ {g, h} : life'[x] = life[x]
      /\ life' \in [Handlers -> {"unborn", "live", "closing", "gone"}]
      /\ queue' \in [Handlers -> [Ops -> 0..MaxQueue]]
      /\ \A x \in Handlers \ {h} : queue'[x] = queue[x]
      /\ sock'[g] = s /\ \A x \in Handlers \ {g} : sock'[x] = sock[x]
      /\ sock' \in [Handlers -> Socks \cup {None}]
  BY <1>1, <1>2, ReactorAssumption DEF handOver, Destroyed, Shape
<1>4. signals' \in 0..MaxSignals /\ signals' >= signals
  BY SignalTypes DEF handOver, Shape
<1>5. /\ h \notin DOMAIN handlers_ /\ DOMAIN handlers_ \subseteq Handlers
      /\ DOMAIN handlers_' = DOMAIN handlers_ \cup {g} /\ g \notin DOMAIN handlers_
      /\ handlers_'[g] = {} /\ \A x \in DOMAIN handlers_ : handlers_'[x] = handlers_[x]
  BY <1>1, <1>2 DEF handOver, Shape
<1>6. \A x \in DOMAIN pollHandlers_ : pollHandlers_[x].cookie # g
  BY <1>2 DEF Registered
<1>7. at \in InHandler => cur.h # g
  BY <1>2 DEF Present, Owned, InHandler, Closing, Everyone
<1>8. (at = "handle" => cur.h # h) /\ (t # Run => currentlyHandling_ # h)
  BY ZenonT(20), <1>1 DEF Present, Everyone
<1>9. Shape'
  <2>1. {x \in Handlers : life'[x] = "live"} = {x \in Handlers : life[x] = "live"} \cup {g}
    BY <1>1, <1>2, <1>3
  <2>2. handlers_' \in [{x \in Handlers : life'[x] = "live"} -> SUBSET Ops]
    BY ZenonT(20), <2>1 DEF handOver, Shape
  <2> QED  BY <1>3, <1>4, <2>2 DEF handOver, Shape, loop, Idle, Call
<1>10. Owned'
  <2>1. call'[t].op = "idle" /\ UNCHANGED open
    BY <1>3 DEF handOver, Idle, Call
  <2>2. \A u \in Everyone \ {t} : call[u].op \in Closing =>
          call[u].h # h /\ (call[u].op = "close" => call[u].s # s)
    BY <1>1 DEF Owned, Closing
  <2>3. \A x \in Handlers :
          /\ life'[x] = "live" => sock'[x] # None
          /\ sock'[x] # None => sock'[x] \in open /\ life'[x] \in {"live", "closing"}
    BY <1>1, <1>2, <1>3 DEF Owned
  <2>4. \A x, y \in Handlers : sock'[x] = sock'[y] /\ sock'[y] # None => x = y
    BY <1>1, <1>3 DEF Owned
  <2>5. ASSUME NEW u \in Everyone, call'[u].op \in Closing
        PROVE  /\ u # t /\ call'[u] = call[u] /\ call[u].h \in Handlers /\ life'[call[u].h] = "closing"
               /\ call[u].op # "close" => sock'[call[u].h] # None
               /\ call[u].op = "close" => /\ sock'[call[u].h] = None /\ call[u].s \in open
                                          /\ \A x \in Handlers : sock'[x] # call[u].s
    <3>1. u # t /\ call'[u] = call[u] /\ call[u].op \in Closing
      BY <1>3, <2>1, <2>5 DEF Closing
    <3>2. call[u].h \in Handlers /\ life[call[u].h] = "closing" /\ call[u].h # h /\ call[u].h # g
      BY <1>2, <2>2, <3>1 DEF Owned
    <3>3. call[u].op # "close" => sock'[call[u].h] # None
      BY <1>3, <3>1, <3>2 DEF Owned
    <3>4. call[u].op = "close" => /\ sock[call[u].h] = None /\ call[u].s \in open
                                  /\ \A x \in Handlers : sock[x] # call[u].s
      BY <3>1 DEF Owned
    <3> QED  BY <1>3, <2>2, <3>1, <3>2, <3>3, <3>4
  <2>6. \A u, v \in Everyone : call'[u].op \in Closing /\ call'[v].op \in Closing /\ u # v =>
          /\ call'[u].h # call'[v].h
          /\ call'[u].op = "close" /\ call'[v].op = "close" => call'[u].s # call'[v].s
    <3>1. \A u, v \in Everyone : call[u].op \in Closing /\ call[v].op \in Closing /\ u # v =>
            /\ call[u].h # call[v].h
            /\ call[u].op = "close" /\ call[v].op = "close" => call[u].s # call[v].s
      BY Zenon DEF Owned
    <3>2. \A u \in Everyone : call'[u].op \in Closing => call'[u] = call[u]
      BY ONLY <2>5
    <3> QED  BY ONLY <3>1, <3>2
  <2> QED  BY ONLY <2>1, <2>3, <2>4, <2>5, <2>6 DEF Owned
<1>11. Registered'
  BY <1>3, <1>6 DEF handOver, Registered, Shape
<1>12. EpollInStep'
  BY <1>5, <1>6 DEF handOver, EpollInStep
<1>13. Control'
  BY <1>1, <1>3 DEF handOver, Control, loop, Idle, Call, Everyone
<1>14. Present'
  <2>1. UNCHANGED <<at, cur, currentlyHandling_>>
    BY DEF handOver, loop
  <2>2. at \in {"handle", "return"} => sock'[cur.h] # None
    BY <1>3, <1>7 DEF Present, Control, InHandler, Shape
  <2>3. at = "callback" /\ cur.h # None =>
          \/ sock'[cur.h] # None \/ life'[cur.h] = "gone"
          \/ call'[Run].op = "close" /\ call'[Run].h = cur.h
    <3> SUFFICES ASSUME at = "callback", cur.h # None
                 PROVE  \/ sock'[cur.h] # None \/ life'[cur.h] = "gone"
                        \/ call'[Run].op = "close" /\ call'[Run].h = cur.h
      OBVIOUS
    <3>1. cur.h \in Handlers /\ cur.h # g
      BY <1>7 DEF Shape, InHandler
    <3> QED  BY <1>3, <3>1 DEF Present, Everyone
  <2>4. \A u \in Threads : call'[u].op = "close" => currentlyHandling_ # call'[u].h
    BY <1>3 DEF Present, Everyone, Idle, Call
  <2>5. call'[Run].op = "update" =>
          /\ call'[Run].h \in Handlers
          /\ \/ life'[call'[Run].h] = "live"
             \/ life'[call'[Run].h] = "closing" /\ currentlyHandling_ = call'[Run].h
    <3> SUFFICES ASSUME call'[Run].op = "update"
                 PROVE  /\ call'[Run].h \in Handlers
                        /\ \/ life'[call'[Run].h] = "live"
                           \/ life'[call'[Run].h] = "closing" /\ currentlyHandling_ = call'[Run].h
      OBVIOUS
    <3>1. t # Run /\ call'[Run] = call[Run]
      BY <1>3 DEF Idle, Call, Everyone
    <3> QED  BY <1>1, <1>2, <1>3, <1>8, <3>1 DEF Present
  <2> QED  BY <2>1, <2>2, <2>3, <2>4, <2>5 DEF Present
<1>15. Wanting'
  BY <1>1, <1>3, <1>5 DEF handOver, Wanting, Everyone
<1>16. Awaited'
  <2>1. UNCHANGED <<pollHandlers_, at, ev, cur>>
    BY DEF handOver, loop
  <2>2. \A x, op : ToCome(x, op)' <=> ToCome(x, op)
    BY <2>1 DEF ToCome
  <2>3. \A x \in DOMAIN pollHandlers_ : pollHandlers_[x].cookie \in DOMAIN handlers_' =>
          /\ pollHandlers_[x].cookie \in DOMAIN handlers_
          /\ queue'[pollHandlers_[x].cookie] = queue[pollHandlers_[x].cookie]
    BY <1>3, <1>5, <1>6
  <2> QED  BY <2>1, <2>2, <2>3 DEF Awaited
<1>17. Serving'
  BY ZenonT(20), <1>3, <1>5, <1>7, <1>8 DEF handOver, Serving, Control, InHandler, loop, Shape
<1>18. Signalled'
  BY <1>4 DEF handOver, Signalled, loop, Shape
<1> QED  BY <1>9, <1>10, <1>11, <1>12, <1>13, <1>14, <1>15, <1>16, <1>17, <1>18

-----------------------------------------------------------------------------
(* Steps of the loop that leave handlers and descriptors alone.            *)
LEMMA RegistryKept ==
    ASSUME IInv, UNCHANGED <<registry, open, sock, life, call>>
    PROVE  Owned' /\ Registered' /\ EpollInStep'
<1>1. Owned'
  BY DEF IInv, Owned, Closing
<1>2. Registered' /\ EpollInStep'
  BY DEF IInv, Registered, EpollInStep, registry
<1> QED  BY <1>1, <1>2

(* The loop goes from one of its places to another, where it has no more   *)
(* to look at than before.                                                 *)
LEMMA GoesOn ==
    ASSUME IInv, UNCHANGED <<load, users, registry, call, cur, signals, currentlyHandling_>>,
           at \notin InHandler, at' \notin InHandler \cup {"destroyed"},
           <<None, "r">> \in ev' => signals > 0,
           \A s \in Socks, op \in Ops : ToCome(s, op)' => ToCome(s, op)
    PROVE  IInv'
<1> USE DEF IInv
<1>1. Owned' /\ Registered' /\ EpollInStep'
  BY RegistryKept DEF users
<1>2. Shape'
  BY DEF Shape, users, registry
<1>3. Control'
  BY DEF Control, InHandler
<1>4. Present'
  BY DEF Present, InHandler, users
<1>5. Wanting'
  BY DEF Wanting, users, registry
<1>6. Awaited'
  BY DEF Awaited, users, registry, Shape
<1>7. Serving' /\ Signalled'
  BY DEF Serving, Signalled, InHandler
<1> QED  BY <1>1, <1>2, <1>3, <1>4, <1>5, <1>6, <1>7

(* Start, Poll, signalRd aside, what the poll returns, and the ways from   *)
(* one part of the loop to the next.                                       *)
LEMMA WayStep ==
    ASSUME IInv, Start \/ Poll \/ PollReady \/ PollWoken \/ EventsDone \/ TokensDone \/ SweepDone
    PROVE  IInv'
<1>1. CASE Start
  BY <1>1, GoesOn DEF Start, Aside, InHandler, ToCome, IInv, Signalled
<1>2. CASE Poll
  BY <1>2, GoesOn DEF Poll, Aside, InHandler, ToCome, IInv, Signalled
<1>3. ASSUME NEW E \in SUBSET Reported, Ready(E) PROVE IInv'
  <2>1. <<None, "r">> \notin E
    BY ReactorAssumption DEF Reported
  <2>2. <<None, "r">> \in ev' => signals > 0
    BY <1>3, <2>1 DEF Ready
  <2> QED  BY <1>3, <2>2, GoesOn DEF Ready, Aside, InHandler, ToCome, IInv
<1>4. CASE PollReady
  BY <1>3, <1>4 DEF PollReady
<1>5. CASE PollWoken
  BY <1>3, <1>5 DEF PollWoken
<1>6. CASE EventsDone
  BY <1>6, GoesOn DEF EventsDone, Aside, InHandler, ToCome, IInv, Signalled
<1>7. CASE TokensDone
  BY <1>7, GoesOn DEF TokensDone, Aside, InHandler, ToCome, IInv, Signalled
<1>8. CASE SweepDone
  BY <1>8, GoesOn DEF SweepDone, GoTo, Aside, InHandler, ToCome, IInv, Signalled
<1> QED  BY <1>1, <1>2, <1>4, <1>5, <1>6, <1>7, <1>8

(* A datagram of the signalling socket is read.                            *)
LEMMA SignalRdStep ==
    ASSUME IInv, signalRd
    PROVE  IInv'
<1> USE DEF IInv
<1>1. signals > 0 /\ signals' = signals - 1 /\ at = "events" /\ at' = at
  BY DEF signalRd, Signalled
<1>2. signals' \in 0..MaxSignals
  BY <1>1, ReactorAssumption DEF Shape
<1>3. Owned' /\ Registered' /\ EpollInStep'
  BY RegistryKept DEF signalRd, Aside, users
<1>4. Shape'
  BY <1>2 DEF signalRd, Aside, users, registry, Shape
<1>5. Control' /\ Present'
  BY <1>1 DEF signalRd, Aside, users, registry, Control, Present, InHandler
<1>6. Wanting' /\ Awaited'
  BY <1>1 DEF signalRd, Aside, users, registry, Wanting, Awaited, ToCome, InHandler
<1>7. Serving' /\ Signalled'
  BY <1>1 DEF signalRd, Serving, Signalled, InHandler
<1> QED  BY <1>3, <1>4, <1>5, <1>6, <1>7

(* Threads that wait are woken: their calls stay what they are.            *)
LEMMA CallsNotified ==
    ASSUME Shape, Owned, UNCHANGED <<open, sock, life>>,
           NEW P \in [Everyone -> BOOLEAN],
           call' = Notified([t \in Everyone |-> [call[t] EXCEPT !.passed = P[t]]])
    PROVE  /\ Owned'
           /\ call' \in [Everyone -> [op : {"idle", "update"} \cup Closing, h : Handlers \cup {None},
                                      s : Socks \cup {None}, passed : BOOLEAN]]
           /\ \A t \in Everyone :
                /\ call[t].op \in {"idle", "update", "close"} => call'[t].op = call[t].op
                /\ call'[t].op \in {"idle", "update", "close"} => call'[t].op = call[t].op
                /\ call'[t].h = call[t].h
                /\ call[t].op \in {"wait", "woken"} <=> call'[t].op \in {"wait", "woken"}
<1> DEFINE c == [t \in Everyone |-> [call[t] EXCEPT !.passed = P[t]]]
<1>1. \A t \in Everyone :
        /\ c[t] \in [op : {"idle", "update"} \cup Closing, h : Handlers \cup {None},
                     s : Socks \cup {None}, passed : BOOLEAN]
        /\ c[t].op = call[t].op /\ c[t].h = call[t].h /\ c[t].s = call[t].s
  BY DEF Shape
<1> HIDE DEF c
<1>2. \A t \in Everyone :
        /\ call'[t] \in [op : {"idle", "update"} \cup Closing, h : Handlers \cup {None},
                     s : Socks \cup {None}, passed : BOOLEAN]
        /\ call'[t].op = IF call[t].op = "wait" THEN "woken" ELSE call[t].op
        /\ call'[t].h = call[t].h /\ call'[t].s = call[t].s
  <2> SUFFICES ASSUME NEW t \in Everyone
               PROVE  /\ call'[t] \in [op : {"idle", "update"} \cup Closing, h : Handlers \cup {None},
                                       s : Socks \cup {None}, passed : BOOLEAN]
                      /\ call'[t].op = IF call[t].op = "wait" THEN "woken" ELSE call[t].op
                      /\ call'[t].h = call[t].h /\ call'[t].s = call[t].s
    OBVIOUS
  <2>1. call'[t] = IF c[t].op = "wait" THEN [c[t] EXCEPT !.op = "woken"] ELSE c[t]
    BY DEF Notified, c
  <2>2. "woken" \in {"idle", "update"} \cup Closing
    BY DEF Closing
  <2> QED  BY ONLY <1>1, <2>1, <2>2
<1>3. Owned'
  <2>1. \A t \in Everyone :
          /\ call'[t].op \in Closing <=> call[t].op \in Closing
          /\ call'[t].op = "close" <=> call[t].op = "close"
    BY <1>2 DEF Closing
  <2>2. /\ \A h \in Handlers : life[h] = "live" => sock[h] # None
        /\ \A h \in Handlers : sock[h] # None => sock[h] \in open /\ life[h] \in {"live", "closing"}
        /\ \A g, h \in Handlers : sock[g] = sock[h] /\ sock[h] # None => g = h
    BY DEF Owned
  <2>3. \A t \in Everyone : call'[t].op \in Closing =>
          /\ call'[t].h \in Handlers /\ life[call'[t].h] = "closing"
          /\ call'[t].op # "close" => sock[call'[t].h] # None
          /\ call'[t].op = "close" => /\ sock[call'[t].h] = None /\ call'[t].s \in open
                                      /\ \A h \in Handlers : sock[h] # call'[t].s
    BY <1>2, <2>1 DEF Owned
  <2>4. \A t, u \in Everyone : call'[t].op \in Closing /\ call'[u].op \in Closing /\ t # u =>
          /\ call'[t].h # call'[u].h
          /\ call'[t].op = "close" /\ call'[u].op = "close" => call'[t].s # call'[u].s
    BY <1>2, <2>1 DEF Owned
  <2>5. UNCHANGED <<open, sock, life>>
    OBVIOUS
  <2> QED  BY ONLY <2>2, <2>3, <2>4, <2>5 DEF Owned
<1>4. call' = [t \in Everyone |-> call'[t]]
  BY DEF Notified, c
<1> QED  BY <1>2, <1>3, <1>4

(* The poll is over.                                                       *)
LEMMA PollEndStep ==
    ASSUME IInv, PollEnd
    PROVE  IInv'
<1> USE DEF IInv
<1> DEFINE P == [t \in Everyone |-> call[t].passed \/ call[t].op \in {"wait", "woken"}]
<1>1. P \in [Everyone -> BOOLEAN]
  BY DEF Shape
<1>2. call' = Notified([t \in Everyone |-> [call[t] EXCEPT !.passed = P[t]]])
  BY DEF PollEnd
<1>3. at = "polled" /\ at' \in {"top", "events"} /\ (ev' = ev \/ ev' = {})
  BY DEF PollEnd
<1> HIDE DEF P
<1>4. /\ Owned'
      /\ call' \in [Everyone -> [op : {"idle", "update"} \cup Closing, h : Handlers \cup {None},
                                      s : Socks \cup {None}, passed : BOOLEAN]]
      /\ \A t \in Everyone :
           /\ call[t].op \in {"idle", "update", "close"} => call'[t].op = call[t].op
           /\ call'[t].op \in {"idle", "update", "close"} => call'[t].op = call[t].op
           /\ call'[t].h = call[t].h
           /\ call[t].op \in {"wait", "woken"} <=> call'[t].op \in {"wait", "woken"}
  BY <1>1, <1>2, CallsNotified DEF PollEnd, Aside, users
<1>5. Registered' /\ EpollInStep'
  BY DEF PollEnd, Aside, users, registry, Registered, EpollInStep
<1>6. Shape'
  BY <1>4 DEF PollEnd, Aside, users, registry, Shape
<1>7. Control' /\ Present'
  <2>1. /\ at = "polled" /\ at' \in {"events", "top"}
        /\ UNCHANGED <<users, registry, cur, currentlyHandling_>>
    BY DEF PollEnd, Aside
  <2>2. Control'
    BY <1>4, <2>1 DEF users, registry, Control, InHandler, Everyone
  <2>3. Present'
    BY ZenonT(20), <1>4, <2>1 DEF users, Present, Everyone
  <2> QED  BY <2>2, <2>3
<1>8. Wanting'
  BY <1>4 DEF PollEnd, Aside, users, registry, Wanting, Everyone
<1>9. Awaited'
  BY <1>3 DEF PollEnd, Aside, users, registry, Awaited, ToCome
<1>10. Serving' /\ Signalled'
  BY <1>3 DEF PollEnd, Serving, Signalled, InHandler
<1> QED  BY <1>4, <1>5, <1>6, <1>7, <1>8, <1>9, <1>10

(* A handler is called for an event that it has a request for.             *)
LEMMA CallStep ==
    ASSUME IInv, NEW s \in Socks, NEW op \in Ops, NEW rest \in SUBSET {"r"},
           NEW back \in {"events", "broken"},
           at = back, Found(s), CallHandler(s, op, rest, back),
           op \in pollHandlers_[s].pollEvents, rest \subseteq pollHandlers_[s].pollEvents,
           rest # {} => op = "w" /\ back = "broken",
           LET mark == IF back = "events" THEN <<s, op>> ELSE <<s, "w">>
           IN  mark \in ev /\ ev' = ev \ {mark},
           UNCHANGED <<load, users, registry, signals, call>>
    PROVE  IInv'
<1> USE DEF IInv
<1> DEFINE h == pollHandlers_[s].cookie
<1>1. h \in DOMAIN handlers_ /\ h \in Handlers /\ h # None /\ life[h] = "live" /\ s \in DOMAIN pollHandlers_
  BY ReactorAssumption DEF Found, Shape
<1>2. sock[h] = s /\ s # None
  BY <1>1, ReactorAssumption DEF EpollInStep, Registered
<1>3. \A o \in rest \cup {op} : queue[h][o] > 0
  BY <1>1 DEF Awaited, ToCome
<1>4. /\ at' = "handle" /\ currentlyHandling_' = h
      /\ cur' = [h |-> h, op |-> op, rest |-> rest, back |-> back]
  BY DEF CallHandler
<1>5. at \notin InHandler /\ at # "callback" /\ at # "destroyed"
  BY DEF InHandler
<1>6. Owned' /\ Registered' /\ EpollInStep'
  BY RegistryKept DEF users
<1>7. Shape'
  BY <1>1, <1>4 DEF Shape, users, registry
<1>8. Control'
  BY <1>1, <1>4, <1>5 DEF Control, InHandler
<1>9. Present'
  BY <1>1, <1>2, <1>4, <1>5 DEF Present, Control, Owned, Closing, Everyone, users
<1>10. Wanting'
  BY DEF Wanting, users, registry
<1>11. Awaited'
  BY <1>4 DEF Awaited, ToCome, InHandler, users, registry
<1>12. Serving'
  BY <1>1, <1>2, <1>3, <1>4 DEF Serving, InHandler, users, registry
<1>13. Signalled'
  BY DEF Signalled
<1> QED  BY <1>6, <1>7, <1>8, <1>9, <1>10, <1>11, <1>12, <1>13

(* An event is looked at.                                                  *)
LEMMA DispatchStep ==
    ASSUME IInv, NEW s \in Socks, NEW op \in Ops, Dispatch(s, op)
    PROVE  IInv'
<1>1. CASE Found(s) /\ op \in pollHandlers_[s].pollEvents
  <2>1. /\ CallHandler(s, op, {}, "events") /\ at = "events"
        /\ <<s, op>> \in ev /\ ev' = ev \ {<<s, op>>}
        /\ UNCHANGED <<load, users, registry, signals, call>>
    BY <1>1 DEF Dispatch, Aside
  <2> QED  BY <1>1, <2>1, CallStep
<1>2. CASE ~(Found(s) /\ op \in pollHandlers_[s].pollEvents)
  <2>1. /\ at = "events" /\ at' = "events" /\ ev' \subseteq ev
        /\ UNCHANGED <<load, users, registry, call, cur, signals, currentlyHandling_>>
    BY <1>2 DEF Dispatch, Aside
  <2> QED  BY <2>1, GoesOn DEF InHandler, ToCome, IInv, Signalled
<1> QED  BY <1>1, <1>2

(* A socket is looked at that may have been lost.                          *)
LEMMA BrokenStep ==
    ASSUME IInv, NEW s \in Socks, Broken(s)
    PROVE  IInv'
<1> DEFINE E == pollHandlers_[s].pollEvents
<1>1. /\ at = "broken" /\ <<s, "w">> \in ev /\ ev' = ev \ {<<s, "w">>}
      /\ UNCHANGED <<load, users, registry, signals, call>>
  BY DEF Broken, Aside
<1>2. CASE UNCHANGED <<at, cur, currentlyHandling_>>
  BY <1>1, <1>2, GoesOn DEF InHandler, ToCome, IInv, Signalled
<1>3. CASE Found(s) /\ E # {} /\ "w" \in E /\ CallHandler(s, "w", E \ {"w"}, "broken")
  <2>1. E \subseteq Ops
    BY <1>3 DEF IInv, Shape, Found
  <2>2. E \ {"w"} \in SUBSET {"r"}
    BY <2>1 DEF Ops
  <2> QED  BY <1>1, <1>3, <2>2, CallStep DEF Ops
<1>4. CASE Found(s) /\ E # {} /\ "w" \notin E /\ CallHandler(s, "r", {}, "broken")
  <2>1. "r" \in E
    BY <1>4 DEF IInv, Shape, Found, Ops
  <2> QED  BY <1>1, <1>4, <2>1, CallStep DEF Ops
<1> QED  BY <1>2, <1>3, <1>4 DEF Broken

(* A handler serves its first request.                                     *)
LEMMA ServeStep ==
    ASSUME IInv, Serve
    PROVE  IInv'
<1> USE DEF IInv
<1> DEFINE h == cur.h
           o == cur.op
<1>1. /\ at = "handle" /\ at' = "callback" /\ h \in Handlers /\ o \in Ops /\ queue[h][o] > 0
      /\ cur.back \in {"events", "broken"} /\ sock[h] # None /\ life[h] \in {"live", "closing"}
      /\ currentlyHandling_ = h /\ call[Run].op = "idle"
  BY DEF Serve, GoTo, Control, Present, Owned, InHandler, Shape
<1>2. /\ queue' \in [Handlers -> [Ops -> 0..MaxQueue]]
      /\ \A g \in Handlers, p \in Ops : g # h \/ p # o => queue'[g][p] = queue[g][p]
  BY <1>1, ReactorAssumption DEF Serve, Shape
<1>3. /\ call'[Run] = Call("update", h, None) /\ call' = [call EXCEPT ![Run] = Call("update", h, None)]
      /\ \A t \in Threads : call'[t] = call[t]
  BY ZenonT(20), ReactorAssumption DEF Serve, Shape, Everyone
<1>4. Shape'
  BY <1>1, <1>2, <1>3 DEF Serve, GoTo, Shape, registry, Call, Everyone
<1>5. Owned'
  BY <1>1, <1>3 DEF Serve, Owned, Closing, Call, Everyone
<1>6. Registered' /\ EpollInStep'
  BY DEF Serve, Registered, EpollInStep, registry
<1>7. Control'
  BY <1>1, <1>3 DEF Serve, GoTo, Control, InHandler, registry, Call
<1>8. Present'
  BY <1>1, <1>3 DEF Serve, GoTo, Present, Call
<1>9. Wanting'
  BY <1>1, <1>2, <1>3 DEF Serve, Wanting, registry, Call, Shape
<1>10. Awaited'
  <2> SUFFICES ASSUME NEW s \in DOMAIN pollHandlers_, NEW p \in pollHandlers_[s].pollEvents,
                      pollHandlers_[s].cookie \in DOMAIN handlers_, ToCome(s, p)'
               PROVE  queue'[pollHandlers_[s].cookie][p] > 0
    BY DEF Awaited, Serve, registry
  <2>1. pollHandlers_[s].cookie \in Handlers /\ p \in Ops
    BY DEF Shape
  <2>2. sock[pollHandlers_[s].cookie] = s
    BY DEF EpollInStep, Registered
  <2>3. ToCome(s, p)
    BY <1>1 DEF ToCome, Serve, GoTo, InHandler
  <2>4. ~(pollHandlers_[s].cookie = h /\ p = o)
    BY <1>1, <2>2 DEF ToCome, Serve, GoTo, InHandler, Serving
  <2> QED  BY <1>2, <2>1, <2>3, <2>4 DEF Awaited
<1>11. Serving'
  BY <1>1, <1>2 DEF Serve, GoTo, Serving, InHandler, registry, Shape, Ops
<1>12. Signalled'
  BY DEF Serve, GoTo, Signalled
<1> QED  BY <1>4, <1>5, <1>6, <1>7, <1>8, <1>9, <1>10, <1>11, <1>12

(* A handler returns without having served a request, or serves another.   *)
LEMMA HandleStep ==
    ASSUME IInv, ServePart \/ Drain
    PROVE  IInv'
<1> USE DEF IInv
<1>1. /\ at \in {"handle", "callback"} /\ at' \in {"handle", "return"} /\ call[Run].op = "idle"
      /\ UNCHANGED <<load, users, registry, signals, call, ev, cur, currentlyHandling_>>
  BY DEF ServePart, Drain, GoTo, Aside, Control, Idle, Call
<1>2. cur.h # None /\ sock[cur.h] # None
  BY DEF ServePart, Drain, Control, Present, InHandler, Idle, Call
<1>3. at' = "handle" => queue[cur.h][cur.op] > 0
  BY DEF ServePart, Drain, GoTo
<1>4. Owned' /\ Registered' /\ EpollInStep'
  BY <1>1, RegistryKept DEF users
<1>5. Shape'
  BY <1>1 DEF Shape, users, registry
<1>6. Control' /\ Present'
  BY <1>1, <1>2 DEF Control, Present, InHandler, users, registry
<1>7. Wanting'
  BY <1>1 DEF Wanting, users, registry
<1>8. Awaited'
  BY <1>1 DEF Awaited, ToCome, InHandler, users, registry
<1>9. Serving' /\ Signalled'
  BY <1>1, <1>3 DEF Serving, Signalled, InHandler, users, registry
<1> QED  BY <1>4, <1>5, <1>6, <1>7, <1>8, <1>9

(* A handler has returned, and threads that wait for it are woken.         *)
LEMMA ReturnStep ==
    ASSUME IInv, Return
    PROVE  IInv'
<1> USE DEF IInv
<1>1. /\ at \in {"callback", "return"} /\ call[Run].op = "idle" /\ cur.h # None /\ cur.h \in Handlers
      /\ cur.back \in {"events", "broken"}
      /\ UNCHANGED <<load, users, registry, signals, ev>>
  BY DEF Return, Aside, Control, InHandler, Idle, Call, Shape
<1>2. CASE cur.rest # {} /\ cur.h \in DOMAIN handlers_
  <2>1. /\ at' = "handle" /\ cur' = [cur EXCEPT !.op = "r", !.rest = {}]
        /\ UNCHANGED <<currentlyHandling_, call>>
    BY <1>2 DEF Return
  <2>2. cur'.h = cur.h /\ cur'.op = "r" /\ cur'.rest = {} /\ cur'.back = cur.back
    BY <2>1 DEF Shape
  <2>3. cur.rest = {"r"} /\ queue[cur.h]["r"] > 0 /\ cur.back = "broken" /\ <<sock[cur.h], "w">> \notin ev
    BY <1>1, <1>2 DEF Shape, Serving, InHandler
  <2>4. Owned' /\ Registered' /\ EpollInStep'
    BY <1>1, <2>1, RegistryKept DEF users
  <2>5. Shape'
    BY <1>1, <2>1 DEF Shape, users, registry, Ops
  <2>6. Control'
    BY <1>1, <2>1, <2>2 DEF Control, InHandler, Ops
  <2>7. Present'
    BY <1>1, <1>2, <2>1, <2>2 DEF Present, Owned, Shape, users, registry
  <2>8. Wanting'
    BY <1>1, <2>1 DEF Wanting, users, registry
  <2>9. Awaited'
    BY <1>1, <2>1, <2>2 DEF Awaited, ToCome, InHandler, users, registry
  <2>10. Serving' /\ Signalled'
    BY <1>1, <2>1, <2>2, <2>3 DEF Serving, Signalled, users, registry
  <2> QED  BY <2>4, <2>5, <2>6, <2>7, <2>8, <2>9, <2>10
<1>3. CASE ~(cur.rest # {} /\ cur.h \in DOMAIN handlers_)
  <2>1. /\ at' = cur.back /\ cur' = NoCall /\ currentlyHandling_' = None /\ call' = Notified(call)
    BY <1>3 DEF Return
  <2> DEFINE P == [t \in Everyone |-> call[t].passed]
  <2>2. P \in [Everyone -> BOOLEAN]
    BY DEF Shape
  <2>3. call = [t \in Everyone |-> [call[t] EXCEPT !.passed = P[t]]]
    BY DEF Shape
  <2>4. call' = Notified([t \in Everyone |-> [call[t] EXCEPT !.passed = P[t]]])
    BY <2>1, <2>3
  <2> HIDE DEF P
  <2>5. /\ Owned'
        /\ call' \in [Everyone -> [op : {"idle", "update"} \cup Closing, h : Handlers \cup {None},
                                      s : Socks \cup {None}, passed : BOOLEAN]]
        /\ \A t \in Everyone :
             /\ call[t].op \in {"idle", "update", "close"} => call'[t].op = call[t].op
             /\ call'[t].op \in {"idle", "update", "close"} => call'[t].op = call[t].op
             /\ call'[t].h = call[t].h
             /\ call[t].op \in {"wait", "woken"} <=> call'[t].op \in {"wait", "woken"}
    BY <1>1, <2>2, <2>4, CallsNotified DEF users
  <2>6. Registered' /\ EpollInStep'
    BY <1>1 DEF Registered, EpollInStep, users, registry
  <2>7. Shape'
    BY <1>1, <2>1, <2>5 DEF Shape, users, registry, NoCall
  <2>8. Control'
    BY <1>1, <2>1, <2>5 DEF Control, InHandler, Everyone
  <2>9. Present'
    <3>1. \A t \in Threads : call'[t].op = "close" => call[t].h \in Handlers /\ call'[t].h = call[t].h
      BY <2>5 DEF Owned, Closing, Everyone
    <3> QED  BY <1>1, <2>1, <2>5, <3>1, ReactorAssumption DEF Present, InHandler, Everyone
  <2>10. Wanting'
    BY <1>1, <2>5 DEF Wanting, users, registry, Everyone
  <2>11. Awaited'
    BY ZenonT(20), <1>1, <2>1 DEF Awaited, ToCome, InHandler, users, registry
  <2>12. Serving' /\ Signalled'
    BY <1>1, <2>1 DEF Serving, Signalled, InHandler
  <2> QED  BY <2>5, <2>6, <2>7, <2>8, <2>9, <2>10, <2>11, <2>12
<1> QED  BY <1>2, <1>3

(* A posted callback is run, or has returned.                              *)
LEMMA TokenStep ==
    ASSUME IInv, RunToken \/ TokenDone
    PROVE  IInv'
<1> USE DEF IInv
<1>1. /\ UNCHANGED <<load, users, registry, signals, ev, call, currentlyHandling_>>
      /\ \/ at = "tokens" /\ at' = "callback"
         \/ at = "callback" /\ at' = "tokens" /\ cur.h = None /\ call[Run].op = "idle"
      /\ cur'.h = None /\ cur'.op = "none" /\ cur'.rest = {} /\ cur'.back \in {"none", "tokens"}
      /\ cur' \in [h : Handlers \cup {None}, op : Ops \cup {"none"}, rest : SUBSET {"r"},
                   back : {"none", "events", "tokens", "broken"}]
  BY DEF RunToken, TokenDone, Aside, NoCall, Idle, Call
<1>2. None \notin DOMAIN handlers_
  BY ReactorAssumption DEF Shape
<1>3. Owned' /\ Registered' /\ EpollInStep'
  BY <1>1, RegistryKept DEF users
<1>4. Shape'
  BY <1>1 DEF Shape, users, registry
<1>5. Control'
  BY <1>1 DEF Control, InHandler
<1>6. Present'
  BY <1>1 DEF Present, users
<1>7. Wanting'
  BY <1>1 DEF Wanting, users, registry
<1>8. Awaited'
  BY <1>1 DEF Awaited, ToCome, InHandler
<1>9. Serving' /\ Signalled'
  BY <1>1, <1>2 DEF Serving, Signalled, InHandler, registry
<1> QED  BY <1>3, <1>4, <1>5, <1>6, <1>7, <1>8, <1>9

-----------------------------------------------------------------------------
(* After processUpdates() the loop knows exactly the handlers there are,   *)
(* under the descriptors they have, and the kernel polls them for what     *)
(* they want.                                                              *)
LEMMA UpdatesExact ==
    ASSUME Shape, Owned, Registered, EpollInStep, processUpdates
    PROVE  /\ pollHandlers_' \in [DOMAIN pollHandlers_' ->
                  [cookie : Handlers, pollEvents : SUBSET Ops, notInEpoll : BOOLEAN]]
           /\ DOMAIN pollHandlers_' \subseteq Socks
           /\ \A s \in DOMAIN pollHandlers_' :
                /\ pollHandlers_'[s].cookie \in DOMAIN handlers_
                /\ sock[pollHandlers_'[s].cookie] = s
                /\ pollHandlers_'[s].pollEvents = handlers_[pollHandlers_'[s].cookie]
                /\ ~pollHandlers_'[s].notInEpoll
           /\ DOMAIN epoll' = {s \in DOMAIN pollHandlers_' : pollHandlers_'[s].pollEvents # {}}
           /\ \A s \in DOMAIN epoll' : epoll'[s] = pollHandlers_'[s].pollEvents
<1> DEFINE Dropped == {s \in DOMAIN pollHandlers_ \ Kept :
                         pollHandlers_[s].pollEvents # {} /\ ~pollHandlers_[s].notInEpoll}
           Changed == {s \in Kept : pollHandlers_[s].pollEvents # Wanted(s)}
           Left == DOMAIN epoll \ (Dropped \cup {s \in Changed : pollHandlers_[s].pollEvents # {}})
           after == [s \in Kept \cup {sock[h] : h \in Fresh} |->
                       IF s \in Kept THEN [pollHandlers_[s] EXCEPT !.pollEvents = Wanted(s)]
                       ELSE LET h == CHOOSE g \in Fresh : sock[g] = s IN
                            [cookie |-> h, pollEvents |-> handlers_[h], notInEpoll |-> FALSE]]
           Added == {s \in Changed \cup (DOMAIN after \ Kept) : after[s].pollEvents # {}}
<1>1. /\ pollHandlers_' = after
      /\ epoll' = [s \in Left \cup Added |-> IF s \in Left THEN epoll[s] ELSE after[s].pollEvents]
  BY DEF processUpdates
<1>2. \A s \in Kept :
        /\ s \in DOMAIN pollHandlers_ /\ s \in Socks /\ ~pollHandlers_[s].notInEpoll
        /\ pollHandlers_[s].cookie \in DOMAIN handlers_ /\ sock[pollHandlers_[s].cookie] = s
  BY DEF Kept, Shape, EpollInStep, Registered
<1>3. \A h \in DOMAIN handlers_ :
        h \in Handlers /\ handlers_[h] \in SUBSET Ops /\ sock[h] \in Socks
  BY DEF Shape, Owned
<1>4. \A s \in Kept :
        /\ after[s] \in [cookie : Handlers, pollEvents : SUBSET Ops, notInEpoll : BOOLEAN]
        /\ after[s].cookie = pollHandlers_[s].cookie
        /\ after[s].pollEvents = Wanted(s)
        /\ after[s].notInEpoll = FALSE
  <2> SUFFICES ASSUME NEW s \in Kept
               PROVE  /\ after[s] \in [cookie : Handlers, pollEvents : SUBSET Ops, notInEpoll : BOOLEAN]
                      /\ after[s].cookie = pollHandlers_[s].cookie
                      /\ after[s].pollEvents = Wanted(s)
                      /\ after[s].notInEpoll = FALSE
    OBVIOUS
  <2>1. after[s] = [pollHandlers_[s] EXCEPT !.pollEvents = Wanted(s)]
    OBVIOUS
  <2>2. pollHandlers_[s] \in [cookie : Handlers, pollEvents : SUBSET Ops, notInEpoll : BOOLEAN]
    BY <1>2 DEF Shape
  <2>3. Wanted(s) \in SUBSET Ops
    BY <1>2, <1>3 DEF Wanted
  <2> HIDE DEF after
  <2> QED  BY <1>2, <2>1, <2>2, <2>3
<1>5. \A h \in Fresh :
        /\ h \in DOMAIN handlers_ /\ sock[h] \notin Kept /\ sock[h] \in DOMAIN after
        /\ after[sock[h]] = [cookie |-> h, pollEvents |-> handlers_[h], notInEpoll |-> FALSE]
  <2> SUFFICES ASSUME NEW h \in Fresh
               PROVE  /\ h \in DOMAIN handlers_ /\ sock[h] \notin Kept /\ sock[h] \in DOMAIN after
                      /\ after[sock[h]] = [cookie |-> h, pollEvents |-> handlers_[h], notInEpoll |-> FALSE]
    OBVIOUS
  <2>1. h \in DOMAIN handlers_ /\ sock[h] \notin Kept
    BY DEF Fresh
  <2>2. \A g \in Fresh : sock[g] = sock[h] => g = h
    BY <1>3, <2>1, ReactorAssumption DEF Fresh, Owned
  <2>3. (CHOOSE g \in Fresh : sock[g] = sock[h]) = h
    BY <2>2
  <2> QED  BY <2>1, <2>3
<1>6. \A s \in DOMAIN after : s \in Kept \/ \E h \in Fresh : s = sock[h]
  OBVIOUS
<1>7. Kept \subseteq DOMAIN after
  OBVIOUS
<1> HIDE DEF after
<1>8. \A s \in DOMAIN after :
        /\ after[s] \in [cookie : Handlers, pollEvents : SUBSET Ops, notInEpoll : BOOLEAN]
        /\ s \in Socks /\ after[s].cookie \in DOMAIN handlers_ /\ sock[after[s].cookie] = s
        /\ after[s].pollEvents = handlers_[after[s].cookie]
        /\ ~after[s].notInEpoll
  <2> SUFFICES ASSUME NEW s \in DOMAIN after
               PROVE  /\ after[s] \in [cookie : Handlers, pollEvents : SUBSET Ops, notInEpoll : BOOLEAN]
                      /\ s \in Socks /\ after[s].cookie \in DOMAIN handlers_ /\ sock[after[s].cookie] = s
                      /\ after[s].pollEvents = handlers_[after[s].cookie]
                      /\ ~after[s].notInEpoll
    OBVIOUS
  <2>1. CASE s \in Kept
    BY <1>2, <1>4, <2>1 DEF Wanted
  <2>2. CASE s \notin Kept
    <3>1. PICK h \in Fresh : s = sock[h]
      BY <1>6, <2>2
    <3>2. h \in Handlers /\ handlers_[h] \in SUBSET Ops /\ sock[h] \in Socks /\ h \in DOMAIN handlers_
      BY <1>3, <1>5
    <3>3. after[s] = [cookie |-> h, pollEvents |-> handlers_[h], notInEpoll |-> FALSE]
      BY <1>5, <3>1
    <3> QED  BY <3>1, <3>2, <3>3
  <2> QED  BY <2>1, <2>2
<1>9. \A s \in Left : s \in Kept /\ after[s].pollEvents # {} /\ epoll[s] = after[s].pollEvents
  <2> SUFFICES ASSUME NEW s \in Left
               PROVE  s \in Kept /\ after[s].pollEvents # {} /\ epoll[s] = after[s].pollEvents
    OBVIOUS
  <2>1. /\ s \in DOMAIN pollHandlers_ /\ pollHandlers_[s].pollEvents # {}
        /\ ~pollHandlers_[s].notInEpoll /\ epoll[s] = pollHandlers_[s].pollEvents
    BY DEF EpollInStep
  <2>2. s \in Kept /\ pollHandlers_[s].pollEvents = Wanted(s)
    BY <2>1
  <2> QED  BY <1>4, <2>1, <2>2
<1>10. \A s \in DOMAIN after : after[s].pollEvents # {} => s \in Left \cup Added
  <2> SUFFICES ASSUME NEW s \in Kept, after[s].pollEvents # {}, s \notin Changed
               PROVE  s \in Left
    OBVIOUS
  <2>1. pollHandlers_[s].pollEvents # {}
    BY <1>4
  <2>2. s \in DOMAIN epoll
    BY <1>2, <2>1 DEF EpollInStep
  <2> QED  BY <2>2
<1>11. \A s \in Added : s \in DOMAIN after /\ after[s].pollEvents # {}
  BY <1>7
<1>12. after = [s \in DOMAIN after |-> after[s]]
  BY DEF after
<1> HIDE DEF Left, Added
<1>13. DOMAIN epoll' = {s \in DOMAIN after : after[s].pollEvents # {}}
  BY <1>1, <1>7, <1>9, <1>10, <1>11
<1>14. \A s \in DOMAIN epoll' : epoll'[s] = after[s].pollEvents
  BY <1>1, <1>9
<1> QED  BY <1>1, <1>8, <1>12, <1>13, <1>14

(* The steps that end with processUpdates().                               *)
LEMMA UpdatesStep ==
    ASSUME IInv, Updates \/ Sweep \/ Finish
    PROVE  IInv'
<1> USE DEF IInv
<1>1. /\ processUpdates
      /\ UNCHANGED <<load, users, handlers_, cur, currentlyHandling_, signals, call>>
      /\ at \notin InHandler /\ at' \in {"top", "ended", "broken", "destroyed"}
      /\ at' = "broken" => ev' = {<<s, "w">> : s \in DOMAIN pollHandlers_'}
      /\ at' # "broken" => ev' = ev
      /\ at' = "destroyed" => /\ \A h \in Handlers : life[h] \in {"unborn", "gone"}
                              /\ \A t \in Everyone : call[t].op = "idle"
  BY DEF Updates, Sweep, Finish, GoTo, Aside, InHandler, Idle, Call
<1>2. /\ pollHandlers_' \in [DOMAIN pollHandlers_' ->
              [cookie : Handlers, pollEvents : SUBSET Ops, notInEpoll : BOOLEAN]]
      /\ DOMAIN pollHandlers_' \subseteq Socks
      /\ \A s \in DOMAIN pollHandlers_' :
           /\ pollHandlers_'[s].cookie \in DOMAIN handlers_
           /\ sock[pollHandlers_'[s].cookie] = s
           /\ pollHandlers_'[s].pollEvents = handlers_[pollHandlers_'[s].cookie]
           /\ ~pollHandlers_'[s].notInEpoll
      /\ DOMAIN epoll' = {s \in DOMAIN pollHandlers_' : pollHandlers_'[s].pollEvents # {}}
      /\ \A s \in DOMAIN epoll' : epoll'[s] = pollHandlers_'[s].pollEvents
  BY <1>1, UpdatesExact
<1>3. \A h \in DOMAIN handlers_ : h \in Handlers /\ life[h] = "live" /\ sock[h] \in open
  BY DEF Shape, Owned
<1>4. Shape'
  BY <1>1, <1>2 DEF Shape, users
<1>5. Owned'
  BY <1>1 DEF Owned, users, Closing
<1>6. Registered'
  BY <1>1, <1>2, <1>3 DEF Registered, users
<1>7. EpollInStep'
  BY <1>1, <1>2, <1>3 DEF EpollInStep, users
<1>8. Control'
  <2>1. at' = "destroyed" => DOMAIN pollHandlers_' = {}
    BY <1>1, <1>2, <1>3
  <2> QED  BY <1>1, <2>1 DEF Control, InHandler, users
<1>9. Present'
  BY <1>1 DEF Present, InHandler, users
<1>10. Wanting'
  BY <1>1 DEF Wanting, users
<1>11. Awaited'
  BY <1>1, <1>2 DEF Awaited, Wanting, Control, InHandler, users
<1>12. Serving'
  BY <1>1 DEF Serving, InHandler
<1>13. Signalled'
  BY <1>1 DEF Signalled
<1> QED  BY <1>4, <1>5, <1>6, <1>7, <1>8, <1>9, <1>10, <1>11, <1>12, <1>13

(* A step that only tells the loop to look up, or lets time pass.          *)
LEMMA AsideStep ==
    ASSUME IInv, UNCHANGED <<load, users, registry, loop, call>>,
           signals' \in 0..MaxSignals, signals' >= signals
    PROVE  IInv'
<1> USE DEF IInv
<1>1. Owned' /\ Registered' /\ EpollInStep'
  BY RegistryKept DEF users
<1>2. Shape'
  BY DEF Shape, users, registry, loop
<1>3. Control' /\ Present'
  BY DEF Control, Present, users, registry, loop
<1>4. Wanting' /\ Awaited' /\ Serving'
  BY DEF Wanting, Awaited, ToCome, Serving, users, registry, loop
<1>5. Signalled'
  BY DEF Signalled, loop, Shape
<1> QED  BY <1>1, <1>2, <1>3, <1>4, <1>5

-----------------------------------------------------------------------------
(* Every step keeps the invariant.                                         *)
LEMMA InvNext == IInv /\ [Next]_vars => IInv'
<1> SUFFICES ASSUME IInv, [Next]_vars PROVE IInv'  OBVIOUS
<1>1. ASSUME NEW t \in Everyone, Using(t) PROVE IInv'
  <2>1. CASE \E h \in Used : remove(t, h)
    BY <2>1, RemoveStep
  <2>2. CASE \E h \in Used, s \in load.socks : add(t, h, s)
    BY <2>2, AddStep
  <2>3. CASE \E h \in Used, op \in Ops : request(t, h, op)
    BY <2>3, RequestStep
  <2>4. CASE \E i \in load.tokens, d \in 0..MaxDelay : post(t, i, d)
    <3>1. PICK i \in load.tokens, d \in 0..MaxDelay : post(t, i, d)
      BY <2>4
    <3>2. signals' \in 0..MaxSignals /\ signals' >= signals
      BY <3>1, SignalTypes DEF post, IInv, Shape
    <3> QED  BY <3>1, <3>2, AsideStep DEF post
  <2>5. CASE stop(t)
    <3>1. signals' \in 0..MaxSignals /\ signals' >= signals
      BY <2>5, SignalTypes DEF stop, IInv, Shape
    <3> QED  BY <2>5, <3>1, AsideStep DEF stop
  <2> QED  BY <1>1, <2>1, <2>2, <2>3, <2>4, <2>5 DEF Using
<1>2. ASSUME NEW t \in Everyone, Finishing(t) PROVE IInv'
  BY <1>2, UpdateStep, WakeStep, CloseStep, HandOverStep DEF Finishing
<1>3. CASE Looping
  <2>1. CASE \E s \in Socks, op \in Ops : Dispatch(s, op)
    BY <2>1, DispatchStep
  <2>2. CASE \E s \in Socks : Broken(s)
    BY <2>2, BrokenStep
  <2> QED  BY <1>3, <2>1, <2>2, WayStep, SignalRdStep, PollEndStep, ServeStep, HandleStep,
              ReturnStep, TokenStep, UpdatesStep DEF Looping
<1>4. CASE PollReady \/ Drain \/ Finish
  BY <1>4, WayStep, HandleStep, UpdatesStep
<1>5. CASE Tick
  <2>1. signals' \in 0..MaxSignals /\ signals' >= signals
    BY <1>5 DEF Tick, IInv, Shape
  <2> QED  BY <1>5, <2>1, AsideStep DEF Tick
<1>6. CASE UNCHANGED vars
  <2>1. signals' \in 0..MaxSignals /\ signals' >= signals
    BY <1>6 DEF vars, IInv, Shape
  <2> QED  BY <1>6, <2>1, AsideStep DEF vars
<1> QED  BY <1>1, <1>2, <1>3, <1>4, <1>5, <1>6 DEF Next

(* In every run.                                                           *)
LEMMA InvAlways == Spec => []IInv
<1> QED  BY InvInit, InvNext, PTL DEF Spec

(* Whatever handlers, descriptors and threads there are: a handler is      *)
(* called only while it is there and has a request (the assertions of      *)
(* handleRead and handleWrite), it is not being called once remove() has   *)
(* returned to another thread, and no two handlers share a descriptor.     *)
THEOREM ReactorHandlers == Spec => []HandlersSafe
<1> QED  BY InvAlways, InvImplies, PTL

(* The kernel polls exactly what the loop believes, on open descriptors    *)
(* only, although these are closed and handed out again meanwhile.         *)
THEOREM ReactorEpoll == Spec => []EpollInStep
<1> QED  BY InvAlways, InvImplies, PTL

=============================================================================
