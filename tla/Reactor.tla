------------------------------ MODULE Reactor ------------------------------
(***************************************************************************)
(* The two event loops under everything else: SysReactor (epoll, with a    *)
(* queue of posted callbacks) and UDTReactor (the UDT library's epoll,     *)
(* without one).  Both keep handlers_, what their users want, apart from   *)
(* pollHandlers_, what the kernel was told; run() brings the second in     *)
(* line with the first between two polls.  Handlers are connections and    *)
(* connectors: a connection has queues of read and write requests, a       *)
(* connector one request, and hands its descriptor over to a connection.   *)
(*                                                                         *)
(* A step is what a thread does with the reactor's m_ held, or one change  *)
(* of a handler's own state between two of those.  Users of a handler do   *)
(* not close it under one another's feet: what remove() has to keep apart  *)
(* are the thread that closes a handler and the thread in run().           *)
(***************************************************************************)
EXTENDS Naturals, Sequences, FiniteSets

CONSTANTS
    Handlers,      \* handler objects, each constructed once; also its cookie
    Connectors,    \* those of Handlers that are connectors
    Socks,         \* descriptors; the kernel hands out a closed one again
    Threads,       \* threads that use the reactor, other than Run
    Run,           \* the thread in run()
    None,
    Workloads,     \* what the reactors considered are used for
    MaxQueue,      \* requests in one queue
    Tokens,        \* callbacks that can be posted at the same time
    MaxDelay,      \* longest delay of a posted callback
    MaxSignals     \* datagrams the signalling socket holds

(* Of SysReactor ("sys") or of UDTReactor ("udt"); the handlers used, with *)
(* the requests that are made of them; the descriptors there are; and the  *)
(* callbacks posted.                                                       *)
Workload == [kind : {"sys", "udt"}, uses : UNION {[H -> SUBSET {"r", "w"}] : H \in SUBSET Handlers},
             socks : SUBSET Socks, tokens : SUBSET Tokens]

ASSUME ReactorAssumption ==
    /\ Connectors \subseteq Handlers /\ Workloads \subseteq Workload
    /\ \A l \in Workloads :
        /\ \A h \in DOMAIN l.uses \cap Connectors : l.uses[h] = {"w"}
        /\ l.kind = "udt" => l.tokens = {}
    /\ Run \notin Threads /\ None \notin Handlers \cup Socks
    /\ MaxQueue \in Nat \ {0} /\ MaxSignals \in Nat \ {0, 1}

Ops == {"r", "w"}
Everyone == Threads \cup {Run}

VARIABLES
    load,                 \* which reactor this is and what it is used for
    handlers_,            \* cookie -> events wanted
    pollHandlers_,        \* descriptor -> [cookie, pollEvents, notInEpoll]
    epoll,                \* the kernel's set: descriptor -> events
    open,                 \* descriptors that are open
    sock,                 \* the descriptor of a handler's handle, or None
    life,                 \* "unborn", "live", "closing" or "gone"
    queue,                \* requests of a handler, by kind
    handedOut_,           \* connectors that have reported
    inPoll_, currentlyHandling_, stopping_,
    signals,              \* datagrams in the signalling socket
    tokens_,              \* posted callbacks, by time: [id, left]
    wakeupTime_,          \* time left until the poll was to end, or None
    at,                   \* where run() is
    ev,                   \* what it has still to look at
    cur,                  \* the call of a handler it is in
    count,                \* callbacks it may still run
    call                  \* the operation each thread is in

users == <<open, sock, life, queue, handedOut_>>
registry == <<handlers_, pollHandlers_, epoll>>
timers == <<tokens_, wakeupTime_>>
loop == <<at, ev, cur, count, inPoll_, currentlyHandling_>>
vars == <<load, users, registry, timers, loop, signals, stopping_, call>>

Call(op, h, s) == [op |-> op, h |-> h, s |-> s, passed |-> FALSE]
Idle == Call("idle", None, None)
NoCall == [h |-> None, op |-> "none", rest |-> {}, back |-> "none"]

Init ==
    /\ load \in Workloads
    /\ handlers_ = <<>> /\ pollHandlers_ = <<>> /\ epoll = <<>>
    /\ open = {} /\ handedOut_ = {}
    /\ sock = [h \in Handlers |-> None]
    /\ life = [h \in Handlers |-> "unborn"]
    /\ queue = [h \in Handlers |-> [op \in Ops |-> 0]]
    /\ inPoll_ = FALSE /\ currentlyHandling_ = None /\ stopping_ = FALSE
    /\ signals = 0
    /\ tokens_ = <<>> /\ wakeupTime_ = None
    /\ at = "unstarted" /\ ev = {} /\ cur = NoCall /\ count = 0
    /\ call = [t \in Everyone |-> Idle]

-----------------------------------------------------------------------------
(* Before run() and after it every thread counts as its thread.            *)
isSameThread(t) == t = Run \/ at \in {"unstarted", "ended"}

(* A datagram that finds the socket full is lost; those before it are not. *)
signalWr == signals' = IF signals < MaxSignals THEN signals + 1 ELSE signals

SignalFrom(t) == IF isSameThread(t) THEN UNCHANGED signals ELSE signalWr

(* notify_all.                                                             *)
Notified(c) ==
    [t \in Everyone |-> IF c[t].op = "wait" THEN [c[t] EXCEPT !.op = "woken"] ELSE c[t]]

(* A thread can begin an operation between two others, Run in callbacks.   *)
Begins(t) == call[t] = Idle /\ (t = Run => at = "callback") /\ at # "destroyed"

getPollEvents(h) == {op \in Ops : queue[h][op] > 0}

-----------------------------------------------------------------------------
(* Operations of the reactor's users.                                      *)

(* A handler is constructed on a new descriptor: add().                    *)
add(t, h, s) ==
    /\ Begins(t)
    /\ life[h] = "unborn" /\ s \notin open
    /\ open' = open \cup {s}
    /\ sock' = [sock EXCEPT ![h] = s]
    /\ life' = [life EXCEPT ![h] = "live"]
    /\ handlers_' = [x \in DOMAIN handlers_ \cup {h} |-> IF x = h THEN {} ELSE handlers_[x]]
    /\ SignalFrom(t)
    /\ UNCHANGED <<load, queue, handedOut_, pollHandlers_, epoll, timers, loop, stopping_, call>>

(* A callback of h may still use it while another thread closes it.        *)
MayUse(t, h) ==
    \/ life[h] = "live"
    \/ life[h] = "closing" /\ t = Run /\ currentlyHandling_ = h

(* read(), write(), readFrom(), writeTo(), and connect(): a request is     *)
(* queued, then the reactor is told.                                       *)
request(t, h, op) ==
    /\ Begins(t) /\ MayUse(t, h) /\ op \in load.uses[h]
    /\ queue[h][op] < (IF h \in Connectors THEN 1 ELSE MaxQueue)
    /\ h \notin handedOut_
    /\ queue' = [queue EXCEPT ![h][op] = @ + 1]
    /\ call' = [call EXCEPT ![t] = Call("update", h, None)]
    /\ UNCHANGED <<load, open, sock, life, handedOut_, registry, timers, loop, signals, stopping_>>

(* Mutant of update: the poll is not interrupted.                          *)
updateSilently(t) ==
    LET h == call[t].h IN
    /\ call[t].op = "update"
    /\ handlers_' = IF h \in DOMAIN handlers_
                    THEN [handlers_ EXCEPT ![h] = getPollEvents(h)] ELSE handlers_
    /\ call' = [call EXCEPT ![t] = Idle]
    /\ UNCHANGED <<load, users, pollHandlers_, epoll, timers, loop, signals, stopping_>>

update(t) ==
    LET h == call[t].h
        changed == h \in DOMAIN handlers_ /\ handlers_[h] # getPollEvents(h) IN
    /\ call[t].op = "update"
    /\ handlers_' = IF changed THEN [handlers_ EXCEPT ![h] = getPollEvents(h)] ELSE handlers_
    /\ IF changed THEN SignalFrom(t) ELSE UNCHANGED signals
    /\ call' = [call EXCEPT ![t] = Idle]
    /\ UNCHANGED <<load, users, pollHandlers_, epoll, timers, loop, stopping_>>

(* Mutant of Removed: the kernel is told later, by processUpdates.         *)
RemovedLater(t, h) ==
    /\ sock' = [sock EXCEPT ![h] = None]
    /\ call' = [call EXCEPT ![t] = Call("close", h, sock[h])]
    /\ UNCHANGED <<pollHandlers_, epoll>>

(* What is left of remove() once nobody is in the way.                     *)
Removed(t, h) ==
    LET s == sock[h]
        known == s \in DOMAIN pollHandlers_ /\ pollHandlers_[s].cookie = h IN
    /\ epoll' = IF known /\ pollHandlers_[s].pollEvents # {}
                THEN [x \in DOMAIN epoll \ {s} |-> epoll[x]] ELSE epoll
    /\ pollHandlers_' = IF known THEN [pollHandlers_ EXCEPT ![s].notInEpoll = TRUE]
                        ELSE pollHandlers_
    /\ sock' = [sock EXCEPT ![h] = None]
    /\ call' = [call EXCEPT ![t] = Call("close", h, s)]

(* Mutant of Blocked: the handler that is being called is not looked at.   *)
BlockedPolling(h, passed) == inPoll_ /\ ~passed

(* The condition remove() waits on; passed says that pollIteration_ has    *)
(* gone on since it began.                                                 *)
Blocked(h, passed) == (inPoll_ /\ ~passed) \/ currentlyHandling_ = h

(* remove(), called by close(): the handler is forgotten at once, its      *)
(* descriptor only when no poll and no call of it is going on.             *)
remove(t, h) ==
    /\ Begins(t) /\ life[h] = "live"
    /\ \A u \in Everyone \ {t} : call[u].h = h => u = Run /\ currentlyHandling_ = h
    /\ life' = [life EXCEPT ![h] = "closing"]
    /\ handlers_' = [x \in DOMAIN handlers_ \ {h} |-> handlers_[x]]
    /\ SignalFrom(t)
    /\ IF ~isSameThread(t) /\ Blocked(h, FALSE)
       THEN /\ call' = [call EXCEPT ![t] = Call("wait", h, None)]
            /\ UNCHANGED <<pollHandlers_, epoll, sock>>
       ELSE Removed(t, h)
    /\ UNCHANGED <<load, open, queue, handedOut_, timers, loop, stopping_>>

wake(t) ==
    LET h == call[t].h IN
    /\ call[t].op = "woken"
    /\ IF Blocked(h, call[t].passed)
       THEN /\ call' = [call EXCEPT ![t].op = "wait"]
            /\ UNCHANGED <<pollHandlers_, epoll, sock>>
       ELSE Removed(t, h)
    /\ UNCHANGED <<load, open, life, queue, handedOut_, handlers_, timers, loop, signals, stopping_>>

(* A handler goes with what it holds; those of New take its place.         *)
Destroyed(h, New) ==
    /\ life' = [g \in Handlers |->
                 IF g = h THEN "gone" ELSE IF g \in New THEN "live" ELSE life[g]]
    /\ queue' = [queue EXCEPT ![h] = [op \in Ops |-> 0]]
    /\ handedOut_' = handedOut_ \ {h}

(* remove() has returned the handle, and close() closes it.  The           *)
(* descriptor may have been duplicated: then the kernel's set keeps it.    *)
close(t) ==
    LET h == call[t].h IN
    /\ call[t].op = "close"
    /\ open' = open \ {call[t].s}
    /\ Destroyed(h, {})
    /\ call' = [call EXCEPT ![t] = Idle]
    /\ UNCHANGED <<load, sock, registry, timers, loop, signals, stopping_>>

(* A connector that has reported leaves the handle to its owner, who makes *)
(* a connection of it.                                                     *)
handOver(t, g) ==
    LET h == call[t].h IN
    /\ call[t].op = "close"
    /\ h \in handedOut_ /\ life[g] = "unborn" /\ g \notin Connectors
    /\ sock' = [sock EXCEPT ![g] = call[t].s]
    /\ Destroyed(h, {g})
    /\ handlers_' = [x \in DOMAIN handlers_ \cup {g} |-> IF x = g THEN {} ELSE handlers_[x]]
    /\ SignalFrom(t)
    /\ call' = [call EXCEPT ![t] = Idle]
    /\ UNCHANGED <<load, open, pollHandlers_, epoll, timers, loop, stopping_>>

stop(t) ==
    /\ Begins(t) /\ ~stopping_ /\ at # "unstarted"
    /\ stopping_' = TRUE
    /\ signalWr
    /\ UNCHANGED <<load, users, registry, timers, loop, call>>

(* Mutant of post: a callback goes before those that are due with it.      *)
postFirst(t, i, d) ==
    LET k == Cardinality({j \in DOMAIN tokens_ : tokens_[j].left < d}) IN
    /\ load.kind = "sys" /\ Begins(t)
    /\ \A j \in DOMAIN tokens_ : tokens_[j].id # i
    /\ tokens_' = SubSeq(tokens_, 1, k) \o <<[id |-> i, left |-> d]>> \o SubSeq(tokens_, k + 1, Len(tokens_))
    /\ IF wakeupTime_ = None \/ (wakeupTime_ # None /\ d < wakeupTime_)
       THEN SignalFrom(t) ELSE UNCHANGED signals
    /\ UNCHANGED <<load, users, registry, wakeupTime_, loop, stopping_, call>>

(* post(): the poll is interrupted when it would go on for too long.       *)
post(t, i, d) ==
    LET k == Cardinality({j \in DOMAIN tokens_ : tokens_[j].left <= d}) IN
    /\ load.kind = "sys" /\ Begins(t)
    /\ \A j \in DOMAIN tokens_ : tokens_[j].id # i
    /\ tokens_' = SubSeq(tokens_, 1, k) \o <<[id |-> i, left |-> d]>> \o SubSeq(tokens_, k + 1, Len(tokens_))
    /\ IF wakeupTime_ = None \/ (wakeupTime_ # None /\ d < wakeupTime_)
       THEN SignalFrom(t) ELSE UNCHANGED signals
    /\ UNCHANGED <<load, users, registry, wakeupTime_, loop, stopping_, call>>

Tick ==
    /\ \/ \E j \in DOMAIN tokens_ : tokens_[j].left > 0
       \/ wakeupTime_ # None /\ wakeupTime_ # 0
    /\ tokens_' = [j \in DOMAIN tokens_ |->
                     [tokens_[j] EXCEPT !.left = IF @ > 0 THEN @ - 1 ELSE 0]]
    /\ wakeupTime_' = IF wakeupTime_ = None \/ wakeupTime_ = 0
                      THEN wakeupTime_ ELSE wakeupTime_ - 1
    /\ UNCHANGED <<load, users, registry, loop, signals, stopping_, call>>

-----------------------------------------------------------------------------
(* run().                                                                  *)

(* processUpdates(): pollHandlers_ after it, and what it does to epoll.    *)
Kept == {s \in DOMAIN pollHandlers_ : pollHandlers_[s].cookie \in DOMAIN handlers_}
Wanted(s) == handlers_[pollHandlers_[s].cookie]
Fresh == {h \in DOMAIN handlers_ : sock[h] \notin Kept}

processUpdates ==
    LET Dropped == {s \in DOMAIN pollHandlers_ \ Kept :
                      pollHandlers_[s].pollEvents # {} /\ ~pollHandlers_[s].notInEpoll}
        Changed == {s \in Kept : pollHandlers_[s].pollEvents # Wanted(s)}
        Left == DOMAIN epoll \ (Dropped \cup {s \in Changed : pollHandlers_[s].pollEvents # {}})
        after == [s \in Kept \cup {sock[h] : h \in Fresh} |->
                    IF s \in Kept THEN [pollHandlers_[s] EXCEPT !.pollEvents = Wanted(s)]
                    ELSE LET h == CHOOSE g \in Fresh : sock[g] = s IN
                         [cookie |-> h, pollEvents |-> handlers_[h], notInEpoll |-> FALSE]]
        Added == {s \in Changed \cup (DOMAIN after \ Kept) : after[s].pollEvents # {}} IN
    /\ pollHandlers_' = after
    /\ epoll' = [s \in Left \cup Added |-> IF s \in Left THEN epoll[s] ELSE after[s].pollEvents]

(* The loop goes on at l.                                                  *)
GoTo(l) == at' = l /\ UNCHANGED <<ev, cur, count, inPoll_, currentlyHandling_>>

(* The loop's surroundings stay as they are.                               *)
Aside == UNCHANGED <<load, users, tokens_, stopping_>>

Start ==
    /\ at = "unstarted"
    /\ IF load.kind = "sys"
       THEN at' = "tokens" /\ count' = 2 * Len(tokens_)
       ELSE at' = "updates" /\ UNCHANGED count
    /\ UNCHANGED <<ev, cur, inPoll_, currentlyHandling_, registry, wakeupTime_, signals, call>>
    /\ Aside

(* The poll begins, with the time of the first callback as its timeout.    *)
Poll ==
    /\ at = "top" /\ ~stopping_
    /\ at' = "poll" /\ inPoll_' = TRUE
    /\ wakeupTime_' = IF tokens_ = <<>> THEN None ELSE Head(tokens_).left
    /\ UNCHANGED <<ev, cur, count, currentlyHandling_, registry, signals, call>>
    /\ Aside

TimedOut == load.kind = "udt" \/ wakeupTime_ = 0

(* epoll_wait comes back with any of the descriptors it knows.             *)
Ready(E) ==
    /\ at = "poll"
    /\ at' = "polled"
    /\ ev' = E \cup (IF signals > 0 THEN {<<None, "r">>} ELSE {})
    /\ UNCHANGED <<cur, count, inPoll_, currentlyHandling_, registry, wakeupTime_, signals, call>>
    /\ Aside

Reported == {e \in Socks \X Ops : e[1] \in DOMAIN epoll /\ e[2] \in epoll[e[1]]}

PollReady == \E E \in SUBSET Reported : E # {} /\ Ready(E)
PollWoken == (signals > 0 \/ TimedOut) /\ Ready({})

(* Mutant of PollEnd: the waiting threads are not woken.                   *)
PollEndSilent ==
    /\ at = "polled"
    /\ inPoll_' = FALSE
    /\ call' = [t \in Everyone |->
                 [call[t] EXCEPT !.passed = @ \/ call[t].op \in {"wait", "woken"}]]
    /\ at' = "events"
    /\ UNCHANGED <<ev, cur, count, currentlyHandling_, registry, wakeupTime_, signals>>
    /\ Aside

(* The poll is over: pollIteration_ goes on and threads in remove() wake.  *)
(* An epoll_wait that was interrupted is begun again.                      *)
PollEnd ==
    /\ at = "polled"
    /\ inPoll_' = FALSE
    /\ call' = Notified([t \in Everyone |->
                 [call[t] EXCEPT !.passed = @ \/ call[t].op \in {"wait", "woken"}]])
    /\ \/ at' = "events" /\ UNCHANGED ev
       \/ load.kind = "sys" /\ at' = "top" /\ ev' = {}
    /\ UNCHANGED <<cur, count, currentlyHandling_, registry, wakeupTime_, signals>>
    /\ Aside

signalRd ==
    /\ at = "events" /\ <<None, "r">> \in ev
    /\ signals' = signals - 1
    /\ ev' = ev \ {<<None, "r">>}
    /\ UNCHANGED <<at, cur, count, inPoll_, currentlyHandling_, registry, wakeupTime_, call>>
    /\ Aside

(* The handler that an event of s belongs to, if it is still there.        *)
Found(s) == s \in DOMAIN pollHandlers_ /\ pollHandlers_[s].cookie \in DOMAIN handlers_

CallHandler(s, op, rest, back) ==
    LET h == pollHandlers_[s].cookie IN
    /\ currentlyHandling_' = h
    /\ cur' = [h |-> h, op |-> op, rest |-> rest, back |-> back]
    /\ at' = "handle"

(* One event: of the same descriptor, reading comes before writing.        *)
Dispatch(s, op) ==
    /\ at = "events" /\ <<s, op>> \in ev
    /\ op = "w" => <<s, "r">> \notin ev
    /\ IF Found(s) /\ op \in pollHandlers_[s].pollEvents
       THEN CallHandler(s, op, {}, "events")
       ELSE UNCHANGED <<at, cur, currentlyHandling_>>
    /\ ev' = ev \ {<<s, op>>}
    /\ UNCHANGED <<count, inPoll_, registry, wakeupTime_, signals, call>>
    /\ Aside

(* handleRead() and handleWrite(): the first request is served and its     *)
(* callback called, or there is more of it to come.                        *)
Serve ==
    /\ at = "handle"
    /\ queue[cur.h][cur.op] > 0
    /\ queue' = [queue EXCEPT ![cur.h][cur.op] = @ - 1]
    /\ handedOut_' = handedOut_ \cup ({cur.h} \cap Connectors)
    /\ call' = [call EXCEPT ![Run] = Call("update", cur.h, None)]
    /\ GoTo("callback")
    /\ UNCHANGED <<load, open, sock, life, registry, timers, signals, stopping_>>

ServePart ==
    /\ at = "handle" /\ cur.h \notin Connectors
    /\ cur.op = "w" \/ load.kind = "udt"
    /\ GoTo("return")
    /\ UNCHANGED <<registry, wakeupTime_, signals, call>>
    /\ Aside

(* A readFrom() that drains the socket goes on to the next request, unless *)
(* the callback has closed the handle, and the connection with it.         *)
Drain ==
    /\ at = "callback" /\ call[Run] = Idle /\ load.kind = "sys" /\ cur.op = "r"
    /\ life[cur.h] # "gone" /\ queue[cur.h]["r"] > 0
    /\ GoTo("handle")
    /\ UNCHANGED <<registry, wakeupTime_, signals, call>>
    /\ Aside

(* The handler has returned.  A broken UDT socket is read after it was     *)
(* written, if the handler is still there.                                 *)
Return ==
    /\ at \in {"callback", "return"} /\ call[Run] = Idle /\ cur.h # None
    /\ IF cur.rest # {} /\ cur.h \in DOMAIN handlers_
       THEN /\ at' = "handle"
            /\ cur' = [cur EXCEPT !.op = "r", !.rest = {}]
            /\ UNCHANGED <<currentlyHandling_, call>>
       ELSE /\ at' = cur.back
            /\ cur' = NoCall
            /\ currentlyHandling_' = None
            /\ call' = Notified(call)
    /\ UNCHANGED <<ev, count, inPoll_, registry, wakeupTime_, signals>>
    /\ Aside

(* All events are handled.  processTokens() takes the lock and sees how    *)
(* many callbacks there are.                                               *)
EventsDone ==
    /\ at = "events" /\ ev = {}
    /\ IF load.kind = "sys"
       THEN at' = "tokens" /\ count' = 2 * Len(tokens_)
       ELSE at' = "sweep" /\ UNCHANGED count
    /\ UNCHANGED <<ev, cur, inPoll_, currentlyHandling_, registry, wakeupTime_, signals, call>>
    /\ Aside

Due == tokens_ # <<>> /\ Head(tokens_).left = 0

(* Mutant of RunToken: callbacks run as long as there are any.             *)
RunTokenUnbounded ==
    /\ at = "tokens" /\ Due
    /\ tokens_' = Tail(tokens_)
    /\ at' = "callback"
    /\ cur' = [NoCall EXCEPT !.back = "tokens"]
    /\ UNCHANGED <<load, users, registry, wakeupTime_, ev, count, inPoll_, currentlyHandling_,
                   signals, stopping_, call>>

(* processTokens().                                                        *)
RunToken ==
    /\ at = "tokens" /\ count > 0 /\ Due
    /\ tokens_' = Tail(tokens_)
    /\ count' = count - 1
    /\ at' = "callback"
    /\ cur' = [NoCall EXCEPT !.back = "tokens"]
    /\ UNCHANGED <<load, users, registry, wakeupTime_, ev, inPoll_, currentlyHandling_,
                   signals, stopping_, call>>

TokenDone ==
    /\ at = "callback" /\ call[Run] = Idle /\ cur.h = None
    /\ at' = "tokens" /\ cur' = NoCall
    /\ UNCHANGED <<ev, count, inPoll_, currentlyHandling_, registry, wakeupTime_, signals, call>>
    /\ Aside

TokensDone ==
    /\ at = "tokens" /\ ~(count > 0 /\ Due)
    /\ at' = "updates" /\ count' = 0
    /\ UNCHANGED <<ev, cur, inPoll_, currentlyHandling_, registry, wakeupTime_, signals, call>>
    /\ Aside

(* The last step of the loop, and the one after it.                        *)
Updates ==
    /\ \/ at = "updates" /\ at' = "top"
       \/ at = "top" /\ stopping_ /\ at' = "ended"
    /\ processUpdates
    /\ UNCHANGED <<handlers_, ev, cur, count, inPoll_, currentlyHandling_, wakeupTime_, signals, call>>
    /\ Aside

(* UDTReactor does it twice, and in between goes through all handlers for  *)
(* sockets that were lost: the UDT library does not report those.          *)
Sweep ==
    /\ at = "sweep"
    /\ processUpdates
    /\ at' = "broken"
    /\ ev' = {<<s, "w">> : s \in DOMAIN pollHandlers_'}
    /\ UNCHANGED <<handlers_, cur, count, inPoll_, currentlyHandling_, wakeupTime_, signals, call>>
    /\ Aside

Broken(s) ==
    LET E == pollHandlers_[s].pollEvents IN
    /\ at = "broken" /\ <<s, "w">> \in ev
    /\ ev' = ev \ {<<s, "w">>}
    /\ \/ UNCHANGED <<at, cur, currentlyHandling_>>
       \/ /\ Found(s) /\ E # {}
          /\ IF "w" \in E THEN CallHandler(s, "w", E \ {"w"}, "broken")
                          ELSE CallHandler(s, "r", {}, "broken")
    /\ UNCHANGED <<count, inPoll_, registry, wakeupTime_, signals, call>>
    /\ Aside

SweepDone ==
    /\ at = "broken" /\ ev = {}
    /\ GoTo("updates")
    /\ UNCHANGED <<registry, wakeupTime_, signals, call>>
    /\ Aside

(* main(), when all handlers are gone: processUpdates(), and the reactor   *)
(* is destroyed.                                                           *)
Finish ==
    /\ at = "ended"
    /\ \A h \in Handlers : life[h] \in {"unborn", "gone"}
    /\ \A t \in Everyone : call[t] = Idle
    /\ processUpdates
    /\ GoTo("destroyed")
    /\ UNCHANGED <<handlers_, wakeupTime_, signals, call>>
    /\ Aside

-----------------------------------------------------------------------------
Used == DOMAIN load.uses

Using(t) ==
    \/ \E h \in Used : remove(t, h)
    \/ \E h \in Used, s \in load.socks : add(t, h, s)
    \/ \E h \in Used, op \in Ops : request(t, h, op)
    \/ \E i \in load.tokens, d \in 0..MaxDelay : post(t, i, d)
    \/ stop(t)

Finishing(t) == update(t) \/ wake(t) \/ close(t) \/ \E g \in Used : handOver(t, g)

Looping ==
    \/ Start \/ Poll \/ PollWoken \/ PollEnd \/ signalRd
    \/ \E s \in Socks, op \in Ops : Dispatch(s, op)
    \/ Serve \/ ServePart \/ Return
    \/ EventsDone \/ RunToken \/ TokenDone \/ TokensDone \/ Updates
    \/ Sweep \/ SweepDone \/ \E s \in Socks : Broken(s)

Next ==
    \/ Looping \/ PollReady \/ Drain \/ Finish \/ Tick
    \/ \E t \in Everyone : Using(t) \/ Finishing(t)

Spec == Init /\ [][Next]_vars

(* run() is called and goes on: handlers and callbacks return, a socket    *)
(* can be drained and epoll_wait is not interrupted for ever.  A thread    *)
(* finishes the operation it is in.  Time passes.  Nothing else has to     *)
(* happen; in particular no descriptor need ever be ready.                 *)
FairSpec ==
    /\ Spec
    /\ WF_vars(Looping) /\ WF_vars(Tick)
    /\ SF_vars(Return) /\ SF_vars(PollEnd /\ at' = "events")
    /\ \A t \in Everyone : WF_vars(Finishing(t))

-----------------------------------------------------------------------------
TypeOK ==
    /\ load \in Workloads
    /\ DOMAIN handlers_ \subseteq Handlers
    /\ \A h \in DOMAIN handlers_ : handlers_[h] \subseteq Ops
    /\ DOMAIN pollHandlers_ \subseteq Socks
    /\ \A s \in DOMAIN pollHandlers_ :
        pollHandlers_[s] \in [cookie : Handlers, pollEvents : SUBSET Ops, notInEpoll : BOOLEAN]
    /\ open \subseteq Socks /\ DOMAIN epoll \subseteq Socks
    /\ sock \in [Handlers -> Socks \cup {None}]
    /\ queue \in [Handlers -> [Ops -> 0..MaxQueue]]
    /\ signals \in 0..MaxSignals

(* What a handler may rely on, whatever the other threads do meanwhile.    *)
(* It is called only while it exists, has its handle and has a request to  *)
(* serve (the assertions of handleRead and handleWrite), and once remove() *)
(* has returned to another thread it is not being called.  No two handlers *)
(* of the loop share a descriptor, although the kernel reuses them (the    *)
(* assertions of processUpdates), and nothing is left when the reactor is  *)
(* destroyed (the assertions of reset).                                    *)
HandlersSafe ==
    /\ TypeOK
    /\ at = "handle" => /\ life[cur.h] \in {"live", "closing"}
                        /\ sock[cur.h] # None
                        /\ queue[cur.h][cur.op] > 0
    /\ call[Run].op = "update" => life[call[Run].h] # "gone"
    /\ \A t \in Threads : call[t].op = "close" => currentlyHandling_ # call[t].h
    /\ \A h \in DOMAIN handlers_ :
        sock[h] \in open /\ \A g \in DOMAIN handlers_ : sock[g] = sock[h] => g = h
    /\ at = "destroyed" => DOMAIN handlers_ = {} /\ DOMAIN pollHandlers_ = {}

(* The kernel polls what pollHandlers_ says it does, and only descriptors  *)
(* that are open, although these are closed and reused while run() looks   *)
(* elsewhere: so no epoll_ctl fails, and no event of a closed descriptor   *)
(* is taken for one of its successor.                                      *)
EpollInStep ==
    /\ DOMAIN epoll = {s \in DOMAIN pollHandlers_ :
                         pollHandlers_[s].pollEvents # {} /\ ~pollHandlers_[s].notInEpoll}
    /\ \A s \in DOMAIN epoll : s \in open /\ epoll[s] = pollHandlers_[s].pollEvents
    /\ \A s \in DOMAIN pollHandlers_ :
        pollHandlers_[s].notInEpoll => pollHandlers_[s].cookie \notin DOMAIN handlers_

(* The loop does not sleep on what it does not know: while it is in        *)
(* epoll_wait and no signal is under way, it polls every handler for just  *)
(* what is in its queues, wakes up in time for the first callback, was not *)
(* told to stop, and nobody waits for the poll to end.                     *)
NoLostWakeup ==
    at = "poll" /\ signals = 0 =>
        /\ \A h \in DOMAIN handlers_ :
            \/ \E t \in Threads : call[t].op = "update" /\ call[t].h = h
            \/ /\ sock[h] \in DOMAIN pollHandlers_ /\ pollHandlers_[sock[h]].cookie = h
               /\ pollHandlers_[sock[h]].pollEvents = getPollEvents(h)
        /\ \A j \in DOMAIN tokens_ : wakeupTime_ # None /\ wakeupTime_ <= tokens_[j].left
        /\ ~stopping_
        /\ \A t \in Threads : call[t].op \in {"wait", "woken"} => call[t].passed

(* close() returns, on every thread, although it waits for the poll and    *)
(* for the handler.                                                        *)
CloseReturns == \A h \in Handlers : life[h] = "closing" ~> life[h] = "gone"

(* run() returns when it was told to stop, even if callbacks keep posting  *)
(* others and handlers are never short of requests.                        *)
Stops == stopping_ ~> at \in {"ended", "destroyed"}

(* A callback that was posted is run, unless the reactor is stopped, even  *)
(* if callbacks keep posting others.                                       *)
TokensRun ==
    \A i \in Tokens :
        (\E j \in DOMAIN tokens_ : tokens_[j].id = i)
            ~> (stopping_ \/ \A j \in DOMAIN tokens_ : tokens_[j].id # i)

=============================================================================
