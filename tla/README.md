# DTun in TLA+

DTun builds tunnels between nodes behind NATs. This directory holds TLA+ models
of its components, the TLC configurations that check them on small instances and
TLAPS proofs about them. `PROJECT.json` lists the components, the runs, the
source lines behind every definition, the hazards the properties are aimed at
and the theorems.

## The system

| Part | Source | What it does |
|------|--------|--------------|
| dmaster | `dmaster/Server.cpp`, `Session.cpp` | rendezvous server: knows the nodes, pairs the two ends of a connection, relays what they need for hole punching |
| client of dmaster | `dnode/DMasterClient.cpp` | registers connections, queues and starts rendezvous, hands out the results |
| rendezvous sessions | `dnode/Rendezvous*Session.cpp` | hole punching: Fast (both ends behind ordinary NATs), SymmConn and SymmAcc (one end behind a symmetric NAT) |
| port allocator | `dnode/PortAllocator.cpp`, `PortReservation.cpp` | rations NAT mappings among sessions and keeps used ones in quarantine |
| proxy | `dnode/ProxySession.cpp`, `DNodeProxyTCPClient.cpp` | pumps data between tunnel and local connection, on the accepting and on the connecting side |
| tun2socks | `dnode/tun2socks.c`, `main.cpp` | badvpn's tun2socks with DTun's clients hooked in |
| reactors | `dutil/SysReactor.cpp`, `UDTReactor.cpp`, `OpWatch.cpp` | poll loops, posted calls and timers, and the watch that keeps callbacks away from dead objects |
| transports | `dutil/LTUDP*.cpp`, `UTP*.cpp`, `UDT*.cpp`, `Sys*.cpp` | streams over UDP sockets that were used for hole punching, and plain TCP |
| MTU discovery | `dutil/MTUDiscovery.cpp` | search for the path MTU |
| rest | configuration, logging, signals, `dcat` | no state of interest |

A node runs tun2socks' main thread, which registers and closes connections, and
the thread of the reactor of its sockets. If tunnels run over UDT the connection
to the server is on a reactor thread of its own; with LTUDP and UTP there is one
reactor thread. The server runs on one thread.

## Modules

| Module | Models | State and actions |
|--------|--------|-------------------|
| `PortAllocator` | port allocator | `ports_` as functions of the port id (status, ticks to the decay time), counters, request queues, reactor tokens; one action per operation, the reactor callbacks `onProcessRequests` and `onDecayTimeout` cut where they give up the mutex |
| `Server` | dmaster | sessions with the fields of `Session`, `conns_`; one action per message and for accept and error. `sent` is what the last step wrote; `told` is a history of what each client was told |
| `DMasterClient` | client of dmaster | `connStates_`, `rendezvousConnIds_`, `conn_`, the mutex and, for each thread, the calls it still has to make: the code gives up `m_` around every call out of the class, so a handler is a first step and a stack of calls. The sessions and the server are there by contract |
| `Rendezvous` | nodes and server together | instances of the two modules above, with the FIFO connections between them, which may break |
| `RendezvousSession` | what the rendezvous sessions have in common | the base class, `DMasterSession` (one hello) and what `DMasterClient` and the server do for two sessions: start, relay in order, close. A handler is an operator from a session to a set of outcomes (new state, message, report), so that it reads like the method and its error returns |
| `RendezvousFast` | `RendezvousFastSession` | owner and peer of a connection; one operator per method, one action per callback. `pings` are the pings on their way, which stay there: a ping may be lost, late or doubled |
| `RendezvousSymm` | `RendezvousSymmConnSession`, `RendezvousSymmAccSession` | the connecting end behind the symmetric NAT and the accepting end, either of which may own the connection |
| `RendezvousSessions` | the two kinds side by side | a rendezvous of either kind, with the fairness and the properties of both |
| `OpWatch` | operation watch | `state_`, `inCallback_`, the places of the threads; a step is what a thread does with the mutex held |
| `MTUDiscovery` | MTU discovery | the search interval, the timer, the answers on their way |
| `ProxySession` | proxy on the accepting side | the connections' pending reads and writes, the ring buffers as sets of places |
| `TunClient` | proxy on the connecting side | `c`, `d` and `p` are the TCP client of tun2socks, its `DNodeProxyTCPClient` and the `ProxyTCPClient` inside; badvpn's jobs and the signal pipe; every `ASSERT` on the way sets `fault` |
| `Reactor` | `SysReactor`, `UDTReactor`, and `SysConnection`, `SysConnector` and their UDT twins as far as a reactor sees them | `handlers_`, `pollHandlers_`, `tokens_`, the kernel's epoll set and its descriptors; the loop cut where it gives up the mutex, the operations of users on any thread, those inside handlers and posted callbacks included |
| `TransportHandles` | what `LTUDPManager` and `UTPManager` have in common | handles, the UDP ports they hold, `addToKill`, `onKillHandles`, the timers that keep a transport |
| `LTUDP`, `UTP` | the managers with their handle implementations | `connCache_` with its routes (`portMap`, `revPortMap`), counts and local ports; binding, connecting, listening, accepting, datagrams in and out, failure and close. lwIP's pcbs and libutp's sockets are what the code gets to know of them |
| `StreamConnection` | `LTUDPConnection`, `UTPConnection` | the queues of reads and writes of one connection against a protocol that takes, acknowledges, refuses and delivers |
| `Transports` | the transports a program chooses from | the three modules above, of which a behaviour takes one |
| `PortAllocatorProofs`, `ServerProofs`, `DMasterClientProofs`, `ProxySessionProofs`, `ReactorProofs`, `OpWatchProofs`, `MTUDiscoveryProofs` | | theorems and their proofs |
| `DMasterClientLemmas` | | the first half of the proofs about `DMasterClient` |
| `MC...` | | constants for TLC |

### Abstractions

* Payloads are gone: addresses, buffers, wording. A message is its code, the
  connection's id and, where it matters, the mode. `Server` distinguishes error
  codes, `DMasterClient` does not, as the code does not.
* `DMasterClient` takes the rendezvous sessions by contract: a started session
  reports once, from a reactor thread or from within `onMsg`/`onEstablished`;
  its destructor waits for callbacks other threads are in (`OpWatch::close`). The
  relayed messages are passed on unread.
* `DMasterClient` takes the server by the contract `Serve`; `Rendezvous` shows
  that `Server` keeps it and that the clients keep to what `Server` expects of them
  (`ContractsKept`).
* In `Rendezvous` a thread that has calls left runs until the node is settled
  before the server or another node goes on (`Settled`). Its steps touch the node's own
  variables, append to the node's outgoing queue and extend `begun`, so they commute with
  the steps that are put off. Threads of one node interleave freely.
* Time in `PortAllocator` is a `Tick` that passes between any two steps; a
  duration is a number of ticks.
* The session modules take the server as two FIFO queues that relay (which
  `StreamsWellFormed` of `Server` justifies) and cancel the other end. A NAT is the set of
  pings that get through; an address is the number of a socket.
* `RendezvousSymm` does not compute predicted ports: which socket a ping reaches is
  left open.
* In `ProxySession` and `TunClient` a buffer is a number of bytes or of places; reads end
  with any number of bytes. The connections of `TunClient` follow `LTUDPConnection`, which may
  answer one read twice (data, then an error).
* `TunClient` takes destruction as one step: `~ProxyTCPClient` waits for callbacks
  that are running (`OpWatch`), and they wait for nothing of the main thread.
* `Reactor` leaves out what is read and written: a request is served, partly
  served, or fails. Descriptors are reused by the kernel at once. `sys` and `udt`
  workloads differ as the two classes do: UDTReactor has no posted callbacks, its poll ends by
  itself, a read may be partial, and sockets that were lost are swept.
* In `LTUDP` and `UTP` an address is an ip and the port the peer believes it has
  (`id`); `Udp` gives the UDP ports its NAT may map it to. What a peer sends may arrive
  late, from a port it had before. A lost datagram is one that is not delivered.
* `StreamConnection` counts bytes. `write` and `read` of the code are posted to the reactor
  thread, so callbacks never nest; the model's actions are what runs there.
* A post to the reactor that follows the unlock at the end of an operation of the
  port allocator is part of the operation.

## Runs

| Run | Question | Instance | Distinct states |
|-----|----------|----------|-----------------|
| `port_allocator` | Do counters, queues, timer and quarantine stay consistent under every interleaving? Is a grantable head request served while the reactor is woken? | 3 reservations, pools of 1 and 2 ports, decay 2 | 248 k |
| `server` | Is there one persistent session per node, no end left waiting? Do messages fit what the client knows? | 3 nodes, 3 sessions, any NATs, reconnects | 66 k |
| `master_client` | Do the queue, the statuses on the wire and the lock stay in order? | 1 node against the contract of the server; two own connections, or one own and one incoming | 488 k |
| `rendezvous` | Do client and server keep each other's contracts, do the ends agree, is a registered connection answered, once? Do two queues ever wait for each other? | 2 nodes; 1 connection with closes and breaks, or 2 in opposite directions | 185 k |
| `rendezvous_sessions` | Do the handlers of two Fast sessions, and of SymmConn and SymmAcc, fit each other over all steps, do both end, and agree on the sockets? | Fast: TTLs 2 to 65 and 3 steps, as in the code; Symm: 3 sockets, 3 windows of 2 ports, 3 final pings; pings and hellos may be lost | 38 k |
| `op_watch` | No callback after close? Does a waiting close return? | 3 threads and the reactor, callbacks that close | 239 |
| `mtu_discovery` | Is what is reported true and as precise as meant, and does the search end? | the code's interval, precision and tries, every path MTU from 1000 to 1500, any loss | 73 k |
| `proxy_session` | Are the rings intact, do the pumps run and end? | rings of 5, chunks of 2 | 81 k |
| `tun_client` | Do the asserts hold, is no wakeup lost, do the pumps run, is a half-closed client freed? | window and buffers of 2 | 132 k |
| `reactor` | Is a handler left alone once its close returned, does epoll follow the handlers, does a change wake the loop, does everything come to an end? | 1 user thread and the loop; 2 connections, or a connector that hands its socket over, or callbacks that post callbacks; 2 descriptors | 96 k |
| `transports` | Are counts and routes exact whatever fails or is closed, does what is sent reach the peer, is no read or write forgotten, does a port become free? | 3 handles on 2 UDP ports in the ways in which DTun uses them: probe, both ends of a rendezvous, server, node; or one stream of 5 bytes | 174 k |
| `transports_stale` | Does everything that is sent have a route (`assert(actualPort != 0)`)? No: see below | as `transports`, with uTP | violated |

Every property has a mutant in `PROJECT.json`: a plausible mistake in one
definition with which TLC finds the property violated.

### Bounds

The bounds are the smallest at which the interesting cases happen. Three
reservations compete for two pools that each fit one window, so that a request waits
while ports are held, kept alive or decaying; a decay of two ticks leaves room between use
and reuse. Three sessions for three nodes let a node reconnect while its old
session lives. One own and one incoming connection is the least that puts
both kinds into one queue, two own connections the least that makes one wait; `Bound`
of `MCDMasterClient` leaves out the states with all three.
A ring of five places read in chunks of two fills, wraps and splits a write, and is
left with one free place. Three windows of two ports and three sockets let a window
fail before one succeeds and let both ends run out. Fast sessions and the MTU search
run with the numbers of the code. `MaxSignals` bounds the bytes in the signal pipe.
`MaxWire` bounds the messages on the way to a node, not those it sends.
`MaxConnIdx` bounds the registrations of a node. `MaxPosted` bounds the tokens
posted to the reactor.

Two descriptors and three handlers make the kernel reuse one while the loop still knows
its last owner; two tokens that may post each other again with a delay of 0 or 1
are enough for a loop of callbacks, and one queued request of each kind for a handler
that is never idle. Three handles are two on one port and a spare one for what is
accepted, or for the next owner of a port that lingers. Two clients behind one address, one
of which changes its port, are the least for which a route could be taken for another. Writes
of one and two bytes against a buffer of three are acknowledged one by one, together and
in part.

### Deadlock

The runs of `DMasterClient` and `Rendezvous` end: once every connection was
registered and closed nothing is left to do. They do not check for deadlock;
the stall that matters, a destructor that waits with the mutex held, is
`NoWaitUnderLock`, and `Answered` would not hold if threads blocked each other.
So do the runs of one rendezvous, one watch, one search, one proxy session and
one client, the runs of a reactor that is told to stop and of handles and streams that are
closed, each of which is over at some time: that they do not stop too early is
`Terminates`, `CloseReturns`, `Ends`, `EndsWhenFlushed`, `Reclaimed`, `TokensRun` and `Reusable`.

### Fairness

`PortAllocator`: the reactor thread runs what is due and time passes; sessions
are free to do nothing. `Rendezvous`: threads run, messages on an unbroken
connection arrive, a broken one is noticed by both ends, and a rendezvous
session comes to an end when both ends have been started and it is the end that runs out
of attempts (the Fast owner's TTL loop, the SymmAcc end's timers), or when the
other end was successful. That is what `Terminates` shows, under
the fairness of the reactor, of message delivery and of the port allocator; pings need not
arrive. Users and proxy sessions are not assumed to do anything. `OpWatch`: a callback
ends and a woken thread runs. `MTUDiscovery`: the timer goes off. `ProxySession`: a
write is done or fails. `TunClient`: both threads run, writes, connects and
handshakes are done or fail, the timer goes off, and lwIP confirms what it sent or gives
the client up; applications and servers need not send or close anything. `Reactor`: the
loop goes on, handlers and callbacks return (strongly fair: they may be kept from it by
operations they are in), epoll_wait is not interrupted for ever, a thread finishes
the operation it is in, and time passes; no descriptor need ever be ready.
`Transports`: the reactor runs `onKillHandles` and its timers; nothing is assumed of users,
peers or the network.

## Proofs

`PortAllocatorProofs` proves for every number of ports, window sizes, decay
time and reservations:

* `AllocatorInvariant`: `TypeOK` and `Consistent` (`Accounting`, `Ownership` and
  `QueueSound`). `Accounting`
  needs that a reservation's ports are of one class, because the code reads the
  class off the last port; `QueueSound` gives that a granted reservation had no
  ports before.
* `DecayTimerSafe`: `DecayTimerArmed`. It is inductive only together with the above: a decay is started by
  an owner of ports, and `onDecayTimeout` is between two holds of the mutex when others start theirs.
* `QuarantineKept`: `ReusedOnlyWhenCool`. The invariant behind it relates the
  history of each port (ticks since it carried traffic) to the ticks left until its decay time,
  and says which ports never decay: those of reservations that were kept alive.

The assumptions are the named ones of `PortAllocator`: the ports are a finite set of
`NumSymmPorts + NumFastPorts`, windows, decay time and bounds are positive.

`ServerProofs` proves for any sets of nodes, sessions, indices and ports:

* `ServerInvariant`: `TypeOK` and `SessionsSound` (`OnePersistent`, `ConnSound`,
  `EndsAreTold`). The
  inductive invariant adds `Named`: a persistent session carries a node's id. `EndsAreTold` needs `ConnSound` (the ends of an entry are live
  and differ) and `OnePersistent`.
* `ServerStreams`: `StreamsWellFormed`, from the same invariant.

`DMasterClientProofs` proves for any nodes, any bounds on the ids that they use and any number of
messages on the way (`ClientAssumption`):

* `ClientTable`: `TableSound`, that is `QueueSound` with the types, and `StatusExpected`;
* `ClientOneSymm`: `OneSymmConn`;
* `ClientNoWait`: `NoWaitUnderLock`, for `Local = "R"`. With a second reactor thread it is false (see
  the observations).

None of the three is inductive. The invariant `IInv` says of each node, in terms of values only, what
its table and queue are (`Table`), what may be on the wires (`Wire`) and what
each thread may still have to do (`Stacks`, `Lock`). `Table` is `QueueSound` and `OneSymmConn` together, which need each other: the
queue says which entries have no session started. `Wire` says
that a request, its answer and an offer of a connection are each on the way once at most, never a request
together with its answer, and only for an entry that waits for it or for one that is gone; and that the ids in the table
were made up here or heard of before: else a PENDING could find an entry
that no longer waits for it, and an offer an id that is in the table already. `Stacks` is
there because a handler goes on after it gave up `m_`: a call that is left over is about a session that was started.
A step at one node leaves the others alone (`Frame`), so that each action is
about one table, one queue and two wires, and its proof cites what `push_back`, `remove`, an assignment to
an entry, a message sent and a message read do to those (the lemmas in `DMasterClientLemmas`, which also has
the handlers of messages and the user's calls; the other actions, the
server's contract and the theorems are in `DMasterClientProofs`).

`ProxySessionProofs` proves for every `BuffSize` and `ChunkSize`:

* `ProxyBuffers`: `BuffersIntact`. The invariant behind it is `Ring`: the writes under way cut the
  occupied part of the ring into consecutive pieces, oldest first, and their sizes add up to the counted bytes.
  The places of a ring are compared by their age, how long ago they were filled (the distance back from the
  place that is filled next, modulo `BuffSize`), so that a ring that wraps is no case of its own.
* `ProxyPumps`: `PumpsRun`, from the same invariant.
* `ProxyCallback`: `CalledBackOnce`, if `start()` runs on the reactor's thread (`OneReactor`).

`ReactorProofs` proves for any handlers, descriptors, threads and workloads, for both reactors:

* `ReactorHandlers`: `HandlersSafe`;
* `ReactorEpoll`: `EpollInStep`.

The inductive invariant gives every descriptor one owner, a handler or a close that is about to give it back (`Owned`);
says that what the loop knows of a descriptor is about its owner or is out of the kernel's set
(`Registered`); where the loop is and whether the handler that it calls is there (`Control`,
`Present`); and that every event the loop has still to look at has a request in a queue
(`Wanting`, `Awaited`, `Serving`). The last three are what the assertions of `handleRead` and `handleWrite` need:
an event outlives the moment it was asked for, so they follow it from `update` through the poll to the call.

`OpWatchProofs` proves for any set of threads, with callbacks that close the watch
or not:

* `OpWatchSafe`: `TypeOK`, `NoCallbackAfterClose` and `OneCloser` (exactly one `close()`
  returns true). The inductive
  invariant adds where a thread can be in which state: nobody waits or has returned while
  the watch is active, and a closed watch has no callback running but one that closed
  it.

`MTUDiscoveryProofs` proves for every interval, precision and number of tries and any paths:

* `SearchCorrect`: `TypeOK`, `ProbeFits`, `Accurate`. The inductive
  invariant relates the answers on their way to the current size, the interval to the
  path, and the end of the search to the size of the interval. `missed` is a history: the
  sizes that were given up although they get through. `Accurate` has the premise
  that there are none.

`TypeOK` of `PortAllocator`, `Server`, `OpWatch` and `MTUDiscovery`, `OneCloser` and `ProbeFits` are conjuncts of the
theorems and of no run: the proofs cover the instances of the runs.
The other modules' `TypeOK` is the first conjunct of a property that TLC checks.

The line `USE ZenonT(3), SMTT(30)` in the longer modules sets how long each prover tries a step. Each module is
checked from nothing in one to fifteen minutes.

Only model-checked:

* liveness, which needs fairness and ENABLED;
* `NoLostWakeup` of `Reactor`, whose inductive invariant has yet to be found: it follows every update of a handler
  and every posted callback through the places where the loop gives up its mutex;
* `Rendezvous` (`Agreement`, `CallbackDiscipline`, `ContractsKept`), the rendezvous sessions, `TunClient` and the
  transports. Of the composition, `ClientTable` and `ServerStreams` prove the
  part that each end has in it, against the other's contract.

## A finding

`transports_stale`: `onKillHandles` keeps the transport of a closed uTP handle for 250 ms or 1 s
(`UTPManager.cpp` 739-759), while libutp retransmits the FIN until it is acknowledged. When
the UDP port is bound again meanwhile, as a rendezvous session does with the port of its
hello, `utpSendToFunc` finds the new transport, which has no route to the old peer, and
`assert(actualPort != 0)` (419) fails; without assertions the datagram goes to port 0. It takes
a lost acknowledgement, or a round trip that is longer than the timer.
`LTUDPManager.cpp` 445 has the same assertion and the same way to it for connections
that are closed without abort.

## Observations

Things the models brought up that no property states, because the
repository says nothing to the contrary.

* With UDT the sessions' sockets and the server connection are on different reactor
  threads. `DMasterClient::onRecvMsgConnStatus` (662-666) and `onRecvMsgOther`
  (718-727) drop their copy of the session with `m_` held. If the entry was erased
  meanwhile this is the last reference, and its destructor waits for
  a callback of the session that waits for `m_`. With `Local = "L"` TLC refutes
  `NoWaitUnderLock`; the runs use one reactor thread.
* A connection's callback may be told of success and then of failure: the peer gave up
  while the success was on its way to the server. `CallbackDiscipline`
  allows exactly this.
* A node that lost the server never reconnects, and its queued connections
  are never answered.
* A port whose decay time passes between the grants and the scan of
  `PortAllocator::onDecayTimeout` is not noticed until the next post; `HeadServed` has
  that premise.
* Fast: an owner that went on to its next step has reset `pingConn_`
  (`RendezvousFastSession.cpp` 271) and kept `destIp_`. If the peer's success
  of the last step arrives then, `onEstablished` (229) uses the null pointer. The model has
  the outcome `"crash"` for it and TLC reaches it; `HandlersSafe` states the peer's case.
* Fast: an owner without best-effort ports is not `ready_` when its first FAST
  arrives, sends a second READY and goes through a second round of hellos.
* Fast: if a hello is lost after `onHelloSend`, neither end has a timer that would
  notice; `Terminates` exempts it.
* Symm: if every final ping is lost the accepting end reports success and the
  connecting end fails with `onEstablishedTimeout`.
* `OpWatch`: a callback that closes the watch it runs under sets `StateClosed`, and then
  does not notify a thread that already waits in `close()`. `CloseReturns` exempts
  this case (`inside`); without the exemption TLC refutes it. The shape occurs where `onHelloSend` closes the connection whose
  callback it is (`RendezvousFastSession.cpp` 366) while another thread destroys the session.
* `ProxySession`: after the local end of file a session with nothing left to send waits for
  the remote end. With two reactor threads (UDT), a `start()` that fails after the
  remote `connect()` lets `onRemoteConnect` call an empty `callback_`
  (`OneReactor = FALSE`).
* `LTUDPConnection::onHandleRead` (178-182) may answer one read with data and then with
  an error. `ProxyTCPClient` then reports the error without the last data, and
  `ProxySession::onRemoteRecv` ends although data for the local end are buffered.
* `TunClient`: if the connect timer goes off while the handshake is being answered,
  `state_` returns from `STATE_ERR` to `STATE_UP` after `reactorSignal_` was cleared: tun2socks
  sees the connection up, and nobody signals any more (`UpAfterTimeout`).
* `DMasterClient::onRendezvous` takes the session out of the entry, gives up `m_` and calls
  the entry's callback (821). A `closeConnection` in between finds no session
  to wait for and returns, and the `ProxyTCPClient` may be gone when the callback runs.
* After `tcp_write` refused, `LTUDPConnection::onHandleWrite` answers all writes with
  an error and clears the queue, but bytes it had handed out may still be acknowledged, and
  `assert(!writeQueue_.empty())` (99) fails unless the user has closed the connection by then. The model
  ends with the refusal.
* At end of file `LTUDPConnection` answers a read with the data that fit and at once with the error,
  although more are buffered: the tail is lost.
* LTUDP: a `connect` whose `getaddrinfo` fails on the reactor thread leaves a count in
  `numHandles` that nobody gives back (`leaks`); the transport is dropped all the same.
* UTP: a reset that reaches a dead socket in the 50 ms before it is looked at leaves it
  undestroyed until the process ends.
* UTP: the firewall callback looks through all transports for the one that a connection
  came in on. It finds the right one because uTP ports are random.

## Plan

1. `DMasterClient` and `ProxyTCPClient` together: the hand-over of a connection and its
   close from the main thread.
2. Refinement: the sessions implement the contract that `DMasterClient` takes from them.
3. Proofs: that `Rendezvous` keeps the contracts of its two ends, step by step; the routes and counts
   of the transports for any number of handles.

## Not modelled

Third-party code (lwIP, libutp, UDT, badvpn) and code without state of its
own: configuration, logging, signal handling, formatting, `dcat`. Process exit
(the destructors of the long-lived objects) is left out of the models of the
objects it ends. Of what is modelled, these are left out:

* the probe and the first hello of `DMasterClient`, a chain of callbacks in which nothing
  else runs yet;
* UDP forwarding, the device and the direct client of tun2socks, which are badvpn's;
* a UDP socket that cannot be bound, and the error of its read, after which a transport hears
  nothing more;
* the search for an out port in network byte order (`LTUDPManager::pcbConnect`), which
  overlaps with ports in use only after 256 routes to one address;
* the helper thread of a UDT rendezvous connect, and UDT's acceptors;
* an `epoll_wait` that fails otherwise than by EINTR.

Of the files under `src/` about 195,000 lines are lwIP, libutp, UDT and badvpn as their authors
wrote them, against some 15,000 of DTun's own. The definitions here stand for about half of
the latter, and the vendored code appears only as what DTun sees of it: a faithful model of
a TCP stack, of two transport protocols and of tun2socks' libraries would be
another project, and none of it is about tunnels.
