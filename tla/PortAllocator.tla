--------------------------- MODULE PortAllocator ---------------------------
(***************************************************************************)
(* dnode's pool of NAT port mappings (dnode/PortAllocator.cpp,             *)
(* PortReservation.cpp).  A rendezvous session reserves a window of ports  *)
(* of one class, Symm or Fast, either at once or through a FIFO of         *)
(* requests served on the reactor thread; it "uses" the ports, which puts  *)
(* them in quarantine for DecayTimeout, "keeps alive" the one port the     *)
(* tunnel ends up on, and frees the reservation by destroying it.          *)
(*                                                                         *)
(* Any thread may call the allocator; every call holds the mutex m_ for    *)
(* its whole effect, so a call is one action.  The two reactor callbacks,  *)
(* onProcessRequests and onDecayTimeout, keep m_ from one step to the      *)
(* next and give it up only around a requester's callback: locked records  *)
(* that.  Time is a Tick and passes between any two steps, also while m_   *)
(* is held.                                                                *)
(***************************************************************************)
EXTENDS Naturals, Sequences, FiniteSets

CONSTANTS
    Ports,          \* the ids of the ports of ports_
    NumSymmPorts,   \* numPorts_[0]
    NumFastPorts,   \* numPorts_[1]
    SymmWindow,     \* ports of one Symm reservation (300 in the sessions)
    FastWindow,     \* ports of one Fast reservation (2 in the sessions)
    DecayTimeout,   \* decayTimeoutMs_, in ticks
    Reservations,   \* PortReservation objects; an address is reused once freed
    MaxPosted       \* bound on onProcessRequests tokens posted and not yet run

ASSUME PortsAssumption ==
    /\ IsFiniteSet(Ports)
    /\ NumSymmPorts \in Nat
    /\ NumFastPorts \in Nat
    /\ Cardinality(Ports) = NumSymmPorts + NumFastPorts

ASSUME WindowAssumption == SymmWindow \in Nat \ {0} /\ FastWindow \in Nat \ {0}

ASSUME DecayAssumption == DecayTimeout \in Nat \ {0}

ASSUME PostedAssumption == MaxPosted \in Nat \ {0}

Classes == {"Symm", "Fast"}

(* PortStatus: a reserved port carries the class it is reserved for. *)
Status == {"Free"} \cup Classes

numPorts_(c) == IF c = "Symm" THEN NumSymmPorts ELSE NumFastPorts

Window(c) == IF c = "Symm" THEN SymmWindow ELSE FastWindow

(* time_point::max(): the decay time of a port that is kept alive. *)
Forever == DecayTimeout + 1

VARIABLES
    status,         \* PortState::status of each port
    decay,          \* ticks left until PortState::decayTime, 0 once it passed
    reservedPorts_, \* ports reserved, per class
    requests_,      \* queued best-effort requests, per class
    decayRunning_,  \* an onDecayTimeout is due
    live,           \* the PortReservation objects that exist
    ports,          \* PortReservation::ports_
    processTokens,  \* onProcessRequests tokens posted to the reactor
    decayTokens,    \* ticks left on each posted onDecayTimeout token
    handler,        \* the callback the reactor thread is running
    turn,           \* how far that callback has come
    locked,         \* the reactor thread holds m_ between two steps
    keptAlive,      \* history: reservations handed to a tunnel by keepalive()
    cool            \* history: ticks since the port last carried traffic

portVars == <<status, decay, cool>>

reactorVars == <<processTokens, decayTokens, handler, turn, locked>>

vars == <<portVars, reservedPorts_, requests_, decayRunning_, live, ports,
          keptAlive, reactorVars>>

TypeOK ==
    /\ status \in [Ports -> Status]
    /\ decay \in [Ports -> 0..Forever]
    /\ reservedPorts_ \in [Classes -> Nat]
    /\ requests_ \in [Classes -> Seq(Reservations)]
    /\ decayRunning_ \in BOOLEAN
    /\ live \subseteq Reservations
    /\ ports \in [Reservations -> SUBSET Ports]
    /\ processTokens \in 0..MaxPosted
    /\ decayTokens \in Seq(0..(DecayTimeout + 1))
    /\ handler \in {"none", "onProcessRequests", "onDecayTimeout"}
    /\ turn \in {"Symm", "Fast", "scan", "end"}
    /\ locked \in BOOLEAN
    /\ keptAlive \subseteq live
    /\ cool \in [Ports -> 0..DecayTimeout]

Init ==
    /\ status = [p \in Ports |-> "Free"]
    /\ decay = [p \in Ports |-> 0]
    /\ reservedPorts_ = [c \in Classes |-> 0]
    /\ requests_ = [c \in Classes |-> <<>>]
    /\ decayRunning_ = FALSE
    /\ live = {}
    /\ ports = [r \in Reservations |-> {}]
    /\ processTokens = 0
    /\ decayTokens = <<>>
    /\ handler = "none"
    /\ turn = "end"
    /\ locked = FALSE
    /\ keptAlive = {}
    /\ cool = [p \in Ports |-> DecayTimeout]

-----------------------------------------------------------------------------
(* Helpers. *)

(* The ports_ set is ordered by decay time, so the loop of reservePorts    *)
(* walks exactly the ports whose decay time has passed.  Which of the free *)
(* ones it meets first is left open.                                       *)
Reservable == {p \in Ports : decay[p] = 0 /\ status[p] = "Free"}

(* The windows of class c that can be reserved now: the class has room and *)
(* enough ports are free and past their decay time.                        *)
Windows(c) ==
    IF Window(c) + reservedPorts_[c] > numPorts_(c) THEN {}
    ELSE {S \in SUBSET Reservable : Cardinality(S) = Window(c)}

(* reservePorts succeeds with the window S, which becomes ports_ of r. *)
reservePorts(r, c, S) ==
    /\ status' = [p \in Ports |-> IF p \in S THEN c ELSE status[p]]
    /\ reservedPorts_' = [reservedPorts_ EXCEPT ![c] = @ + Cardinality(S)]
    /\ ports' = [ports EXCEPT ![r] = S]

(* reactor_.post(onProcessRequests) *)
PostProcess ==
    /\ processTokens < MaxPosted
    /\ processTokens' = processTokens + 1

(* The caller of an operation holds m_ for the length of the call.  What   *)
(* it posts to the reactor right after the unlock is part of the call.     *)
Call == ~locked /\ UNCHANGED <<handler, turn, locked>>

-----------------------------------------------------------------------------
(* Operations, called by the rendezvous sessions on any thread. *)

(* reserveSymmPorts, reserveFastPorts: reserve now or return null, which   *)
(* changes nothing.                                                        *)
reserveNow(r, c) ==
    /\ Call
    /\ r \notin live
    /\ \E S \in Windows(c) : reservePorts(r, c, S)
    /\ live' = live \cup {r}
    /\ UNCHANGED <<decay, cool, requests_, decayRunning_, keptAlive,
                   processTokens, decayTokens>>

(* reserveSymmPortsBestEffort, reserveFastPortsBestEffort *)
reserveBestEffort(r, c) ==
    /\ Call
    /\ r \notin live
    /\ live' = live \cup {r}
    /\ requests_' = [requests_ EXCEPT ![c] = Append(@, r)]
    /\ PostProcess
    /\ UNCHANGED <<portVars, reservedPorts_, decayRunning_, ports, keptAlive,
                   decayTokens>>

(* Mutant of StartDecay: the timer is posted although one is due. *)
StartDecayAlways ==
    /\ decayRunning_' = TRUE
    /\ decayTokens' = Append(decayTokens, DecayTimeout + 1)

(* decayRunning_ is set and the timer posted unless one is due already. *)
StartDecay ==
    /\ decayRunning_' = TRUE
    /\ decayTokens' = IF decayRunning_ THEN decayTokens
                      ELSE Append(decayTokens, DecayTimeout + 1)

(* A session uses a reservation only once it has ports (assert at the top  *)
(* of useReservation) and until it keeps it alive, which it does once, as  *)
(* it hands the port over.                                                 *)
useReservation(r) ==
    /\ Call
    /\ ports[r] # {} /\ r \notin keptAlive
    /\ decay' = [p \in Ports |-> IF p \in ports[r] THEN DecayTimeout ELSE decay[p]]
    /\ cool' = [p \in Ports |-> IF p \in ports[r] THEN 0 ELSE cool[p]]
    /\ StartDecay
    /\ UNCHANGED <<status, reservedPorts_, requests_, live, ports, keptAlive,
                   processTokens>>

(* Mutant of KeepaliveReleased: nothing is taken off reservedPorts_. *)
KeepaliveReleasedNone(r) == 0

(* What keepaliveReservation takes off reservedPorts_. *)
KeepaliveReleased(r) == Cardinality(ports[r]) - 1

(* Mutant of KeptDecay: the kept port goes on decaying. *)
KeptDecayUnchanged(p) == decay[p]

KeptDecay(p) == Forever

KeepalivePorts(r, p) == {p}

(* All ports but the first go back to the pool, the first never decays. *)
keepaliveReservation(r) ==
    /\ Call
    /\ r \notin keptAlive
    /\ \E p \in ports[r] :
        /\ status' = [q \in Ports |-> IF q \in ports[r] \ {p} THEN "Free" ELSE status[q]]
        /\ reservedPorts_' = [reservedPorts_ EXCEPT ![status[p]] = @ - KeepaliveReleased(r)]
        /\ ports' = [ports EXCEPT ![r] = KeepalivePorts(r, p)]
        /\ decay' = [decay EXCEPT ![p] = KeptDecay(p)]
        /\ cool' = [cool EXCEPT ![p] = 0]
    /\ keptAlive' = keptAlive \cup {r}
    /\ PostProcess
    /\ UNCHANGED <<requests_, decayRunning_, live, decayTokens>>

(* erase: the list q without its k-th element. *)
RemoveAt(q, k) == SubSeq(q, 1, k - 1) \o SubSeq(q, k + 1, Len(q))

(* The queue q without the request of r; a reservation has at most one. *)
Erase(q, r) ==
    IF \E i \in DOMAIN q : q[i] = r
    THEN RemoveAt(q, CHOOSE i \in DOMAIN q : q[i] = r)
    ELSE q

(* A reservation without ports: its request, if any, leaves the queues. *)
FreeRequest(r) ==
    /\ ports[r] = {}
    /\ requests_' = [c \in Classes |-> Erase(requests_[c], r)]
    /\ UNCHANGED <<portVars, reservedPorts_, decayRunning_, ports,
                   processTokens, decayTokens>>

(* A reservation with ports: they are free again, and the kept-alive one   *)
(* starts to decay.                                                        *)
FreePorts(r) ==
    LET kept == {p \in ports[r] : decay[p] = Forever} IN
    /\ \E p \in ports[r] :
        reservedPorts_' = [reservedPorts_ EXCEPT ![status[p]] = @ - Cardinality(ports[r])]
    /\ status' = [p \in Ports |-> IF p \in ports[r] THEN "Free" ELSE status[p]]
    /\ decay' = [p \in Ports |-> IF p \in kept THEN DecayTimeout ELSE decay[p]]
    /\ ports' = [ports EXCEPT ![r] = {}]
    /\ PostProcess
    /\ IF kept # {} THEN StartDecay ELSE UNCHANGED <<decayRunning_, decayTokens>>
    /\ UNCHANGED <<requests_, cool>>

(* PortReservation's destructor: freeReservation. *)
freeReservation(r) ==
    /\ Call
    /\ r \in live
    /\ live' = live \ {r}
    /\ keptAlive' = keptAlive \ {r}
    /\ FreeRequest(r) \/ FreePorts(r)

-----------------------------------------------------------------------------
(* The reactor thread. *)

onProcessRequests ==
    /\ handler = "none"
    /\ processTokens > 0
    /\ processTokens' = processTokens - 1
    /\ handler' = "onProcessRequests"
    /\ turn' = "Symm"
    /\ locked' = TRUE
    /\ UNCHANGED <<portVars, reservedPorts_, requests_, decayRunning_, live,
                   ports, keptAlive, decayTokens>>

onDecayTimeout ==
    /\ handler = "none"
    /\ \E i \in DOMAIN decayTokens :
        /\ decayTokens[i] = 0
        /\ decayTokens' = RemoveAt(decayTokens, i)
    /\ handler' = "onDecayTimeout"
    /\ turn' = "Symm"
    /\ locked' = TRUE
    /\ UNCHANGED <<portVars, reservedPorts_, requests_, decayRunning_, live,
                   ports, keptAlive, processTokens>>

(* One turn of the loop of processRequests: the head request is granted    *)
(* its window and m_ is released for the requester's callback, whose calls *)
(* are operations of their own.                                            *)
processRequestsGrant(c) ==
    /\ handler # "none"
    /\ turn = c
    /\ requests_[c] # <<>>
    /\ \E S \in Windows(c) : reservePorts(Head(requests_[c]), c, S)
    /\ requests_' = [requests_ EXCEPT ![c] = Tail(@)]
    /\ locked' = FALSE
    /\ UNCHANGED <<decay, cool, decayRunning_, live, keptAlive, processTokens,
                   decayTokens, handler, turn>>

(* Mutant of AfterTurn: onProcessRequests serves the Symm queue only. *)
AfterTurnSymmOnly(c) ==
    IF handler = "onDecayTimeout" THEN (IF c = "Symm" THEN "Fast" ELSE "scan") ELSE "end"

(* The next turn of the callback that is running. *)
AfterTurn(c) ==
    IF c = "Symm" THEN "Fast" ELSE IF handler = "onDecayTimeout" THEN "scan" ELSE "end"

(* The loop ends: nothing queued, or the head cannot be granted now. *)
processRequestsEnd(c) ==
    /\ handler # "none"
    /\ turn = c
    /\ requests_[c] = <<>> \/ Windows(c) = {}
    /\ turn' = AfterTurn(c)
    /\ locked' = (turn' # "end")
    /\ handler' = IF turn' = "end" THEN "none" ELSE handler
    /\ UNCHANGED <<portVars, reservedPorts_, requests_, decayRunning_, live,
                   ports, keptAlive, processTokens, decayTokens>>

Decaying == {p \in Ports : decay[p] > 0 /\ decay[p] < Forever}

(* The ports for which onDecayTimeout posts itself again. *)
StillDecaying == {p \in Ports : decay[p] # Forever /\ decay[p] > 0}

(* The end of onDecayTimeout: the timer is posted again for the first port *)
(* that is still decaying.                                                 *)
decayScan ==
    /\ handler = "onDecayTimeout"
    /\ turn = "scan"
    /\ decayRunning_' = (StillDecaying # {})
    /\ IF StillDecaying = {} THEN UNCHANGED decayTokens
       ELSE \E p \in StillDecaying :
                /\ \A q \in StillDecaying : decay[p] <= decay[q]
                /\ decayTokens' = Append(decayTokens, decay[p] + 1)
    /\ handler' = "none"
    /\ turn' = "end"
    /\ locked' = FALSE
    /\ UNCHANGED <<portVars, reservedPorts_, requests_, live, ports, keptAlive,
                   processTokens>>

(* The ports tunnels run on. *)
KeptPorts == UNION {ports[r] : r \in keptAlive}

(* Time passes.  A token whose time has come waits for the reactor. *)
Tick ==
    /\ decay' = [p \in Ports |-> IF p \in Decaying THEN decay[p] - 1 ELSE decay[p]]
    /\ cool' = [p \in Ports |-> IF p \in KeptPorts \/ cool[p] = DecayTimeout
                                THEN cool[p] ELSE cool[p] + 1]
    /\ decayTokens' = [i \in DOMAIN decayTokens |->
                          IF decayTokens[i] > 0 THEN decayTokens[i] - 1 ELSE 0]
    /\ UNCHANGED <<status, reservedPorts_, requests_, decayRunning_, live, ports,
                   keptAlive, processTokens, handler, turn, locked>>

Operation ==
    \E r \in Reservations :
        \/ \E c \in Classes : reserveNow(r, c) \/ reserveBestEffort(r, c)
        \/ useReservation(r)
        \/ keepaliveReservation(r)
        \/ freeReservation(r)

Reactor ==
    \/ onProcessRequests
    \/ onDecayTimeout
    \/ \E c \in Classes : processRequestsGrant(c) \/ processRequestsEnd(c)
    \/ decayScan

Next == Operation \/ Reactor \/ Tick

Spec == Init /\ [][Next]_vars

(* The reactor thread runs what is due and finishes what it started, and   *)
(* time passes.  Nothing is assumed of the sessions.                       *)
FairSpec == Spec /\ WF_vars(Reactor) /\ WF_vars(Tick)

-----------------------------------------------------------------------------
(* Properties. *)

ReservedFor(c) == {p \in Ports : status[p] = c}

(* reservedPorts_ is exactly the number of ports marked as reserved for    *)
(* the class and never exceeds the class's share, whatever mix of grants,  *)
(* keepalives and frees led here (asserts in reservePorts,                 *)
(* keepaliveReservation and freeReservation).                              *)
Accounting ==
    \A c \in Classes : /\ reservedPorts_[c] = Cardinality(ReservedFor(c))
                       /\ reservedPorts_[c] <= numPorts_(c)

(* No port is in two reservations, every reserved port is in one, and all  *)
(* ports of a reservation are of one class (which freeReservation and      *)
(* keepaliveReservation read off the last port alone).                     *)
Ownership ==
    /\ \A r, s \in Reservations : r # s => ports[r] \cap ports[s] = {}
    /\ \A p \in Ports : status[p] # "Free" <=> \E r \in live : p \in ports[r]
    /\ \A r \in Reservations : \A p, q \in ports[r] : status[p] = status[q]

(* A request holds a raw PortReservation pointer.  The queues name only    *)
(* reservations that still exist, and a reservation that exists and has    *)
(* no ports is queued exactly once: no dangling pointer, no lost request.  *)
QueueSound ==
    /\ \A c \in Classes : \A i \in DOMAIN requests_[c] :
        requests_[c][i] \in live /\ ports[requests_[c][i]] = {}
    /\ \A r \in live : ports[r] = {} =>
        \E c \in Classes : \E i \in DOMAIN requests_[c] : requests_[c][i] = r
    /\ \A c, d \in Classes : \A i \in DOMAIN requests_[c], j \in DOMAIN requests_[d] :
        requests_[c][i] = requests_[d][j] => c = d /\ i = j

(* The allocator's books agree: the counters of the classes, the status of *)
(* the ports, the reservations and the requests tell one story.            *)
Consistent == Accounting /\ Ownership /\ QueueSound

(* One onDecayTimeout, never two, is posted or running as long as          *)
(* decayRunning_ says so, and decayRunning_ says so as long as a port is   *)
(* still decaying: the timer is never lost and never doubled.              *)
DecayTimerArmed ==
    /\ Decaying # {} => decayRunning_
    /\ Len(decayTokens) + (IF handler = "onDecayTimeout" THEN 1 ELSE 0)
         = IF decayRunning_ THEN 1 ELSE 0

(* A port leaves the pool again only DecayTimeout after it last carried    *)
(* traffic, whether that was a ping of a session (use) or a tunnel that    *)
(* ran on it (keepalive): NAT mappings are not reused while they linger.   *)
ReusedOnlyWhenCool ==
    [][\A p \in Ports : status[p] = "Free" /\ status'[p] # "Free" => cool[p] = DecayTimeout]_vars

(* As long as onProcessRequests keeps being posted, the reservation at the *)
(* head of a queue does not wait forever while its window could be         *)
(* granted.  (A port that decays between the grants and the scan of        *)
(* onDecayTimeout is noticed only by the next post, hence the premise.)    *)
HeadServed ==
    \A r \in Reservations, c \in Classes :
        []<>(processTokens > 0) =>
            []<>~(requests_[c] # <<>> /\ Head(requests_[c]) = r /\ Windows(c) # {})
=============================================================================
