--------------------------- MODULE RendezvousFast ---------------------------
(***************************************************************************)
(* RendezvousFastSession: hole punching between two nodes that are both    *)
(* behind ordinary NATs.  The owner of the connection sends READY; the     *)
(* peer opens a UDP socket and says hello to the server through it, which  *)
(* tells the owner the socket's address (FAST); the owner does the same    *)
(* for the peer.  Then both ping each other with a growing TTL, one ping   *)
(* for each NEXT of the other end, until a ping gets through.  At the end  *)
(* of the TTLs the owner starts over with a new socket, LastStep times.    *)
(***************************************************************************)
EXTENDS RendezvousSession

CONSTANTS
    FirstTTL,  \* ttl_ of the first ping of a step (2)
    EndTTL,    \* ttl_ at which the owner ends a step (65)
    LastStep   \* the owner's last step (2)

VARIABLE pings  \* pings that were sent, as <<from end, its socket, to socket>>

vars == <<bestEffort_, sess, inbox, established, outcome, tunnel, pings>>

(* The sockets of an end are numbered; 0 is no socket and no address.      *)
(* checks and loops count the posted onCheckStartTimeout and onPingTimeout *)
(* that watch_ still lets through, writes the pings not yet written.       *)
NewSession ==
    [started |-> FALSE, callback_ |-> FALSE, ready_ |-> FALSE,
     stepIdx_ |-> 0, ttl_ |-> FirstTTL, next_ |-> TRUE, dest_ |-> 0,
     portReservation_ |-> "none", portReservationNext_ |-> "none",
     pingConn_ |-> 0, opened |-> 0, reading |-> FALSE, writes |-> 0,
     master |-> "none", checks |-> 0, loops |-> 0]

Init ==
    /\ SessionInit
    /\ sess = [e \in Ends |-> NewSession]
    /\ pings = {}

-----------------------------------------------------------------------------
(* Mutant of resetSocket: the connection is dropped but not closed, its    *)
(* read goes on.                                                           *)
resetSocketStillReads(s) == [s EXCEPT !.master = "none", !.pingConn_ = 0, !.writes = 0]

(* Closing the socket drops the pending read and the unsent pings.         *)
resetSocket(s) ==
    [s EXCEPT !.master = "none", !.pingConn_ = 0, !.reading = FALSE, !.writes = 0]

(* A new socket, the hello to the server through it, the polling for the   *)
(* end of the hello.  Any of the calls may fail.                           *)
openSocket(s) ==
    Reports("error") \cup
    Goes([s EXCEPT !.pingConn_ = s.opened + 1, !.opened = @ + 1,
                   !.master = "connecting", !.checks = @ + 1])

(* The owner goes on with the ports it reserved for the next step.         *)
ownerNextStep(s) ==
    [resetSocket(s) EXCEPT !.stepIdx_ = @ + 1, !.ttl_ = FirstTTL, !.next_ = TRUE,
                           !.portReservation_ = s.portReservationNext_,
                           !.portReservationNext_ = "none"]

(* A non-BestEffort owner gets here with its first FAST and not ready_: it *)
(* sends a second READY and waits for a second FAST.                       *)
onPortReservation(e, s) ==
    IF ~s.ready_ THEN Sends([s EXCEPT !.ready_ = TRUE], Msg("READY"))
    ELSE IF e = "owner" /\ s.portReservationNext_ # "none"
         THEN Sends(ownerNextStep(s), Msg("READY"))
         ELSE openSocket(s)

start(e, s) ==
    IF e = "owner" THEN reserve(s, Sends(hold(s), Msg("READY")))
    ELSE IF ~s.ready_ THEN Goes(s)
    ELSE reserve(s, openSocket(hold(s)))

(* Mutant of peerNextStep: ttl_ goes on from the last step.                *)
peerNextStepKeepsTTL(s) ==
    [resetSocket(s) EXCEPT !.stepIdx_ = @ + 1, !.next_ = TRUE,
                           !.dest_ = 0, !.checks = 0, !.loops = 0]

(* The peer leaves the step it was in: new watch_, no address.             *)
peerNextStep(s) ==
    [resetSocket(s) EXCEPT !.stepIdx_ = @ + 1, !.ttl_ = FirstTTL, !.next_ = TRUE,
                           !.dest_ = 0, !.checks = 0, !.loops = 0]

onReady(e, s0) ==
    LET s == [s0 EXCEPT !.ready_ = TRUE]
        t == IF e = "peer" /\ s.portReservation_ # "none" THEN peerNextStep(s) ELSE s
    IN  IF ~s.started \/ ~s.callback_ THEN Goes(s)
        ELSE reserve(t, onPortReservation(e, hold(t)))

onFast(e, s, addr) ==
    LET t == [s EXCEPT !.dest_ = addr]
    IN  IF ~s.callback_ THEN Goes(s)
        ELSE IF e = "owner" THEN onPortReservation(e, t)
        ELSE Goes(t)

onMsg(e, s, m) ==
    CASE m.type = "READY" -> onReady(e, s)
      [] m.type = "FAST" -> onFast(e, s, m.addr)
      [] m.type = "NEXT" -> Goes([s EXCEPT !.next_ = TRUE])

(* Without a socket the call through pingConn_ is undefined behaviour.     *)
onEstablished(s) ==
    IF ~s.callback_ THEN Goes(s)
    ELSE IF s.pingConn_ = 0 THEN Reports("crash")
    ELSE Succeeds(s.pingConn_, s.dest_)

onPingSend(s) ==
    Reports("error") \cup Sends([s EXCEPT !.writes = @ - 1], Msg("NEXT"))

onRecvPing(s, from) ==
    IF s.dest_ = 0 THEN Goes([s EXCEPT !.reading = FALSE])
    ELSE IF from # s.dest_ THEN Goes(s)
    ELSE Succeeds(s.pingConn_, from)

onCheckStartTimeout(s) ==
    IF s.dest_ # 0 /\ canReuse(s)
    THEN Goes([s EXCEPT !.reading = TRUE, !.checks = @ - 1, !.loops = @ + 1])
    ELSE Goes(s)

(* The owner's last ping of a step: fail, or reserve ports for the next.   *)
endOfStep(e, s) ==
    IF s.stepIdx_ = LastStep THEN Reports("error")
    ELSE IF bestEffort_ THEN Goes([s EXCEPT !.portReservationNext_ = "requested"])
    ELSE Reports("error") \cup
         onPortReservation(e, [s EXCEPT !.portReservationNext_ = "granted"])

onPingTimeout(e, s) ==
    LET t == [s EXCEPT !.writes = @ + 1, !.next_ = FALSE, !.ttl_ = @ + 1]
    IN  IF ~s.next_ THEN Goes(s)
        ELSE IF e = "owner" /\ t.ttl_ = EndTTL THEN endOfStep(e, [t EXCEPT !.loops = @ - 1])
        ELSE Goes(t)

-----------------------------------------------------------------------------
GrantedNext(e) ==
    /\ Live(e) /\ sess[e].portReservationNext_ = "requested"
    /\ Handle(e, onPortReservation(e, [sess[e] EXCEPT !.portReservationNext_ = "granted"]))

CheckStartTimeout(e) ==
    /\ Live(e) /\ sess[e].checks > 0
    /\ Handle(e, onCheckStartTimeout(sess[e]))

PingTimeout(e) ==
    /\ Live(e) /\ sess[e].loops > 0
    /\ Handle(e, onPingTimeout(e, sess[e]))

(* Steps of a session that send no ping.                                   *)
Internal(e) ==
    /\ \/ Start(e, start(e, begun(e)))
       \/ Receive(e, onMsg(e, sess[e], Head(inbox[e])), onEstablished(sess[e]))
       \/ Granted(e, onPortReservation(e, hold(sess[e])))
       \/ GrantedNext(e)
       \/ Live(e) /\ (HelloSend(e) \/ HelloDone(e, "FAST"))
       \/ CheckStartTimeout(e)
       \/ PingTimeout(e)
    /\ UNCHANGED pings

(* The socket writes the ping and calls onPingSend.                        *)
PingSend(e) ==
    /\ Live(e) /\ sess[e].writes > 0
    /\ Handle(e, onPingSend(sess[e]))
    /\ pings' = pings \cup {<<e, sess[e].pingConn_, sess[e].dest_>>}

(* A ping gets through; it may also be lost, late or doubled, or come from *)
(* somebody else.  Or reading fails.                                       *)
Stray == -1

RecvPing(e) ==
    /\ Live(e) /\ sess[e].reading
    /\ \/ \E from \in {Stray} \cup {p[2] : p \in {q \in pings : q[1] # e /\ q[3] = sess[e].pingConn_}} :
             Handle(e, onRecvPing(sess[e], from))
       \/ Handle(e, Reports("error"))
    /\ UNCHANGED pings

Next ==
    \/ \E e \in Ends : Internal(e) \/ PingSend(e) \/ RecvPing(e)
    \/ (Close \/ \E e \in Ends : SetStarted(e)) /\ UNCHANGED pings

Spec == Init /\ [][Next]_vars

-----------------------------------------------------------------------------
(* The type of every variable.                                             *)
TypeOK ==
    /\ SessionTypeOK
    /\ \A e \in Ends : Live(e) =>
         LET s == sess[e]
         IN  /\ {s.next_, s.reading} \subseteq BOOLEAN
             /\ s.stepIdx_ \in Nat /\ (e = "owner" => s.stepIdx_ <= LastStep)
             /\ s.ttl_ >= FirstTTL
             /\ s.portReservationNext_ \in {"none", "requested"}
             /\ s.pingConn_ \in 0..s.opened
             /\ s.master \in {"none", "connecting", "sent", "done", "lost"}

(* No handler of a started session meets a state it takes for impossible:  *)
(* whatever is posted, being read or being written has its socket and its  *)
(* granted ports (PortReservation::use), the ping loop and a success have  *)
(* an address (asserts at 223 and 501), FAST finds a reservation (202),    *)
(* only an owner gets ports before it is ready (251), and a success finds  *)
(* the peer's socket open (229).  The owner's may be closed by then.       *)
HandlersSafe ==
    /\ TypeOK
    /\ \A e \in Ends : sess[e].callback_ =>
        LET s == sess[e]
        IN  /\ (s.checks + s.loops + s.writes > 0 \/ s.reading) =>
                   s.pingConn_ # 0 /\ s.portReservation_ = "granted"
            /\ s.loops > 0 => s.dest_ # 0
            /\ s.portReservation_ = "requested" /\ ~s.ready_ => e = "owner"
            /\ NextMsg(e) = "FAST" => s.portReservation_ # "none"
            /\ NextMsg(e) = "ESTABLISHED" =>
                   /\ s.dest_ # 0 /\ s.portReservation_ = "granted"
                   /\ e = "peer" => s.pingConn_ # 0

(* NEXT keeps the ends in step although a NEXT is lost on an end that      *)
(* already has one.  Only the owner ends a step, so it is NEXT alone that  *)
(* bounds the peer's ttl_, an IP TTL: its last ping may have EndTTL.  And  *)
(* however often the ends start over, a session has one chain of posted    *)
(* callbacks at most: a step begins to poll only after the last one has    *)
(* stopped pinging, by itself (owner, 534) or with its watch (peer, 157).  *)
Lockstep ==
    /\ Live("peer") => sess["peer"].ttl_ <= EndTTL + 1
    /\ \A e \in Ends : Live(e) => sess[e].checks + sess[e].loops <= 1

(* If both ends report success, each one has the socket that the other     *)
(* one sends to: a success never mixes sockets of two steps.               *)
TunnelEndsMatch ==
    (\A e \in Ends : outcome[e] = "ok") =>
        tunnel["owner"] = <<tunnel["peer"][2], tunnel["peer"][1]>>

=============================================================================
