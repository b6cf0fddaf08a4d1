--------------------------- MODULE RendezvousSymm ---------------------------
(***************************************************************************)
(* RendezvousSymmConnSession and RendezvousSymmAccSession: hole punching   *)
(* when one end, the connecting one, is behind a symmetric NAT.  Either    *)
(* end may own the connection.  The accepting end opens a socket, tells    *)
(* its address through the server (SYMM), sends pings to a window of       *)
(* ports the NAT might choose and says NEXT; the connecting end then sends *)
(* a ping from each of its sockets and says NEXT; one second later the     *)
(* accepting end either saw one of them and sends three final pings to     *)
(* where it came from, or both start over with the next window (READY).    *)
(***************************************************************************)
EXTENDS RendezvousSession

CONSTANTS
    WindowSize,  \* ports the accepting end tries in a step (299)
    Segments,    \* windows it has (3)
    Sockets,     \* sockets of the connecting end (300)
    Finals       \* final pings (3)

VARIABLES
    acc,    \* which of the ends is the accepting one
    pings,  \* pings of the connecting end, as <<from socket, to socket>>
    finals  \* final pings of the accepting end, as <<from socket, to socket>>

vars == <<bestEffort_, sess, inbox, established, outcome, tunnel, acc, pings, finals>>

conn == Other(acc)

(* writes counts the pings that are being written, a chain of onPingSend   *)
(* each; checks, nexts and timeouts the posted onCheckStartTimeout,        *)
(* onNextTimeout and onEstablishedTimeout; sending holds the arguments of  *)
(* the posted onSendFinalTimeout.                                          *)
NewConn ==
    [started |-> FALSE, callback_ |-> FALSE, ready_ |-> FALSE, portReservation_ |-> "none",
     numPingSent_ |-> 0, dest_ |-> 0, writes |-> 0, timeouts |-> 0]

NewAcc ==
    [started |-> FALSE, callback_ |-> FALSE, ready_ |-> FALSE, portReservation_ |-> "none",
     stepIdx_ |-> 0, numPingSent_ |-> 0, destDiscoveredPort_ |-> 0,
     pingConn_ |-> 0, opened |-> 0, reading |-> FALSE, writes |-> 0,
     master |-> "none", checks |-> 0, nexts |-> 0, sending |-> {}]

Init ==
    /\ SessionInit
    /\ acc \in Ends
    /\ sess = [e \in Ends |-> IF e = acc THEN NewAcc ELSE NewConn]
    /\ pings = {} /\ finals = {}

-----------------------------------------------------------------------------
(* RendezvousSymmConnSession.  Pings of the accepting end that get through *)
(* are read and ignored.                                                   *)

connOnPortReservation(e, s) == Sends([s EXCEPT !.ready_ = TRUE], Msg("READY"))

connStart(e, s) ==
    Reports("error") \cup
    IF e # "owner" /\ ~s.ready_ THEN Goes(s)
    ELSE reserve(s, Sends(hold(s), Msg("READY")))

connOnReady(e, s0) ==
    LET s == [s0 EXCEPT !.ready_ = TRUE]
        t == [s EXCEPT !.portReservation_ = "none"]
    IN  IF ~s.started \/ ~s.callback_ THEN Goes(s)
        ELSE reserve(t, connOnPortReservation(e, hold(t)))

connOnMsg(e, s, m) ==
    CASE m.type = "READY" -> connOnReady(e, s)
      [] m.type = "SYMM" -> Goes([s EXCEPT !.dest_ = m.addr])
      [] m.type = "NEXT" ->
           IF ~s.callback_ THEN Goes(s)
           ELSE Goes([s EXCEPT !.numPingSent_ = 0, !.writes = @ + 1])

(* Mutant of connOnEstablished: nothing is posted.                         *)
connOnEstablishedNoTimeout(s) == Goes(s)

connOnEstablished(s) == Goes([s EXCEPT !.timeouts = @ + 1])

(* A write without an address fails.                                       *)
connOnPingSend(s) ==
    LET t == [s EXCEPT !.numPingSent_ = @ + 1]
    IN  Reports("error") \cup
        IF s.dest_ = 0 THEN {}
        ELSE IF t.numPingSent_ < Sockets THEN Goes(t)
        ELSE Sends([t EXCEPT !.writes = @ - 1], Msg("NEXT"))

connOnFinalPing(s, sock) ==
    IF s.portReservation_ = "none" THEN Goes(s) ELSE Succeeds(sock, s.dest_)

-----------------------------------------------------------------------------
(* RendezvousSymmAccSession.                                               *)

(* Ports are numbered from 1; 0 is returned behind the last one.           *)
getCurrentPort(s) ==
    LET pos == (s.stepIdx_ * WindowSize) + s.numPingSent_
    IN  IF pos >= Segments * WindowSize THEN 0 ELSE pos + 1

openSocket(s) ==
    Reports("error") \cup
    Goes([s EXCEPT !.pingConn_ = s.opened + 1, !.opened = @ + 1,
                   !.master = "connecting", !.checks = @ + 1])

accOnPortReservation(e, s) ==
    IF ~s.ready_ THEN Sends([s EXCEPT !.ready_ = TRUE], Msg("READY")) ELSE openSocket(s)

accStart(e, s) ==
    IF e = "owner" THEN reserve(s, Sends(hold(s), Msg("READY")))
    ELSE IF ~s.ready_ THEN Goes(s)
    ELSE reserve(s, openSocket(hold(s)))

accOnReady(e, s0) ==
    LET s == [s0 EXCEPT !.ready_ = TRUE]
    IN  IF ~s.started \/ ~s.callback_ THEN Goes(s)
        ELSE IF s.portReservation_ # "none" THEN accOnPortReservation(e, s)
        ELSE reserve(s, accOnPortReservation(e, hold(s)))

accOnMsg(e, s, m) ==
    CASE m.type = "READY" -> accOnReady(e, s)
      [] m.type = "NEXT" -> IF ~s.callback_ THEN Goes(s) ELSE Goes([s EXCEPT !.nexts = @ + 1])

accOnEstablished(s) == Goes(s)

accOnPingSend(s) ==
    LET t == [s EXCEPT !.numPingSent_ = @ + 1]
    IN  Reports("error") \cup
        IF t.numPingSent_ < WindowSize THEN Goes(t)
        ELSE Sends([t EXCEPT !.stepIdx_ = @ + 1, !.numPingSent_ = 0, !.writes = @ - 1],
                   Msg("NEXT"))

(* Mutant of accOnRecvPing: a ping is taken also after the final pings     *)
(* have begun.                                                             *)
accOnRecvPingLate(s, from) == Goes([s EXCEPT !.destDiscoveredPort_ = from])

accOnRecvPing(s, from) ==
    IF s.stepIdx_ = -1 THEN Goes([s EXCEPT !.reading = FALSE])
    ELSE Goes([s EXCEPT !.destDiscoveredPort_ = from])

(* Nothing came through: give up the socket and its ports, try the next    *)
(* window if there is one.                                                 *)
accNextStep(s) ==
    LET t == [s EXCEPT !.pingConn_ = 0, !.reading = FALSE, !.writes = 0,
                       !.portReservation_ = "none"]
    IN  IF getCurrentPort(t) = 0 THEN Reports("error") ELSE Sends(t, Msg("READY"))

accOnNextTimeout(s) ==
    LET t == [s EXCEPT !.nexts = @ - 1, !.master = "none"]
    IN  IF t.destDiscoveredPort_ # 0
        THEN Goes([t EXCEPT !.stepIdx_ = -1, !.sending = @ \cup {Finals}])
        ELSE accNextStep(t)

(* Mutant of accOnCheckStartTimeout: it is posted again although it        *)
(* started the pings.                                                      *)
accOnCheckStartTimeoutAgain(s) ==
    IF canReuse(s) THEN Goes([s EXCEPT !.reading = TRUE, !.writes = @ + 1]) ELSE Goes(s)

accOnCheckStartTimeout(s) ==
    IF canReuse(s) THEN Goes([s EXCEPT !.reading = TRUE, !.checks = @ - 1, !.writes = @ + 1])
    ELSE Goes(s)

accOnSendFinalTimeout(s, cnt) ==
    IF cnt = 0 THEN Succeeds(s.pingConn_, s.destDiscoveredPort_)
    ELSE Goes([s EXCEPT !.sending = (@ \ {cnt}) \cup {cnt - 1}])

-----------------------------------------------------------------------------
(* Steps of the connecting end.                                            *)

ConnStep ==
    /\ \/ Start(conn, connStart(conn, begun(conn)))
       \/ Receive(conn, connOnMsg(conn, sess[conn], Head(inbox[conn])), connOnEstablished(sess[conn]))
       \/ Granted(conn, connOnPortReservation(conn, hold(sess[conn])))
       \/ /\ Live(conn) /\ sess[conn].timeouts > 0
          /\ Handle(conn, Reports("error"))
    /\ UNCHANGED <<acc, pings, finals>>

(* The socket whose turn it is writes its ping and calls onPingSend.       *)
ConnPingSend ==
    /\ Live(conn) /\ sess[conn].writes > 0
    /\ Handle(conn, connOnPingSend(sess[conn]))
    /\ pings' = IF sess[conn].dest_ = 0 THEN pings
                ELSE pings \cup {<<sess[conn].numPingSent_ + 1, sess[conn].dest_>>}
    /\ UNCHANGED <<acc, finals>>

(* A final ping gets through, or reading fails.                            *)
ConnRecvPing ==
    /\ Live(conn) /\ sess[conn].callback_
    /\ \/ \E f \in finals : Handle(conn, connOnFinalPing(sess[conn], f[2]))
       \/ Handle(conn, Reports("error"))
    /\ UNCHANGED <<acc, pings, finals>>

(* Steps of the accepting end.                                             *)

AccTimeout ==
    /\ Live(acc)
    /\ LET s == sess[acc]
       IN  \/ s.checks > 0 /\ Handle(acc, accOnCheckStartTimeout(s))
           \/ s.nexts > 0 /\ Handle(acc, accOnNextTimeout(s))

AccStep ==
    /\ \/ Start(acc, accStart(acc, begun(acc)))
       \/ Receive(acc, accOnMsg(acc, sess[acc], Head(inbox[acc])), accOnEstablished(sess[acc]))
       \/ Granted(acc, accOnPortReservation(acc, hold(sess[acc])))
       \/ Live(acc) /\ (HelloSend(acc) \/ HelloDone(acc, "SYMM"))
       \/ AccTimeout
       \/ Live(acc) /\ sess[acc].writes > 0 /\ Handle(acc, accOnPingSend(sess[acc]))
    /\ UNCHANGED <<acc, pings, finals>>

(* A final ping; nobody waits until it was written.                        *)
AccSendFinal ==
    /\ Live(acc)
    /\ \E cnt \in sess[acc].sending :
         /\ Handle(acc, accOnSendFinalTimeout(sess[acc], cnt))
         /\ finals' = IF cnt = 0 THEN finals
                      ELSE finals \cup {<<sess[acc].pingConn_, sess[acc].destDiscoveredPort_>>}
    /\ UNCHANGED <<acc, pings>>

(* A ping gets through, or reading fails.                                  *)
AccRecvPing ==
    /\ Live(acc) /\ sess[acc].reading
    /\ \/ \E p \in pings :
             p[2] = sess[acc].pingConn_ /\ Handle(acc, accOnRecvPing(sess[acc], p[1]))
       \/ Handle(acc, Reports("error"))
    /\ UNCHANGED <<acc, pings, finals>>

Next ==
    \/ ConnStep \/ ConnPingSend \/ ConnRecvPing
    \/ AccStep \/ AccSendFinal \/ AccRecvPing
    \/ (Close \/ \E e \in Ends : SetStarted(e)) /\ UNCHANGED <<acc, pings, finals>>

Spec == Init /\ [][Next]_vars

-----------------------------------------------------------------------------
(* The type of every variable.                                             *)
TypeOK ==
    /\ SessionTypeOK
    /\ acc \in Ends
    /\ pings \subseteq (1..Sockets) \X Nat
    /\ finals \subseteq Nat \X (1..Sockets)
    /\ Live(conn) => sess[conn].numPingSent_ \in 0..Sockets
    /\ Live(acc) =>
         LET s == sess[acc]
         IN  /\ s.stepIdx_ \in -1..Segments /\ s.numPingSent_ \in 0..(WindowSize - 1)
             /\ s.destDiscoveredPort_ \in 0..Sockets
             /\ s.pingConn_ \in 0..s.opened
             /\ s.sending \subseteq 0..Finals

(* No handler of a started session meets a state it takes for impossible:  *)
(* whatever is posted, being read or written has its socket and granted    *)
(* ports (PortReservation::use and keepalive), also when a final ping is   *)
(* on its way; a window is tried only if it exists, and never with the     *)
(* index -1 of the final pings (getCurrentPort, assert at 489); only an    *)
(* owner gets ports before it is ready.  And ESTABLISHED comes after a     *)
(* final ping was sent, so that the session is about to complete, which    *)
(* RendezvousSymmAccSession::onEstablished takes for granted.              *)
HandlersSafe ==
    /\ TypeOK
    /\ \A e \in Ends :
         sess[e].portReservation_ = "requested" /\ ~sess[e].ready_ => e = "owner"
    /\ /\ sess[conn].callback_
       /\ sess[conn].writes > 0 \/ NextMsg(conn) = "NEXT" \/ finals # {}
       => sess[conn].portReservation_ = "granted"
    /\ sess[acc].callback_ =>
         LET s == sess[acc]
         IN  /\ (s.checks + s.writes + s.nexts > 0 \/ s.reading \/ s.sending # {}) =>
                    s.pingConn_ # 0 /\ s.portReservation_ = "granted"
             /\ s.checks + s.writes > 0 => s.stepIdx_ \in 0..(Segments - 1)
    /\ Live(acc) /\ NextMsg(acc) = "ESTABLISHED" =>
           finals # {} /\ sess[acc].sending # {}

(* The ends take turns: a session has one chain of posted callbacks or     *)
(* writes at most, and the two do not ping at the same time.               *)
TakeTurns ==
    LET busy(s) == s.checks + s.writes + s.nexts + (IF s.sending = {} THEN 0 ELSE 1)
    IN  /\ Live(acc) => busy(sess[acc]) <= 1
        /\ Live(conn) => sess[conn].writes <= 1
        /\ Live(acc) /\ Live(conn) => busy(sess[acc]) + sess[conn].writes <= 1

(* If both ends report success, each one has the socket that the other     *)
(* one sends to, although the connecting end has many, goes on with the    *)
(* one that got a final ping and does not check the port it came from.     *)
TunnelEndsMatch ==
    (\A e \in Ends : outcome[e] = "ok") =>
        tunnel[acc] = <<tunnel[conn][2], tunnel[conn][1]>>

=============================================================================
