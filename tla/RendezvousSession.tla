------------------------- MODULE RendezvousSession -------------------------
(***************************************************************************)
(* What the rendezvous sessions of the two ends of a connection share:     *)
(* the base class, and their surroundings as far as a session sees them.   *)
(* The server relays messages from one end to the other and, when an end   *)
(* closes the connection, tells the other.  DMasterClient starts a         *)
(* session, passes messages on and destroys it when it reports.  The port  *)
(* allocator grants ports, at once or when there are some.  DMasterSession *)
(* says hello to the server through a socket of the session.               *)
(*                                                                         *)
(* A handler of a session is an operator from the session's state to the   *)
(* set of its outcomes: the state after it, what it wrote to the server    *)
(* and what it reported.  The sessions run on one reactor thread per node  *)
(* (LTUDP, UTP), hence a handler is one step; start(), which tun2socks'    *)
(* thread calls too, is cut after setStarted().                            *)
(***************************************************************************)
EXTENDS Integers, Sequences

Ends == {"owner", "peer"}
Other(e) == CHOOSE f \in Ends : f # e

VARIABLES
    bestEffort_,  \* whether reservations wait for ports or fail at once
    sess,         \* the sessions, records of the modules that extend this one
    inbox,        \* messages on the way to each end
    established,  \* whether DMasterClient was told ESTABLISHED
    outcome,      \* what each session reported
    tunnel        \* the socket and the destination it reported

sessionVars == <<bestEffort_, sess, inbox, established, outcome, tunnel>>

(* The fields every session has.  A session that reported is destroyed.    *)
Base ==
    [started |-> FALSE, callback_ |-> FALSE, ready_ |-> FALSE, portReservation_ |-> "none"]

SessionInit ==
    /\ bestEffort_ \in BOOLEAN
    /\ inbox = [e \in Ends |-> <<>>]
    /\ established = [e \in Ends |-> FALSE]
    /\ outcome = [e \in Ends |-> "none"]
    /\ tunnel = [e \in Ends |-> <<0, 0>>]

-----------------------------------------------------------------------------
(* Outcomes of a handler.                                                  *)

Msg(t) == [type |-> t, addr |-> 0]

Goes(s) == {[sess |-> s, send |-> <<>>, report |-> "none", tunnel |-> <<0, 0>>]}
Sends(s, m) == {[sess |-> s, send |-> <<m>>, report |-> "none", tunnel |-> <<0, 0>>]}
Reports(r) == {[sess |-> Base, send |-> <<>>, report |-> r, tunnel |-> <<0, 0>>]}
Succeeds(sock, dest) ==
    {[sess |-> Base, send |-> <<>>, report |-> "ok", tunnel |-> <<sock, dest>>]}

hold(s) == [s EXCEPT !.portReservation_ = "granted"]

(* A reservation, and the outcomes granted if it is granted at once.       *)
reserve(s, granted) ==
    IF bestEffort_
    THEN Goes([s EXCEPT !.portReservation_ = "requested"])
    ELSE Reports("error") \cup granted

-----------------------------------------------------------------------------
(* Steps.  The sessions differ in the outcomes of their handlers.          *)

Live(e) == outcome[e] = "none"

(* CONN_CLOSE of an end that was not told makes the server tell the other. *)
CloseMsg(e, r) ==
    IF r \notin {"ok", "error"} \/ established[e] THEN <<>>
    ELSE <<Msg(IF r = "ok" THEN "ESTABLISHED" ELSE "CANCELED")>>

Apply(e, o, box) ==
    /\ sess' = [sess EXCEPT ![e] = o.sess]
    /\ inbox' = [box EXCEPT ![Other(e)] = @ \o o.send \o CloseMsg(e, o.report)]
    /\ outcome' = [outcome EXCEPT ![e] = o.report]
    /\ tunnel' = [tunnel EXCEPT ![e] = o.tunnel]
    /\ UNCHANGED bestEffort_

Handle(e, outs) == (\E o \in outs : Apply(e, o, inbox)) /\ UNCHANGED established

SetStarted(e) ==
    /\ Live(e) /\ ~sess[e].started
    /\ Handle(e, Goes([sess[e] EXCEPT !.started = TRUE]))

begun(e) == [sess[e] EXCEPT !.callback_ = TRUE]

Start(e, outs) ==
    /\ Live(e) /\ sess[e].started /\ ~sess[e].callback_
    /\ Handle(e, outs)

(* DMasterClient passes a message on: the two that end the connection, and *)
(* as long as it was not established the ones for the other session.       *)
Receive(e, onMsg, onEstablished) ==
    /\ inbox[e] # <<>>
    /\ LET m == Head(inbox[e])
           s == sess[e]
           outs == CASE m.type = "CANCELED" -> Reports("canceled")
                     [] m.type = "ESTABLISHED" -> onEstablished
                     [] OTHER -> IF established[e] THEN Goes(s) ELSE onMsg
           box == [inbox EXCEPT ![e] = Tail(@)]
       IN  IF Live(e)
           THEN /\ \E o \in outs : Apply(e, o, box)
                /\ established' = [established EXCEPT ![e] = @ \/ m.type = "ESTABLISHED"]
           ELSE /\ inbox' = box
                /\ UNCHANGED <<bestEffort_, sess, established, outcome, tunnel>>

(* The port allocator grants what was requested.                           *)
Granted(e, outs) ==
    /\ Live(e) /\ sess[e].portReservation_ = "requested"
    /\ Handle(e, outs)

(* DMasterSession: the hello is written, or connecting or writing failed.  *)
HelloSend(e) ==
    /\ sess[e].master = "connecting"
    /\ Handle(e, Reports("error") \cup Goes([sess[e] EXCEPT !.master = "sent"]))

(* The hello reaches the server, which relays the address of its socket,   *)
(* or is lost; the transport is done with the socket's port (canReuse).    *)
HelloDone(e, type) ==
    LET s == sess[e]
    IN  /\ s.master = "sent"
        /\ \/ Handle(e, Sends([s EXCEPT !.master = "done"], [type |-> type, addr |-> s.pingConn_]))
           \/ Handle(e, Goes([s EXCEPT !.master = "lost"]))

canReuse(s) == s.master \in {"done", "lost"}

(* The user of the connection gives up.                                    *)
Close == Live("owner") /\ Handle("owner", Reports("error"))

-----------------------------------------------------------------------------
Messages == {"READY", "FAST", "SYMM", "NEXT", "ESTABLISHED", "CANCELED"}

(* The type of what the sessions share.                                    *)
SessionTypeOK ==
    /\ bestEffort_ \in BOOLEAN
    /\ \A e \in Ends :
         /\ {sess[e].started, sess[e].callback_, sess[e].ready_} \subseteq BOOLEAN
         /\ sess[e].portReservation_ \in {"none", "requested", "granted"}
         /\ \A i \in DOMAIN inbox[e] : inbox[e][i].type \in Messages
    /\ established \in [Ends -> BOOLEAN]
    /\ outcome \in [Ends -> {"none", "ok", "error", "canceled", "crash"}]

NextMsg(e) == IF inbox[e] = <<>> THEN "none" ELSE Head(inbox[e]).type

=============================================================================
