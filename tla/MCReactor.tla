----------------------------- MODULE MCReactor -----------------------------
(***************************************************************************)
(* Five workloads: connections made by a connector and closed under the    *)
(* reactor's feet, several at a time, UDT connections, and timers.         *)
(***************************************************************************)
EXTENDS Reactor, TLC

CONSTANTS c1, h1, h2, s1, s2, t1, t2

(* A connector, the connection made of it, and one that reuses its         *)
(* descriptor.                                                             *)
Dial == [kind |-> "sys", uses |-> (c1 :> {"w"}) @@ (h1 :> {"r"}) @@ (h2 :> {"r"}),
         socks |-> {s1}, tokens |-> {}]

(* Two connections at a time.                                              *)
Pair == [kind |-> "sys", uses |-> (h1 :> {"r"}) @@ (h2 :> {"r"}), socks |-> {s1, s2}, tokens |-> {}]

(* Two UDT connections one after the other, reading and writing.           *)
UDT == [kind |-> "udt", uses |-> (h1 :> {"r", "w"}) @@ (h2 :> {"r"}), socks |-> {s1}, tokens |-> {}]

(* Posted callbacks, alone and with a connection.                          *)
Timers == [kind |-> "sys", uses |-> <<>>, socks |-> {}, tokens |-> {t1, t2}]
Timer == [kind |-> "sys", uses |-> (h1 :> {"r"}), socks |-> {s1}, tokens |-> {t1}]

MCWorkloads == {Dial, Pair, UDT, Timers, Timer}
=============================================================================
