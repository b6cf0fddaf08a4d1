------------------------- MODULE RendezvousSessions -------------------------
(***************************************************************************)
(* The rendezvous of one connection: the server told both ends the mode of *)
(* the rendezvous, and DMasterClient made a pair of RendezvousFastSession  *)
(* or one RendezvousSymmConnSession and one RendezvousSymmAccSession.      *)
(***************************************************************************)
EXTENDS RendezvousSession

CONSTANTS
    FirstTTL,    \* ttl_ of the first ping of a step (2)
    EndTTL,      \* ttl_ at which the owner ends a step (65)
    LastStep,    \* the owner's last step (2)
    WindowSize,  \* ports the accepting end tries in a step (299)
    Segments,    \* windows it has (3)
    Sockets,     \* sockets of the connecting end (300)
    Finals       \* final pings (3)

ASSUME SessionAssumption ==
    /\ FirstTTL \in Nat /\ EndTTL \in Nat /\ FirstTTL < EndTTL
    /\ LastStep \in Nat
    /\ {WindowSize, Segments, Sockets, Finals} \subseteq Nat \ {0}

VARIABLES
    mode,   \* RendezvousModeFast or one of the Symm modes
    acc,    \* of the Symm sessions: the accepting end
    pings,  \* pings that were sent
    finals  \* of the Symm sessions: final pings

vars == <<mode, bestEffort_, sess, inbox, established, outcome, tunnel, acc, pings, finals>>

Fast == INSTANCE RendezvousFast
Symm == INSTANCE RendezvousSymm

(* Both ends are sent the mode in the same way, see Server.                *)
Init ==
    \/ /\ mode = "fast" /\ Fast!Init
       /\ acc = "peer" /\ finals = {}
    \/ mode = "symm" /\ Symm!Init

InFast(A) == mode = "fast" /\ A /\ UNCHANGED <<mode, acc, finals>>
InSymm(A) == mode = "symm" /\ A /\ UNCHANGED mode

Next == InFast(Fast!Next) \/ InSymm(Symm!Next)

Spec == Init /\ [][Next]_vars

(* The reactor runs what is due, messages arrive, the port allocator       *)
(* grants, a hello is done in the end.  Pings may all be lost, users need  *)
(* not close and a peer's queue may keep its session from being started.   *)
FairSpec ==
    /\ Spec
    /\ \A e \in Ends : WF_vars(InFast(Fast!Internal(e))) /\ WF_vars(InFast(Fast!PingSend(e)))
    /\ WF_vars(InSymm(Symm!ConnStep)) /\ WF_vars(InSymm(Symm!ConnPingSend))
    /\ WF_vars(InSymm(Symm!AccStep)) /\ WF_vars(InSymm(Symm!AccSendFinal))

-----------------------------------------------------------------------------
(* No handler of a started session meets a state that it takes for         *)
(* impossible: what is posted, being read or being written has its socket  *)
(* and its ports, and a message finds the session ready for it.            *)
HandlersSafe == IF mode = "fast" THEN Fast!HandlersSafe ELSE Symm!HandlersSafe

(* NEXT and READY keep the two ends of a Fast rendezvous in step: the      *)
(* peer's TTL is bounded by the owner's, and no session has two chains of  *)
(* posted callbacks however often the ends start over.                     *)
Lockstep == mode = "fast" => Fast!Lockstep

(* The two ends of a Symm rendezvous take turns: they never ping at the    *)
(* same time, and no session has two chains of callbacks.                  *)
TakeTurns == mode = "symm" => Symm!TakeTurns

(* If both ends report success, each one has the socket that the other one *)
(* sends to, whichever step, window or socket the pings came from.         *)
TunnelEndsMatch == IF mode = "fast" THEN Fast!TunnelEndsMatch ELSE Symm!TunnelEndsMatch

(* Once both ends were started both sessions end, even if every ping is    *)
(* lost.  (If the hello of a Fast session was lost no FAST comes, and no   *)
(* timer notices it.)                                                      *)
Terminates ==
    (\A e \in Ends : sess[e].started)
        ~> \/ \A e \in Ends : ~Live(e)
           \/ mode = "fast" /\ \E e \in Ends : Live(e) /\ sess[e].master = "lost"

=============================================================================
