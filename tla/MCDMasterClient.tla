-------------------------- MODULE MCDMasterClient --------------------------
(***************************************************************************)
(* One node with the contract of the server.  Either it registers one      *)
(* connection and is asked to accept another, or it registers two.         *)
(***************************************************************************)
EXTENDS DMasterClient, TLC

CONSTANTS
    n1, n2,
    MaxWire     \* a bound on the messages on the way to the node

MCMaxConnIdx == (n1 :> 2) @@ (n2 :> 1)

Bound ==
    /\ \A n \in Nodes : Len(toClient[n]) <= MaxWire
    /\ nextConnIdx_[n1] <= 2 \/ heard[n1] = {}
=============================================================================
