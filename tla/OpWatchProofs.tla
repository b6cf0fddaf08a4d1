--------------------------- MODULE OpWatchProofs ---------------------------
(***************************************************************************)
(* OpWatch keeps its guarantee for every number of threads that close it.  *)
(***************************************************************************)
EXTENDS OpWatch, TLAPS

(* The reactor's thread and the others are in different places.            *)
Places ==
    /\ pc[Reactor] \in {"idle", "callback", "signal"}
    /\ \A t \in Closers : pc[t] \in {"idle", "waiting", "woken", "returned"}

(* A callback that outlives the closing of the watch closed it itself, and *)
(* a close() that returned left the watch closed.                          *)
Outlives ==
    /\ state_ = "Closed" /\ inCallback_ => inside
    /\ \A t \in Closers : pc[t] = "returned" => state_ = "Closed"
    /\ \A t \in Closers : pc[t] \in {"waiting", "woken"} => state_ # "Active"

(* The watch is active exactly until somebody has won.                     *)
Winner ==
    /\ \A t, u \in won : t = u
    /\ state_ = "Active" <=> won = {}

IInv == TypeOK /\ Places /\ Outlives /\ Winner

(* The initial state of a watch satisfies the inductive invariant.         *)
LEMMA InitIInv == Init => IInv
  BY Zenon, OpWatchAssumption DEF Init, IInv, TypeOK, Places, Outlives, Winner, Threads

(* The reactor's thread: running a wrapped callback, signalling, and       *)
(* closing without waiting keep the invariant.                             *)
LEMMA ReactorSteps ==
  ASSUME IInv, Enter \/ Leave \/ Signal \/ CloseHere
  PROVE  IInv'
<1> USE OpWatchAssumption DEF IInv, TypeOK, Places, Outlives, Winner, Threads
<1>1. CASE Enter
  BY Zenon, <1>1 DEF Enter
<1>2. CASE Leave
  BY Zenon, <1>2 DEF Leave
<1>3. CASE Signal
  BY <1>3 DEF Signal
<1>4. CASE CloseHere
  BY <1>4 DEF CloseHere, first
<1>5. QED
  BY <1>1, <1>2, <1>3, <1>4

(* A close() of another thread keeps it, whether it returns or waits.      *)
LEMMA CloserSteps ==
  ASSUME IInv, NEW t \in Closers, CloseBegin(t) \/ Wake(t) \/ WakeSpuriously(t)
  PROVE  IInv'
<1> USE OpWatchAssumption DEF IInv, TypeOK, Places, Outlives, Winner, Threads
<1>1. CASE CloseBegin(t)
  BY <1>1 DEF CloseBegin, first
<1>2. CASE Wake(t)
  BY <1>2 DEF Wake, CloseEnd
<1>3. CASE WakeSpuriously(t)
  BY <1>3 DEF WakeSpuriously, CloseEnd
<1>4. QED
  BY <1>1, <1>2, <1>3

(* When close() has returned to another thread the watch is closed and no  *)
(* callback runs that did not close it itself; and one close() returns     *)
(* true, whoever calls it and however often.                               *)
THEOREM OpWatchSafe == Spec => [](TypeOK /\ NoCallbackAfterClose /\ OneCloser)
<1>1. IInv /\ [Next]_vars => IInv'
  <2> SUFFICES ASSUME IInv, [Next]_vars PROVE IInv'
    OBVIOUS
  <2>1. CASE Enter \/ Leave \/ Signal \/ CloseHere
    BY <2>1, ReactorSteps
  <2>2. CASE \E t \in Closers : CloseBegin(t) \/ Wake(t) \/ WakeSpuriously(t)
    BY <2>2, CloserSteps
  <2>3. CASE UNCHANGED vars
    BY <2>3 DEF vars, IInv, TypeOK, Places, Outlives, Winner
  <2>4. QED
    BY <2>1, <2>2, <2>3 DEF Next
<1>2. IInv => TypeOK /\ NoCallbackAfterClose /\ OneCloser
  BY DEF IInv, Outlives, Winner, NoCallbackAfterClose, OneCloser
<1>3. QED
  BY InitIInv, <1>1, <1>2, PTL DEF Spec
=============================================================================
