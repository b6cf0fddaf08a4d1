------------------------------ MODULE OpWatch ------------------------------
(***************************************************************************)
(* OpWatch keeps callbacks that are still in the reactor away from an      *)
(* object that is being destroyed.  A wrapped callback runs only while the *)
(* watch is active; close() lets no further callback begin and waits for   *)
(* the one that is running, unless it is called on the reactor's thread.   *)
(* A step is what a thread does with m_ held.                              *)
(***************************************************************************)
EXTENDS FiniteSets

CONSTANTS
    Reactor,     \* the reactor's thread
    Closers      \* other threads that call close()

ASSUME OpWatchAssumption == Reactor \notin Closers

Threads == Closers \cup {Reactor}

VARIABLES
    state_,       \* StateActive, StateClosing or StateClosed
    inCallback_,
    pc,           \* where each thread is
    won,          \* threads whose close() returns true
    inside        \* whether the callback that is running closed the watch

vars == <<state_, inCallback_, pc, won, inside>>

Init ==
    /\ state_ = "Active"
    /\ inCallback_ = FALSE
    /\ pc = [t \in Threads |-> "idle"]
    /\ won = {}
    /\ inside = FALSE

-----------------------------------------------------------------------------
(* Mutant of Enter: the state is not looked at.                            *)
EnterAnyState ==
    /\ pc[Reactor] = "idle"
    /\ inCallback_' = TRUE
    /\ pc' = [pc EXCEPT ![Reactor] = "callback"]
    /\ inside' = FALSE
    /\ UNCHANGED <<state_, won>>

(* onWrappedCallback.  A callback that comes too late is dropped.          *)
Enter ==
    /\ pc[Reactor] = "idle"
    /\ state_ = "Active"
    /\ inCallback_' = TRUE
    /\ pc' = [pc EXCEPT ![Reactor] = "callback"]
    /\ inside' = FALSE
    /\ UNCHANGED <<state_, won>>

(* Mutant of Leave: nobody is notified.                                    *)
LeaveSilently ==
    /\ pc[Reactor] = "callback"
    /\ inCallback_' = FALSE
    /\ pc' = [pc EXCEPT ![Reactor] = "idle"]
    /\ UNCHANGED <<state_, won, inside>>

Leave ==
    /\ pc[Reactor] = "callback"
    /\ inCallback_' = FALSE
    /\ pc' = [pc EXCEPT ![Reactor] = IF state_ = "Closing" THEN "signal" ELSE "idle"]
    /\ UNCHANGED <<state_, won, inside>>

(* notify_all, after m_ was given up.                                      *)
Signal ==
    /\ pc[Reactor] = "signal"
    /\ pc' = [t \in Threads |->
                IF t = Reactor THEN "idle" ELSE IF pc[t] = "waiting" THEN "woken" ELSE pc[t]]
    /\ UNCHANGED <<state_, inCallback_, won, inside>>

(* The first close() returns true.                                         *)
first(t) == IF state_ = "Active" THEN won \cup {t} ELSE won

(* close() on the reactor's thread, in a wrapped callback or in another    *)
(* one, does not wait.                                                     *)
CloseHere ==
    /\ pc[Reactor] \in {"idle", "callback"}
    /\ state_ # "Closed"
    /\ state_' = "Closed"
    /\ won' = first(Reactor)
    /\ inside' = (inside \/ pc[Reactor] = "callback")
    /\ UNCHANGED <<inCallback_, pc>>

(* close() on another thread.                                              *)
CloseBegin(t) ==
    /\ pc[t] = "idle"
    /\ won' = first(t)
    /\ \/ /\ state_ = "Closed"
          /\ pc' = [pc EXCEPT ![t] = "returned"]
          /\ UNCHANGED state_
       \/ /\ state_ # "Closed" /\ ~inCallback_
          /\ pc' = [pc EXCEPT ![t] = "returned"]
          /\ state_' = "Closed"
       \/ /\ state_ # "Closed" /\ inCallback_
          /\ pc' = [pc EXCEPT ![t] = "waiting"]
          /\ state_' = "Closing"
    /\ UNCHANGED <<inCallback_, inside>>

(* c_.wait returns, also without reason; the condition is tested again.    *)
CloseEnd(t) ==
    /\ IF inCallback_
       THEN /\ pc' = [pc EXCEPT ![t] = "waiting"]
            /\ UNCHANGED state_
       ELSE /\ pc' = [pc EXCEPT ![t] = "returned"]
            /\ state_' = "Closed"
    /\ UNCHANGED <<inCallback_, won, inside>>

Wake(t) == pc[t] = "woken" /\ CloseEnd(t)
WakeSpuriously(t) == pc[t] = "waiting" /\ CloseEnd(t)

Next ==
    \/ Enter \/ Leave \/ Signal \/ CloseHere
    \/ \E t \in Closers : CloseBegin(t) \/ Wake(t) \/ WakeSpuriously(t)

Spec == Init /\ [][Next]_vars

(* Callbacks return and threads run on; nobody has to call close() and     *)
(* nothing is woken without reason.                                        *)
FairSpec ==
    /\ Spec
    /\ WF_vars(Leave) /\ WF_vars(Signal)
    /\ \A t \in Closers : WF_vars(Wake(t))

-----------------------------------------------------------------------------
(* The type of every variable; inCallback_ says whether the reactor's      *)
(* thread is in a wrapped callback.                                        *)
TypeOK ==
    /\ state_ \in {"Active", "Closing", "Closed"}
    /\ inCallback_ \in BOOLEAN /\ inside \in BOOLEAN
    /\ pc \in [Threads -> {"idle", "callback", "signal", "waiting", "woken", "returned"}]
    /\ won \subseteq Threads
    /\ inCallback_ = (pc[Reactor] = "callback")

(* What destructors rely on: when close() has returned no callback runs    *)
(* and none will begin.  The one exception is a callback that closed the   *)
(* watch itself and goes on; nobody waits for that one.                    *)
NoCallbackAfterClose ==
    \A t \in Closers : pc[t] = "returned" =>
        state_ = "Closed" /\ (inCallback_ => inside)

(* However many threads close the watch at once, one close() returns true: *)
(* its caller releases the handle (LTUDPConnection::close).                *)
OneCloser ==
    /\ \A t, u \in won : t = u
    /\ state_ # "Active" => won # {}

(* A close() that waits comes back, unless the callback it waits for       *)
(* closes the watch itself: that one finds StateClosed when it is done,    *)
(* and wakes nobody.                                                       *)
CloseReturns ==
    \A t \in Closers : pc[t] \in {"waiting", "woken"} ~> pc[t] = "returned" \/ inside

=============================================================================
