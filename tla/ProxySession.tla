---------------------------- MODULE ProxySession ----------------------------
(***************************************************************************)
(* ProxySession: the accepting end of a tunnel.  It connects the tunnel    *)
(* (remote) and a local server (local) and pumps data both ways.  What is  *)
(* read from one side is put into the other side's ring buffer and written *)
(* from there without copying, so that a place of the ring is taken from   *)
(* the insertion until the write is done.  The callbacks of the two sides  *)
(* run on the threads of two reactors and take m_.                         *)
(***************************************************************************)
EXTENDS Integers, Sequences, FiniteSets

CONSTANTS
    BuffSize,   \* DTUN_PROXY_BUFF_SIZE
    ChunkSize,  \* DTUN_PROXY_CHUNK_SIZE
    OneReactor  \* whether start() runs on the thread of the tunnel's reactor

ASSUME ProxySessionAssumption ==
    /\ {BuffSize, ChunkSize} \subseteq Nat \ {0}
    /\ OneReactor \in BOOLEAN

Sides == {"local", "remote"}
Other(x) == IF x = "local" THEN "remote" ELSE "local"

VARIABLES
    started,         \* how far start() is
    callback_,       \* whether it is set
    connector,       \* state of each side's connector
    conn,            \* sides that have a connection
    connected_, done_, localShutdown_,
    sndBuffBytes_,   \* bytes in each side's ring that are not yet written
    first,           \* where each side's ring is filled next
    reads,           \* sizes of the reads asked of each side
    writes,          \* writes asked of each side, as the places of the ring
    calls            \* how often callback_ was called

vars == <<started, callback_, connector, conn, connected_, done_, localShutdown_, sndBuffBytes_, first,
          reads, writes, calls>>

Init ==
    /\ started = "no" /\ callback_ = FALSE
    /\ connector = [x \in Sides |-> "none"]
    /\ conn = {}
    /\ connected_ = FALSE /\ done_ = FALSE /\ localShutdown_ = FALSE
    /\ sndBuffBytes_ = [x \in Sides |-> 0]
    /\ first = [x \in Sides |-> 0]
    /\ reads = [x \in Sides |-> <<>>]
    /\ writes = [x \in Sides |-> <<>>]
    /\ calls = 0

-----------------------------------------------------------------------------
(* start() with m_ held: both connectors connect, or the tunnel's does and *)
(* the local one fails, or neither does.                                   *)
start ==
    /\ started = "no"
    /\ \E to \in {Sides, {"remote"}, {}} :
         /\ connector' = [x \in Sides |-> IF x \in to THEN "connecting" ELSE "none"]
         /\ callback_' = (to = Sides)
         /\ started' = IF to = Sides THEN "yes" ELSE "failing"
    /\ UNCHANGED <<conn, connected_, done_, localShutdown_, sndBuffBytes_, first, reads, writes, calls>>

(* The rest of a start() that fails: the connectors are gone.              *)
startFails ==
    /\ started = "failing"
    /\ started' = "failed"
    /\ connector' = [x \in Sides |-> "none"]
    /\ UNCHANGED <<callback_, conn, connected_, done_, localShutdown_, sndBuffBytes_, first,
                   reads, writes, calls>>

(* An error, on whichever side: callback_ destroys the session.            *)
fail ==
    /\ done_' = TRUE
    /\ calls' = calls + 1

(* recvLocal and recvRemote: how much may be read from x when bytes of the *)
(* other side's ring are taken.                                            *)
toRecv(bytes) == IF BuffSize - bytes < ChunkSize THEN BuffSize - bytes ELSE ChunkSize
recv(bytes) == IF toRecv(bytes) <= 0 THEN <<>> ELSE <<toRecv(bytes)>>

Handshake == {}

(* A side is connected; with the second one the pumps begin.               *)
connectedSide(x) ==
    /\ conn' = conn \cup {x}
    /\ connected_' = (conn' = Sides)
    /\ IF connected_'
       THEN /\ writes' = [writes EXCEPT !["remote"] = Append(@, Handshake)]
            /\ reads' = [y \in Sides |-> recv(0)]
       ELSE UNCHANGED <<reads, writes>>
    /\ UNCHANGED <<done_, calls>>

(* Mutant of onConnect: done_ is not looked at.                            *)
onConnectAgain(x) ==
    /\ connector[x] = "connecting" /\ (started = "yes" \/ ~OneReactor)
    /\ connector' = [connector EXCEPT ![x] = "closed"]
    /\ \/ fail /\ UNCHANGED <<conn, connected_, reads, writes>>
       \/ connectedSide(x)
    /\ UNCHANGED <<started, callback_, localShutdown_, sndBuffBytes_, first>>

onConnect(x) ==
    /\ connector[x] = "connecting" /\ (started = "yes" \/ ~OneReactor)
    /\ connector' = [connector EXCEPT ![x] = "closed"]
    /\ \/ done_ /\ UNCHANGED <<conn, connected_, done_, reads, writes, calls>>
       \/ ~done_ /\ fail /\ UNCHANGED <<conn, connected_, reads, writes>>
       \/ ~done_ /\ connectedSide(x)
    /\ UNCHANGED <<started, callback_, localShutdown_, sndBuffBytes_, first>>

(* Mutant of arrays: the part behind the end of the ring is not written.   *)
arraysNoWrap(x, num) ==
    <<{i \in first[x]..first[x] + num - 1 : i < BuffSize}>>

(* sendLocal and sendRemote: the places of the ring that num bytes get, as *)
(* one range or, where the ring wraps, two.                                *)
arrays(x, num) ==
    LET room == BuffSize - first[x]
    IN  IF num <= room THEN <<first[x]..first[x] + num - 1>>
        ELSE <<first[x]..BuffSize - 1, 0..num - room - 1>>

send(x, num) ==
    /\ sndBuffBytes_' = [sndBuffBytes_ EXCEPT ![x] = @ + num]
    /\ writes' = [writes EXCEPT ![x] = @ \o arrays(x, num)]
    /\ first' = [first EXCEPT ![x] = (@ + num) % BuffSize]

(* onLocalRecv and onRemoteRecv.  0 bytes are the local side's EOF; the    *)
(* tunnel reports its own as an error.                                     *)
onRecv(x, num) ==
    /\ num > 0
    /\ send(Other(x), num)
    /\ reads' = [reads EXCEPT ![x] = Tail(@) \o recv(sndBuffBytes_'[Other(x)])]
    /\ UNCHANGED localShutdown_

onLocalEOF ==
    /\ localShutdown_' = TRUE
    /\ reads' = [reads EXCEPT !["local"] = Tail(@)]
    /\ UNCHANGED <<sndBuffBytes_, writes, first>>

Recv(x) ==
    /\ ~done_ /\ reads[x] # <<>>
    /\ \/ /\ \E num \in 1..Head(reads[x]) : onRecv(x, num)
          /\ UNCHANGED <<done_, calls>>
       \/ x = "local" /\ onLocalEOF /\ UNCHANGED <<done_, calls>>
       \/ fail /\ UNCHANGED <<localShutdown_, sndBuffBytes_, writes, first, reads>>
    /\ UNCHANGED <<started, callback_, connector, conn, connected_>>

(* Mutant of flushed: the session does not end.                            *)
flushedNever(x, num) == FALSE

(* onLocalSend and onRemoteSend: num bytes of a ring are free.  The        *)
(* session may be over; the other side is read again if the ring was full. *)
flushed(x, num) == x = "remote" /\ sndBuffBytes_[x] - num <= 0 /\ localShutdown_

sent(x, num, over, fireRecv) ==
    LET left == sndBuffBytes_[x] - num
    IN  /\ sndBuffBytes_' = [sndBuffBytes_ EXCEPT ![x] = left]
        /\ IF over THEN fail ELSE UNCHANGED <<done_, calls>>
        /\ reads' = IF fireRecv /\ ~(x = "remote" /\ localShutdown_)
                    THEN [reads EXCEPT ![Other(x)] = @ \o recv(left)]
                    ELSE reads

(* Mutant of onSend: the ring is looked at after the bytes were taken off. *)
onSendLateCheck(x, num) ==
    sent(x, num, flushed(x, num), sndBuffBytes_[x] - num >= BuffSize)

onSend(x, num) == sent(x, num, flushed(x, num), sndBuffBytes_[x] >= BuffSize)

(* A write is done; or it fails.  onHandshakeSend has nothing to do.       *)
Sent(x) ==
    /\ ~done_ /\ writes[x] # <<>>
    /\ writes' = [writes EXCEPT ![x] = Tail(@)]
    /\ \/ /\ Head(writes[x]) # Handshake
          /\ onSend(x, Cardinality(Head(writes[x])))
       \/ /\ Head(writes[x]) = Handshake
          /\ UNCHANGED <<done_, calls, sndBuffBytes_, reads>>
       \/ fail /\ UNCHANGED <<sndBuffBytes_, reads>>
    /\ UNCHANGED <<started, callback_, connector, conn, connected_, localShutdown_, first>>

onLocalConnect == onConnect("local")
onRemoteConnect == onConnect("remote")
onLocalRecv == Recv("local")
onRemoteRecv == Recv("remote")
onLocalSend == Sent("local")
onRemoteSend == Sent("remote")

Next ==
    \/ start \/ startFails
    \/ onLocalConnect \/ onLocalRecv \/ onLocalSend
    \/ onRemoteConnect \/ onRemoteRecv \/ onRemoteSend

Spec == Init /\ [][Next]_vars

(* What was asked to be written is written, or fails.                      *)
FairSpec == Spec /\ WF_vars(onLocalSend) /\ WF_vars(onRemoteSend)

-----------------------------------------------------------------------------
(* The type of every variable.                                             *)
TypeOK ==
    /\ started \in {"no", "yes", "failing", "failed"} /\ callback_ \in BOOLEAN
    /\ connector \in [Sides -> {"none", "connecting", "closed"}]
    /\ conn \subseteq Sides
    /\ {connected_, done_, localShutdown_} \subseteq BOOLEAN
    /\ sndBuffBytes_ \in [Sides -> 0..BuffSize] /\ first \in [Sides -> 0..BuffSize - 1]
    /\ \A x \in Sides :
         /\ \A i \in 1..Len(reads[x]) : reads[x][i] \in 1..ChunkSize
         /\ \A i \in 1..Len(writes[x]) : writes[x][i] \subseteq 0..BuffSize - 1
    /\ calls \in Nat

(* callback_ is called once at most, whichever sides fail, and only if     *)
(* start() has returned true: DMasterClient drops the session with it.     *)
CalledBackOnce == calls <= 1 /\ (calls = 1 => callback_ /\ done_)

(* Data that are being written are never overwritten: no place of the ring *)
(* is taken twice, and the taken ones are those that are counted.  Hence   *)
(* the asserts on the counters (123, 209, 216, 280, 314).                  *)
RingIntact ==
    /\ TypeOK
    /\ \A x \in Sides :
        /\ \A i, j \in 1..Len(writes[x]) : i # j => writes[x][i] \cap writes[x][j] = {}
        /\ ~done_ => sndBuffBytes_[x] = Cardinality(UNION {writes[x][i] : i \in DOMAIN writes[x]})

(* One read at most is under way on each side, and its data will find      *)
(* room: the receive buffer (localRcvBuff_, remoteRcvBuff_) is resized for *)
(* a read only when the one before has been answered.                      *)
OneRead ==
    \A x \in Sides :
        /\ Len(reads[x]) <= 1
        /\ reads[x] # <<>> => Head(reads[x]) <= BuffSize - sndBuffBytes_[Other(x)]

(* Neither a buffer that is being read into nor one that is being written  *)
(* from is touched: the rings (RingIntact) and the receive buffers         *)
(* (OneRead) of both sides.                                                *)
BuffersIntact == RingIntact /\ OneRead

(* No pump stalls: a side that is not being read either has had its EOF or *)
(* waits for a write to the other side, and is read again after it.        *)
PumpsRun ==
    connected_ /\ ~done_ =>
        \A x \in Sides :
            \/ reads[x] # <<>>
            \/ x = "local" /\ localShutdown_
            \/ sndBuffBytes_[Other(x)] = BuffSize

(* After the local server's EOF what it has sent still reaches the tunnel, *)
(* and then the session ends.  (With nothing left to send, it does not.)   *)
EndsWhenFlushed ==
    localShutdown_ /\ sndBuffBytes_["remote"] > 0 ~> done_

=============================================================================
