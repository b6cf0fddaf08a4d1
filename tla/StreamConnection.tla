-------------------------- MODULE StreamConnection --------------------------
(***************************************************************************)
(* A connection that LTUDP or UTP made: LTUDPConnection or UTPConnection,  *)
(* which are the same code, on top of the handle's buffers.  A write is    *)
(* handed to the protocol as far as it takes it and answered when the peer *)
(* has acknowledged all of it; a read is answered from the handle's        *)
(* receive buffer.  All of it runs on the reactor thread.                  *)
(*                                                                         *)
(* Bytes are numbered in the order they are written; the protocol has      *)
(* taken those before sent, the peer has acknowledged those before acked.  *)
(***************************************************************************)
EXTENDS Integers, Sequences, SequencesExt

CONSTANTS
    Sizes,     \* sizes of writes and reads
    MaxQueue,  \* bound on the requests that wait
    MaxBytes,  \* bound on the bytes that are written
    SndBuf,    \* the protocol's send buffer
    RcvBuf     \* rcvBuff_, and the window that the peer is given

VARIABLE stream

(* link is whether the protocol has the connection; waitDummy_, that an    *)
(* accepted uTP connection has not had its first byte, which is not data;  *)
(* full, that uTP took less than it was given and will call onWriteable;   *)
(* refused, that tcp_write failed while the connection was up.             *)
NewStream(utp, dummy) ==
    [utp |-> utp, open |-> TRUE, link |-> TRUE, waitDummy_ |-> dummy,
     writeQueue_ |-> <<>>, writeOutQueue_ |-> <<>>, written |-> 0, sent |-> 0, acked |-> 0,
     full |-> FALSE, refused |-> FALSE,
     readQueue_ |-> <<>>, rcvBuff_ |-> 0, eof_ |-> FALSE, window |-> RcvBuf]

Init == \E utp \in BOOLEAN : \E dummy \in {FALSE, utp} : stream = NewStream(utp, dummy)

Least(a, b) == IF a <= b THEN a ELSE b

-----------------------------------------------------------------------------
(* Writing.                                                                *)

(* The requests as they are when the bytes before pos are done with.       *)
Rest(queue, pos) ==
    LET left == SelectSeq(queue, LAMBDA r : r.last > pos)
    IN  [k \in 1..Len(left) |-> [left[k] EXCEPT !.first = IF @ < pos THEN pos ELSE @]]

(* All that wait are answered with the error.                              *)
FailWrites(s) == [s EXCEPT !.writeQueue_ = <<>>, !.writeOutQueue_ = <<>>]

(* The last loop of onHandleWrite: as much as impl()->write takes.  lwIP   *)
(* takes what fits, or fails; uTP takes what its window allows.            *)
WriteOut(s) ==
    LET room == Least(SndBuf - (s.sent - s.acked), s.written - s.sent)
        to(n) == [s EXCEPT !.sent = @ + n, !.writeOutQueue_ = Rest(@, s.sent + n),
                           !.full = s.utp /\ s.sent + n < s.written]
    IN  IF s.writeOutQueue_ = <<>> THEN {s}
        ELSE IF ~s.link THEN {FailWrites(s)}
        ELSE IF s.waitDummy_ THEN {s}
        ELSE IF s.utp THEN {to(n) : n \in 0..room}
        ELSE {to(room)} \cup
             {[FailWrites(to(n)) EXCEPT !.refused = TRUE] :
                n \in {r.first - s.sent : r \in ToSet(s.writeOutQueue_)} \cap 0..(room - 1)}

(* Mutant of onHandleWrite: more is handed out only when all is answered.  *)
onHandleWriteWhenEmpty(s, err, numBytes) ==
    LET acked == [s EXCEPT !.acked = @ + numBytes,
                           !.writeQueue_ = Rest(@, s.acked + numBytes)]
    IN  IF err THEN {FailWrites(s)}
        ELSE IF numBytes > 0 /\ acked.writeQueue_ # <<>> THEN {acked}
        ELSE WriteOut(acked)

(* numBytes were acknowledged, or the connection failed.                   *)
onHandleWrite(s, err, numBytes) ==
    IF err THEN {FailWrites(s)}
    ELSE WriteOut([s EXCEPT !.acked = @ + numBytes,
                            !.writeQueue_ = Rest(@, s.acked + numBytes)])

onWrite(n) ==
    LET req == [first |-> stream.written, last |-> stream.written + n]
        s == [stream EXCEPT !.writeQueue_ = Append(@, req), !.writeOutQueue_ = Append(@, req),
                            !.written = @ + n]
    IN  /\ stream.open /\ ~stream.refused
        /\ Len(stream.writeQueue_) < MaxQueue /\ s.written <= MaxBytes
        /\ IF Len(s.writeQueue_) = 1 THEN stream' \in onHandleWrite(s, FALSE, 0)
           ELSE stream' = s

(* sentFunc, onSent.                                                       *)
onSent(n) ==
    /\ stream.open /\ stream.link /\ ~stream.refused
    /\ n <= stream.sent - stream.acked
    /\ stream' \in onHandleWrite(stream, FALSE, n)

onWriteable ==
    /\ stream.open /\ stream.link /\ stream.full
    /\ stream' \in onHandleWrite([stream EXCEPT !.full = FALSE], FALSE, 0)

-----------------------------------------------------------------------------
(* Reading.                                                                *)

(* One round of the loop of onHandleRead for its first request, if there   *)
(* is anything to tell; the window that the peer is given follows.         *)
ReadOne(s) ==
    LET req == Head(s.readQueue_)
        n == Least(req.left, s.rcvBuff_)
        err == s.eof_ \/ ~s.link
        got == [s EXCEPT !.rcvBuff_ = @ - n,
                         !.window = IF s.link /\ (s.utp \/ ~s.eof_) THEN @ + n ELSE @]
    IN  IF n = 0 /\ ~err THEN s
        ELSE IF ~req.readAll \/ n = req.left \/ err
        THEN [got EXCEPT !.readQueue_ = Tail(@)]
        ELSE [got EXCEPT !.readQueue_[1].left = @ - n]

(* Every request is visited once, and once more when it is left with       *)
(* nothing to read, which changes nothing.                                 *)
onHandleRead(s) ==
    LET more[k \in 0..MaxQueue] ==
          IF k = 0 THEN s
          ELSE IF more[k - 1].readQueue_ = <<>> THEN more[k - 1] ELSE ReadOne(more[k - 1])
    IN  more[MaxQueue]

onRead(n, readAll) ==
    LET s == [stream EXCEPT !.readQueue_ = Append(@, [left |-> n, readAll |-> readAll])]
    IN  /\ stream.open /\ Len(stream.readQueue_) < MaxQueue
        /\ stream' = IF Len(s.readQueue_) = 1 THEN onHandleRead(s) ELSE s

(* recvFunc, UTPHandleImpl::onRead.  The byte before the data of a uTP     *)
(* connection lets the other end write.                                    *)
onRecv(n) ==
    LET s == [stream EXCEPT !.rcvBuff_ = @ + n, !.window = @ - n, !.waitDummy_ = FALSE]
    IN  /\ stream.open /\ stream.link /\ ~stream.eof_ /\ n <= stream.window
        /\ n = 0 => stream.waitDummy_
        /\ IF stream.waitDummy_
           THEN \E w \in onHandleWrite(s, FALSE, 0) : stream' = onHandleRead(w)
           ELSE stream' = onHandleRead(s)

onEOF ==
    /\ stream.open /\ stream.link /\ ~stream.eof_
    /\ stream' = onHandleRead([stream EXCEPT !.eof_ = TRUE])

(* errorFunc, onError.                                                     *)
onError ==
    /\ stream.open /\ stream.link
    /\ \E s \in onHandleWrite([stream EXCEPT !.link = FALSE], TRUE, 0) : stream' = onHandleRead(s)

(* Any thread, or a callback; nothing is called back from then on.         *)
close ==
    /\ stream.open
    /\ stream' = [stream EXCEPT !.open = FALSE]

Next ==
    \/ \E n \in Sizes : onWrite(n) \/ onSent(n)
    \/ onWriteable
    \/ \E n \in Sizes \cup {0} : onRecv(n)
    \/ \E n \in Sizes, readAll \in BOOLEAN : onRead(n, readAll)
    \/ onEOF
    \/ onError
    \/ close

Spec == Init /\ [][Next]_stream

-----------------------------------------------------------------------------
(* What waits to be answered is what was written and not acknowledged, so  *)
(* that an acknowledgement always finds its request (assert, 99) and a     *)
(* request is answered when its last byte is; what waits to be handed out  *)
(* is what the protocol has not taken, in order; and while anything waits, *)
(* something is under way that ends in another call of onHandleWrite.      *)
(* When the connection has failed, all have been told.                     *)
WritesSound ==
    LET s == stream
        Covers(queue, from) ==
            /\ queue = <<>> => from = s.written
            /\ \A k \in DOMAIN queue :
                 /\ queue[k].first = IF k = 1 THEN from ELSE queue[k - 1].last
                 /\ queue[k].first < queue[k].last
                 /\ k = Len(queue) => queue[k].last = s.written
    IN  s.open =>
          IF ~s.link \/ s.refused THEN s.writeQueue_ = <<>> /\ s.writeOutQueue_ = <<>>
          ELSE /\ Covers(s.writeQueue_, s.acked) /\ Covers(s.writeOutQueue_, s.sent)
               /\ s.writeQueue_ # <<>> => s.sent > s.acked \/ s.full \/ s.waitDummy_

(* No request waits while there is something to tell it; the peer never    *)
(* sends more than rcvBuff_ has room for ("too much data").                *)
ReadsSound ==
    LET s == stream
    IN  /\ s.open /\ s.readQueue_ # <<>> => s.rcvBuff_ = 0 /\ ~s.eof_ /\ s.link
        /\ s.link /\ ~s.eof_ => s.rcvBuff_ + s.window = RcvBuf

=============================================================================
