----------------------------- MODULE TunClient -----------------------------
(***************************************************************************)
(* A TCP connection of the tun device that goes through the tunnel: the    *)
(* tcp_client of tun2socks.c on top of DNodeProxyTCPClient and its C++     *)
(* half, ProxyTCPClient.  tun2socks runs on the main thread; the callbacks *)
(* of ProxyTCPClient run on reactor threads and wake the main thread       *)
(* through a pipe (BThreadSignal).  What a handler schedules on badvpn's   *)
(* interfaces are jobs, which run before the next event, the last one      *)
(* first.  Data are numbers of bytes.                                      *)
(***************************************************************************)
EXTENDS Integers, Sequences

CONSTANTS
    TcpWnd,     \* TCP_WND, the size of buf
    RecvBuf,    \* CLIENT_DTCP_RECV_BUF_SIZE
    SndBuf,     \* lwIP's send buffer
    MaxSignals  \* bound on the bytes in the pipe

ASSUME TunClientAssumption == {TcpWnd, RecvBuf, SndBuf, MaxSignals} \subseteq Nat \ {0}

VARIABLES
    c,        \* struct tcp_client, with the state of its pcb's callbacks
    d,        \* DNodeProxyTCPClient
    p,        \* ProxyTCPClient
    signals,  \* bytes in the pipe
    jobs,     \* scheduled jobs
    io,       \* what the tunnel still owes ProxyTCPClient
    fault     \* whether an ASSERT or assert did not hold

vars == <<c, d, p, signals, jobs, io, fault>>

(* Handlers are functions of all the state.                                *)
all == [c |-> c, d |-> d, p |-> p, signals |-> signals, jobs |-> jobs, io |-> io, fault |-> fault]

Becomes(S) ==
    \E s \in S :
        /\ c' = s.c /\ d' = s.d /\ p' = s.p /\ signals' = s.signals
        /\ jobs' = s.jobs /\ io' = s.io /\ fault' = s.fault

ASSERT(s, cond) == [s EXCEPT !.fault = @ \/ ~cond]

(* listener_accept_func, DNodeProxyTCPClient_Create and ProxyTCPClient.    *)
NewTcpClient ==
    [alive |-> TRUE, client_closed |-> FALSE, recv |-> TRUE, buf_used |-> 0,
     dtcp_up |-> FALSE, dtcp_closed |-> FALSE, recv_buf_used |-> -1,
     recv_buf_sent |-> 0, recv_waiting |-> FALSE, recv_tcp_pending |-> 0]

NewDNodeProxyTCPClient ==
    [alive |-> TRUE, state |-> "CONNECTING", was_connected |-> FALSE,
     sending |-> FALSE, receiving |-> FALSE, conn_timer |-> TRUE]

NewProxyTCPClient ==
    [state_ |-> "CONNECTING", reactorSignal_ |-> TRUE, sending_ |-> FALSE,
     receiving_ |-> FALSE, bytesSent_ |-> 0, bytesReceived_ |-> 0,
     eof_ |-> FALSE, conn_ |-> FALSE]

(* io.register is the answer to registerConnection, io.again a callback    *)
(* the tunnel calls again with an error, at once.                          *)
Init ==
    /\ c = NewTcpClient /\ d = NewDNodeProxyTCPClient /\ p = NewProxyTCPClient
    /\ signals = 0 /\ jobs = <<>> /\ fault = FALSE
    /\ io = [register |-> "waiting", connect |-> FALSE, handshake |-> FALSE,
             write |-> 0, read |-> 0, again |-> "none"]

-----------------------------------------------------------------------------
(* ~ProxyTCPClient: closing the connection and the connector waits for     *)
(* their callbacks, and drops what is owed.                                *)
DeleteProxyTCPClient(s) ==
    [s EXCEPT !.p.reactorSignal_ = FALSE,
              !.io = [register |-> "closed", connect |-> FALSE, handshake |-> FALSE,
                      write |-> 0, read |-> 0, again |-> "none"]]

(* DNodeProxyTCPClient_Destroy.  Jobs of the freed interfaces are gone.    *)
Destroy(s) ==
    [DeleteProxyTCPClient(s) EXCEPT !.d.alive = FALSE, !.d.conn_timer = FALSE,
                                    !.jobs = <<>>, !.signals = 0]

client_dealloc(s) ==
    [ASSERT(s, s.c.client_closed /\ s.c.dtcp_closed) EXCEPT !.c.alive = FALSE]

(* client_free_client of a client whose DTCP is closed.                    *)
free_last(s) ==
    client_dealloc([ASSERT(s, ~s.c.client_closed) EXCEPT !.c.client_closed = TRUE])

client_free_dtcp(s0) ==
    LET s == [Destroy(ASSERT(s0, ~s0.c.dtcp_closed)) EXCEPT
                !.c.dtcp_closed = TRUE, !.c.recv = @ /\ ~s0.c.dtcp_up]
    IN  IF s.c.dtcp_up /\ (s.c.recv_buf_used >= 0 \/ s.c.recv_tcp_pending > 0)
           /\ ~s.c.client_closed
        THEN s
        ELSE IF ~s.c.client_closed THEN free_last(s) ELSE client_dealloc(s)

client_handle_freed_client(s0) ==
    LET s == [ASSERT(s0, ~s0.c.client_closed) EXCEPT !.c.client_closed = TRUE]
    IN  IF s.c.buf_used > 0 /\ ~s.c.dtcp_closed THEN s
        ELSE IF ~s.c.dtcp_closed THEN client_free_dtcp(s) ELSE client_dealloc(s)

client_abort_client(s) == client_handle_freed_client(s)

(* Scheduling on the interfaces.                                           *)
Push(s, j) == [s EXCEPT !.jobs = <<j>> \o @]

client_send_to_dtcp(s) ==
    Push(ASSERT(s, ~s.c.dtcp_closed /\ s.c.dtcp_up /\ s.c.buf_used > 0), "send")

client_dtcp_recv_initiate(s) ==
    Push(ASSERT(s, ~s.c.client_closed /\ ~s.c.dtcp_closed /\ s.c.dtcp_up
                   /\ s.c.recv_buf_used = -1), "recv")

(* Mutant of client_recv_func: it sends while a send is under way.         *)
client_recv_func_sends(s0, len) ==
    LET s == [ASSERT(s0, ~s0.c.client_closed) EXCEPT !.c.buf_used = @ + len]
    IN  IF s.c.dtcp_up THEN client_send_to_dtcp(s) ELSE s

client_recv_func(s0, len) ==
    LET s == [ASSERT(s0, ~s0.c.client_closed) EXCEPT !.c.buf_used = @ + len]
    IN  IF s.c.buf_used = len /\ s.c.dtcp_up THEN client_send_to_dtcp(s) ELSE s

(* Mutant of client_dtcp_send_handler_done: the last send of a closed      *)
(* client frees nothing.                                                   *)
client_dtcp_send_handler_keeps(s0, len) ==
    LET s == [s0 EXCEPT !.c.buf_used = @ - len]
    IN  IF s.c.buf_used > 0 THEN Push(s, "send") ELSE s

client_dtcp_send_handler_done(s0, len) ==
    LET a == ASSERT(s0, /\ ~s0.c.dtcp_closed /\ s0.c.dtcp_up
                        /\ 0 < len /\ len <= s0.c.buf_used)
        s == [a EXCEPT !.c.buf_used = @ - len]
    IN  IF s.c.buf_used > 0 THEN Push(s, "send")
        ELSE IF s.c.client_closed THEN client_free_dtcp(s) ELSE s

(* lwIP takes k bytes of what was read.                                    *)
queued(s, k) == [s EXCEPT !.c.recv_buf_sent = @ + k, !.c.recv_tcp_pending = @ + k]

(* As much as lwIP takes, nothing if it is out of memory.  lwIP may also   *)
(* fail, or take nothing although it has confirmed everything; then the    *)
(* client is aborted and -1 is returned.                                   *)
client_dtcp_recv_send_out(s0) ==
    LET s == ASSERT(s0, /\ ~s0.c.client_closed /\ s0.c.dtcp_up /\ ~s0.c.recv_waiting
                        /\ 0 < s0.c.recv_buf_used /\ s0.c.recv_buf_sent < s0.c.recv_buf_used)
        left == s.c.recv_buf_used - s.c.recv_buf_sent
        room == SndBuf - s.c.recv_tcp_pending
        next(t) ==
            IF t.c.recv_buf_sent = t.c.recv_buf_used
            THEN [ret |-> 0, s |-> [t EXCEPT !.c.recv_buf_used = -1]]
            ELSE IF t.c.recv_tcp_pending = 0 THEN [ret |-> -1, s |-> client_abort_client(t)]
            ELSE [ret |-> 0, s |-> [t EXCEPT !.c.recv_waiting = TRUE]]
    IN  {[ret |-> -1, s |-> client_abort_client(s)]} \cup
        {next(queued(s, k)) : k \in {0, IF left < room THEN left ELSE room}}

client_dtcp_recv_handler_done(s0, len) ==
    LET s == ASSERT(s0, /\ 0 < len /\ len <= RecvBuf /\ ~s0.c.dtcp_closed
                        /\ s0.c.dtcp_up /\ s0.c.recv_buf_used = -1)
        t == [s EXCEPT !.c.recv_buf_used = len, !.c.recv_buf_sent = 0, !.c.recv_waiting = FALSE]
        more(u) == IF u.c.recv_buf_used = -1 THEN client_dtcp_recv_initiate(u) ELSE u
    IN  IF s.c.client_closed THEN {s}
        ELSE {IF o.ret < 0 THEN o.s ELSE more(o.s) : o \in client_dtcp_recv_send_out(t)}

client_sent_func(s0, len) ==
    LET s == [ASSERT(s0, ~s0.c.client_closed /\ s0.c.dtcp_up) EXCEPT !.c.recv_tcp_pending = @ - len]
        t == [ASSERT(s, s.c.recv_waiting) EXCEPT !.c.recv_waiting = FALSE]
        more(u) ==
            LET v == ASSERT(u, u.c.recv_tcp_pending > 0)
            IN  IF u.c.recv_buf_used = -1 /\ ~u.c.dtcp_closed
                THEN client_dtcp_recv_initiate(v) ELSE v
    IN  IF s.c.recv_buf_used > 0
        THEN {IF o.ret < 0 THEN o.s ELSE more(o.s) : o \in client_dtcp_recv_send_out(t)}
        ELSE IF s.c.dtcp_closed /\ s.c.recv_tcp_pending = 0 THEN {free_last(s)}
        ELSE {s}

(* client_dtcp_handler.                                                    *)
event_up(s0) ==
    LET s == [ASSERT(s0, ~s0.c.dtcp_closed /\ ~s0.c.dtcp_up /\ s0.d.state = "UP") EXCEPT
                !.c.recv_buf_used = -1, !.c.recv_tcp_pending = 0, !.c.dtcp_up = TRUE]
        t == IF s.c.buf_used > 0 THEN client_send_to_dtcp(s) ELSE s
    IN  IF s.c.client_closed THEN t ELSE client_dtcp_recv_initiate(t)

event_error(s) == client_free_dtcp(ASSERT(s, s.p.eof_ => s.c.dtcp_up))

-----------------------------------------------------------------------------
(* The jobs: the handlers DNodeProxyTCPClient and tun2socks gave the       *)
(* interfaces, and the rest of SignalHandler.                              *)
send(s, len) ==
    [ASSERT(s, s.p.conn_ /\ ~s.p.sending_) EXCEPT !.p.sending_ = TRUE, !.io.write = len]

receive(s, avail) ==
    [ASSERT(s, s.p.conn_ /\ ~s.p.receiving_) EXCEPT !.p.receiving_ = TRUE, !.io.read = avail]

SendHandler(s) ==
    send([ASSERT(s, ~s.d.sending) EXCEPT !.d.sending = TRUE], s.c.buf_used)

RecvHandler(s) ==
    receive([ASSERT(s, ~s.d.receiving) EXCEPT !.d.receiving = TRUE], RecvBuf)

(* SignalHandler looks for a read, then for a write that is done.          *)
isReceiving(s) ==
    IF s.d.receiving /\ ~s.p.receiving_
    THEN Push([s EXCEPT !.d.receiving = FALSE], "recvDone") ELSE s

isSending(s) ==
    IF s.d.sending /\ ~s.p.sending_
    THEN Push([s EXCEPT !.d.sending = FALSE], "sendDone") ELSE s

Job(s, j) ==
    CASE j = "isReceiving" -> {Push(isReceiving(s), "isSending")}
      [] j = "isSending" -> {isSending(s)}
      [] j = "send" -> {SendHandler(s)}
      [] j = "recv" -> {RecvHandler(s)}
      [] j = "sendDone" -> {client_dtcp_send_handler_done(s, s.p.bytesSent_)}
      [] j = "recvDone" -> client_dtcp_recv_handler_done(s, s.p.bytesReceived_)

RunJob == jobs # <<>> /\ Becomes(Job([all EXCEPT !.jobs = Tail(jobs)], Head(jobs)))

(* DNodeProxyTCPClient_SignalHandler.                                      *)
newState(s0) ==
    LET s == [s0 EXCEPT !.d.state = s0.p.state_]
    IN  IF s0.d.state = s0.p.state_ THEN s0
        ELSE IF s.d.state = "UP"
             THEN event_up([s EXCEPT !.d.was_connected = TRUE, !.d.conn_timer = FALSE])
             ELSE event_error(s)

(* SignalHandler reads state_, the rest follows as jobs: callbacks may run *)
(* in between.                                                             *)
SignalHandler ==
    /\ jobs = <<>> /\ d.alive /\ signals > 0
    /\ LET s == newState([all EXCEPT !.signals = signals - 1])
       IN  Becomes({IF p.state_ = "UP" THEN Push(s, "isReceiving") ELSE s})

signalReactor(s) == IF s.p.reactorSignal_ THEN [s EXCEPT !.signals = @ + 1] ELSE s

(* The timer goes off once: setErr.                                        *)
ConnTimerHandler ==
    /\ jobs = <<>> /\ d.alive /\ d.conn_timer
    /\ LET s == [ASSERT(all, ~d.was_connected) EXCEPT !.d.conn_timer = FALSE, !.p.state_ = "ERR"]
       IN  Becomes({[signalReactor(s) EXCEPT !.p.reactorSignal_ = FALSE]})

(* lwIP calls tun2socks: data (as much as the window allows), FIN or an    *)
(* error, data confirmed by the application.                               *)
ClientRecv ==
    /\ jobs = <<>> /\ c.alive /\ ~c.client_closed /\ c.recv
    /\ \E len \in 1..(TcpWnd - c.buf_used) : Becomes({client_recv_func(all, len)})

ClientGone ==
    /\ jobs = <<>> /\ c.alive /\ ~c.client_closed
    /\ Becomes({client_handle_freed_client(all)})

ClientSent ==
    /\ jobs = <<>> /\ c.alive /\ ~c.client_closed
    /\ \E len \in 1..c.recv_tcp_pending : Becomes(client_sent_func(all, len))

-----------------------------------------------------------------------------
(* Mutant of Err: tun2socks is not signalled.                              *)
ErrSilent(s) == [s EXCEPT !.p.state_ = "ERR"]

(* The callbacks on the reactor threads.                                   *)
Err(s) == signalReactor([s EXCEPT !.p.state_ = "ERR"])

(* An error may follow a success, see Rendezvous.CallbackDiscipline.       *)
onConnectionRegister ==
    /\ io.register \in {"waiting", "ok"}
    /\ \E err \in BOOLEAN :
         /\ io.register = "ok" => err
         /\ LET s == [all EXCEPT !.io.register = IF err THEN "error" ELSE "ok"]
            IN  IF ~p.reactorSignal_ THEN Becomes({s})
                ELSE IF err THEN Becomes({Err(s)})
                ELSE Becomes({Err(s), [s EXCEPT !.io.connect = TRUE]})

onConnect ==
    /\ io.connect
    /\ LET s == [all EXCEPT !.io.connect = FALSE]
       IN  \/ Becomes({Err(s)})
           \/ Becomes({IF p.reactorSignal_
                       THEN [s EXCEPT !.p.conn_ = TRUE, !.io.handshake = TRUE] ELSE s})

(* A read that ends with an error may have data for its callback first.    *)
onHandshakeRecv ==
    /\ io.handshake
    /\ LET s == [all EXCEPT !.io.handshake = FALSE]
       IN  \/ Becomes({Err(s)})
           \/ \E again \in {"none", "onHandshakeRecv"} :
                Becomes({signalReactor([s EXCEPT !.p.state_ = "UP", !.io.again = again])})

onSend ==
    /\ io.write > 0 /\ io.again = "none"
    /\ LET s == [all EXCEPT !.io.write = 0]
       IN  \/ Becomes({Err(s)})
           \/ Becomes({signalReactor([s EXCEPT !.p.sending_ = FALSE, !.p.bytesSent_ = io.write])})

RecvErr(s) == {Err([s EXCEPT !.p.eof_ = eof]) : eof \in {s.p.eof_, TRUE}}

onRecv ==
    /\ io.read > 0 /\ io.again = "none"
    /\ LET s == [all EXCEPT !.io.read = 0]
       IN  \/ Becomes(RecvErr(s))
           \/ \E len \in 1..io.read, again \in {"none", "onRecv"} :
                Becomes({signalReactor([s EXCEPT !.p.receiving_ = FALSE, !.p.bytesReceived_ = len,
                                                 !.io.again = again])})

Again ==
    /\ io.again # "none"
    /\ LET s == [all EXCEPT !.io.again = "none"]
       IN  Becomes(IF io.again = "onRecv" THEN RecvErr(s) ELSE {Err(s)})

Callbacks ==
    /\ signals < MaxSignals
    /\ \/ onConnectionRegister \/ onConnect \/ onHandshakeRecv
       \/ onSend \/ onRecv \/ Again

Next == RunJob \/ SignalHandler \/ ConnTimerHandler \/ ClientRecv \/ ClientGone \/ ClientSent \/ Callbacks

Spec == Init /\ [][Next]_vars

(* Threads run, what the tunnel was asked for is done or fails, the timer  *)
(* goes off, what lwIP sent is confirmed (or ClientGone).  Nothing makes   *)
(* an application send or close, or a registration be answered.            *)
FairSpec ==
    /\ Spec
    /\ WF_vars(RunJob) /\ WF_vars(SignalHandler) /\ WF_vars(ConnTimerHandler)
    /\ WF_vars(ClientSent \/ ClientGone)
    /\ WF_vars(Callbacks /\ onConnect) /\ WF_vars(Callbacks /\ onHandshakeRecv)
    /\ WF_vars(Callbacks /\ onSend) /\ WF_vars(Callbacks /\ Again)

-----------------------------------------------------------------------------
States == {"CONNECTING", "UP", "ERR"}

(* The type of every variable.                                             *)
TypeOK ==
    /\ c.buf_used \in 0..TcpWnd /\ c.recv_buf_used \in -1..RecvBuf
    /\ c.recv_buf_sent \in 0..RecvBuf /\ c.recv_tcp_pending \in 0..SndBuf
    /\ {c.alive, c.client_closed, c.recv, c.dtcp_up, c.dtcp_closed, c.recv_waiting} \subseteq BOOLEAN
    /\ {d.state, p.state_} \subseteq States
    /\ {d.sending, d.receiving, p.sending_, p.receiving_, p.eof_, p.conn_} \subseteq BOOLEAN
    /\ signals \in 0..MaxSignals + 1 /\ Len(jobs) <= 3

(* None of the ASSERTs of tun2socks and DNodeProxyTCPClient fails: no      *)
(* second read or write while one is under way, no call into a freed or    *)
(* closed half, no data for a full buffer, no EOF before the connection is *)
(* up, an entry is freed when both halves are closed.                      *)
AssertsHold == TypeOK /\ ~fault

(* No wakeup is lost: while the reactor threads may still signal, what     *)
(* they changed and tun2socks has not seen has a byte in the pipe, or is   *)
(* about to be looked at.                                                  *)
NoLostWakeup ==
    LET due(j) == signals > 0 \/ \E i \in DOMAIN jobs : jobs[i] = j
    IN  d.alive /\ p.reactorSignal_ =>
            /\ p.state_ # d.state => signals > 0
            /\ d.sending /\ ~p.sending_ => due("isReceiving") \/ due("isSending")
            /\ d.receiving /\ ~p.receiving_ => due("isReceiving")

(* Neither pump stalls.  Whatever is buffered for the tunnel is being      *)
(* sent; as long as the application is there the tunnel is being read or   *)
(* what was read waits for lwIP to confirm something.                      *)
PumpsRun ==
    c.alive /\ c.dtcp_up /\ jobs = <<>> =>
        /\ ~c.dtcp_closed => (c.buf_used > 0 <=> d.sending)
        /\ ~c.client_closed => (c.recv_waiting => c.recv_tcp_pending > 0)
        /\ ~c.client_closed /\ ~c.dtcp_closed => (d.receiving <=> c.recv_buf_used = -1)

(* The client never stalls: no signal of the reactor threads is missed and *)
(* both pumps go on.                                                       *)
NoStall == NoLostWakeup /\ PumpsRun

(* The timer went off while the handshake was on its way: up, but nobody   *)
(* signals any more.                                                       *)
UpAfterTimeout == d.alive /\ d.state = "UP" /\ ~p.reactorSignal_

(* A client one half of which is closed is freed, unless its connection    *)
(* came up after the timeout.                                              *)
Reclaimed ==
    c.client_closed \/ c.dtcp_closed ~> ~c.alive \/ UpAfterTimeout
=============================================================================
