------------------------------- MODULE QuicGlue -------------------------------
(***************************************************************************)
(* The sans-I/O raw QUIC client: struct quiche_py_client of                *)
(* src/bindings/quiche_glue.cc.  It owns no socket and no clock: packets   *)
(* are pushed in, packets are popped out, and the alarms of QUICHE are run *)
(* when the caller says that time has passed.                              *)
(*                                                                         *)
(* The module has no variables.  A client is a record and every method is  *)
(* an operator that maps a client to the SET of outcomes [c, st, val] the  *)
(* call may have: the client afterwards, the quiche_py_status and the      *)
(* value passed back through the out parameter (0 if there is none).  The  *)
(* set has several members only where QUICHE decides.  Every method runs   *)
(* under mutex_, so one outcome is one atomic step of its caller.          *)
(*                                                                         *)
(* client_ is never null here: CreateClient's failures are thrown by the   *)
(* Python constructor, which then destroys the handle.                     *)
(***************************************************************************)
EXTENDS Integers, Sequences, FiniteSets

CONSTANTS
    StreamIds,     \* QUIC stream ids in use; id % 4 gives initiator and direction
    MaxDatagrams,  \* bound: datagrams the peer sends on one connection
    MaxPackets,    \* bound: packets QUICHE leaves in the send queue (plus one close)
    MaxChunks,     \* bound: chunks of stream data that wait to be read
    MaxRoom,       \* bound: writes a stream accepts before it blocks
    MaxCredit      \* bound: streams of one direction the peer lets us open at a time

ASSUME StreamIdsAssumption == StreamIds \subseteq Nat
ASSUME BoundsAssumption ==
    /\ MaxDatagrams \in Nat /\ MaxPackets \in Nat \ {0} /\ MaxChunks \in Nat
    /\ MaxRoom \in Nat \ {0} /\ MaxCredit \in Nat

-----------------------------------------------------------------------------
(* The state of one client.                                                *)

\* last_error_: the wording is left out, the origin of the message is kept.
NoError == ""
Errors == {NoError, "session closed", "connection closed", "not open",
           "not started", "stream missing", "too big", "datagram failed"}

\* A stream as GetStreamById sees it ("pending" and "open" are found).  buf
\* and fin are what PeekNextReadableRegion reports; room is what CanWrite
\* looks at.
StreamStates ==
    [phase : {"unused", "pending", "open", "gone"}, buf : 0..MaxChunks,
     fin : BOOLEAN, rclosed : BOOLEAN, wclosed : BOOLEAN, room : 0..MaxRoom]

\* client_->connected() is conn = "open": from StartConnect on, before TLS
\* completes.  It is "none" before, "closed" for ever after, and "failed" if
\* the connection ended inside StartConnect.
\* arrived counts the datagrams ever received; it numbers them.
Clients ==
    [conn : {"none", "open", "closed", "failed"},
     session_ready : BOOLEAN, session_closed : BOOLEAN,
     received_datagrams : Seq(1..MaxDatagrams), arrived : 0..MaxDatagrams,
     last_error : Errors, send_queue : Seq({"packet", "close"}),
     credit : [BOOLEAN -> 0..MaxCredit], dgroom : 0..MaxRoom,
     streams : [StreamIds -> StreamStates]]

Outgoing(id) == id % 2 = 0
Unidirectional(id) == id % 4 \in {2, 3}

UnusedStream(id) ==
    [phase |-> "unused", buf |-> 0, fin |-> FALSE,
     rclosed |-> Unidirectional(id) /\ Outgoing(id),
     wclosed |-> Unidirectional(id) /\ ~Outgoing(id), room |-> MaxRoom]

\* A constructed client whose Start has not been called.
FreshClient ==
    [conn |-> "none", session_ready |-> FALSE, session_closed |-> FALSE,
     received_datagrams |-> <<>>, arrived |-> 0, last_error |-> NoError,
     send_queue |-> <<>>, credit |-> [u \in BOOLEAN |-> 0], dgroom |-> MaxRoom,
     streams |-> [id \in StreamIds |-> UnusedStream(id)]]

Out(c, st, val) == [c |-> c, st |-> st, val |-> val]

-----------------------------------------------------------------------------
(* Error bookkeeping.                                                      *)

SetError(c, e) == [c EXCEPT !.last_error = e]
SetErrorIfEmpty(c, e) == IF c.last_error = NoError THEN SetError(c, e) ELSE c
ResetRuntimeError(c) == SetError(c, NoError)

\* Both branches of the code (the peer's text, or the number) are non-empty.
PopulateClosedErrorIfNeeded(c) ==
    IF c.session_closed THEN SetErrorIfEmpty(c, "session closed") ELSE c

IsConnected(c) == c.conn = "open" /\ c.session_ready

\* EnsureConnected's failing branch, the answer of every stream and datagram
\* operation on a connection that is not established.
NotConnected(c) ==
    {Out(SetErrorIfEmpty(PopulateClosedErrorIfNeeded(c), "not open"), "CLOSED", 0)}

\* Mutant of AfterQuiche: no stock text when the visitor has none.
AfterQuicheUnexplained(c) ==
    IF c.conn = "open" THEN Out(c, "OK", 0) ELSE Out(PopulateClosedErrorIfNeeded(c), "CLOSED", 0)

\* What ReceivePacket and HandleTimeout do once QUICHE has run.
AfterQuiche(c) ==
    IF c.conn = "open"
      THEN Out(c, "OK", 0)
      ELSE Out(SetErrorIfEmpty(PopulateClosedErrorIfNeeded(c), "connection closed"),
               "CLOSED", 0)

-----------------------------------------------------------------------------
(* What QUICHE does inside the calls (external code).                      *)

\* Buffering a packet in the send queue (BufferingPacketWriter::WritePacket
\* never fails and never blocks).
WritePacket(c, kind) == [c EXCEPT !.send_queue = Append(@, kind)]

\* QUICHE may have an ack, a window update, data... to send, or nothing.
MaySend(c) ==
    {c} \cup IF Len(c.send_queue) < MaxPackets THEN {WritePacket(c, "packet")} ELSE {}

\* A stream with both sides closed leaves the session's map of active streams.
Settle(s) == IF s.rclosed /\ s.wclosed THEN [s EXCEPT !.phase = "gone", !.buf = 0, !.fin = FALSE] ELSE s
SetStream(c, id, s) == [c EXCEPT !.streams[id] = Settle(s)]

Active(c) == {id \in StreamIds : c.streams[id].phase \in {"pending", "open"}}

\* OnSessionReady when TLS completes; the transport parameters carry the
\* initial stream limits.
HandshakeDone(c) ==
    IF c.conn = "open" /\ ~c.session_ready
      THEN {[c EXCEPT !.session_ready = TRUE, !.credit = f] : f \in [BOOLEAN -> 0..MaxCredit]}
      ELSE {}

\* OnDatagramReceived: queued without a limit in the code.
OnDatagramReceived(c) ==
    IF IsConnected(c) /\ c.arrived < MaxDatagrams
      THEN {[c EXCEPT !.received_datagrams = Append(@, c.arrived + 1), !.arrived = @ + 1]}
      ELSE {}

\* The peer opens a stream, sends data or FIN, resets its side, or asks us to
\* stop sending.
PeerStreamFrames(c) ==
    IF ~IsConnected(c) THEN {} ELSE
    LET readable == {id \in Active(c) : ~c.streams[id].rclosed /\ ~c.streams[id].fin}
        writable == {id \in Active(c) : ~c.streams[id].wclosed}
    IN {SetStream(c, id, [c.streams[id] EXCEPT !.phase = "pending"]) :
            id \in {i \in StreamIds : ~Outgoing(i) /\ c.streams[i].phase = "unused"}}
       \cup {SetStream(c, id, [c.streams[id] EXCEPT !.buf = @ + 1]) :
               id \in {i \in readable : c.streams[i].buf < MaxChunks}}
       \cup {SetStream(c, id, [c.streams[id] EXCEPT !.fin = TRUE]) : id \in readable}
       \cup {SetStream(c, id, [c.streams[id] EXCEPT !.rclosed = TRUE, !.buf = 0]) : id \in readable}
       \cup {SetStream(c, id, [c.streams[id] EXCEPT !.wclosed = TRUE]) : id \in writable}

\* Acks and window updates make room; MAX_STREAMS gives credit.
PeerCreditFrames(c) ==
    IF ~IsConnected(c) THEN {} ELSE
    {[c EXCEPT !.credit[u] = @ + 1] : u \in {v \in BOOLEAN : c.credit[v] < MaxCredit}}
    \cup {[c EXCEPT !.dgroom = MaxRoom]}
    \cup {[c EXCEPT !.streams[id].room = MaxRoom] : id \in Active(c)}

\* The connection ends: a CONNECTION_CLOSE, a stateless reset, a protocol
\* error or an idle timeout.  The visitor is told if there is a session to
\* tell it about, and a locally detected error queues a CONNECTION_CLOSE.
ConnectionEnds(c) ==
    LET ended == [c EXCEPT !.conn = "closed", !.session_ready = FALSE]
        told == {ended, [ended EXCEPT !.session_closed = TRUE]}
    IN told \cup {WritePacket(d, "close") : d \in told}

\* session->ProcessUdpPacket: one kind of frame, possibly followed by the end
\* of the connection in the same packet; nothing once the connection is closed.
ProcessUdpPacket(c) ==
    IF c.conn # "open" THEN {c} ELSE
    LET frames == {c} \cup HandshakeDone(c) \cup OnDatagramReceived(c)
                      \cup PeerStreamFrames(c) \cup PeerCreditFrames(c)
    IN UNION {MaySend(d) \cup ConnectionEnds(d) : d \in frames}

\* ProcessAlarmsUpTo: acks, probes and retransmissions are queued, or the
\* connection times out.  Nothing is armed unless a connection is open.
HasAlarm(c) == c.conn = "open"
ProcessAlarms(c) ==
    IF HasAlarm(c) THEN MaySend(c) \cup ConnectionEnds(c) ELSE {c}

\* StartConnect: a new session, whose ClientHello is queued at once, or which
\* QUICHE closes before that (its configuration is not accepted).
StartConnect(c) ==
    LET begun == [FreshClient EXCEPT !.conn = "open", !.send_queue = c.send_queue]
    IN {WritePacket(begun, "packet")}
       \cup {[d EXCEPT !.conn = "failed"] : d \in ConnectionEnds(begun)}

-----------------------------------------------------------------------------
(* The methods of quiche_py_client.                                        *)

\* Mutant of Start: the visitor keeps its unread datagrams.
StartKeepsDatagrams(c) ==
    {Out([d EXCEPT !.received_datagrams = c.received_datagrams], "OK", 0) :
       d \in IF c.conn = "open" THEN {c} ELSE StartConnect(ResetRuntimeError(c))}

\* Mutant of Start: the visitor keeps session_closed_.
StartKeepsClosed(c) ==
    {Out([d EXCEPT !.session_closed = c.session_closed], "OK", 0) :
       d \in IF c.conn = "open" THEN {c} ELSE StartConnect(ResetRuntimeError(c))}

\* Reset of the visitor is part of StartConnect's FreshClient.  The two error
\* branches are not met: Initialize has no socket to fail on, and
\* connected_or_attempting_connect() is a flag that StartConnect has just set.
\* A connection that ended inside StartConnect is a success without an error.
Start(c) ==
    LET r == ResetRuntimeError(c)
    IN {Out(d, "OK", 0) : d \in IF c.conn = "open" THEN {r} ELSE StartConnect(r)}

\* An empty UDP payload is accepted before anything is looked at.
ReceivePacket(c, empty) ==
    LET r == ResetRuntimeError(c) IN
    IF empty THEN {Out(r, "OK", 0)}
    ELSE IF c.conn = "none" THEN {Out(SetError(r, "not started"), "ERROR", 0)}
    ELSE {AfterQuiche(d) : d \in ProcessUdpPacket(r)}

\* The caller's buffer (kSendBufferSize) holds any packet: TOO_BIG cannot be.
NextSend(c) ==
    IF c.send_queue = <<>>
      THEN Out(c, "WOULD_BLOCK", 0)
      ELSE Out([c EXCEPT !.send_queue = Tail(@)], "OK", Head(c.send_queue))

\* val: whether an alarm is armed.  Its side effect is that it clears the error.
NextTimeoutMs(c) == Out(ResetRuntimeError(c), "OK", HasAlarm(c))

HandleTimeout(c) == {AfterQuiche(d) : d \in ProcessAlarms(ResetRuntimeError(c))}

\* CloseSession queues a CONNECTION_CLOSE and tells the visitor; on a session
\* that is closed already it does nothing.
Close(c) ==
    LET r == ResetRuntimeError(c) IN
    IF c.conn # "open" THEN r
    ELSE WritePacket([r EXCEPT !.conn = "closed", !.session_ready = FALSE,
                               !.session_closed = TRUE], "close")

\* QUICHE hands out ids of one direction in order.
NextOutgoing(c, uni) ==
    {id \in StreamIds : /\ Outgoing(id) /\ (Unidirectional(id) <=> uni)
                        /\ c.streams[id].phase = "unused"
                        /\ \A i \in StreamIds :
                             (i < id /\ i % 4 = id % 4) => c.streams[i].phase # "unused"}

\* Asking CanOpenNextOutgoing...Stream without credit may send STREAMS_BLOCKED.
OpenStream(c, uni) ==
    LET r == ResetRuntimeError(c) IN
    IF ~IsConnected(r) THEN NotConnected(r)
    ELSE IF r.credit[uni] = 0 \/ NextOutgoing(r, uni) = {}
      THEN {Out(d, "WOULD_BLOCK", 0) : d \in MaySend(r)}
    ELSE {Out([SetStream(r, id, [r.streams[id] EXCEPT !.phase = "open"])
                 EXCEPT !.credit[uni] = @ - 1], "OK", id) : id \in NextOutgoing(r, uni)}

Incoming(c, uni) ==
    {id \in StreamIds : ~Outgoing(id) /\ (Unidirectional(id) <=> uni)
                        /\ c.streams[id].phase = "pending"}

AcceptStream(c, uni) ==
    LET r == ResetRuntimeError(c) IN
    IF ~IsConnected(r) THEN NotConnected(r)
    ELSE IF Incoming(r, uni) = {} THEN {Out(r, "WOULD_BLOCK", 0)}
    ELSE {Out(SetStream(r, id, [r.streams[id] EXCEPT !.phase = "open"]), "OK", id) :
            id \in Incoming(r, uni)}

\* RequireStream followed by `body` when the stream is found.
OnStream(c, id, body) ==
    IF ~IsConnected(c) THEN NotConnected(c)
    ELSE IF id \notin Active(c) THEN {Out(SetError(c, "stream missing"), "NOT_FOUND", 0)}
    ELSE body

\* The first n of the waiting chunks; the FIN is consumed with the last one.
Consume(s, n) ==
    IF n = s.buf /\ s.fin THEN [s EXCEPT !.buf = 0, !.fin = FALSE, !.rclosed = TRUE]
                          ELSE [s EXCEPT !.buf = @ - n]

\* A bare FIN is the case n = 0.  Reading may queue a window update.
ReadStream(c, id) ==
    LET r == ResetRuntimeError(c)
        s == r.streams[id]
        lens == IF s.buf = 0 THEN {0} ELSE 1..s.buf
    IN OnStream(r, id,
         IF s.buf = 0 /\ ~s.fin THEN {Out(r, "WOULD_BLOCK", 0)}
         ELSE UNION {{Out(d, "OK", n) : d \in MaySend(SetStream(r, id, Consume(s, n)))} : n \in lens})

CanWrite(s) == ~s.wclosed /\ s.room > 0

\* Mutant of WriteStream: CanWrite is not asked.
WriteStreamUnchecked(c, id, fin) ==
    LET r == ResetRuntimeError(c)
        s == r.streams[id]
    IN OnStream(r, id, {Out(d, "OK", 0) :
         d \in MaySend(SetStream(r, id, [s EXCEPT !.room = @ - 1, !.wclosed = fin]))})

\* Writev takes everything when CanWrite holds, so its two error branches are
\* not met.  (Empty data without fin is refused before any state is touched.)
WriteStream(c, id, fin) ==
    LET r == ResetRuntimeError(c)
        s == r.streams[id]
    IN OnStream(r, id,
         IF ~CanWrite(s) THEN {Out(r, "WOULD_BLOCK", 0)}
         ELSE {Out(d, "OK", 0) :
                 d \in MaySend(SetStream(r, id, [s EXCEPT !.room = @ - 1, !.wclosed = fin]))})

ResetStream(c, id) ==
    LET r == ResetRuntimeError(c)
    IN OnStream(r, id, {Out(d, "OK", 0) :
         d \in MaySend(SetStream(r, id, [r.streams[id] EXCEPT !.wclosed = TRUE]))})

StopSending(c, id) ==
    LET r == ResetRuntimeError(c)
    IN OnStream(r, id, {Out(d, "OK", 0) :
         d \in MaySend(SetStream(r, id, [r.streams[id] EXCEPT !.rclosed = TRUE, !.buf = 0, !.fin = FALSE]))})

\* Mutant of SendDatagram: kBlocked is taken for success.
SendDatagramUnchecked(c, oversized) ==
    LET r == ResetRuntimeError(c) IN
    IF ~IsConnected(r) THEN NotConnected(r)
    ELSE IF oversized THEN {Out(SetError(r, "too big"), "TOO_BIG", 0)}
    ELSE {Out(d, "OK", 0) : d \in MaySend([r EXCEPT !.dgroom = @ - 1])}

\* MapDatagramStatus: success, blocked, too big, or an internal error (the peer
\* does not take datagrams).  A blocked datagram is reported as not accepted.
SendDatagram(c, oversized) ==
    LET r == ResetRuntimeError(c) IN
    IF ~IsConnected(r) THEN NotConnected(r)
    ELSE IF oversized THEN {Out(SetError(r, "too big"), "TOO_BIG", 0)}
    ELSE IF r.dgroom = 0 THEN {Out(r, "WOULD_BLOCK", 0)}
    ELSE {Out(d, "OK", 0) : d \in MaySend([r EXCEPT !.dgroom = @ - 1])}
         \cup {Out(SetError(r, "datagram failed"), "ERROR", 0)}

\* Datagram n of a connection is n - 1 bytes long: the first one is empty.
SizeOf(n) == n - 1

\* The two calls of receive_datagram do not ask whether the connection is open.
PeekDatagramSize(c) ==
    LET r == ResetRuntimeError(c) IN
    IF r.received_datagrams = <<>> THEN Out(r, "WOULD_BLOCK", 0)
    ELSE Out(r, "OK", SizeOf(Head(r.received_datagrams)))

\* Mutant of ReceiveDatagram: the datagram is copied but not taken.
ReceiveDatagramKept(c, buffer_len) ==
    LET r == ResetRuntimeError(c) IN
    IF r.received_datagrams = <<>> THEN Out(r, "WOULD_BLOCK", 0)
    ELSE IF buffer_len < SizeOf(Head(r.received_datagrams))
      THEN Out(SetError(r, "too big"), "TOO_BIG", 0)
    ELSE Out(r, "OK", Head(r.received_datagrams))

\* The size is checked before the datagram is taken off the queue.
ReceiveDatagram(c, buffer_len) ==
    LET r == ResetRuntimeError(c) IN
    IF r.received_datagrams = <<>> THEN Out(r, "WOULD_BLOCK", 0)
    ELSE IF buffer_len < SizeOf(Head(r.received_datagrams))
      THEN Out(SetError(r, "too big"), "TOO_BIG", 0)
    ELSE Out([r EXCEPT !.received_datagrams = Tail(@)], "OK", Head(r.received_datagrams))
=============================================================================
