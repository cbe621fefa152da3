------------------------------ MODULE Http3Glue ------------------------------
(***************************************************************************)
(* The sans-I/O HTTP/3 client: struct quiche_py_http3_client and its       *)
(* ResponseQueue, src/bindings/quiche_glue_http3.cc, with the Python face  *)
(* PyHttp3Client, src/bindings/module.cpp.                                 *)
(*                                                                         *)
(* As in QuicGlue a client is a record and a method maps it to the set of  *)
(* its outcomes [c, st, val]; the py_ operators turn the status into what  *)
(* Python sees, [c, ret, val].                                             *)
(***************************************************************************)
EXTENDS Integers, Sequences

CONSTANTS
    StreamIds,     \* ids of the request streams, used in increasing order
    MaxPackets,    \* bound: packets QUICHE leaves in the send queue (plus one close)
    MaxCredit      \* bound: requests the peer lets us start at a time

ASSUME StreamIdsAssumption == StreamIds \subseteq Nat
ASSUME BoundsAssumption == MaxPackets \in Nat \ {0} /\ MaxCredit \in Nat

NoError == ""
Errors == {NoError, "connection closed", "not established", "not started", "empty header name"}

\* A request stream: "created" has a slot of the session, "sent" its request
\* too.  A side that is closed stays closed; with both closed it is "gone".
Streams ==
    [phase : {"unused", "created", "sent", "gone"}, rclosed : BOOLEAN, wclosed : BOOLEAN]

\* client_->connected() is conn = "open", and "failed" is the end of a connection
\* inside StartConnect; handshaken is QUICHE's own knowledge that TLS
\* completed, which no method asks for.  responses is the key set of
\* responses_; completed is the history of the streams that OnCompleteResponse
\* was called for.
Http3Clients ==
    [conn : {"none", "open", "closed", "failed"}, handshaken : BOOLEAN, last_error : Errors,
     send_queue : Seq({"packet", "close"}), credit : 0..MaxCredit,
     streams : [StreamIds -> Streams], responses : SUBSET StreamIds,
     completed : SUBSET StreamIds]

FreshClient ==
    [conn |-> "none", handshaken |-> FALSE, last_error |-> NoError, send_queue |-> <<>>,
     credit |-> 0, responses |-> {}, completed |-> {},
     streams |-> [id \in StreamIds |->
                    [phase |-> "unused", rclosed |-> FALSE, wclosed |-> FALSE]]]

Out(c, st, val) == [c |-> c, st |-> st, val |-> val]

SetError(c, e) == [c EXCEPT !.last_error = e]
SetErrorIfEmpty(c, e) == IF c.last_error = NoError THEN SetError(c, e) ELSE c
ResetRuntimeError(c) == SetError(c, NoError)

\* The TLS handshake need not be over.
IsConnected(c) == c.conn = "open"

\* What ReceivePacket and HandleTimeout do once QUICHE has run.
AfterQuiche(c) ==
    IF IsConnected(c) THEN Out(c, "OK", 0)
    ELSE Out(SetErrorIfEmpty(c, "connection closed"), "CLOSED", 0)

-----------------------------------------------------------------------------
(* What QUICHE does inside the calls (external code).                      *)

WritePacket(c, kind) == [c EXCEPT !.send_queue = Append(@, kind)]
MaySend(c) ==
    {c} \cup IF Len(c.send_queue) < MaxPackets THEN {WritePacket(c, "packet")} ELSE {}

\* OnCompleteResponse for the streams ids.  The listener is called when a
\* stream closes, however it closes; an entry is kept until it is taken.
OnCompleteResponse(c, ids) ==
    [c EXCEPT !.responses = @ \cup ids, !.completed = @ \cup ids,
              !.streams = [id \in StreamIds |->
                             IF id \in ids THEN [phase |-> "gone", rclosed |-> TRUE, wclosed |-> TRUE]
                             ELSE c.streams[id]]]

\* A stream whose two sides are closed is closed.
SetStream(c, id, s) ==
    IF s.rclosed /\ s.wclosed THEN OnCompleteResponse(c, {id}) ELSE [c EXCEPT !.streams[id] = s]

\* TLS completes; the transport parameters carry the first credit.
HandshakeDone(c) ==
    IF c.handshaken THEN {}
    ELSE {[c EXCEPT !.handshaken = TRUE, !.credit = n] : n \in 0..MaxCredit}

\* The server ends its response (or resets it), or stops our sending; it
\* knows only the streams something was sent on.  MAX_STREAMS gives credit.
PeerFrames(c) ==
    IF ~c.handshaken THEN {} ELSE
    LET sent == {id \in StreamIds : c.streams[id].phase = "sent"}
    IN {SetStream(c, id, [c.streams[id] EXCEPT !.rclosed = TRUE]) : id \in sent}
       \cup {SetStream(c, id, [c.streams[id] EXCEPT !.wclosed = TRUE]) : id \in sent}
       \cup {[c EXCEPT !.credit = n] : n \in {m \in 0..MaxCredit : m = c.credit + 1}}

\* The end of the connection closes every stream.  A locally detected error
\* queues a CONNECTION_CLOSE.
ConnectionEnds(c) ==
    LET left == {id \in StreamIds : c.streams[id].phase \in {"created", "sent"}}
        ended == OnCompleteResponse([c EXCEPT !.conn = "closed"], left)
    IN {ended, WritePacket(ended, "close")}

ProcessUdpPacket(c) ==
    IF c.conn # "open" THEN {c}
    ELSE UNION {MaySend(d) \cup ConnectionEnds(d) : d \in {c} \cup HandshakeDone(c) \cup PeerFrames(c)}

HasAlarm(c) == c.conn = "open"
ProcessAlarms(c) == IF HasAlarm(c) THEN MaySend(c) \cup ConnectionEnds(c) ELSE {c}

\* A new session, whose ClientHello is queued at once, or which QUICHE closes
\* before that.  The response listener outlives the session.
StartConnect(c) ==
    LET begun == [FreshClient EXCEPT !.conn = "open", !.send_queue = c.send_queue,
                                     !.responses = c.responses, !.completed = c.completed]
    IN {WritePacket(begun, "packet")}
       \cup {[d EXCEPT !.conn = "failed"] : d \in ConnectionEnds(begun)}

-----------------------------------------------------------------------------
(* The methods of quiche_py_http3_client.                                  *)

\* A connection that ended inside StartConnect is a success without an error:
\* connected_or_attempting_connect() is a flag that StartConnect has just set.
Start(c) ==
    LET r == ResetRuntimeError(c)
    IN {Out(d, "OK", 0) : d \in IF IsConnected(r) THEN {r} ELSE StartConnect(r)}

ReceivePacket(c, empty) ==
    LET r == ResetRuntimeError(c) IN
    IF empty THEN {Out(r, "OK", 0)}
    ELSE IF r.conn = "none" THEN {Out(SetError(r, "not started"), "ERROR", 0)}
    ELSE {AfterQuiche(d) : d \in ProcessUdpPacket(r)}

\* val: whether an alarm is armed.  The call clears the error.
NextTimeoutMs(c) == Out(ResetRuntimeError(c), "OK", HasAlarm(c))

HandleTimeout(c) == {AfterQuiche(d) : d \in ProcessAlarms(ResetRuntimeError(c))}

\* Disconnect(): the error code and the reason are not passed on.
Close(c) ==
    LET r == ResetRuntimeError(c)
        left == {id \in StreamIds : r.streams[id].phase \in {"created", "sent"}}
    IN IF IsConnected(r)
         THEN WritePacket(OnCompleteResponse([r EXCEPT !.conn = "closed"], left), "close")
         ELSE r

\* Mutant of CreateClientStream: CanOpenNextOutgoingBidirectionalStream is not asked.
CreateClientStreamUnchecked(c) ==
    {id \in StreamIds : /\ c.streams[id].phase = "unused"
                        /\ \A i \in StreamIds : i < id => c.streams[i].phase # "unused"}

\* CreateClientStream: without credit there is none, and nobody waits for it.
CreateClientStream(c) ==
    IF c.credit = 0 THEN {}
    ELSE {id \in StreamIds : /\ c.streams[id].phase = "unused"
                             /\ \A i \in StreamIds : i < id => c.streams[i].phase # "unused"}

\* Asking CanOpenNextOutgoingBidirectionalStream without credit may send
\* STREAMS_BLOCKED.  The headers are looked at once the stream has been created:
\* it keeps its slot when one of them has no name.
SubmitRequest(c, named, fin) ==
    LET r == ResetRuntimeError(c)
        taken(id, phase) == [r EXCEPT !.credit = @ - 1,
                                      !.streams[id].phase = phase,
                                      !.streams[id].wclosed = (phase = "sent" /\ fin)]
    IN IF ~IsConnected(r) THEN {Out(SetError(r, "not established"), "ERROR", 0)}
       ELSE IF CreateClientStream(r) = {} THEN {Out(d, "WOULD_BLOCK", 0) : d \in MaySend(r)}
       ELSE IF ~named
         THEN {Out(SetError(taken(id, "created"), "empty header name"), "INVALID_ARGUMENT", 0) :
                 id \in CreateClientStream(r)}
       ELSE UNION {{Out(d, "OK", id) : d \in MaySend(taken(id, "sent"))} : id \in CreateClientStream(r)}

\* Mutant of TakeResponse: the entry is copied, not erased.
TakeResponseKept(c, id) ==
    LET r == ResetRuntimeError(c) IN
    IF id \notin r.responses THEN Out(r, "WOULD_BLOCK", 0) ELSE Out(r, "OK", id)

\* Does not ask whether the connection is open.
TakeResponse(c, id) ==
    LET r == ResetRuntimeError(c) IN
    IF id \notin r.responses THEN Out(r, "WOULD_BLOCK", 0)
    ELSE Out([r EXCEPT !.responses = @ \ {id}], "OK", id)

-----------------------------------------------------------------------------
(* PyHttp3Client.                                                          *)

\* ThrowStatus, for the statuses the methods above return.
Exception == [INVALID_ARGUMENT |-> "ValueError", CLOSED |-> "ConnectionError", ERROR |-> "RuntimeError"]
Exceptions == {"ValueError", "ConnectionError", "RuntimeError"}

Returned(out) ==
    [c |-> out.c, val |-> out.val,
     ret |-> IF out.st = "OK" THEN "value"
             ELSE IF out.st = "WOULD_BLOCK" THEN "None" ELSE Exception[out.st]]

\* receive_packet and handle_timeout do not raise when the connection closed.
ClosedIsSilent(out) == Returned(IF out.st = "CLOSED" THEN [out EXCEPT !.st = "OK"] ELSE out)

py_start(c) == {Returned(out) : out \in Start(c)}
py_receive_packet(c, empty) == {ClosedIsSilent(out) : out \in ReceivePacket(c, empty)}
py_handle_timeout(c) == {ClosedIsSilent(out) : out \in HandleTimeout(c)}
py_submit_request(c, named, fin) == {Returned(out) : out \in SubmitRequest(c, named, fin)}
py_take_response(c, id) == {Returned(TakeResponse(c, id))}
=============================================================================
