-------------------------------- MODULE WtGlue --------------------------------
(***************************************************************************)
(* The sans-I/O WebTransport client: struct quiche_py_wt_client and its    *)
(* WtSessionVisitor, src/bindings/quiche_glue_wt.cc, with the Python face  *)
(* PyWebTransportClient and PyWebTransportStream, src/bindings/module.cpp. *)
(*                                                                         *)
(* As in QuicGlue a client is a record and a method maps it to the set of  *)
(* its outcomes [c, st, val].  The record has the fields of a raw client,  *)
(* so that what the two files do alike is taken from there (Q!...): once   *)
(* the session is ready, its streams and datagrams are handled by the same *)
(* code.  What differs is written out: the session is set up by a CONNECT  *)
(* request, may end while the connection lives, and is reached through two *)
(* raw pointers to objects that the CONNECT stream owns.                   *)
(***************************************************************************)
EXTENDS Integers, Sequences

CONSTANTS
    StreamIds,     \* ids of the session's streams (the CONNECT stream is apart)
    MaxDatagrams,  \* bound: datagrams the server sends in one session
    MaxPackets,    \* bound: packets QUICHE leaves in the send queue (plus one close)
    MaxChunks,     \* bound: chunks of stream data that wait to be read
    MaxRoom,       \* bound: writes a stream accepts before it blocks
    MaxCredit,     \* bound: streams of one direction the server lets us open at a time
    ServerEndsSession  \* whether the server may reject or close the session

ASSUME StreamIdsAssumption == StreamIds \subseteq Nat
ASSUME BoundsAssumption ==
    /\ MaxDatagrams \in Nat /\ MaxPackets \in Nat \ {0} /\ MaxChunks \in Nat
    /\ MaxRoom \in Nat \ {0} /\ MaxCredit \in Nat
ASSUME ServerEndsSessionAssumption == ServerEndsSession \in BOOLEAN

Q == INSTANCE QuicBinding

Errors == {Q!NoError, "session closed", "connection closed", "not started", "stream missing",
           "too big", "datagram failed", "no webtransport", "empty header name", "not ready"}

\* wt stands for web_transport_ and session_visitor_, which are set together:
\* null, pointing to a session ("live"), to one whose CONNECT stream has been
\* closed and waits for QUICHE's clean-up alarm ("ended"), or to memory that was
\* freed.  connect_requested_ holds exactly when they are not null.  close_sent is
\* the session's own knowledge that we closed it.  dangling is a history: freed
\* memory was read or called through one of the pointers.
WtClients ==
    [conn : {"none", "open", "closed", "failed"}, settings : {"none", "wt", "nowt"},
     wt : {"null", "live", "ended", "freed"}, close_sent : BOOLEAN, dangling : BOOLEAN,
     session_ready : BOOLEAN, session_closed : BOOLEAN,
     received_datagrams : Seq(1..MaxDatagrams), arrived : 0..MaxDatagrams,
     last_error : Errors, send_queue : Seq({"packet", "close"}),
     credit : [BOOLEAN -> 0..MaxCredit], dgroom : 0..MaxRoom,
     streams : [StreamIds -> Q!StreamStates]]

FreshClient ==
    [conn |-> "none", settings |-> "none", wt |-> "null", close_sent |-> FALSE, dangling |-> FALSE,
     session_ready |-> FALSE, session_closed |-> FALSE, received_datagrams |-> <<>>,
     arrived |-> 0, last_error |-> Q!NoError, send_queue |-> <<>>,
     credit |-> [u \in BOOLEAN |-> 0], dgroom |-> MaxRoom,
     streams |-> [id \in StreamIds |-> Q!UnusedStream(id)]]

Out(c, st, val) == [c |-> c, st |-> st, val |-> val]

SetError(c, e) == Q!SetError(c, e)
ResetRuntimeError(c) == Q!ResetRuntimeError(c)

\* The session does not matter.
IsConnected(c) == c.conn = "open"

\* web_transport_ or session_visitor_ is used.
Deref(c) == [c EXCEPT !.dangling = @ \/ c.wt = "freed"]

\* What ReceivePacket and HandleTimeout do once QUICHE has run.  The end of
\* the session alone is not looked at.
AfterQuiche(c) == Q!AfterQuiche(IF IsConnected(c) THEN c ELSE Deref(c))

-----------------------------------------------------------------------------
(* What QUICHE does inside the calls (external code).                      *)

\* TLS completes (initial stream limits) and the SETTINGS arrive.
SettingsReceived(c) ==
    IF c.settings # "none" THEN {}
    ELSE UNION {{[c EXCEPT !.settings = w, !.credit = f] : f \in [BOOLEAN -> 0..MaxCredit]} :
                  w \in {"wt", "nowt"}}

\* MAX_STREAMS does not wait for the session; see also QuicGlue.
PeerCreditFrames(c) ==
    IF c.settings = "none" THEN {}
    ELSE {[c EXCEPT !.credit[u] = @ + 1] : u \in {v \in BOOLEAN : c.credit[v] < MaxCredit}}
         \cup Q!PeerCreditFrames(c)

\* The server answers the CONNECT request with success.
OnSessionReady(c) ==
    IF c.wt = "live" /\ ~c.session_ready /\ ~c.session_closed
      THEN {[c EXCEPT !.session_ready = TRUE]} ELSE {}

\* A CLOSE_WEBTRANSPORT_SESSION capsule, the FIN of a response that rejects the
\* request, or the server's answer to our own close.  The CONNECT stream closes
\* with it, or by a later packet.
OnSessionClosed(c) ==
    IF ~(ServerEndsSession \/ c.close_sent) \/ c.wt # "live" THEN {}
    ELSE LET closed == [c EXCEPT !.session_ready = FALSE, !.session_closed = TRUE]
         IN {closed, [closed EXCEPT !.wt = "ended"]}

\* A datagram of the session may overtake the answer to the CONNECT request.
OnDatagramReceived(c) ==
    IF c.wt = "live" /\ ~c.session_closed /\ c.arrived < MaxDatagrams
      THEN {[c EXCEPT !.received_datagrams = Append(@, c.arrived + 1), !.arrived = @ + 1]}
      ELSE {}

\* The CONNECT stream closes with the connection and tells the visitor.
ConnectionEnds(c) ==
    LET ended == [c EXCEPT !.conn = "closed", !.session_ready = FALSE,
                           !.session_closed = @ \/ c.wt = "live"]
    IN {ended, Q!WritePacket(ended, "close")}

ProcessUdpPacket(c) ==
    IF c.conn # "open" THEN {c} ELSE
    LET frames == {c} \cup SettingsReceived(c) \cup PeerCreditFrames(c) \cup OnSessionReady(c)
                      \cup OnSessionClosed(c) \cup OnDatagramReceived(c) \cup Q!PeerStreamFrames(c)
    IN UNION {Q!MaySend(d) \cup ConnectionEnds(d) : d \in frames}

\* The clean-up alarm deletes a closed CONNECT stream and what it owns: the
\* session and the visitor with its queue of datagrams.
CleanUpClosedStreams(c) ==
    IF c.wt = "ended" THEN [c EXCEPT !.wt = "freed", !.received_datagrams = <<>>] ELSE c

ProcessAlarms(c) ==
    IF ~Q!HasAlarm(c) THEN {c}
    ELSE Q!MaySend(CleanUpClosedStreams(c)) \cup ConnectionEnds(CleanUpClosedStreams(c))

StartConnect(c) ==
    LET begun == [FreshClient EXCEPT !.conn = "open", !.send_queue = c.send_queue,
                                     !.dangling = c.dangling]
    IN {Q!WritePacket(begun, "packet")}
       \cup {[d EXCEPT !.conn = "failed"] : d \in ConnectionEnds(begun)}

-----------------------------------------------------------------------------
(* The methods of quiche_py_wt_client.                                     *)

\* The pointers are cleared before StartConnect; see FreshClient.  A connection
\* that ended inside StartConnect is a success without an error:
\* connected_or_attempting_connect() is a flag that StartConnect has just set.
Start(c) ==
    LET r == ResetRuntimeError(c)
    IN {Out(d, "OK", 0) : d \in IF IsConnected(r) THEN {r} ELSE StartConnect(r)}

ReceivePacket(c, empty) ==
    LET r == ResetRuntimeError(c) IN
    IF empty THEN {Out(r, "OK", 0)}
    ELSE IF r.conn = "none" THEN {Out(SetError(r, "not started"), "ERROR", 0)}
    ELSE {AfterQuiche(d) : d \in ProcessUdpPacket(r)}

\* Both are as in quiche_glue.cc.
NextSend(c) == Q!NextSend(c)
NextTimeoutMs(c) == Q!NextTimeoutMs(c)

HandleTimeout(c) == {AfterQuiche(d) : d \in ProcessAlarms(ResetRuntimeError(c))}

\* A session is closed by a capsule on its CONNECT stream, if that is open: the
\* connection and session_ready_ stay as they are.  Without a session the
\* connection is closed.
Close(c) ==
    LET r == ResetRuntimeError(c) IN
    IF r.wt # "null"
      THEN IF IsConnected(r) /\ r.wt = "live" /\ ~r.session_closed /\ ~r.close_sent
             THEN Q!WritePacket([r EXCEPT !.close_sent = TRUE], "close") ELSE Deref(r)
    ELSE IF IsConnected(r) THEN Q!WritePacket([r EXCEPT !.conn = "closed"], "close")
    ELSE r

\* What session_visitor_->session_ready() may read.
SessionReadyReads(c) ==
    IF c.wt = "freed" THEN BOOLEAN ELSE {c.wt # "null" /\ c.session_ready}

IsSessionReady(c) == {Out(Deref(c), "OK", b) : b \in SessionReadyReads(c)}

\* Asked again, an accepted request answers OK.  The headers are looked at once
\* the stream has been created: it keeps its slot when one has no name.
\* SendRequest gives the stream a session whenever WebTransport is supported,
\* so the last error branch is not met.  Asking for a stream without credit may
\* send STREAMS_BLOCKED.  (An empty path only sets an error.)
ConnectSession(c, named) ==
    LET r == ResetRuntimeError(c)
        created == [r EXCEPT !.credit[FALSE] = @ - 1]
    IN IF r.wt # "null" THEN {Out(r, "OK", 0)}
       ELSE IF ~IsConnected(r) \/ r.settings = "none" THEN {Out(r, "WOULD_BLOCK", 0)}
       ELSE IF r.settings = "nowt" THEN {Out(SetError(r, "no webtransport"), "ERROR", 0)}
       ELSE IF r.credit[FALSE] = 0 THEN {Out(d, "WOULD_BLOCK", 0) : d \in Q!MaySend(r)}
       ELSE IF ~named THEN {Out(SetError(created, "empty header name"), "INVALID_ARGUMENT", 0)}
       ELSE {Out(d, "OK", 0) : d \in Q!MaySend([created EXCEPT !.wt = "live"])}

\* EnsureSessionReady followed by `body` when the session is ready.  With freed
\* pointers the outcome is arbitrary.
OnSession(c, body) ==
    LET r == Deref(ResetRuntimeError(c)) IN
    IF r.wt = "freed" THEN {Out(r, st, 0) : st \in {"OK", "WOULD_BLOCK", "ERROR"}}
    ELSE IF TRUE \notin SessionReadyReads(r) THEN {Out(SetError(r, "not ready"), "ERROR", 0)}
    ELSE body

\* OnStream of QuicGlue is RequireStream here: the session being ready, only
\* the stream can be missing.
OpenStream(c, uni) == OnSession(c, Q!OpenStream(c, uni))
AcceptStream(c, uni) == OnSession(c, Q!AcceptStream(c, uni))
ReadStream(c, id) == OnSession(c, Q!ReadStream(c, id))
WriteStream(c, id, fin) == OnSession(c, Q!WriteStream(c, id, fin))
ResetStream(c, id) == OnSession(c, Q!ResetStream(c, id))
StopSending(c, id) == OnSession(c, Q!StopSending(c, id))
SendDatagram(c, oversized) == OnSession(c, Q!SendDatagram(c, oversized))
PeekDatagramSize(c) == OnSession(c, {Q!PeekDatagramSize(c)})

\* Mutant of ReceiveDatagram: the datagram is copied but not taken.
ReceiveDatagramKept(c, buffer_len) == OnSession(c, {Q!ReceiveDatagramKept(c, buffer_len)})

\* The datagram is taken before its size is checked: TOO_BIG loses it.
ReceiveDatagram(c, buffer_len) ==
    LET r == ResetRuntimeError(c)
        taken == [r EXCEPT !.received_datagrams = Tail(@)]
        head == Head(r.received_datagrams)
    IN OnSession(c,
         IF r.received_datagrams = <<>> THEN {Out(r, "WOULD_BLOCK", 0)}
         ELSE IF buffer_len < Q!SizeOf(head) THEN {Out(SetError(taken, "too big"), "TOO_BIG", 0)}
         ELSE {Out(taken, "OK", head)})

\* StreamCanWrite, StreamExists and MaxDatagramSize change nothing; they use
\* web_transport_ if it is set.
Inspect(c) == Deref(c)

-----------------------------------------------------------------------------
(* PyWebTransportClient and PyWebTransportStream.                          *)

Exceptions == Q!Exceptions
Returned(out) == Q!Returned(out)

py_start(c) == {Returned(out) : out \in Start(c)}
py_receive_packet(c, empty) == {Q!ClosedIsSilent(out) : out \in ReceivePacket(c, empty)}
py_handle_timeout(c) == {Q!ClosedIsSilent(out) : out \in HandleTimeout(c)}
py_connect_session(c, named) == {Returned(out) : out \in ConnectSession(c, named)}
py_is_session_ready(c) == IsSessionReady(c)
py_send_datagram(c, oversized) == {Returned(out) : out \in SendDatagram(c, oversized)}
py_open_stream(c, uni) == {Returned(out) : out \in OpenStream(c, uni)}
py_accept_stream(c, uni) == {Returned(out) : out \in AcceptStream(c, uni)}
py_read(c, id) == {Returned(out) : out \in ReadStream(c, id)}
py_write(c, id, fin) == {Returned(out) : out \in WriteStream(c, id, fin)}
py_reset(c, id) == {Returned(out) : out \in ResetStream(c, id)}
py_stop_sending(c, id) == {Returned(out) : out \in StopSending(c, id)}

\* Two calls of the glue: the size of the head, then the head itself.
py_receive_datagram(c) ==
    UNION {{Returned(out) : out \in IF peek.st = "OK" THEN ReceiveDatagram(peek.c, peek.val) ELSE {peek}} :
             peek \in PeekDatagramSize(c)}
=============================================================================
