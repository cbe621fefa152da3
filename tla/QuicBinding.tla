----------------------------- MODULE QuicBinding -----------------------------
(***************************************************************************)
(* PyQuicClient and PyQuicStream of src/bindings/module.cpp: the Python    *)
(* face of QuicGlue.  A call yields [c, ret, val]: the client afterwards   *)
(* and either "value", "None" (the Python None or False that means `not    *)
(* yet') or the name of the exception raised.                              *)
(***************************************************************************)
EXTENDS QuicGlue

\* ThrowStatus.
Exception ==
    [INVALID_ARGUMENT |-> "ValueError", TOO_BIG |-> "ValueError", NOT_FOUND |-> "KeyError",
     CLOSED |-> "ConnectionError", ERROR |-> "RuntimeError"]

Exceptions == {"ValueError", "KeyError", "ConnectionError", "RuntimeError"}

\* The result of a call whose WOULD_BLOCK is None (or False).
Returned(out) ==
    [c |-> out.c, val |-> out.val,
     ret |-> IF out.st = "OK" THEN "value"
             ELSE IF out.st = "WOULD_BLOCK" THEN "None" ELSE Exception[out.st]]

\* receive_packet and handle_timeout do not raise when the connection closed:
\* it is observed through is_connected().
ClosedIsSilent(out) == Returned(IF out.st = "CLOSED" THEN [out EXCEPT !.st = "OK"] ELSE out)

py_start(c) == {Returned(out) : out \in Start(c)}
py_receive_packet(c, empty) == {ClosedIsSilent(out) : out \in ReceivePacket(c, empty)}
py_handle_timeout(c) == {ClosedIsSilent(out) : out \in HandleTimeout(c)}
py_send_datagram(c, oversized) == {Returned(out) : out \in SendDatagram(c, oversized)}
py_open_stream(c, uni) == {Returned(out) : out \in OpenStream(c, uni)}
py_accept_stream(c, uni) == {Returned(out) : out \in AcceptStream(c, uni)}
py_read(c, id) == {Returned(out) : out \in ReadStream(c, id)}
py_write(c, id, fin) == {Returned(out) : out \in WriteStream(c, id, fin)}
py_reset(c, id) == {Returned(out) : out \in ResetStream(c, id)}
py_stop_sending(c, id) == {Returned(out) : out \in StopSending(c, id)}

\* Two calls of the glue: the size of the head, then the head itself into a
\* buffer of that size.
py_receive_datagram(c) ==
    LET peek == PeekDatagramSize(c) IN
    {Returned(IF peek.st = "OK" THEN ReceiveDatagram(peek.c, peek.val) ELSE peek)}
=============================================================================
