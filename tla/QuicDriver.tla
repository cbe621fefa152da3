------------------------------ MODULE QuicDriver ------------------------------
(***************************************************************************)
(* A QuicClient (src/bindings/quiche_glue.cc) driven by hand, the way      *)
(* PrimitiveDriver of tests/e2e_support.py drives it, and started again    *)
(* after its connection has ended.  The program owns the socket and the    *)
(* clock and may call the methods in any order.                            *)
(***************************************************************************)
EXTENDS QuicBinding

CONSTANT MaxStarts   \* bound: connections begun on one QuicClient object

ASSUME MaxStartsAssumption == MaxStarts \in Nat \ {0}

VARIABLES
    core,     \* the quiche_py_client
    starts,   \* the connections begun so far
    handles,  \* the stream objects the program holds, of whatever connection
    got       \* history: the datagrams received since the last start, in order

vars == <<core, starts, handles, got>>

Init == core = FreshClient /\ starts = 0 /\ handles = {} /\ got = <<>>

\* A method of the client that only changes the client.
Call(outs) ==
    /\ \E r \in outs : core' = r.c
    /\ UNCHANGED <<starts, handles, got>>

\* start() on an open connection answers at once, otherwise it begins another.
DoStart ==
    /\ core.conn = "open" \/ starts < MaxStarts
    /\ \E r \in py_start(core) : core' = r.c
    /\ starts' = IF core.conn = "open" THEN starts ELSE starts + 1
    /\ got' = IF core.conn = "open" THEN got ELSE <<>>
    /\ UNCHANGED handles

DoReceivePacket(empty) == Call(py_receive_packet(core, empty))
DoHandleTimeout == Call(py_handle_timeout(core))
DoNextSend == Call({Returned(NextSend(core))})
DoNextTimeoutMs == Call({Returned(NextTimeoutMs(core))})
DoClose == Call({Returned(Out(Close(core), "OK", 0))})
DoSendDatagram(oversized) == Call(py_send_datagram(core, oversized))

DoReceiveDatagram ==
    \E r \in py_receive_datagram(core) :
        /\ core' = r.c
        /\ got' = IF r.ret = "value" THEN Append(got, r.val) ELSE got
        /\ UNCHANGED <<starts, handles>>

\* Opening or accepting a stream yields an object that holds its id.
GetStream(outs) ==
    \E r \in outs :
        /\ core' = r.c
        /\ handles' = IF r.ret = "value" THEN handles \cup {r.val} ELSE handles
        /\ UNCHANGED <<starts, got>>

DoOpenStream(uni) == GetStream(py_open_stream(core, uni))
DoAcceptStream(uni) == GetStream(py_accept_stream(core, uni))

\* A stream object passes its id to whatever connection the client has now.
UseStream(id) ==
    /\ id \in handles
    /\ Call(py_read(core, id) \cup py_write(core, id, FALSE) \cup py_write(core, id, TRUE)
              \cup py_reset(core, id) \cup py_stop_sending(core, id))

Next ==
    \/ DoStart
    \/ \E empty \in BOOLEAN : DoReceivePacket(empty)
    \/ DoHandleTimeout
    \/ DoNextSend
    \/ DoNextTimeoutMs
    \/ DoClose
    \/ \E oversized \in BOOLEAN : DoSendDatagram(oversized)
    \/ DoReceiveDatagram
    \/ \E uni \in BOOLEAN : DoOpenStream(uni)
    \/ \E uni \in BOOLEAN : DoAcceptStream(uni)
    \/ \E id \in StreamIds : UseStream(id)

Spec == Init /\ [][Next]_vars

-----------------------------------------------------------------------------
(* Properties.                                                             *)

\* Every variable has its type, on every connection of the client.
TypeOK ==
    /\ core \in Clients
    /\ starts \in 0..MaxStarts
    /\ handles \in SUBSET StreamIds
    /\ got \in Seq(1..MaxDatagrams)

\* After a restart the datagrams are those of the new connection: none that the
\* program left unread on the old one is mixed in, and none of the new is lost.
DatagramsOfThisConnection ==
    got \o core.received_datagrams = [i \in 1..core.arrived |-> i]

\* A client never explains an error by the end of an earlier connection: while
\* last_error says that the connection or its session was closed, it is not open.
ClosedErrorIsTrue ==
    core.last_error \in {"session closed", "connection closed"} => core.conn # "open"

\* An open connection that the program did not close never ends silently:
\* receive_packet and handle_timeout do not raise, but last_error says why,
\* on the first connection and on the later ones.  (One that ends inside start()
\* was never open, and does end silently.)
EndIsExplained ==
    [][core.conn = "open" /\ core'.conn = "closed" => DoClose \/ core'.last_error # NoError]_vars
=============================================================================
