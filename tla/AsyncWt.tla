------------------------------- MODULE AsyncWt -------------------------------
(***************************************************************************)
(* AsyncWebTransportClient and AsyncWebTransportStream of                  *)
(* src/quiche/aio_wt.py: the asyncio client that owns the UDP socket and   *)
(* the timer of a WebTransportClient.  As in AsyncQuic, an action is what  *)
(* runs between two awaits.  connect() waits three times: for the          *)
(* connection, for the CONNECT request to be sent, and for the session.    *)
(*                                                                         *)
(* An object makes one connection: connect() is called again only if it    *)
(* failed before it made a core.  The text of close_reason is left out.    *)
(***************************************************************************)
EXTENDS WtGlue

CONSTANT Tasks     \* the application's tasks

VARIABLES
    client,   \* the fields of the AsyncWebTransportClient object, and its socket
    core,     \* its WebTransportClient
    task,     \* where each task is, what it awaits and how its last call ended
    got       \* history: the datagrams of the session that were delivered, in order

vars == <<client, core, task, got>>

\* core and transport tell whether the field is set; waiters is the set of
\* tasks whose future in _waiters is not done.
ClientStates ==
    [core : BOOLEAN, transport : BOOLEAN, timer : BOOLEAN, waiters : SUBSET Tasks,
     closed : BOOLEAN, was_connected : BOOLEAN,
     sock : {"none", "open", "closing", "closed"}]

\* The attempt() closures.  arg is whether every header has a name in
\* open_session, whether the stream is unidirectional in open and accept, and
\* whether the data exceed max_datagram_size in send_datagram.
ConnectKinds == {"is_connected", "open_session", "is_session_ready"}
Attempted ==
    [kind : ConnectKinds \cup {"open", "accept", "send_datagram"}, arg : BOOLEAN, id : {0}]
    \cup [kind : {"receive_datagram"}, arg : {FALSE}, id : {0}]
    \cup [kind : {"read", "write", "write_fin"}, arg : {FALSE}, id : StreamIds]

ConnectOp(kind, named) == [kind |-> kind, arg |-> named, id |-> 0]

Results == Exceptions \cup {"none", "connected", "value", "OSError", "TimeoutError", "CancelledError"}

TaskStates ==
    [pc : {"idle", "resolve", "endpoint", "opened", "wait"}, op : Attempted, res : Results]

IdleTask(res) == [pc |-> "idle", op |-> ConnectOp("is_connected", TRUE), res |-> res]

Init ==
    /\ client = [core |-> FALSE, transport |-> FALSE, timer |-> FALSE, waiters |-> {},
                 closed |-> FALSE, was_connected |-> FALSE, sock |-> "none"]
    /\ core = FreshClient
    /\ task = [p \in Tasks |-> IdleTask("none")]
    /\ got = <<>>

-----------------------------------------------------------------------------
(* The synchronous helpers, as functions of the client object x and of the *)
(* core c.                                                                 *)

\* Mutant of WakeWaiters: one waiter is notified, not all.
WakeOneWaiter(x) ==
    [x EXCEPT !.waiters = IF @ = {} THEN {} ELSE @ \ {CHOOSE p \in @ : TRUE}]

WakeWaiters(x) == [x EXCEPT !.waiters = {}]

\* Mutant of Teardown: the waiters sleep on.
TeardownSilent(x) ==
    IF x.closed THEN x
    ELSE [x EXCEPT !.closed = TRUE, !.timer = FALSE,
                   !.sock = IF x.transport /\ @ = "open" THEN "closing" ELSE @]

\* Only the first call has an effect.
Teardown(x) ==
    IF x.closed THEN x
    ELSE WakeWaiters([x EXCEPT !.closed = TRUE, !.timer = FALSE,
                               !.sock = IF x.transport /\ @ = "open" THEN "closing" ELSE @])

DrainSend(x, c) == IF x.transport THEN [c EXCEPT !.send_queue = <<>>] ELSE c

Dead(x, c) == ~IsConnected(c) /\ (x.was_connected \/ c.last_error # Q!NoError)

RescheduleTimer(x, c) == [x EXCEPT !.timer = NextTimeoutMs(c).val]

\* Drain, detect the end of the connection, re-arm the timer, wake the waiters.
\* The session is not looked at.
Process(x, c) ==
    LET d == DrainSend(x, c) IN
    IF ~x.core \/ x.closed THEN [x |-> x, c |-> c]
    ELSE IF Dead(x, d) THEN [x |-> Teardown(x), c |-> d]
    ELSE [x |-> WakeWaiters(RescheduleTimer([x EXCEPT !.was_connected = @ \/ IsConnected(d)], d)),
          c |-> NextTimeoutMs(d).c]

\* What a callback does once the core has answered: _process() unless it raised.
Processed(r) == IF r.ret = "value" THEN Process(client, r.c) ELSE [x |-> client, c |-> r.c]

-----------------------------------------------------------------------------
(* Turns of the loop in _wait, from the client object x and the core c.    *)

Finished(p, res) == task' = [task EXCEPT ![p] = IdleTask(res)]

\* attempt() answered None: the task files a future and goes to sleep.
Sleep(p, o, x, c) ==
    /\ client' = [x EXCEPT !.waiters = @ \cup {p}] /\ core' = c
    /\ task' = [task EXCEPT ![p] = [pc |-> "wait", op |-> o, res |-> "none"]]
    /\ UNCHANGED got

Raise(p, res, x, c) ==
    /\ client' = x /\ core' = c /\ Finished(p, res) /\ UNCHANGED got

\* connect() tears the client down on its way out.
ConnectFails(p, res, x, c) == Raise(p, res, Teardown(x), c)

\* The third wait of connect().
SessionReadyTurn(p, named, x, c) ==
    IF x.closed THEN ConnectFails(p, "ConnectionError", x, c)
    ELSE \E r \in py_is_session_ready(c) :
           IF r.val THEN Raise(p, "connected", x, r.c)
           ELSE Sleep(p, ConnectOp("is_session_ready", named), x, r.c)

\* Mutant of OpenSessionTurn: connect() returns once the request is sent.
OpenSessionTurnHasty(p, named, x, c) ==
    IF x.closed THEN ConnectFails(p, "ConnectionError", x, c)
    ELSE \E r \in py_connect_session(c, named) :
           IF r.ret = "None" THEN Sleep(p, ConnectOp("open_session", named), x, r.c)
           ELSE IF r.ret # "value" THEN ConnectFails(p, r.ret, x, r.c)
           ELSE LET after == Process(x, r.c) IN Raise(p, "connected", after.x, after.c)

\* The second wait; once the CONNECT request is sent, _process() and the first
\* turn of the third wait follow without an await.
OpenSessionTurn(p, named, x, c) ==
    IF x.closed THEN ConnectFails(p, "ConnectionError", x, c)
    ELSE \E r \in py_connect_session(c, named) :
           IF r.ret = "None" THEN Sleep(p, ConnectOp("open_session", named), x, r.c)
           ELSE IF r.ret # "value" THEN ConnectFails(p, r.ret, x, r.c)
           ELSE LET after == Process(x, r.c) IN SessionReadyTurn(p, named, after.x, after.c)

\* The first wait.
ConnectedTurn(p, named, x, c) ==
    IF x.closed THEN ConnectFails(p, "ConnectionError", x, c)
    ELSE IF IsConnected(c) THEN OpenSessionTurn(p, named, x, c)
    ELSE Sleep(p, ConnectOp("is_connected", named), x, c)

\* attempt() of a stream or datagram operation.
Attempt(o, c) ==
    CASE o.kind = "send_datagram" -> py_send_datagram(c, o.arg)
      [] o.kind = "receive_datagram" -> py_receive_datagram(c)
      [] o.kind = "open" -> py_open_stream(c, o.arg)
      [] o.kind = "accept" -> py_accept_stream(c, o.arg)
      [] o.kind = "read" -> py_read(c, o.id)
      [] o.kind = "write" -> py_write(c, o.id, FALSE)
      [] o.kind = "write_fin" -> py_write(c, o.id, TRUE)

\* The calls that run _process once their attempt succeeded.
ProcessesAfter == {"send_datagram", "write", "write_fin"}

SessionTurn(p, o) ==
    IF client.closed THEN Raise(p, "ConnectionError", client, core)
    ELSE \E r \in Attempt(o, core) :
           LET after == IF o.kind \in ProcessesAfter THEN Processed(r)
                        ELSE [x |-> client, c |-> r.c] IN
           IF r.ret = "None" THEN Sleep(p, o, client, r.c)
           ELSE /\ client' = after.x /\ core' = after.c /\ Finished(p, r.ret)
                /\ got' = IF r.ret = "value" /\ o.kind = "receive_datagram" /\ core.wt # "freed"
                            THEN Append(got, r.val) ELSE got

\* A stream object exists once the stream was opened or accepted.
HasHandle(id) == core.streams[id].phase \in {"open", "gone"}

\* A public coroutine method is called.
Call(p, o) ==
    /\ task[p].pc = "idle" /\ client.core /\ o.kind \notin ConnectKinds
    /\ o.kind \in {"read", "write", "write_fin"} => HasHandle(o.id)
    /\ SessionTurn(p, o)

\* The future of a sleeping task is done: the loop runs the task again.
Wake(p) ==
    LET o == task[p].op IN
    /\ task[p].pc = "wait" /\ p \notin client.waiters
    /\ CASE o.kind = "is_connected" -> ConnectedTurn(p, o.arg, client, core)
         [] o.kind = "open_session" -> OpenSessionTurn(p, o.arg, client, core)
         [] o.kind = "is_session_ready" -> SessionReadyTurn(p, o.arg, client, core)
         [] OTHER -> SessionTurn(p, o)

\* The deadline of the current wait passes or the task is cancelled.
Interrupt(p, e) ==
    LET x == [client EXCEPT !.waiters = @ \ {p}] IN
    /\ task[p].pc = "wait"
    /\ IF task[p].op.kind \in ConnectKinds THEN ConnectFails(p, e, x, core) ELSE Raise(p, e, x, core)

-----------------------------------------------------------------------------
(* connect().                                                              *)

Stage(p, pc, named) ==
    task' = [task EXCEPT ![p] = [pc |-> pc, op |-> ConnectOp("is_connected", named), res |-> "none"]]

ConnectCall(p, named) ==
    /\ task[p].pc = "idle" /\ ~client.core
    /\ \A q \in Tasks : task[q].pc = "idle"
    /\ Stage(p, "resolve", named) /\ UNCHANGED <<client, core, got>>

Resolved(p) ==
    /\ task[p].pc = "resolve"
    /\ client' = [client EXCEPT !.core = TRUE]
    /\ Stage(p, "endpoint", task[p].op.arg) /\ UNCHANGED <<core, got>>

\* getaddrinfo, the constructor of WebTransportClient or the creation of the
\* socket fails, or the task is cancelled: nothing is undone.
ConnectAborted(p, e) ==
    /\ task[p].pc \in {"resolve", "endpoint"}
    /\ Raise(p, e, client, core)

EndpointMade(p) ==
    /\ task[p].pc = "endpoint"
    /\ client' = [client EXCEPT !.sock = "open"]
    /\ Stage(p, "opened", task[p].op.arg) /\ UNCHANGED <<core, got>>

\* Cancelled there, create_datagram_endpoint closes the transport it made.
EndpointCancelled(p) ==
    /\ task[p].pc = "opened"
    /\ Raise(p, "CancelledError",
             [client EXCEPT !.sock = IF @ = "open" THEN "closing" ELSE @], core)

\* start(), which does not raise, _process() and the first turns of the waits.
ConnectStart(p) ==
    LET x == [client EXCEPT !.transport = TRUE] IN
    /\ task[p].pc = "opened"
    /\ \E r \in py_start(core) :
         LET after == Process(x, r.c) IN ConnectedTurn(p, task[p].op.arg, after.x, after.c)

-----------------------------------------------------------------------------
(* Callbacks of the transport and of the timer; the remaining methods.     *)

\* An exception (the core is not started) is left to the loop, which logs it.
OnReceive(empty) ==
    /\ client.sock = "open" /\ client.core /\ ~client.closed
    /\ \E r \in py_receive_packet(core, empty) :
         client' = Processed(r).x /\ core' = Processed(r).c
    /\ UNCHANGED <<task, got>>

\* Mutant of OnTimeout: no _process after handle_timeout.
OnTimeoutUnprocessed ==
    /\ client.timer /\ client.core /\ ~client.closed
    /\ \E r \in py_handle_timeout(core) : core' = r.c
    /\ UNCHANGED <<client, task, got>>

OnTimeout ==
    /\ client.timer /\ client.core /\ ~client.closed
    /\ \E r \in py_handle_timeout(core) :
         client' = Processed(r).x /\ core' = Processed(r).c
    /\ UNCHANGED <<task, got>>

TransportFails ==
    /\ client.sock = "open"
    /\ client' = [client EXCEPT !.sock = "closing"]
    /\ UNCHANGED <<core, task, got>>

OnConnectionLost ==
    /\ client.sock = "closing"
    /\ client' = Teardown([client EXCEPT !.sock = "closed"])
    /\ UNCHANGED <<core, task, got>>

\* Mutant of AppClose: nothing is drained after the session is closed.
AppCloseUndrained ==
    /\ ~client.closed
    /\ core' = IF client.core THEN Close(core) ELSE core
    /\ client' = Teardown(client)
    /\ UNCHANGED <<task, got>>

\* Mutant of AppClose: with a session to close, the client is not torn down.
AppCloseStaysUp ==
    /\ ~client.closed
    /\ core' = IF client.core THEN DrainSend(client, Close(core)) ELSE core
    /\ client' = IF core.wt # "null" THEN client ELSE Teardown(client)
    /\ UNCHANGED <<task, got>>

\* close() has no await: it closes the session, or the connection if there is
\* none, drains the packets and tears down.
AppClose ==
    /\ ~client.closed
    /\ core' = IF client.core THEN DrainSend(client, Close(core)) ELSE core
    /\ client' = Teardown(client)
    /\ UNCHANGED <<task, got>>

\* reset() and stop_sending() of a stream; they raise before _process.
StreamControl(id) ==
    /\ HasHandle(id)
    /\ \E r \in py_reset(core, id) \cup py_stop_sending(core, id) :
         client' = Processed(r).x /\ core' = Processed(r).c
    /\ UNCHANGED <<task, got>>

\* is_session_ready, can_write, is_open and max_datagram_size ask the core, on a
\* closed client too.
Query ==
    /\ client.core
    /\ core' = Inspect(core)
    /\ UNCHANGED <<client, task, got>>

-----------------------------------------------------------------------------
Next ==
    \/ \E p \in Tasks, o \in Attempted : Call(p, o)
    \/ \E p \in Tasks : Wake(p)
    \/ \E p \in Tasks, e \in {"TimeoutError", "CancelledError"} : Interrupt(p, e)
    \/ \E p \in Tasks, named \in BOOLEAN : ConnectCall(p, named)
    \/ \E p \in Tasks : Resolved(p)
    \/ \E p \in Tasks, e \in {"OSError", "RuntimeError", "CancelledError"} : ConnectAborted(p, e)
    \/ \E p \in Tasks : EndpointMade(p)
    \/ \E p \in Tasks : EndpointCancelled(p)
    \/ \E p \in Tasks : ConnectStart(p)
    \/ \E empty \in BOOLEAN : OnReceive(empty)
    \/ OnTimeout
    \/ TransportFails
    \/ OnConnectionLost
    \/ AppClose
    \/ \E id \in StreamIds : StreamControl(id)
    \/ Query

Spec == Init /\ [][Next]_vars

\* asyncio keeps running what is ready and fires a timer that is armed;
\* nothing is assumed about the network, the deadlines or the application.
Fairness ==
    /\ \A p \in Tasks : WF_vars(Wake(p)) /\ WF_vars(ConnectStart(p))
    /\ WF_vars(OnConnectionLost) /\ WF_vars(OnTimeout)

FairSpec == Spec /\ Fairness

-----------------------------------------------------------------------------
(* Properties.                                                             *)

\* Every variable has its type: the fields of the AsyncWebTransportClient
\* object, of its WebTransportClient and of the tasks stay in their domains.
TypeOK ==
    /\ client \in ClientStates
    /\ core \in WtClients
    /\ task \in [Tasks -> TaskStates]
    /\ got \in Seq(1..MaxDatagrams)

\* No lost wake-up in AsyncWebTransportClient._wait: a task that sleeps on a
\* future of _waiters is a task of a client that is not closed, and its attempt
\* would not succeed if it ran now.  The end of the session is an event too: no
\* stream or datagram call sleeps on a session that is over, unless it is freed.
NoLostWakeup ==
    \A p \in client.waiters :
        /\ task[p].pc = "wait" /\ ~client.closed
        /\ core.wt # "freed" =>
             LET o == task[p].op IN
             CASE o.kind = "is_connected" -> ~IsConnected(core)
               [] o.kind = "open_session" ->
                    \A r \in py_connect_session(core, o.arg) : r.ret = "None"
               [] o.kind = "is_session_ready" -> \A r \in py_is_session_ready(core) : ~r.val
               [] OTHER -> /\ core.session_ready
                           /\ \A r \in Attempt(o, core) : r.ret # "value"

\* The end of the connection is never missed: a client that is not closed holds
\* a core whose connection has not ended.  Only an end inside start() goes
\* unnoticed, and then the first wait of connect() still lasts, which takes the
\* client down when it gives up.
DeadConnectionDetected ==
    client.core /\ ~client.closed =>
        /\ core.conn # "closed"
        /\ core.conn = "failed" =>
             \E p \in Tasks : task[p].pc = "wait" /\ task[p].op.kind = "is_connected"

\* The datagrams of a session that lives reach the application exactly once and
\* in order, the ones that overtook the answer to CONNECT included, though the
\* glue takes a datagram before it checks the buffer.
DatagramsExactlyOnce ==
    core.wt # "freed" => got \o core.received_datagrams = [i \in 1..core.arrived |-> i]

\* What close() queued (the capsule that closes the session, or a
\* CONNECTION_CLOSE) was handed to the transport before the teardown.
NoCloseStranded ==
    client.closed /\ client.was_connected =>
        \A i \in 1..Len(core.send_queue) : core.send_queue[i] # "close"

\* Closing a session never leads into freed memory, whatever is called
\* afterwards: close() stops the timer that would run the clean-up of the CONNECT
\* stream, so the pointers web_transport_ and session_visitor_ stay usable even
\* if the server answers by closing it too.  (A session that the server ends
\* first is freed under its pointers.)
CloseLeavesPointersGood == core.close_sent => core.wt = "live" /\ ~core.dangling

\* connect() completes the WebTransport CONNECT after the handshake (docstring of
\* AsyncWebTransportClient.connect): when it returns, the session is ready.
ConnectMeansSession ==
    [][\A p \in Tasks :
          task'[p] # task[p] /\ task'[p].res = "connected" => core'.session_ready]_vars

-----------------------------------------------------------------------------
(* Refinement.                                                             *)

\* How AsyncPromise sees a task: a call counts as begun when its socket is
\* there, because nothing bounds the time of the resolver.
Seen(t) ==
    IF t.pc \in {"opened", "wait"} THEN "busy"
    ELSE IF t.pc # "idle" \/ t.res = "none" THEN "none"
    ELSE IF t.res \in {"connected", "value"} THEN "ok" ELSE "error"

Promise == INSTANCE AsyncPromise WITH
    Items <- 1..MaxDatagrams,
    life <- IF client.closed THEN "down" ELSE "up",
    call <- [p \in Tasks |-> Seen(task[p])],
    avail <- {core.received_datagrams[i] : i \in 1..Len(core.received_datagrams)},
    taken <- {got[i] : i \in 1..Len(got)}

\* AsyncWebTransportClient implements AsyncPromise: no call returns on a client that
\* was torn down, a task that waits when it is torn down gets its exception,
\* and every datagram of a session the server keeps is handed to one call.
KeepsPromise == Promise!FairSpec
=============================================================================
