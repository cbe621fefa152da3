----------------------------- MODULE AsyncHttp3 -----------------------------
(***************************************************************************)
(* AsyncHttp3Client of src/quiche/aio_http3.py: the asyncio client that    *)
(* owns the UDP socket and the timer of an Http3Client.  As in AsyncQuic,  *)
(* an action is what runs between two awaits.  request() awaits twice,     *)
(* first until the session has room for a stream and then until the        *)
(* response of that stream is complete.                                    *)
(*                                                                         *)
(* An object makes one connection: connect() is called again only if it    *)
(* failed before it made a core.  The text of close_reason is left out.    *)
(***************************************************************************)
EXTENDS Http3Glue

CONSTANT Tasks     \* the application's tasks

VARIABLES
    client,   \* the fields of the AsyncHttp3Client object, and its socket
    core,     \* its Http3Client
    task,     \* where each task is, what it awaits and how its last call ended
    got       \* history: the streams whose response was returned, in order

vars == <<client, core, task, got>>

\* core and transport tell whether the field is set; waiters is the set of
\* tasks whose future in _waiters is not done.
ClientStates ==
    [core : BOOLEAN, transport : BOOLEAN, timer : BOOLEAN, waiters : SUBSET Tasks,
     closed : BOOLEAN, was_connected : BOOLEAN,
     sock : {"none", "open", "closing", "closed"}]

\* The attempt() closures of connect() and request().
Attempted ==
    [kind : {"is_connected"}, named : {TRUE}, fin : {TRUE}, id : {0}]
    \cup [kind : {"submit"}, named : BOOLEAN, fin : BOOLEAN, id : {0}]
    \cup [kind : {"take"}, named : {TRUE}, fin : {TRUE}, id : StreamIds]

ConnectedOp == [kind |-> "is_connected", named |-> TRUE, fin |-> TRUE, id |-> 0]
TakeOp(id) == [kind |-> "take", named |-> TRUE, fin |-> TRUE, id |-> id]

Results == Exceptions \cup {"none", "connected", "response", "OSError", "TimeoutError", "CancelledError"}

TaskStates ==
    [pc : {"idle", "resolve", "endpoint", "opened", "wait"}, op : Attempted, res : Results]

IdleTask(res) == [pc |-> "idle", op |-> ConnectedOp, res |-> res]

Init ==
    /\ client = [core |-> FALSE, transport |-> FALSE, timer |-> FALSE, waiters |-> {},
                 closed |-> FALSE, was_connected |-> FALSE, sock |-> "none"]
    /\ core = FreshClient
    /\ task = [p \in Tasks |-> IdleTask("none")]
    /\ got = <<>>

-----------------------------------------------------------------------------
(* The synchronous helpers, as functions of the client object x and of the *)
(* core c.                                                                 *)

\* Mutant of WakeWaiters: one waiter is notified, not all.
WakeOneWaiter(x) ==
    [x EXCEPT !.waiters = IF @ = {} THEN {} ELSE @ \ {CHOOSE p \in @ : TRUE}]

WakeWaiters(x) == [x EXCEPT !.waiters = {}]

\* Mutant of Teardown: the waiters sleep on.
TeardownSilent(x) ==
    IF x.closed THEN x
    ELSE [x EXCEPT !.closed = TRUE, !.timer = FALSE,
                   !.sock = IF x.transport /\ @ = "open" THEN "closing" ELSE @]

\* Only the first call has an effect.
Teardown(x) ==
    IF x.closed THEN x
    ELSE WakeWaiters([x EXCEPT !.closed = TRUE, !.timer = FALSE,
                               !.sock = IF x.transport /\ @ = "open" THEN "closing" ELSE @])

DrainSend(x, c) == IF x.transport THEN [c EXCEPT !.send_queue = <<>>] ELSE c

Dead(x, c) == ~IsConnected(c) /\ (x.was_connected \/ c.last_error # NoError)

RescheduleTimer(x, c) == [x EXCEPT !.timer = NextTimeoutMs(c).val]

\* Drain, detect the end of the connection, re-arm the timer, wake the waiters.
Process(x, c) ==
    LET d == DrainSend(x, c) IN
    IF ~x.core \/ x.closed THEN [x |-> x, c |-> c]
    ELSE IF Dead(x, d) THEN [x |-> Teardown(x), c |-> d]
    ELSE [x |-> WakeWaiters(RescheduleTimer([x EXCEPT !.was_connected = @ \/ IsConnected(d)], d)),
          c |-> NextTimeoutMs(d).c]

-----------------------------------------------------------------------------
(* Turns of the loop in _wait, from the client object x and the core c.    *)

Finished(p, res) == task' = [task EXCEPT ![p] = IdleTask(res)]

\* attempt() answered None: the task files a future and goes to sleep.
Sleep(p, o, x, c) ==
    /\ client' = [x EXCEPT !.waiters = @ \cup {p}] /\ core' = c
    /\ task' = [task EXCEPT ![p] = [pc |-> "wait", op |-> o, res |-> "none"]]
    /\ UNCHANGED got

Raise(p, res, x, c) ==
    /\ client' = x /\ core' = c /\ Finished(p, res) /\ UNCHANGED got

\* The second wait of request().
TakeTurn(p, id, x, c) ==
    IF x.closed THEN Raise(p, "ConnectionError", x, c)
    ELSE \E r \in py_take_response(c, id) :
           IF r.ret = "None" THEN Sleep(p, TakeOp(id), x, r.c)
           ELSE LET after == Process(x, r.c) IN
                /\ client' = after.x /\ core' = after.c
                /\ Finished(p, "response") /\ got' = Append(got, id)

\* Mutant of SubmitTurn: no _process() between the two waits.
SubmitTurnUnprocessed(p, o) ==
    IF client.closed THEN Raise(p, "ConnectionError", client, core)
    ELSE \E r \in py_submit_request(core, o.named, o.fin) :
           IF r.ret = "None" THEN Sleep(p, o, client, r.c)
           ELSE IF r.ret # "value" THEN Raise(p, r.ret, client, r.c)
           ELSE TakeTurn(p, r.val, client, r.c)

\* The first wait of request(); once the request is sent, _process() and the
\* first turn of the second wait follow without an await.
SubmitTurn(p, o) ==
    IF client.closed THEN Raise(p, "ConnectionError", client, core)
    ELSE \E r \in py_submit_request(core, o.named, o.fin) :
           IF r.ret = "None" THEN Sleep(p, o, client, r.c)
           ELSE IF r.ret # "value" THEN Raise(p, r.ret, client, r.c)
           ELSE LET after == Process(client, r.c) IN TakeTurn(p, r.val, after.x, after.c)

\* The wait of connect(), which tears the client down if it fails.
ConnectTurn(p, x, c) ==
    IF x.closed THEN Raise(p, "ConnectionError", x, c)
    ELSE IF IsConnected(c) THEN Raise(p, "connected", x, c)
    ELSE Sleep(p, ConnectedOp, x, c)

\* request() is called.
Request(p, o) ==
    /\ task[p].pc = "idle" /\ client.core /\ o.kind = "submit"
    /\ SubmitTurn(p, o)

\* The future of a sleeping task is done: the loop runs the task again.
Wake(p) ==
    LET o == task[p].op IN
    /\ task[p].pc = "wait" /\ p \notin client.waiters
    /\ CASE o.kind = "is_connected" -> ConnectTurn(p, client, core)
         [] o.kind = "submit" -> SubmitTurn(p, o)
         [] o.kind = "take" -> TakeTurn(p, o.id, client, core)

\* The deadline of the current wait passes or the task is cancelled.  The
\* stream of a request that was sent is left as it is.
Interrupt(p, e) ==
    LET x == [client EXCEPT !.waiters = @ \ {p}] IN
    /\ task[p].pc = "wait"
    /\ Raise(p, e, IF task[p].op = ConnectedOp THEN Teardown(x) ELSE x, core)

-----------------------------------------------------------------------------
(* connect().                                                              *)

Stage(p, pc) == task' = [task EXCEPT ![p] = [pc |-> pc, op |-> ConnectedOp, res |-> "none"]]

ConnectCall(p) ==
    /\ task[p].pc = "idle" /\ ~client.core
    /\ \A q \in Tasks : task[q].pc = "idle"
    /\ Stage(p, "resolve") /\ UNCHANGED <<client, core, got>>

Resolved(p) ==
    /\ task[p].pc = "resolve"
    /\ client' = [client EXCEPT !.core = TRUE]
    /\ Stage(p, "endpoint") /\ UNCHANGED <<core, got>>

\* getaddrinfo, the constructor of Http3Client or the creation of the socket
\* fails, or the task is cancelled: nothing is undone.
ConnectAborted(p, e) ==
    /\ task[p].pc \in {"resolve", "endpoint"}
    /\ Raise(p, e, client, core)

EndpointMade(p) ==
    /\ task[p].pc = "endpoint"
    /\ client' = [client EXCEPT !.sock = "open"]
    /\ Stage(p, "opened") /\ UNCHANGED <<core, got>>

\* Cancelled there, create_datagram_endpoint closes the transport it made.
EndpointCancelled(p) ==
    /\ task[p].pc = "opened"
    /\ Raise(p, "CancelledError",
             [client EXCEPT !.sock = IF @ = "open" THEN "closing" ELSE @], core)

\* start(), which does not raise, _process() and the first turn of _wait.
ConnectStart(p) ==
    LET x == [client EXCEPT !.transport = TRUE] IN
    /\ task[p].pc = "opened"
    /\ \E r \in py_start(core) :
         LET after == Process(x, r.c) IN ConnectTurn(p, after.x, after.c)

-----------------------------------------------------------------------------
(* Callbacks of the transport and of the timer, and close().               *)

\* An exception (the core is not started) is left to the loop, which logs it.
OnReceive(empty) ==
    /\ client.sock = "open" /\ client.core /\ ~client.closed
    /\ \E r \in py_receive_packet(core, empty) :
         LET after == IF r.ret = "value" THEN Process(client, r.c) ELSE [x |-> client, c |-> r.c]
         IN client' = after.x /\ core' = after.c
    /\ UNCHANGED <<task, got>>

\* Mutant of OnTimeout: no _process after handle_timeout.
OnTimeoutUnprocessed ==
    /\ client.timer /\ client.core /\ ~client.closed
    /\ \E r \in py_handle_timeout(core) : core' = r.c
    /\ UNCHANGED <<client, task, got>>

OnTimeout ==
    /\ client.timer /\ client.core /\ ~client.closed
    /\ \E r \in py_handle_timeout(core) :
         LET after == Process(client, r.c) IN client' = after.x /\ core' = after.c
    /\ UNCHANGED <<task, got>>

TransportFails ==
    /\ client.sock = "open"
    /\ client' = [client EXCEPT !.sock = "closing"]
    /\ UNCHANGED <<core, task, got>>

OnConnectionLost ==
    /\ client.sock = "closing"
    /\ client' = Teardown([client EXCEPT !.sock = "closed"])
    /\ UNCHANGED <<core, task, got>>

\* close() has no await: it closes the core, drains its packets and tears down.
AppClose ==
    /\ ~client.closed
    /\ core' = IF client.core THEN DrainSend(client, Close(core)) ELSE core
    /\ client' = Teardown(client)
    /\ UNCHANGED <<task, got>>

-----------------------------------------------------------------------------
Next ==
    \/ \E p \in Tasks, o \in Attempted : Request(p, o)
    \/ \E p \in Tasks : Wake(p)
    \/ \E p \in Tasks, e \in {"TimeoutError", "CancelledError"} : Interrupt(p, e)
    \/ \E p \in Tasks : ConnectCall(p)
    \/ \E p \in Tasks : Resolved(p)
    \/ \E p \in Tasks, e \in {"OSError", "RuntimeError", "CancelledError"} : ConnectAborted(p, e)
    \/ \E p \in Tasks : EndpointMade(p)
    \/ \E p \in Tasks : EndpointCancelled(p)
    \/ \E p \in Tasks : ConnectStart(p)
    \/ \E empty \in BOOLEAN : OnReceive(empty)
    \/ OnTimeout
    \/ TransportFails
    \/ OnConnectionLost
    \/ AppClose

Spec == Init /\ [][Next]_vars

\* asyncio keeps running what is ready and fires a timer that is armed;
\* nothing is assumed about the network, the deadlines or the application.
Fairness ==
    /\ \A p \in Tasks : WF_vars(Wake(p)) /\ WF_vars(ConnectStart(p))
    /\ WF_vars(OnConnectionLost) /\ WF_vars(OnTimeout)

FairSpec == Spec /\ Fairness

-----------------------------------------------------------------------------
(* Properties.                                                             *)

\* Every variable has its type: the fields of the AsyncHttp3Client object, of
\* its Http3Client and of the tasks stay in their domains.
TypeOK ==
    /\ client \in ClientStates
    /\ core \in Http3Clients
    /\ task \in [Tasks -> TaskStates]
    /\ got \in Seq(StreamIds)

\* No lost wake-up in AsyncHttp3Client._wait: a task that sleeps on a future of
\* _waiters is a task of a client that is not closed, whose attempt (a stream
\* for the request, or its response) would not succeed if it ran now.
NoLostWakeup ==
    \A p \in client.waiters :
        /\ task[p].pc = "wait" /\ ~client.closed
        /\ LET o == task[p].op IN
           CASE o.kind = "is_connected" -> ~IsConnected(core)
             [] o.kind = "submit" ->
                  \A r \in py_submit_request(core, o.named, o.fin) : r.ret = "None"
             [] o.kind = "take" -> \A r \in py_take_response(core, o.id) : r.ret = "None"

\* The end of the connection is never missed, though receive_packet and
\* handle_timeout swallow CLOSED: a client that is not closed holds a core
\* whose connection has not ended.  Only an end inside start() goes unnoticed,
\* and then connect() still waits and takes the client down when it gives up.
DeadConnectionDetected ==
    client.core /\ ~client.closed =>
        /\ core.conn # "closed"
        /\ core.conn = "failed" => \E p \in Tasks : task[p].pc = "wait" /\ task[p].op = ConnectedOp

\* Whenever control is back in the event loop, what QUICHE queued has been
\* handed to the transport, with one exception: a submit_request() that has to
\* wait may have queued STREAMS_BLOCKED, and _wait sleeps without _process().  A
\* packet is left only while no stream is to be had, and never a CONNECTION_CLOSE;
\* the timer, which runs exactly if an alarm is armed, is there to send it.
OnlyRefusalsLinger ==
    client.transport /\ (client.was_connected \/ ~client.closed) =>
        /\ \A i \in 1..Len(core.send_queue) : core.send_queue[i] # "close"
        /\ ~client.closed =>
             /\ client.timer <=> HasAlarm(core)
             /\ core.send_queue # <<>> => client.timer /\ CreateClientStream(core) = {}

\* That packet leaves, though the task that made QUICHE queue it sleeps or has
\* given up, unless the client is closed first.
QueuedPacketsLeave ==
    client.transport /\ core.send_queue # <<>> ~> client.closed \/ core.send_queue = <<>>

\* A completed response is returned by one request() or still in responses_,
\* never both and never twice, whatever was cancelled or timed out.
ResponsesExactlyOnce ==
    LET returned == {got[i] : i \in 1..Len(got)} IN
    /\ \A i, j \in 1..Len(got) : got[i] = got[j] => i = j
    /\ returned \cap core.responses = {}
    /\ returned \cup core.responses = core.completed

\* A request() whose response is complete returns; the deadline, a
\* cancellation or the end of the client may end it another way.
CompletedResponseEndsRequest ==
    \A p \in Tasks :
        task[p].pc = "wait" /\ task[p].op.kind = "take" /\ task[p].op.id \in core.responses
          ~> task[p].pc = "idle"

-----------------------------------------------------------------------------
(* Refinement.                                                             *)

\* How AsyncPromise sees a task: a call counts as begun when its socket is
\* there, because nothing bounds the time of the resolver.
Seen(t) ==
    IF t.pc \in {"opened", "wait"} THEN "busy"
    ELSE IF t.pc # "idle" \/ t.res = "none" THEN "none"
    ELSE IF t.res \in {"connected", "response"} THEN "ok" ELSE "error"

Promise == INSTANCE AsyncPromise WITH
    Items <- StreamIds,
    life <- IF client.closed THEN "down" ELSE "up",
    call <- [p \in Tasks |-> Seen(task[p])],
    avail <- core.responses,
    taken <- {got[i] : i \in 1..Len(got)}

\* AsyncHttp3Client implements AsyncPromise: no call returns on a client that
\* was torn down, a task that waits when it is torn down gets its exception,
\* and every response is handed to one call.
KeepsPromise == Promise!FairSpec
=============================================================================
