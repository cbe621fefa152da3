------------------------------ MODULE AsyncQuic ------------------------------
(***************************************************************************)
(* AsyncQuicClient and AsyncQuicStream of src/quiche/aio.py: the asyncio   *)
(* client that owns the UDP socket and the timer of a QuicClient.          *)
(*                                                                         *)
(* asyncio runs one callback at a time and a coroutine gives way only at   *)
(* an await, so an action is what runs between two awaits: a turn of the   *)
(* loop in _wait, a callback of the transport or of the timer, or a stage  *)
(* of connect().  Tasks are the coroutines of the application that use one *)
(* client object.                                                          *)
(***************************************************************************)
EXTENDS QuicBinding

CONSTANTS
    Tasks,         \* the application's tasks
    MaxAttempts    \* bound: connect() calls that get as far as a core of their own

ASSUME MaxAttemptsAssumption == MaxAttempts \in Nat \ {0}

VARIABLES
    client,   \* the fields of the AsyncQuicClient object, and its sockets
    cores,    \* the QuicClient of every attempt to connect
    task,     \* where each task is, what it awaits and how its last call ended
    got       \* history: the datagrams delivered from each core, in order

vars == <<client, cores, task, got>>

Attempts == 1..MaxAttempts

Reasons == Errors \cup {"connection lost", "connect failed", "closed by application"}

\* _core and _transport name the attempt that made them (0 is None).
\* waiters is the set of tasks whose future in _waiters is not done.
ClientStates ==
    [core : {0} \cup Attempts, transport : {0} \cup Attempts, timer : BOOLEAN,
     waiters : SUBSET Tasks, closed : BOOLEAN, close_reason : Reasons,
     was_connected : BOOLEAN,
     sock : [Attempts -> {"none", "open", "closing", "closed"}]]

\* What a task can await in _wait: the attempt() closures.
Attempted ==
    [kind : {"is_connected", "send_datagram", "receive_datagram"}, uni : {FALSE}, id : {0}]
    \cup [kind : {"open", "accept"}, uni : BOOLEAN, id : {0}]
    \cup [kind : {"read", "write", "write_fin"}, uni : {FALSE}, id : StreamIds]

IsConnectedOp == [kind |-> "is_connected", uni |-> FALSE, id |-> 0]

Results == Exceptions \cup {"none", "value", "OSError", "TimeoutError", "CancelledError"}

TaskStates ==
    [pc : {"idle", "resolve", "endpoint", "opened", "wait"}, op : Attempted,
     core : {0} \cup Attempts, res : Results]

IdleTask(res) == [pc |-> "idle", op |-> IsConnectedOp, core |-> 0, res |-> res]

Init ==
    /\ client = [core |-> 0, transport |-> 0, timer |-> FALSE, waiters |-> {}, closed |-> FALSE,
                 close_reason |-> "", was_connected |-> FALSE, sock |-> [a \in Attempts |-> "none"]]
    /\ cores = [a \in Attempts |-> FreshClient]
    /\ task = [p \in Tasks |-> IdleTask("none")]
    /\ got = [a \in Attempts |-> <<>>]

-----------------------------------------------------------------------------
(* The synchronous helpers, as functions of the client object x and of the *)
(* cores cs.                                                               *)

\* Mutant of WakeWaiters: one waiter is notified, not all.
WakeOneWaiter(x) ==
    [x EXCEPT !.waiters = IF @ = {} THEN {} ELSE @ \ {CHOOSE p \in @ : TRUE}]

WakeWaiters(x) == [x EXCEPT !.waiters = {}]

\* transport.close(): the socket stops reading now and connection_lost is
\* called by the loop later.
CloseTransport(x) ==
    IF x.transport # 0 /\ x.sock[x.transport] = "open"
      THEN [x EXCEPT !.sock[x.transport] = "closing"] ELSE x

\* Mutant of Teardown: the waiters sleep on.
TeardownSilent(x, reason) ==
    IF x.closed THEN x
    ELSE CloseTransport([x EXCEPT !.closed = TRUE, !.close_reason = reason, !.timer = FALSE])

\* Only the first call has an effect.
Teardown(x, reason) ==
    IF x.closed THEN x
    ELSE WakeWaiters(CloseTransport([x EXCEPT !.closed = TRUE, !.close_reason = reason,
                                              !.timer = FALSE]))

\* next_send until it answers None.  Every packet goes to sendto, unless there
\* is no transport yet.
DrainSend(x, c) == IF x.transport = 0 THEN c ELSE [c EXCEPT !.send_queue = <<>>]

\* The connection is dead if it was established once and is not now, or if
\* the core recorded an error before it was established.
Dead(x, c) == ~IsConnected(c) /\ (x.was_connected \/ c.last_error # NoError)

\* A dead core's last_error, or the stock text when there is none.
DeathReason(c) == IF c.last_error = NoError THEN "connection closed" ELSE c.last_error

\* Mutant of RescheduleTimer: the timer is left alone until the connection is
\* established.
RescheduleTimerEstablished(x, c) ==
    IF x.was_connected THEN [x EXCEPT !.timer = NextTimeoutMs(c).val] ELSE x

RescheduleTimer(x, c) == [x EXCEPT !.timer = NextTimeoutMs(c).val]

\* Drain, detect the end of the connection, re-arm the timer, wake the waiters.
Process(x, cs) ==
    IF x.core = 0 \/ x.closed THEN [x |-> x, cs |-> cs]
    ELSE LET c == DrainSend(x, cs[x.core]) IN
         IF Dead(x, c)
           THEN [x |-> Teardown(x, DeathReason(c)), cs |-> [cs EXCEPT ![x.core] = c]]
           ELSE [x |-> WakeWaiters(RescheduleTimer(
                         [x EXCEPT !.was_connected = @ \/ IsConnected(c)], c)),
                 cs |-> [cs EXCEPT ![x.core] = NextTimeoutMs(c).c]]

-----------------------------------------------------------------------------
(* _wait: one turn of its loop.                                            *)

\* attempt() on core c: a set of [c, ret, val].
Attempt(o, c) ==
    CASE o.kind = "is_connected" ->
           {[c |-> c, ret |-> IF IsConnected(c) THEN "value" ELSE "None", val |-> 0]}
      [] o.kind = "send_datagram" -> py_send_datagram(c, FALSE)
      [] o.kind = "receive_datagram" -> py_receive_datagram(c)
      [] o.kind = "open" -> py_open_stream(c, o.uni)
      [] o.kind = "accept" -> py_accept_stream(c, o.uni)
      [] o.kind = "read" -> py_read(c, o.id)
      [] o.kind = "write" -> py_write(c, o.id, FALSE)
      [] o.kind = "write_fin" -> py_write(c, o.id, TRUE)

\* The calls that run _process once their attempt succeeded.
ProcessesAfter == {"send_datagram", "write", "write_fin"}

Finished(p, res) == [task EXCEPT ![p] = IdleTask(res)]

\* The task p, outside the waiters, runs attempt() once: it finishes with the
\* value or the exception, or files a future in _waiters and goes to sleep.
Turn(p, o, a) ==
    IF client.closed
      THEN /\ task' = Finished(p, "ConnectionError")
           /\ UNCHANGED <<client, cores, got>>
      ELSE \E r \in Attempt(o, cores[a]) :
             LET cs == [cores EXCEPT ![a] = r.c]
                 after == IF r.ret = "value" /\ o.kind \in ProcessesAfter
                            THEN Process(client, cs) ELSE [x |-> client, cs |-> cs]
             IN /\ cores' = after.cs
                /\ got' = IF r.ret = "value" /\ o.kind = "receive_datagram"
                            THEN [got EXCEPT ![a] = Append(@, r.val)] ELSE got
                /\ IF r.ret = "None"
                     THEN /\ client' = [after.x EXCEPT !.waiters = @ \cup {p}]
                          /\ task' = [task EXCEPT ![p] = [pc |-> "wait", op |-> o, core |-> a,
                                                          res |-> "none"]]
                     ELSE /\ client' = after.x
                          /\ task' = Finished(p, r.ret)

\* A stream object exists once the stream was opened or accepted.
HasHandle(c, id) == c.streams[id].phase \in {"open", "gone"}

\* A public coroutine method is called: it takes self._core and makes its
\* first turn without an await in between.
Call(p, o) ==
    /\ task[p].pc = "idle" /\ client.core # 0 /\ o.kind # "is_connected"
    /\ IF o.kind \in {"read", "write", "write_fin"}
         THEN \E a \in Attempts : HasHandle(cores[a], o.id) /\ Turn(p, o, a)
         ELSE Turn(p, o, client.core)

\* The future of a sleeping task is done: the loop runs the task again.
Wake(p) ==
    /\ task[p].pc = "wait" /\ p \notin client.waiters
    /\ Turn(p, task[p].op, task[p].core)

\* The deadline passes or the task is cancelled, before or after its future
\* is done.  connect() tears the client down on its way out.
Interrupt(p, e) ==
    /\ task[p].pc = "wait"
    /\ task' = Finished(p, e)
    /\ client' = LET x == [client EXCEPT !.waiters = @ \ {p}]
                 IN IF task[p].op = IsConnectedOp THEN Teardown(x, "connect failed") ELSE x
    /\ UNCHANGED <<cores, got>>

-----------------------------------------------------------------------------
(* connect(): resolve the name, construct the core, open the endpoint,     *)
(* start the handshake and wait for it.                                    *)

Stage(p, pc, a) ==
    task' = [task EXCEPT ![p] = [pc |-> pc, op |-> IsConnectedOp, core |-> a, res |-> "none"]]

ConnectCall(p) ==
    /\ task[p].pc = "idle" /\ client.core < MaxAttempts
    /\ Stage(p, "resolve", 0)
    /\ UNCHANGED <<client, cores, got>>

\* getaddrinfo answers and the constructor succeeds: self._core is the new core.
Resolved(p) ==
    /\ task[p].pc = "resolve" /\ client.core < MaxAttempts
    /\ client' = [client EXCEPT !.core = @ + 1]
    /\ cores' = [cores EXCEPT ![client.core + 1] = FreshClient]
    /\ Stage(p, "endpoint", client.core + 1)
    /\ UNCHANGED got

\* getaddrinfo, the constructor of QuicClient or the creation of the socket
\* fails, or the task is cancelled: nothing is undone.
ConnectAborted(p, e) ==
    /\ task[p].pc \in {"resolve", "endpoint"}
    /\ task' = Finished(p, e)
    /\ UNCHANGED <<client, cores, got>>

\* create_datagram_endpoint registers the socket with the loop and schedules
\* the resumption of connect().
EndpointMade(p) ==
    /\ task[p].pc = "endpoint"
    /\ client' = [client EXCEPT !.sock[task[p].core] = "open"]
    /\ Stage(p, "opened", task[p].core)
    /\ UNCHANGED <<cores, got>>

\* Cancelled there, create_datagram_endpoint closes the transport it made.
EndpointCancelled(p) ==
    /\ task[p].pc = "opened"
    /\ client' = [client EXCEPT !.sock[task[p].core] = IF @ = "open" THEN "closing" ELSE @]
    /\ task' = Finished(p, "CancelledError")
    /\ UNCHANGED <<cores, got>>

\* self._transport is set; then, in the try block, start(), which does not raise,
\* _process() and the first turn of _wait.
ConnectStart(p) ==
    LET a == task[p].core
        x == [client EXCEPT !.transport = a]
    IN /\ task[p].pc = "opened"
       /\ \E r \in py_start(cores[a]) :
            LET done == Process(x, [cores EXCEPT ![a] = r.c]) IN
            /\ cores' = done.cs
            /\ IF done.x.closed
                 THEN /\ client' = Teardown(done.x, "connect failed")
                      /\ task' = Finished(p, "ConnectionError")
                 ELSE /\ client' = [done.x EXCEPT !.waiters = @ \cup {p}]
                      /\ Stage(p, "wait", a)
       /\ UNCHANGED got

-----------------------------------------------------------------------------
(* Callbacks of the transport and of the timer; the remaining methods.     *)

\* datagram_received of socket k feeds whatever core the object holds now.  An
\* exception (the core is not started) is left to the loop, which logs it.
OnReceive(k, empty) ==
    /\ client.sock[k] = "open" /\ client.core # 0 /\ ~client.closed
    /\ \E r \in py_receive_packet(cores[client.core], empty) :
         LET cs == [cores EXCEPT ![client.core] = r.c]
             after == IF r.ret = "value" THEN Process(client, cs) ELSE [x |-> client, cs |-> cs]
         IN client' = after.x /\ cores' = after.cs
    /\ UNCHANGED <<task, got>>

\* Mutant of OnTimeout: no _process after handle_timeout.
OnTimeoutUnprocessed ==
    /\ client.timer /\ client.core # 0 /\ ~client.closed
    /\ \E r \in py_handle_timeout(cores[client.core]) :
         cores' = [cores EXCEPT ![client.core] = r.c]
    /\ UNCHANGED <<client, task, got>>

OnTimeout ==
    /\ client.timer /\ client.core # 0 /\ ~client.closed
    /\ \E r \in py_handle_timeout(cores[client.core]) :
         LET after == Process(client, [cores EXCEPT ![client.core] = r.c])
         IN client' = after.x /\ cores' = after.cs
    /\ UNCHANGED <<task, got>>

\* A fatal error of the transport: it stops reading, connection_lost follows.
TransportFails(k) ==
    /\ client.sock[k] = "open"
    /\ client' = [client EXCEPT !.sock[k] = "closing"]
    /\ UNCHANGED <<cores, task, got>>

OnConnectionLost(k) ==
    /\ client.sock[k] = "closing"
    /\ client' = Teardown([client EXCEPT !.sock[k] = "closed"], "connection lost")
    /\ UNCHANGED <<cores, task, got>>

\* Mutant of AppClose: nothing is drained after the core is closed.
AppCloseUndrained ==
    /\ ~client.closed
    /\ IF client.core = 0 THEN UNCHANGED cores
       ELSE cores' = [cores EXCEPT ![client.core] = Close(@)]
    /\ client' = Teardown(client, "closed by application")
    /\ UNCHANGED <<task, got>>

\* close() has no await: it closes the core, drains its packets and tears down.
AppClose ==
    /\ ~client.closed
    /\ LET a == client.core IN
       IF a = 0 THEN UNCHANGED cores
       ELSE cores' = [cores EXCEPT ![a] = DrainSend(client, Close(cores[a]))]
    /\ client' = Teardown(client, "closed by application")
    /\ UNCHANGED <<task, got>>

\* reset() and stop_sending() of a stream of core a; they raise before _process.
StreamControl(a, id, outs) ==
    /\ HasHandle(cores[a], id)
    /\ \E r \in outs :
         LET cs == [cores EXCEPT ![a] = r.c]
             after == IF r.ret = "value" THEN Process(client, cs) ELSE [x |-> client, cs |-> cs]
         IN client' = after.x /\ cores' = after.cs
    /\ UNCHANGED <<task, got>>

StreamReset(a, id) == StreamControl(a, id, py_reset(cores[a], id))
StreamStopSending(a, id) == StreamControl(a, id, py_stop_sending(cores[a], id))

\* send_datagram with more than max_datagram_size bytes: ValueError at once.
SendOversized ==
    /\ client.core # 0 /\ ~client.closed
    /\ \E r \in py_send_datagram(cores[client.core], TRUE) :
         cores' = [cores EXCEPT ![client.core] = r.c]
    /\ UNCHANGED <<client, task, got>>

-----------------------------------------------------------------------------
Next ==
    \/ \E p \in Tasks, o \in Attempted : Call(p, o)
    \/ \E p \in Tasks : Wake(p)
    \/ \E p \in Tasks, e \in {"TimeoutError", "CancelledError"} : Interrupt(p, e)
    \/ \E p \in Tasks : ConnectCall(p)
    \/ \E p \in Tasks : Resolved(p)
    \/ \E p \in Tasks, e \in {"OSError", "RuntimeError", "CancelledError"} : ConnectAborted(p, e)
    \/ \E p \in Tasks : EndpointMade(p)
    \/ \E p \in Tasks : EndpointCancelled(p)
    \/ \E p \in Tasks : ConnectStart(p)
    \/ \E k \in Attempts, empty \in BOOLEAN : OnReceive(k, empty)
    \/ OnTimeout
    \/ \E k \in Attempts : TransportFails(k)
    \/ \E k \in Attempts : OnConnectionLost(k)
    \/ AppClose
    \/ \E a \in Attempts, id \in StreamIds : StreamReset(a, id)
    \/ \E a \in Attempts, id \in StreamIds : StreamStopSending(a, id)
    \/ SendOversized

Spec == Init /\ [][Next]_vars

\* asyncio keeps running what is ready (a task whose future is done, a stage
\* of connect whose socket is there, a scheduled connection_lost) and a timer
\* that is armed fires.  Nothing is assumed about the network, the deadlines
\* or the application.
Fairness ==
    /\ \A p \in Tasks : WF_vars(Wake(p)) /\ WF_vars(ConnectStart(p))
    /\ \A k \in Attempts : WF_vars(OnConnectionLost(k))
    /\ WF_vars(OnTimeout)

FairSpec == Spec /\ Fairness

-----------------------------------------------------------------------------
(* Properties.                                                             *)

\* Every variable has its type: the fields of the AsyncQuicClient object, of
\* the QuicClient cores and of the tasks stay in their domains.
TypeOK ==
    /\ client \in ClientStates
    /\ cores \in [Attempts -> Clients]
    /\ task \in [Tasks -> TaskStates]
    /\ got \in [Attempts -> Seq(1..MaxDatagrams)]

\* No lost wake-up: a task that sleeps on a future of _waiters is a task of a
\* client that is not closed, and its attempt() would not succeed if it ran
\* now.  Every event that could satisfy it goes through _wake_waiters.
NoLostWakeup ==
    \A p \in client.waiters :
        /\ task[p].pc = "wait" /\ ~client.closed
        /\ \A r \in Attempt(task[p].op, cores[task[p].core]) : r.ret # "value"

\* The end of the connection is never missed: whenever control is back in the
\* event loop, a client that is not closed holds a core whose connection has
\* not ended.  receive_packet and handle_timeout swallow CLOSED, so _process
\* must see it in is_connected() or, before the handshake is done, in a
\* last_error that no other call has cleared.  Only an end inside start(), which
\* leaves no last_error, goes unnoticed, and then the connect() that called it
\* still waits and takes the client down when it gives up.
DeadConnectionDetected ==
    client.core # 0 /\ ~client.closed =>
        /\ cores[client.core].conn # "closed"
        /\ cores[client.core].conn = "failed" =>
             \E p \in Tasks : /\ task[p].pc = "wait" /\ task[p].op = IsConnectedOp
                              /\ task[p].core = client.core

\* The alarms of an open connection are served: the timer of the event loop is
\* armed while the current core has an alarm, and a closed client has none.
AlarmsServed ==
    /\ client.core # 0 /\ ~client.closed /\ HasAlarm(cores[client.core]) => client.timer
    /\ client.closed => ~client.timer

\* Datagrams reach the application exactly once and in order of arrival: what
\* was delivered, followed by what is still queued, is everything that came.
\* A timeout or a cancellation of receive_datagram() loses none.
DatagramsExactlyOnce ==
    \A a \in Attempts :
        got[a] \o cores[a].received_datagrams = [i \in 1..cores[a].arrived |-> i]

\* A CONNECTION_CLOSE that QUICHE queued on an established connection (close()
\* by the application or an error found by QUICHE) was handed to the transport
\* before the client was torn down.
NoCloseStranded ==
    client.closed /\ client.was_connected =>
        \A i \in 1..Len(cores[client.core].send_queue) : cores[client.core].send_queue[i] # "close"

\* Once the connection has been established, a call raises ConnectionError only
\* if the client has been torn down (so that close_reason explains it).
ConnectionErrorMeansClosed ==
    [][\A p \in Tasks :
          task'[p] # task[p] /\ task'[p].res = "ConnectionError" /\ client.was_connected
            => client'.closed]_vars

\* Every task that waits when the client is closed gets its ConnectionError.
WaitersReleased ==
    \A p \in Tasks : client.closed /\ task[p].pc = "wait" ~> task[p].pc = "idle"

\* A packet in the send queue leaves it, though read(), accept and open do not
\* call _process: the timer does, unless the client is closed first.
QueuedPacketsLeave ==
    \A a \in Attempts :
        client.core = a /\ client.transport # 0 /\ cores[a].send_queue # <<>>
          ~> client.closed \/ cores[a].send_queue = <<>>

\* A call that waits on a stream learns that the stream is gone, though read()
\* wakes nobody when it takes the last data and the stream closes under a task
\* that sleeps in write() or read(): the timer does, at the latest.
StreamErrorsSurface ==
    \A p \in Tasks :
        task[p].pc = "wait" /\ task[p].op.kind \in {"read", "write", "write_fin"}
          /\ (\E r \in Attempt(task[p].op, cores[task[p].core]) : r.ret \in Exceptions)
            ~> task[p].pc = "idle"

\* close() `closes the session and releases the socket' (docstring of
\* AsyncQuicClient.close): when the client is closed and no call is in progress,
\* no socket is open.
SocketReleased ==
    client.closed /\ (\A p \in Tasks : task[p].pc = "idle")
        => \A a \in Attempts : client.sock[a] # "open"

-----------------------------------------------------------------------------
(* Refinement.                                                             *)

\* How AsyncPromise sees a task: a call counts as begun when its socket is
\* there, because nothing bounds the time of the resolver.
Seen(t) ==
    IF t.pc \in {"opened", "wait"} THEN "busy"
    ELSE IF t.pc # "idle" \/ t.res = "none" THEN "none"
    ELSE IF t.res \in {"value"} THEN "ok" ELSE "error"

Promise == INSTANCE AsyncPromise WITH
    Items <- Attempts \X (1..MaxDatagrams),
    life <- IF client.closed THEN "down" ELSE "up",
    call <- [p \in Tasks |-> Seen(task[p])],
    avail <- UNION {{<<a, cores[a].received_datagrams[i]>> : i \in 1..Len(cores[a].received_datagrams)} : a \in Attempts},
    taken <- UNION {{<<a, got[a][i]>> : i \in 1..Len(got[a])} : a \in Attempts}

\* AsyncQuicClient implements AsyncPromise: no call returns on a client that
\* was torn down, a task that waits when it is torn down gets its exception,
\* and every datagram is handed to one call.
KeepsPromise == Promise!FairSpec
=============================================================================
