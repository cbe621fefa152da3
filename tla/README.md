# Verification of the quiche-py bindings

quiche-py wraps Google's QUICHE for Python. A C++ *glue* layer drives QUICHE
without any I/O (packets are pushed in and popped out, alarms are run when the
caller says so), nanobind classes expose it, and three asyncio clients own the
UDP socket and the timer. This directory holds TLA+ models of that code, TLC
runs over small instances, and TLAPS proofs for every value of the constants.

## 1. Inventory

| Part | State | Operations | Interacts with |
| --- | --- | --- | --- |
| Raw QUIC glue, `quiche_glue.cc`, `quiche_glue_sans_io.h` | QUICHE client and session, session visitor (ready, closed, received datagrams), send queue, `last_error_` | start, receive_packet, next_send, next_timeout_ms, handle_timeout, close, open/accept stream, read/write/reset/stop_sending, send/peek/receive datagram | QUICHE calls its visitor and its packet writer back inside the calls |
| Python classes, `module.cpp` | a handle | the same, with statuses turned into values, `None` or exceptions | two glue calls for `receive_datagram`; a second call for the error text |
| `AsyncQuicClient`, `AsyncQuicStream`, `aio.py` | `_core`, `_transport`, `_timer`, `_waiters`, `_closed`, `_was_connected`, `_close_reason` | connect, close, stream and datagram coroutines, `_process` | asyncio transport and timer callbacks; tasks share one object |
| HTTP/3 glue, `quiche_glue_http3.cc` | as raw QUIC, plus `responses_` keyed by stream | submit_request, take_response | response listener called back by QUICHE |
| `AsyncHttp3Client`, `aio_http3.py` | as `AsyncQuicClient` | connect, request/get, close | |
| WebTransport glue, `quiche_glue_wt.cc` | as raw QUIC, plus raw pointers to the session and its visitor, owned by the CONNECT stream | connect_session, is_session_ready, streams and datagrams of the session, close (of the session) | visitor called back by QUICHE, and freed by its clean-up alarm |
| `AsyncWebTransportClient`, `AsyncWebTransportStream`, `aio_wt.py` | as `AsyncQuicClient` | connect in three waits, stream and datagram coroutines, close | |

What makes each part correct:

* *glue*: an operation on a connection that is not established answers CLOSED
  with a reason; datagrams are queued and taken once, in order; the distance to
  the next alarm is rounded so that a timer never fires early.
* *asyncio clients*: no task sleeps through the event it waits for; the end of
  the connection is noticed although `receive_packet` and `handle_timeout`
  swallow it; what QUICHE queues is sent; its alarms are served; a cancelled or
  timed-out call loses nothing; closing releases every waiter and the socket.
* *WebTransport*: no pointer is used after its session is gone (the code keeps
  this for a session that the client closes, section 4); `connect()` returns with
  a session or fails; the end of the session releases its calls.
* *sans-I/O clients used directly*: a restarted client shows nothing of its
  earlier connection; the end of a connection that was open is explained.
* *threads*: the lock of the Python object and `mutex_` together keep the two
  calls of `receive_datagram` in one piece and the error text unshared.

What is hard: coroutines interleave at every `await` with callbacks of the
transport and of the timer; `connect()` has three awaits during which the object
may be closed or connected again; `last_error` is cleared by almost every call
and yet is the only sign of a handshake that failed; some calls do not end in
`_process`; a WebTransport session can end while its connection lives; stream
objects have a lock of their own. `PROJECT.json` lists the hazards at their lines.

## 2. Modules

| Module | Models |
| --- | --- |
| `QuicGlue` | the methods of `quiche_py_client` as operators from a client record to the set of its outcomes; no variables |
| `QuicBinding` | `PyQuicClient`/`PyQuicStream`: statuses to values and exceptions |
| `AsyncQuic` | `AsyncQuicClient`/`AsyncQuicStream`: the state machine |
| `MCAsyncQuic` | its instances |
| `AlarmTimer` | microsecond alarms, millisecond timeouts and the event loop's timer |
| `Http3Glue` | `quiche_py_http3_client`, `ResponseQueue` and `PyHttp3Client` |
| `AsyncHttp3` | `AsyncHttp3Client` |
| `WtGlue` | `quiche_py_wt_client`, `WtSessionVisitor` and the two Python classes; takes from `QuicBinding` (`INSTANCE`) what the two files do alike |
| `AsyncWt`, `MCAsyncWt` | `AsyncWebTransportClient`/`AsyncWebTransportStream` and their instances |
| `AsyncPromise` | abstract: what an asyncio client promises the tasks that share it |
| `QuicDriver` | a `QuicClient` driven by hand and started again |
| `ClientThreads`, `MCClientThreads` | a `WebTransportClient` and its streams used by several threads |
| `QuicGlueProofs` | what each method of the raw glue preserves: types, why a connection ended, the order of datagrams, what a call cannot make possible, what it may send and when it says ConnectionError |
| `QuicDriverProofs` | the driver's invariants and its action property |
| `AsyncQuicProofs` | type correctness, the end of the connection, the timer, datagrams, wake-ups, CONNECTION_CLOSE and ConnectionError of the raw asyncio client, and that it implements `AsyncPromise` |
| `AsyncHttp3Proofs` | the same for HTTP/3, glue and asyncio client, and that the client implements `AsyncPromise` |
| `WtGlueProofs` | what each method of the WebTransport glue preserves: connection, session and its pointers, datagrams, streams |
| `AsyncWtProofs` | the invariants of the asyncio WebTransport client, and that it implements `AsyncPromise` |
| `ClientThreadsProofs` | datagrams shared by any number of threads |
| `AlarmTimerProofs` | the two timer invariants for every set of instants |

### Granularity

Every glue method runs under `mutex_` and every asyncio callback runs alone, so
one method is one outcome and one *stretch between two awaits* is one action:

* `Call`, `Wake` and `Interrupt` are the first turn, a later turn and the
  abnormal end of the loop in `_wait`. The future of a task is its membership of
  `client.waiters`; `_wake_waiters` empties the set, and a task outside it runs
  when the loop gets to it. Between the two, anything may happen, its own
  cancellation included.
* `ConnectCall`, `Resolved`, `EndpointMade`, `ConnectStart` are the stages of
  `connect()`, each followed by what may happen instead (`ConnectAborted`,
  `EndpointCancelled`). The last one contains `start()`, `_process()` and the
  first turn of `_wait`.
* `OnReceive`, `OnTimeout`, `OnConnectionLost`, `AppClose` are the callbacks and
  `close()`, each with the whole of the `_process`, `_drain_send` and `_teardown`
  it runs. These helpers are functions of the object and its core (`Process`,
  `DrainSend`, `Teardown`), as the code calls them in sequence within one step.
* a socket is a state of its own (`sock`), because `transport.close()` and
  `connection_lost` are apart in time and because a second `connect()` gives the
  object a second one. `cores[a]` is the `QuicClient` of attempt `a`.

* in `AsyncWt` the three waits of `connect()` are `ConnectedTurn`,
  `OpenSessionTurn` and `SessionReadyTurn`; one that succeeds goes on to the next
  in the same step, as the code does.
* in `ClientThreads` a method of the bindings is several steps: it takes the lock
  of its object (`Enter`, `nb::lock_self`), takes `mutex_` (`Lock`), does the work
  of one call of the glue and releases `mutex_` (`Unlock`), and perhaps goes
  through the last two again (`receive_datagram`) or reads `last_error_` without
  `mutex_` (`Leave`). No call of the Python API lies between, so the lock of the
  object is not given up on the way.
* `QuicDriver` calls one method of the client per step, in any order.

### The refinement

`AsyncPromise` knows that a client is up or down, which calls are in progress,
and which items (datagrams or responses) have come and were handed out. Its
steps say that a call returns only while the client is up, that it hands out at
most one item and each item once, that only a failing `connect()`, `close()`, the
network or the timer takes the client down, for ever, and (`WF` of `Release`) that
a call in progress then fails. `AsyncQuic`, `AsyncHttp3` and `AsyncWt` end with the
mapping: `life` is `_closed`, `call` is where the task stands (`Seen`), `avail` is
what the core has queued, `taken` the history of what was delivered. A task counts
as busy from the moment its socket exists, because nothing bounds the resolver.
`KeepsPromise` is the whole abstract specification, fairness included. For the
WebTransport client it is checked with a server that keeps the session: otherwise
the queue of datagrams is freed with its visitor.

### Data

A datagram is its number, and number *n* is *n - 1* bytes long (the first is
empty, which is where a length used as a flag would go wrong). Stream data is a
count of chunks. Error texts are reduced to their origin; that a text is
non-empty is what `_process` depends on and is kept. Headers are "named" or not.

### QUICHE, asyncio and the network (external)

* `connected()` holds from `StartConnect` to the end of the connection; the raw
  glue's `IsConnected` adds `session_ready`, the HTTP/3 glue's does not.
  `StartConnect` leaves an open connection, or one that QUICHE has ended within
  the call (`conn = "failed"`), with or without a packet in the queue. `start()`
  then returns normally and without an error text: the glue tests
  `connected_or_attempting_connect()`, a flag that `StartConnect` itself sets.
* One packet carries one kind of frame, and possibly the end of the connection.
  Packets are lost, duplicated and reordered by not being delivered or by
  arriving whenever they do: `OnReceive` is always possible and never certain.
* An alarm is armed exactly while a connection is open (QUICHE keeps at least
  its idle timer). `ProcessAlarmsUpTo` may queue a packet or end the connection.
* `Writev` takes everything when `CanWrite` holds, so that the branches for a
  `Writev` that fails or would block after `CanWrite` are not met. A blocked
  datagram is not accepted; one for which there is room may be refused as an
  internal error.
* A stream that cannot be opened (`open_stream`, `submit_request`,
  `connect_session`) may make QUICHE queue a packet, STREAMS_BLOCKED for one.
  QUICHE refuses a stream exactly when there is no credit; that it may also
  refuse one, with a PING, to test a network that seems dead is left out.
* When a request stream closes, for whatever reason, QUICHE reports its response.
* WebTransport: SETTINGS come once and say whether WebTransport is supported; a
  CONNECT request gives its stream a session and a visitor, both owned by the
  stream. A closing capsule, or the FIN of a response that rejects the request,
  tells the visitor; the stream closes with it or later, and the next
  `ProcessAlarmsUpTo` deletes a closed stream with what it owns. The end of the
  connection closes the stream and cancels that alarm. `CloseSession` sends a
  capsule if the stream is open and leaves the connection alone. Datagrams of the
  session may come before the answer to the request. Freed memory that is read
  gives any value (`SessionReadyReads`), and the history `dangling` records it.
* QUICHE and the event loop read the same clock (`AlarmTimer`).

## 3. Runs

| Run | Instance | Shows |
| --- | --- | --- |
| `aio_datagrams` | 2 tasks, 1 connection, 2 datagrams | the safety properties of the raw client; waiters are released; it implements `AsyncPromise` |
| `aio_streams` | 2 tasks, stream 0, 1 chunk, room 1, credit 1 | types and wake-ups with a stream at its limits |
| `aio_attempts` | 2 tasks, 2 attempts, no datagrams | the end of the connection and the timer with overlapping and repeated `connect()` |
| `aio_live` | 2 tasks, incoming stream 3 | queued packets leave, a sleeping call learns that its stream is gone |
| `timer_alarms` | instants around whole milliseconds | timer never early, never idle, at most 1 ms late; alarms are served also after calls that skip `_process` |
| `http3_requests` | 2 tasks, 2 request streams, credit 2 | the HTTP/3 client, its liveness, and that it implements `AsyncPromise` |
| `wt_session` | 2 tasks, 2 datagrams, a server that keeps the session | the WebTransport client, and that it implements `AsyncPromise` |
| `wt_streams` | 2 tasks, stream 4, a server that may end the session | types, wake-ups, the end of the connection and the session pointers after `close()`, with a stream and with the end of the session |
| `driver_restart` | 2 connections of one `QuicClient`, streams 0 and 3 | nothing of the first connection shows in the second |
| `threads_objects` | 2 threads, a client and a stream object, 2 datagrams | datagrams exactly once |
| `threads_race` | 2 threads, a client and a stream object | **violated**: a race on `last_error_` |
| `aio_socket` | 1 task | **violated**: `close()` during `connect()` leaks the socket |

The properties, raw QUIC (`AsyncQuic`):

* `NoLostWakeup`: a task in `_waiters` belongs to a client that is open, and its
  `attempt()` would not succeed if it ran now.
* `DeadConnectionDetected`: a client that is not closed holds no core whose
  connection has ended, except one that ended inside `start()`; then the `connect()`
  that called it still waits, and takes the client down when it gives up.
* `AlarmsServed`: the timer is armed while the core has an alarm, and only on a
  client that is not closed.
* `DatagramsExactlyOnce`: delivered datagrams followed by the queued ones are all
  that arrived, in order.
* `NoCloseStranded`: a CONNECTION_CLOSE of an established connection was handed to
  the transport.
* `ConnectionErrorMeansClosed` (a property of steps): after the handshake a call
  raises `ConnectionError` only if the client is torn down.
* `WaitersReleased`, `QueuedPacketsLeave`, `StreamErrorsSurface` (liveness). The
  last one, about `read()` and `write()`, rests on the timer alone: when one task's `read()` closes a stream under
  another's `write()`, nothing but the next alarm wakes the sleeper.

HTTP/3 (`AsyncHttp3`): `NoLostWakeup` and `DeadConnectionDetected` again,
`OnlyRefusalsLinger` (whenever the event loop has control the timer is right and
nothing is left to send but what a `submit_request` without a stream made QUICHE
queue; `_wait` then sleeps without `_process`, and only while no stream is to be
had), `QueuedPacketsLeave` (the timer sends that), `ResponsesExactlyOnce` and
`CompletedResponseEndsRequest`.

WebTransport (`AsyncWt`): `NoLostWakeup`, `DeadConnectionDetected`,
`DatagramsExactlyOnce` and `NoCloseStranded` again, `CloseLeavesPointersGood` (once
`close()` has closed a session its pointers stay good and freed memory is not
reached, whatever the server does, because `close()` stops the timer that would
run the clean-up) and `ConnectMeansSession` (`connect()` returns only with a session that is ready).
Here `NoLostWakeup` also says that no stream or datagram call sleeps on a session
that is over.

All three clients: `KeepsPromise`, see above.

Sans-I/O (`QuicDriver`): `DatagramsOfThisConnection`,
`ClosedErrorIsTrue` (a client never explains an error by the end of an earlier
connection) and `EndIsExplained` (the end of an open connection that the program
did not ask for leaves a `last_error`; an end inside `start()` leaves none).

Threads (`ClientThreads`): `NoDataRace` (nobody reads `last_error_` while another
thread is in a call that writes it) and `DatagramsExactlyOnce`. The latter also
settles a conjecture of `issues/0016`, that two threads could interleave the peek
and the receive of `receive_datagram`: they cannot, because `lock_self` covers
both; without it (the mutant) a datagram is lost.

Time (`AlarmTimer`): `TimerMeetsAlarm` and `NoSpuriousTimeout`, both for a timer
that no call without `_process` has made stale, and `AlarmsEventuallyServed`, for
stale timers too.

Each property has a mutant in `PROJECT.json`: a definition of the model changed
the way a slip in the code would change it, which TLC must catch.

### Bounds, and why they are enough

Two tasks are enough for a wake-up to be taken by the wrong one, for a task to
act between another's wake-up and its turn, and for `connect()` to overlap with
calls and with another `connect()`. A room and a credit of 1 make every limit be
met and lifted. Two datagrams tell order and duplication; one of them is empty.
`MaxPackets = 1` packet besides a close is enough because draining takes all.
One restart is enough for state of an earlier connection to show. Two threads
are enough for a race.
Two attempts give two cores and two sockets alive at once. The instants lie on,
just before and just after whole milliseconds. The tasks are interchangeable:
`TaskSymmetry` is used in the runs without liveness properties.

### Fairness

`FairSpec` assumes only what asyncio guarantees: a task whose future is done
runs, the continuation of `create_datagram_endpoint` runs, a scheduled
`connection_lost` is called, and an armed timer fires. Weak fairness suffices:
each stays enabled until it happens. Nothing is assumed of the network, of
deadlines or of the application. In `AlarmTimer` time reaches an armed timer.

Deadlock is checked in every run: the models always have a step (a closed
client can still be called, and its calls raise).

## 4. Findings

* **Socket leak** (`aio_socket`). The docstring of `close()` (`aio.py:195`) says
  that it closes the session and releases the socket. If `close()` runs while
  `connect()` awaits the resolver or the endpoint, `_closed` is set; `connect()`
  then stores a transport, fails in `_wait` and calls `_teardown`, which returns
  at once. Nothing closes the transport. `issues/0006` has the related case of a
  repeated `connect()`.
* **Race on the error text** (`threads_race`). `tests/test_free_threading.py` says
  that concurrent use is safe; it shares one `QuicClient`. `last_error()` of the
  WebTransport glue (`quiche_glue_wt.cc:699`) takes no lock, and the methods of a
  stream object do not hold the lock of the client. The raw client locks and
  copies; the HTTP/3 glue does not lock either, but all its methods are on one
  object.

The models also contain these behaviours, which no run is about:

* **HTTP/3 connect**. The docstring (`aio_http3.py:52`) says that the handshake is
  established. `is_connected()` of the HTTP/3 glue does not ask for it
  (`Http3Glue!IsConnected` does not look at `handshaken`), so `connect()` returns
  once the ClientHello is sent.
* **End inside `start()`**. If QUICHE ends the connection within `StartConnect`,
  `start()` returns normally (`quiche_glue.cc:290`, `quiche_glue_http3.cc:174`,
  `quiche_glue_wt.cc:258`), `last_error` is empty and `_was_connected` is not set:
  `_process` sees a handshake in progress. No alarm is armed. Unless a packet
  happens to arrive, `connect()` sleeps until its deadline and raises `TimeoutError`, where the docstring of `_wait`
  (`aio.py:321`) promises `ConnectionError` when the connection is closed; with
  `timeout=None` it does not end. `DeadConnectionDetected` says that nothing worse
  happens.
* **Use after free** (`issues/0001`). The session pointers are not cleared when the
  CONNECT stream is deleted, and `is_session_ready()` (`quiche_glue_wt.cc:384`) is
  one of the calls that use them. With `ServerEndsSession = TRUE`, as in
  `wt_streams`, the model gets there (`core.dangling`): the server ends a session
  that is ready, the next alarm deletes the CONNECT stream, and any further call of
  the session reads its pointers. `CloseLeavesPointersGood` is about the other
  order, in which the client closes the session first.
* **Rejection** (`issues/0003`). The third wait of `connect()` (`aio_wt.py:138`)
  sees only `is_session_ready()`, so a rejected CONNECT ends it by its timeout.
* **Responses of an earlier connection**. `take_response` is documented to return
  `None` when the response is not ready (`module.cpp:1000`); `responses_` survives
  `start()` (`Http3Glue!StartConnect` keeps it), and stream ids begin again.
  `AsyncHttp3Client` makes a new `Http3Client` for every connection and is not
  affected.

## 5. Proofs

Every theorem holds for any set of tasks, any stream ids and all bounds. The
inductive invariants were first checked with TLC on the constants of the runs.

### The raw client

`QuicGlueProofs` says of every method which fields it can change and how, in a few
relations between the client before and after: `SameSession` and `QueueKept` (the
streams, the queue of datagrams), `Calm` (only error and packets), `NothingNew` (no
attempt that was impossible becomes possible), `ClosedIsClosed`, `ErrorIsTrue` and
`Ledger` (what was delivered followed by what is queued is 1, 2, ... up to what
arrived). The other modules cite these and never open a method again.

**`QuicDriver`.** `DriverTypeCorrect`, `RestartSeparatesDatagrams`,
`ErrorsAreOfThisConnection` and the action property `NoSilentEnd`. The invariant is
`TypeOK`, `ClosedIsClosed`, `ErrorIsTrue` and `Ledger`: `Ledger` survives a restart
because `Start` empties queue and history together, and an error text survives it
because `Start` resets it before it opens a connection.

**`AsyncQuic`**, in three layers.

* `Inv == TypeOK /\ StageHasCore /\ EndsNoticed /\ AlarmsServed` gives `TypeCorrect`
  and `AlarmsAlwaysServed`. `EndsNoticed`, the first half of `DeadConnectionDetected`,
  is not inductive alone: a step looks at the core of the *task*, the property at the
  core of the *object*. `StageHasCore` says that a task past the resolver, or asleep,
  holds a core that exists. The argument: the only calls that can end a connection
  that was open are `ReceivePacket`, `HandleTimeout` and `Close`; the first two leave
  a non-empty `last_error` when they do, each is followed by `_process` or `_teardown`
  in the same step, and `_process` on a core with a closed connection and a non-empty
  `last_error` tears down (`Dead`).
* `Inv2 == Order /\ Asleep`, on top of `Inv`, gives `DatagramsDeliveredOnce` and
  `NoWakeupIsLost`. `Order` is `DatagramsExactlyOnce` with three facts it needs:
  overlapping calls of `connect()` hold different cores (`StagesApart`), a core that
  was not started is empty (`NoneIsBlank`), and a stream operation that sleeps is on
  a stream whose object exists (`WaitsOnHandle`). `Asleep` says that what each
  sleeper waits for cannot happen now. A step that runs `_process` empties
  `_waiters`, so it has nothing to show; a step that does not (a call that fails,
  blocks, reads or opens) is `NothingNew` to the others.
  On top of both, `FailureAwaited` is the second half of `DeadConnectionDetected` and
  gives `DeathNeverMissed`: only `ConnectStart` makes a failed connection, and goes to
  sleep in that step; every other step is `Patient`, so that the sleeper stays until
  the client is torn down.
* `Inv3 == Settled /\ WaitsStarted`, on top of both and under the hypothesis
  `[]OneStarted`, gives `CloseNeverStranded` (`NoCloseStranded`), `ErrorsAreExplained`
  (the action property `ConnectionErrorMeansClosed`) and `QuicKeepsPromise` (below).
  `Settled` ties the object to its core: a core that was started has a transport to
  drain to, an open or once established client has no CONNECTION_CLOSE in its queue,
  and a client that was connected and is open still is. `WaitsStarted`: whoever waits
  for more than a datagram waits on a core that was started. The argument: only
  `Start`, `ReceivePacket`, `HandleTimeout` and `Close` queue a CONNECTION_CLOSE
  (`Sends`: every other call queues at most a plain packet), and after each of them
  `_drain_send` runs in the same step unless the client was closed before, and then it
  is `Start` on a client that was never connected; a call answers ConnectionError only without a connection
  (`PyReports`), which on a client that was connected means that it is closed.

*The hypothesis.* `OneStarted` says that no core but the current one was started:
`connect()` may have been called again after the resolver or the socket failed, but
not after `start()`. It is a fact about the application, because `connect()` does not
check, and it cannot be dropped. With two attempts TLC refutes all three results, each
with a second `connect()` of a client that was connected: `was_connected` is that of the
old core, so (1) when the client is torn down meanwhile and the new connection ends inside
`start()`, its CONNECTION_CLOSE stays in the queue, as `_process` does nothing then; (2) a
call on the new core, which is not started yet, raises ConnectionError on an open
client; (3) `send_datagram` on the old core succeeds and its `_process` then tears the
client down over the new one, so that a call returns in the step that closes the client.
With the hypothesis as a constraint TLC finds no violation with two attempts. For one
attempt the hypothesis is a theorem (`OneConnectIsOneStarted`), and `OneConnectIsSound`
draws the conclusion: all three results without it, for the `MaxAttempts = 1` of the runs.

*`QuicKeepsPromise`*: `Spec /\ []OneStarted => Promise!Spec`. One lemma per step of
`AsyncPromise` says what a step of `AsyncQuic` has to do to be that step (`FailStep`,
`OkStep`, `DatagramStep`, `BusyStep`, `EventStep`, `StutterStep`), and one per action
(`TurnStep`, `CallbackStep`, ...) that it is one of them. `Ledger` is what makes a taken
datagram leave the available ones and a new one be new: the numbers in queue and
history are all different. `Inv3` is what makes a call return only on a client that is up:
the `_process` after it finds the connection established.

### The HTTP/3 client

`AsyncHttp3Proofs` covers `Http3Glue` and `AsyncHttp3`: `Http3TypeCorrect`,
`Http3DeathNeverMissed`, `NothingElseLingers` (`OnlyRefusalsLinger`),
`ResponsesDeliveredOnce`, `Http3NoWakeupIsLost` and `Http3KeepsPromise`. One
invariant carries all of them, `Inv == TypeOK /\ InStep(core) /\ Delivered(got, core)
/\ Settled(client, core) /\ OneConnect /\ Asleep /\ FailureAwaited`:

* `InStep`: the glue and QUICHE agree on each request, a stream is gone exactly when
  its listener was told, so each response is queued once;
* `Delivered`: a response is either queued or in the history, never both;
* `Settled`: a client that is up has a live connection and a timer, or one that
  ended inside `start()` and none, and packets in its send queue only while no stream
  is to be had. Every path through the asyncio class ends in `_process` or `_teardown`
  but one, the request that has to wait for a stream; the credit that would give it
  one comes with a packet, and `_process` after that;
* `OneConnect`: one call of `connect()` is under way at most, so `start()` runs once;
* `Asleep`: nobody sleeps on a response that is there, and somebody sleeps in
  `connect()` only on a connection that ended inside `start()`, since `is_connected`
  holds at once otherwise;
* `FailureAwaited`: on such a connection somebody does, until the client is closed.

`Http3KeepsPromise` is `Spec => Promise!Spec`: the initial state maps to one of
`AsyncPromise`, and under `Inv` each step maps to a step of `AsyncPromise` or to a
stutter (`Kept`). `FailStep`, `ConnectedStep`, `ResponseStep`, `BusyStep` and
`EventStep` say once how a call that fails, returns or sleeps, and an event, look
from above; a lemma per group of actions (`WaitsStep`, `ConnectStep`,
`ConnectStartStep`, `EventsStep`) rests on them, and `StepKeepsPromise` combines
those.

### The WebTransport client

`WtGlueProofs` does for `WtGlue` what `QuicGlueProofs` does for the raw glue.
`Evolves` is what QUICHE may do within one call, `Keeps` and `Answers` what a stream
or datagram method does and when it succeeds or has to wait, and `Unended` says that
the session is not closed and its pointers are good. Freed pointers are inside the
theorems: every relation says what is left of it when `wt = "freed"`.

`AsyncWtProofs` has one invariant,
`Inv == TypeOK /\ ReadyIsLive(core) /\ Accounted(got, core) /\ Settled(client, core)
/\ OneConnect /\ Asleep /\ FailureAwaited`:

* `ReadyIsLive`: a session that is ready has live pointers and an open connection,
  so that no method works on a session through its mere flag;
* `Accounted`: the ledger of the datagrams, unless the visitor that held the queue
  was freed;
* `Settled`: how the object follows its core after `_process` and `_teardown`. It
  includes that no close is left in the queue of a client that was connected, and
  `Tended`: only freed pointers lead into freed memory; a session that we closed has
  live pointers, and its client is closed; with a server that keeps the session
  (`~ServerEndsSession`) the pointers are null or live. That the client is closed is
  what makes the rest inductive: only `close()` sends the capsule, it tears the client
  down in the same step, and a closed client runs neither packets nor alarms, so that
  the answer to the capsule never frees anything;
* `OneConnect` and `FailureAwaited`, as for HTTP/3;
* `Asleep`: why each sleeper is right to sleep. In the first wait of `connect()` one
  sleeps on a connection that ended inside `start()` and on no other; in the second the CONNECT request still has to wait, in the third the
  session is not ready, and a stream or datagram call sleeps on a session that is
  ready and cannot serve it.

It gives `WtTypeCorrect`, `WtDeathNeverMissed`, `WtDatagramsDeliveredOnce`,
`WtCloseReachesTransport` (`NoCloseStranded`), `WtNoWakeupIsLost` and
`SessionPointersStayGood` (`CloseLeavesPointersGood`), with or without a server that
ends sessions. Two theorems assume `~ServerEndsSession`, as `wt_session` does, since
freed memory may answer anything: `ConnectTellsTheTruth` (`ConnectMeansSession`) and
`WtKeepsPromise` (`Spec => Promise!Spec`). They are one induction over the steps (`Sound`,
`StepIsSound`). For the promise the ledger is read as sets: what is queued and what
was delivered are disjoint (`HeadLeaves`), and a datagram that arrives is in neither
(`NextIsNew`).

### Threads

`ThreadsTypeCorrect` and `ThreadsShareDatagrams`, for any number of threads and with
a server that keeps the session. `DatagramsExactlyOnce` is not inductive: between the
peek and the receive a thread holds a size, and `mutex_` is free. The invariant adds
`PeekedIsHead` (that size is still the size of the head), which rests on `ObjectLocks`
(`nb::lock_self`: one thread at a time is inside methods of an object) and on
`MethodOf` (`receive_datagram` is a method of the client object): nobody else takes a
datagram meanwhile, and one that arrives goes to the end of the queue.

### The timer

`AlarmTimerProofs!TimerMeetsAlarmAlways` and `NoSpuriousTimeoutAlways`. `Inv`
carries `Fits`: the timer lies between the earliest alarm and a millisecond after
the later of that alarm and now; it survives the passing of time because the upper
end only moves up.

### Assumptions, and what is only model-checked

The theorems rest on the assumptions named in the modules (`StreamIdsAssumption`,
`BoundsAssumption`, `MaxAttemptsAssumption`, `InstantsAssumption`, ...), which TLC
evaluates on the runs. Only model-checked are the liveness properties, and of
`KeepsPromise` the fairness part: the prover has neither fairness nor `ENABLED`.
Every other property of a passing run is proved.

Two restrictions are stated in the theorems that need them. `[]OneStarted` (raw client,
above) is a hypothesis about the application that `MaxAttempts = 1` implies.
`ServerEndsSession` is a constant of the model: the theorems that assume it FALSE say
so in their statement, and the others hold for both values.

## 6. Not modelled

The C ABI table and its null checks; construction failures; limits on argument
sizes; the text of errors; certificate verification; the contents of headers,
bodies and paths (an empty path of `connect_session` is refused before anything is
touched); QUICHE itself. Of several threads: the raw and the HTTP/3
client (see the findings), `start`, `connect_session` and `close` of the
WebTransport client, and destruction, which `nb::keep_alive` orders. The repeated
`connect()` is modelled for the raw client only; the code of the others is the
same. A restart driven by hand is modelled for the raw client only.

## 7. Plan

1. Done: the modules above; the theorems of section 5.
2. Left: the repeated `connect()` of the HTTP/3 and WebTransport clients, and a
   restart driven by hand of theirs.
