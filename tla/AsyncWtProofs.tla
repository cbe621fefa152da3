---------------------------- MODULE AsyncWtProofs ----------------------------
(***************************************************************************)
(* Theorems about AsyncWt, the asyncio WebTransport client, for any set of *)
(* tasks, any stream ids and all bounds.  WtGlueProofs says what each      *)
(* method of the core can change; here one inductive invariant relates the *)
(* client object, its core and the sleeping tasks.                         *)
(***************************************************************************)
EXTENDS AsyncWt, WtGlueProofs

-----------------------------------------------------------------------------
(* The inductive invariant of AsyncWebTransportClient.                     *)

\* No packet that closes a session or a connection waits in the send queue.
NoClose(c) == \A i \in 1..Len(c.send_queue) : c.send_queue[i] # "close"

\* Only pointers to freed memory lead into freed memory; a session that we closed
\* has its objects, because the client is closed and runs QUICHE no more; and so
\* has any session that the server keeps.
Tended(x, c) ==
    /\ c.dangling => c.wt = "freed"
    /\ c.close_sent => x.closed /\ c.wt = "live"
    /\ ~ServerEndsSession => c.wt \in {"null", "live"}

\* How the fields of the client object follow its core: what _process and
\* _teardown leave behind.
Settled(x, c) ==
    /\ c.conn = "none" => /\ Blank(c) /\ c.send_queue = <<>>
                          /\ ~x.transport /\ ~x.was_connected /\ ~x.timer
    /\ c.conn = "closed" => x.closed
    /\ ~x.core => c.conn = "none"
    /\ c.conn = "open" /\ ~x.closed => x.transport /\ x.was_connected /\ x.timer
    /\ c.conn = "failed" => Blank(c)
    /\ c.conn = "failed" /\ ~x.closed => x.transport /\ ~x.was_connected /\ ~x.timer
    /\ x.was_connected => x.transport
    /\ x.transport /\ (x.was_connected \/ ~x.closed) => NoClose(c)
    /\ Tended(x, c)

\* The datagrams, as long as the session is not freed.
Accounted(g, c) == c.wt # "freed" => Ledger(g, c)

StreamKinds == {"read", "write", "write_fin"}

\* A stream operation is on a stream whose object exists.
Holds(o, c) == o.kind \in StreamKinds => c.streams[o.id].phase \in {"open", "gone"}

\* What a stream or datagram operation waits for cannot be had.
Blocked(o, c) ==
    /\ o.kind = "send_datagram" => c.dgroom = 0
    /\ o.kind = "receive_datagram" => c.received_datagrams = <<>>
    /\ o.kind = "open" => ~CanOpen(c, o.arg)
    /\ o.kind = "accept" => ~CanAccept(c, o.arg)
    /\ o.kind = "read" => ~CanRead(c, o.id)
    /\ o.kind \in {"write", "write_fin"} => ~CanWriteTo(c, o.id)

\* Why a task that awaits o is right to sleep.
Sleeps(o, x, c) ==
    /\ ~x.closed /\ c.conn = IF o.kind = "is_connected" THEN "failed" ELSE "open"
    /\ c.wt # "freed" =>
         /\ o.kind = "open_session" => MustWait(c)
         /\ o.kind = "is_session_ready" => ~c.session_ready
         /\ o.kind \notin ConnectKinds => c.session_ready /\ Blocked(o, c)

\* One task at most is in connect() before its waits, and start() runs once.
OneConnect ==
    /\ \A p \in Tasks : task[p].pc = "resolve" => ~client.core
    /\ \A p \in Tasks : task[p].pc \in {"endpoint", "opened"} => client.core /\ core.conn = "none"
    /\ \A p, q \in Tasks :
         task[p].pc \in {"resolve", "endpoint", "opened"} /\ task[q].pc \in {"resolve", "endpoint", "opened"}
           => p = q

\* The first wait of connect() is where one sleeps if the connection ended inside
\* start(), and only then: otherwise its attempt succeeds at once.  Whoever
\* sleeps is right to.
Asleep ==
    /\ \A p \in Tasks : task[p].pc = "wait" =>
         /\ client.core /\ core.conn # "none"
         /\ task[p].op.kind = "is_connected" <=> core.conn = "failed"
         /\ Holds(task[p].op, core)
    /\ \A p \in client.waiters : task[p].pc = "wait" /\ Sleeps(task[p].op, client, core)

\* Somebody waits for a connection that ended inside start().
FailureAwaited ==
    core.conn = "failed" /\ ~client.closed => \E p \in Tasks : task[p].pc = "wait"

Inv ==
    /\ TypeOK /\ ReadyIsLive(core) /\ Accounted(got, core) /\ Settled(client, core)
    /\ OneConnect /\ Asleep /\ FailureAwaited
-----------------------------------------------------------------------------
(* What an attempt of a stream or datagram operation can do.               *)

\* The Python face of a status.
LEMMA ReturnedFacts ==
    ASSUME NEW out, out.st \in {"OK", "WOULD_BLOCK", "ERROR", "NOT_FOUND", "TOO_BIG"}
    PROVE  /\ Returned(out).c = out.c /\ Returned(out).val = out.val
           /\ Returned(out).ret \in {"value", "None"} \cup Exceptions
           /\ Returned(out).ret = "value" <=> out.st = "OK"
           /\ Returned(out).ret = "None" <=> out.st = "WOULD_BLOCK"
BY DEF Returned, Q!Returned, Exceptions, Q!Exceptions, Q!Exception

\* An attempt succeeds, has to wait or is refused; only receive_datagram takes a
\* datagram, and only the calls that run _process can make room for others.
Tried(o, c, r) ==
    /\ r.c \in WtClients /\ SameSession(c, r.c) /\ HandlesKept(c, r.c) /\ Sends(c, r.c)
    /\ r.ret \in {"value", "None"} \cup Exceptions
    /\ r.ret # "value" \/ ~c.session_ready => Calm(c, r.c)
    /\ ~c.session_ready => r.c.send_queue = c.send_queue
    /\ o.kind \notin ProcessesAfter => NothingNew(c, r.c)
    /\ c.wt # "freed" => /\ r.ret = "value" => c.session_ready /\ ~Blocked(o, c)
                         /\ r.ret = "None" => c.session_ready /\ Blocked(o, c)
    /\ \/ QueueKept(c, r.c) /\ (o.kind = "receive_datagram" => r.ret # "value" \/ c.wt = "freed")
       \/ /\ o.kind = "receive_datagram" /\ r.ret = "value" /\ c.wt # "freed"
          /\ c.received_datagrams # <<>> /\ r.val = Head(c.received_datagrams)
          /\ r.c.received_datagrams = Tail(c.received_datagrams)

\* What the glue's facts say of the Python face.
LEMMA KeepsTried ==
    ASSUME NEW o, NEW c, NEW out, NEW can, Keeps(c, out), Answers(c, out, can),
           o.kind # "receive_datagram", can \in BOOLEAN, can <=> ~Blocked(o, c),
           o.kind \notin ProcessesAfter => NothingNew(c, out.c)
    PROVE  Tried(o, c, Returned(out))
<1> DEFINE r == Returned(out)
<1>1. /\ r.c = out.c /\ r.ret \in {"value", "None"} \cup Exceptions
      /\ r.ret = "value" <=> out.st = "OK"
      /\ r.ret = "None" <=> out.st = "WOULD_BLOCK"
  BY ReturnedFacts DEF Keeps
<1> HIDE DEF r
<1>2. /\ r.c \in WtClients /\ SameSession(c, r.c) /\ HandlesKept(c, r.c) /\ Sends(c, r.c)
      /\ r.ret # "value" \/ ~c.session_ready => Calm(c, r.c)
      /\ ~c.session_ready => r.c.send_queue = c.send_queue
      /\ QueueKept(c, r.c)
  BY <1>1 DEF Keeps
<1>3. c.wt # "freed" => /\ r.ret = "value" => c.session_ready /\ ~Blocked(o, c)
                        /\ r.ret = "None" => c.session_ready /\ Blocked(o, c)
  BY <1>1 DEF Answers
<1>4. o.kind \notin ProcessesAfter => NothingNew(c, r.c)
  BY <1>1
<1> QED BY <1>1, <1>2, <1>3, <1>4 DEF Tried, r

\* receive_datagram: the buffer has the size of the head, so that nothing is lost.
LEMMA ReceiveTried ==
    ASSUME NEW o, o.kind = "receive_datagram", NEW c \in WtClients, ReadyIsLive(c),
           NEW r \in py_receive_datagram(c)
    PROVE  Tried(o, c, r)
<1>1. PICK peek \in PeekDatagramSize(c) :
        r \in {Returned(out) : out \in IF peek.st = "OK" THEN ReceiveDatagram(peek.c, peek.val) ELSE {peek}}
  BY DEF py_receive_datagram
<1>2. /\ Keeps(c, peek) /\ Calm(c, peek.c) /\ peek.c.send_queue = c.send_queue
      /\ Answers(c, peek, c.received_datagrams # <<>>) /\ peek.st \in {"OK", "WOULD_BLOCK", "ERROR"}
      /\ peek.st = "OK" /\ c.wt # "freed" => peek.val = Q!SizeOf(Head(c.received_datagrams))
  BY PeekFacts
<1>3. peek.c \in WtClients /\ ReadyIsLive(peek.c) /\ peek.c.received_datagrams = c.received_datagrams
      /\ peek.c.wt = c.wt /\ peek.c.session_ready = c.session_ready
  BY <1>2 DEF Keeps, Calm, ReadyIsLive
<1>4. Blocked(o, c) <=> c.received_datagrams = <<>>
  BY DEF Blocked
<1>5. o.kind \notin ProcessesAfter /\ o.kind = "receive_datagram"
  BY DEF ProcessesAfter
<1>6. CASE peek.st # "OK"
  <2>1. r = Returned(peek)
    BY <1>1, <1>6
  <2>2. r.c = peek.c /\ r.ret \in {"None"} \cup Exceptions /\ r.ret # "value"
        /\ (r.ret = "None" <=> peek.st = "WOULD_BLOCK")
    BY <1>2, <1>6, <2>1, ReturnedFacts
  <2>3. NothingNew(c, r.c) /\ SameSession(c, r.c) /\ HandlesKept(c, r.c) /\ Sends(c, r.c) /\ QueueKept(c, r.c)
    BY <1>2, <2>2, CalmNothingNew DEF Keeps
  <2>4. c.wt # "freed" => (r.ret = "None" => c.session_ready /\ Blocked(o, c))
    BY <1>2, <1>4, <2>2 DEF Answers
  <2> QED BY <1>2, <1>3, <1>5, <2>2, <2>3, <2>4 DEF Tried
<1>7. CASE peek.st = "OK"
  <2>1. PICK out \in ReceiveDatagram(peek.c, peek.val) : r = Returned(out)
    BY <1>1, <1>7
  <2>2. c.wt # "freed" => c.received_datagrams = <<>> \/ ~(peek.val < Q!SizeOf(Head(c.received_datagrams)))
    <3> SUFFICES ASSUME c.wt # "freed", c.received_datagrams # <<>>
                 PROVE  ~(peek.val < Q!SizeOf(Head(c.received_datagrams)))
      OBVIOUS
    <3>1. Head(c.received_datagrams) \in 1..MaxDatagrams
      BY HeadAndTail DEF WtClients
    <3>2. Q!SizeOf(Head(c.received_datagrams)) \in Int
      BY <3>1, BoundsAssumption DEF Q!SizeOf
    <3> QED BY <1>2, <1>7, <3>2
  <2>3. Takes(peek.c, out)
    BY <1>3, <2>1, <2>2, ReceiveDatagramFacts
  <2>4. /\ r.c = out.c /\ r.val = out.val /\ r.ret \in {"value", "None"} \cup Exceptions
        /\ r.ret = "value" <=> out.st = "OK"
        /\ r.ret = "None" <=> out.st = "WOULD_BLOCK"
    BY <2>1, <2>3, ReturnedFacts DEF Takes
  <2>5. /\ r.c \in WtClients /\ SameSession(c, r.c) /\ HandlesKept(c, r.c)
        /\ r.c.send_queue = c.send_queue
    BY <1>2, <2>3, <2>4 DEF Takes, Calm, SameSession, HandlesKept
  <2>6. CASE r.ret = "value" /\ c.wt # "freed"
    <3>1. /\ c.session_ready /\ c.received_datagrams # <<>> /\ r.val = Head(c.received_datagrams)
          /\ r.c.received_datagrams = Tail(c.received_datagrams)
          /\ r.c.credit = c.credit /\ r.c.dgroom = c.dgroom /\ r.c.streams = c.streams
      BY <1>2, <1>3, <2>3, <2>4, <2>6 DEF Takes, Calm
    <3>2. NothingNew(c, r.c)
      BY <3>1, SameStreamsCan DEF NothingNew
    <3>3. Sends(c, r.c)
      BY <2>5 DEF Sends
    <3> QED BY <1>4, <1>5, <2>4, <2>5, <2>6, <3>1, <3>2, <3>3 DEF Tried
  <2>7. CASE ~(r.ret = "value" /\ c.wt # "freed")
    <3>1. Calm(c, r.c)
      BY <1>2, <1>3, <2>3, <2>4, <2>7, CalmTransitive DEF Takes
    <3>2. NothingNew(c, r.c) /\ QueueKept(c, r.c) /\ Sends(c, r.c)
      BY <2>5, <3>1, CalmNothingNew DEF Calm, QueueKept, Sends
    <3>3. c.wt # "freed" => (r.ret = "None" => c.session_ready /\ Blocked(o, c))
      BY <1>3, <1>4, <2>3, <2>4 DEF Takes
    <3> QED BY <1>5, <2>4, <2>5, <2>7, <3>1, <3>2, <3>3 DEF Tried
  <2> QED BY <2>6, <2>7
<1> QED BY <1>6, <1>7

\* Every attempt of a stream or datagram operation.
LEMMA AttemptTried ==
    ASSUME NEW o \in Attempted, o.kind \notin ConnectKinds, NEW c \in WtClients, ReadyIsLive(c),
           NEW r \in Attempt(o, c)
    PROVE  Tried(o, c, r)
<1>1. o.kind \in {"open", "accept", "send_datagram", "receive_datagram", "read", "write", "write_fin"}
  BY DEF Attempted, ConnectKinds
<1>2. CASE o.kind = "receive_datagram"
  <2>1. r \in py_receive_datagram(c)
    BY <1>2 DEF Attempt
  <2> QED BY <1>2, <2>1, ReceiveTried
<1>3. CASE o.kind = "send_datagram"
  <2>1. o.arg \in BOOLEAN
    BY <1>3 DEF Attempted
  <2>2. PICK out \in SendDatagram(c, o.arg) : r = Returned(out)
    BY <1>3 DEF Attempt, py_send_datagram
  <2>3. Keeps(c, out) /\ Answers(c, out, c.dgroom # 0)
    BY <2>1, <2>2, SendDatagramFacts
  <2>4. (c.dgroom # 0) <=> ~Blocked(o, c)
    BY <1>3 DEF Blocked
  <2>5. o.kind \in ProcessesAfter
    BY <1>3 DEF ProcessesAfter
  <2> QED BY <1>3, <2>2, <2>3, <2>4, <2>5, KeepsTried
<1>4. CASE o.kind = "open"
  <2>1. o.arg \in BOOLEAN
    BY <1>4 DEF Attempted
  <2>2. PICK out \in OpenStream(c, o.arg) : r = Returned(out)
    BY <1>4 DEF Attempt, py_open_stream
  <2>3. Keeps(c, out) /\ Answers(c, out, CanOpen(c, o.arg)) /\ NothingNew(c, out.c)
    BY <2>1, <2>2, OpenStreamFacts
  <2>4. CanOpen(c, o.arg) \in BOOLEAN /\ (CanOpen(c, o.arg) <=> ~Blocked(o, c))
    BY <1>4 DEF Blocked, CanOpen
  <2> QED BY <1>4, <2>2, <2>3, <2>4, KeepsTried
<1>5. CASE o.kind = "accept"
  <2>1. o.arg \in BOOLEAN
    BY <1>5 DEF Attempted
  <2>2. PICK out \in AcceptStream(c, o.arg) : r = Returned(out)
    BY <1>5 DEF Attempt, py_accept_stream
  <2>3. Keeps(c, out) /\ Answers(c, out, CanAccept(c, o.arg)) /\ NothingNew(c, out.c)
    BY <2>1, <2>2, AcceptStreamFacts
  <2>4. CanAccept(c, o.arg) \in BOOLEAN /\ (CanAccept(c, o.arg) <=> ~Blocked(o, c))
    BY <1>5 DEF Blocked, CanAccept
  <2> QED BY <1>5, <2>2, <2>3, <2>4, KeepsTried
<1>6. CASE o.kind = "read"
  <2>1. o.id \in StreamIds
    BY <1>6 DEF Attempted, ConnectKinds
  <2>2. PICK out \in ReadStream(c, o.id) : r = Returned(out)
    BY <1>6 DEF Attempt, py_read
  <2>3. Keeps(c, out) /\ Answers(c, out, CanRead(c, o.id)) /\ NothingNew(c, out.c)
    BY <2>1, <2>2, ReadStreamFacts
  <2>4. CanRead(c, o.id) \in BOOLEAN /\ (CanRead(c, o.id) <=> ~Blocked(o, c))
    BY <1>6 DEF Blocked, CanRead
  <2> QED BY <1>6, <2>2, <2>3, <2>4, KeepsTried
<1>7. CASE o.kind \in {"write", "write_fin"}
  <2>1. o.id \in StreamIds
    BY <1>7 DEF Attempted, ConnectKinds
  <2>2. PICK fin \in BOOLEAN : r \in py_write(c, o.id, fin)
    BY <1>7 DEF Attempt
  <2>3. PICK out \in WriteStream(c, o.id, fin) : r = Returned(out)
    BY <2>2 DEF py_write
  <2>4. Keeps(c, out) /\ Answers(c, out, CanWriteTo(c, o.id)) /\ NothingNew(c, out.c)
    BY <2>1, <2>3, WriteStreamFacts
  <2>5. CanWriteTo(c, o.id) \in BOOLEAN /\ (CanWriteTo(c, o.id) <=> ~Blocked(o, c))
    BY <1>7 DEF Blocked, CanWriteTo
  <2> QED BY <1>7, <2>3, <2>4, <2>5, KeepsTried
<1> QED BY <1>1, <1>2, <1>3, <1>4, <1>5, <1>6, <1>7

-----------------------------------------------------------------------------
(* The helpers of the client object.                                       *)

\* _teardown closes the client and wakes everybody.
LEMMA TeardownFacts ==
    ASSUME NEW x \in ClientStates
    PROVE  /\ Teardown(x) \in ClientStates /\ Teardown(x).closed
           /\ Teardown(x).core = x.core /\ Teardown(x).transport = x.transport
           /\ Teardown(x).was_connected = x.was_connected
           /\ Teardown(x).waiters = IF x.closed THEN x.waiters ELSE {}
           /\ Teardown(x).timer => x.timer
<1> DEFINE z == [x EXCEPT !.closed = TRUE, !.timer = FALSE,
                          !.sock = IF x.transport /\ @ = "open" THEN "closing" ELSE @]
<1>1. /\ z \in ClientStates /\ z.closed = TRUE /\ z.core = x.core /\ z.transport = x.transport
      /\ z.was_connected = x.was_connected /\ z.timer = FALSE
  BY DEF ClientStates
<1>2. Teardown(x) = IF x.closed THEN x ELSE [z EXCEPT !.waiters = {}]
  BY DEF Teardown, WakeWaiters
<1> HIDE DEF z
<1>3. CASE x.closed
  BY <1>2, <1>3
<1>4. CASE ~x.closed
  BY <1>1, <1>2, <1>4 DEF ClientStates
<1> QED BY <1>3, <1>4

\* _drain_send empties the queue, if there is a transport.
LEMMA DrainSendFacts ==
    ASSUME NEW x \in ClientStates, NEW c \in WtClients
    PROVE  /\ DrainSend(x, c) \in WtClients /\ Calm(c, DrainSend(x, c))
           /\ DrainSend(x, c).last_error = c.last_error
           /\ DrainSend(x, c).send_queue = IF x.transport THEN <<>> ELSE c.send_queue
<1>1. <<>> \in Seq({"packet", "close"})
  OBVIOUS
<1> QED BY <1>1 DEF DrainSend, WtClients, Calm

\* _process of a client that is not closed.
LEMMA ProcessFacts ==
    ASSUME NEW x \in ClientStates, NEW c \in WtClients, x.core, ~x.closed
    PROVE  LET a == Process(x, c)
           IN /\ a.x \in ClientStates /\ a.c \in WtClients /\ Calm(c, a.c)
              /\ a.x.core /\ a.x.transport = x.transport /\ a.x.waiters = {}
              /\ a.c.send_queue = IF x.transport THEN <<>> ELSE c.send_queue
              /\ a.x.closed <=> Dead(x, c)
              /\ c.conn = "open" => a.x.timer /\ a.x.was_connected
              /\ c.conn # "open" => ~a.x.timer /\ a.x.was_connected = x.was_connected
<1> DEFINE a == Process(x, c)
           d == DrainSend(x, c)
           n == NextTimeoutMs(d)
           w == x.was_connected \/ d.conn = "open"
           z == [x EXCEPT !.was_connected = w, !.timer = n.val, !.waiters = {}]
<1>1. /\ d \in WtClients /\ Calm(c, d) /\ d.last_error = c.last_error /\ d.conn = c.conn
      /\ d.send_queue = IF x.transport THEN <<>> ELSE c.send_queue
  BY DrainSendFacts DEF Calm
<1>2. Dead(x, d) <=> Dead(x, c)
  BY <1>1 DEF Dead, IsConnected
<1>3. CASE Dead(x, d)
  <2>1. a.x = Teardown(x) /\ a.c = d
    BY <1>3 DEF Process
  <2>2. c.conn # "open"
    BY <1>1, <1>3 DEF Dead, IsConnected
  <2>3. ~Teardown(x).timer
    BY DEF Teardown, WakeWaiters, ClientStates
  <2> HIDE DEF a, d
  <2>4. /\ a.x \in ClientStates /\ a.x.closed /\ a.x.core = x.core /\ a.x.transport = x.transport
        /\ a.x.was_connected = x.was_connected /\ a.x.waiters = {}
    <3> DEFINE z0 == Teardown(x)
    <3>1. /\ z0 \in ClientStates /\ z0.closed /\ z0.core = x.core /\ z0.transport = x.transport
          /\ z0.was_connected = x.was_connected /\ z0.waiters = IF x.closed THEN x.waiters ELSE {}
      BY TeardownFacts
    <3> HIDE DEF z0
    <3> QED BY <2>1, <3>1 DEF z0
  <2>5. a.c \in WtClients /\ Calm(c, a.c) /\ a.c.send_queue = IF x.transport THEN <<>> ELSE c.send_queue
    BY <1>1, <2>1
  <2> QED BY <1>2, <1>3, <2>1, <2>2, <2>3, <2>4, <2>5 DEF a
<1>4. CASE ~Dead(x, d)
  <2>1. a.x = WakeWaiters(RescheduleTimer([x EXCEPT !.was_connected = @ \/ IsConnected(d)], d))
        /\ a.c = n.c
    BY <1>4 DEF Process
  <2>2. /\ n.c \in WtClients /\ Calm(d, n.c) /\ n.c.send_queue = d.send_queue
        /\ n.val \in BOOLEAN /\ (n.val <=> d.conn = "open")
    BY <1>1, NextTimeoutFacts
  <2>3. a.x = z
    BY <2>1 DEF WakeWaiters, RescheduleTimer, IsConnected, ClientStates
  <2> HIDE DEF a, d, n
  <2>4. w \in BOOLEAN
    OBVIOUS
  <2>5. /\ z \in ClientStates /\ z.core = x.core /\ z.transport = x.transport /\ z.waiters = {}
        /\ z.closed = x.closed
    BY <2>2 DEF ClientStates
  <2>6. z.timer = n.val /\ z.was_connected = w
    BY DEF ClientStates
  <2>7. Calm(c, a.c)
    BY <1>1, <2>1, <2>2, CalmTransitive
  <2>8. c.conn = "open" => a.x.timer /\ a.x.was_connected
    BY <1>1, <2>2, <2>3, <2>6
  <2>9. c.conn # "open" => ~a.x.timer /\ a.x.was_connected = x.was_connected
    <3>1. c.conn # "open" => w = x.was_connected
      BY <1>1 DEF ClientStates
    <3> QED BY <1>1, <2>2, <2>3, <2>6, <3>1
  <2> HIDE DEF z
  <2> QED BY <1>1, <1>2, <1>4, <2>1, <2>2, <2>3, <2>5, <2>7, <2>8, <2>9 DEF a
<1> QED BY <1>3, <1>4

\* An empty queue holds no close, and a packet more is no close.
LEMMA NoCloseFacts ==
    ASSUME NEW c \in WtClients, NEW d
    PROVE  /\ d.send_queue = <<>> => NoClose(d)
           /\ Sends(c, d) /\ NoClose(c) => NoClose(d)
<1>1. d.send_queue = <<>> => NoClose(d)
  BY DEF NoClose
<1>2. ASSUME Sends(c, d), NoClose(c) PROVE NoClose(d)
  <2> DEFINE q == c.send_queue
  <2>1. q \in Seq({"packet", "close"})
    BY DEF WtClients
  <2>2. CASE d.send_queue = q
    BY <1>2, <2>2 DEF NoClose
  <2>3. CASE d.send_queue = Append(q, "packet")
    <3>1. \A i \in 1..Len(q) : q[i] # "close"
      BY <1>2 DEF NoClose
    <3> HIDE DEF q
    <3>2. /\ Len(Append(q, "packet")) = Len(q) + 1 /\ Len(q) \in Nat
          /\ \A i \in 1..Len(q) + 1 : Append(q, "packet")[i] = IF i <= Len(q) THEN q[i] ELSE "packet"
      BY <2>1
    <3>3. \A i \in 1..Len(q) + 1 : Append(q, "packet")[i] # "close"
      BY <3>1, <3>2
    <3> QED BY <2>3, <3>2, <3>3 DEF NoClose
  <2> QED BY <1>2, <2>2, <2>3 DEF Sends
<1> QED BY <1>1, <1>2

\* _process settles the client after a call on a connection.
LEMMA ProcessSettles ==
    ASSUME NEW x \in ClientStates, NEW c \in WtClients, ReadyIsLive(c), x.core, ~x.closed, x.transport,
           Tended(x, c),
           \/ c.conn = "open" \/ (c.conn = "closed" /\ (x.was_connected \/ c.last_error # Q!NoError))
           \/ c.conn = "failed" /\ ~x.was_connected /\ Blank(c)
    PROVE  LET a == Process(x, c)
           IN /\ a.x \in ClientStates /\ a.c \in WtClients /\ ReadyIsLive(a.c) /\ Calm(c, a.c)
              /\ Settled(a.x, a.c) /\ a.x.core /\ a.x.waiters = {}
              /\ c.conn # "failed" => (a.x.closed <=> c.conn = "closed")
              /\ c.conn = "failed" /\ c.last_error = Q!NoError => ~a.x.closed
<1> DEFINE a == Process(x, c)
<1>1. /\ a.x \in ClientStates /\ a.c \in WtClients /\ Calm(c, a.c)
      /\ a.x.core /\ a.x.transport = x.transport /\ a.x.waiters = {}
      /\ a.c.send_queue = IF x.transport THEN <<>> ELSE c.send_queue
      /\ a.x.closed <=> Dead(x, c)
      /\ c.conn = "open" => a.x.timer /\ a.x.was_connected
      /\ c.conn # "open" => ~a.x.timer /\ a.x.was_connected = x.was_connected
  BY ProcessFacts
<1> HIDE DEF a
<1>2. /\ c.conn # "failed" => (Dead(x, c) <=> c.conn = "closed")
      /\ c.conn = "failed" /\ c.last_error = Q!NoError => ~Dead(x, c)
  BY DEF Dead, IsConnected
<1>3. ReadyIsLive(a.c)
  BY <1>1 DEF Calm, ReadyIsLive
<1>4. a.c.conn = c.conn
  BY <1>1 DEF Calm
<1>5. Tended(a.x, a.c)
  BY <1>1 DEF Tended, Calm
<1>6. NoClose(a.c)
  BY <1>1, NoCloseFacts
<1>7. c.conn = "failed" => Blank(a.c)
  BY <1>1 DEF Blank, Calm
<1>8. Settled(a.x, a.c)
  BY <1>1, <1>2, <1>4, <1>5, <1>6, <1>7 DEF Settled
<1> QED BY <1>1, <1>2, <1>3, <1>8 DEF a

\* Settled speaks of the session and of the queue only.
LEMMA SettledKept ==
    ASSUME NEW x, NEW c \in WtClients, NEW d, Settled(x, c), SameSession(c, d), Sends(c, d),
           c.conn \in {"none", "failed"} => Calm(c, d),
           c.conn = "none" => d.send_queue = c.send_queue
    PROVE  Settled(x, d)
<1>1. Tended(x, d)
  BY DEF Settled, Tended, SameSession
<1>2. NoClose(c) => NoClose(d)
  BY NoCloseFacts
<1>3. d.conn = c.conn
  BY DEF SameSession
<1>4. /\ d.conn = "none" => Blank(d) /\ d.send_queue = <<>>
      /\ d.conn = "failed" => Blank(d)
  BY <1>3 DEF Settled, Blank, Calm
<1> QED BY <1>1, <1>2, <1>3, <1>4 DEF Settled

\* The same, when only error and packets changed.
LEMMA CalmSettled ==
    ASSUME NEW x, NEW c \in WtClients, NEW d, Settled(x, c), Calm(c, d), Sends(c, d),
           c.conn = "none" => d.send_queue = c.send_queue
    PROVE  Settled(x, d)
<1>1. SameSession(c, d)
  BY DEF Calm, SameSession
<1> QED BY <1>1, SettledKept

\* A torn down client is settled, whatever its core.
LEMMA TeardownSettles ==
    ASSUME NEW x \in ClientStates, NEW c, Settled(x, c)
    PROVE  Settled(Teardown(x), c)
<1> DEFINE z == Teardown(x)
<1>1. /\ z.closed /\ z.core = x.core /\ z.transport = x.transport
      /\ z.was_connected = x.was_connected /\ (z.timer => x.timer)
  BY TeardownFacts
<1> HIDE DEF z
<1>2. Tended(z, c)
  BY <1>1 DEF Settled, Tended
<1>3. x.transport /\ x.was_connected => NoClose(c)
  BY DEF Settled
<1> QED BY <1>1, <1>2, <1>3 DEF Settled, z

\* Settled does not depend on the socket or the waiters.
LEMMA SettledSame ==
    ASSUME NEW x, NEW y, NEW c, Settled(x, c), y.core = x.core, y.closed = x.closed,
           y.transport = x.transport, y.was_connected = x.was_connected, y.timer = x.timer
    PROVE  Settled(y, c)
<1>1. Tended(y, c)
  BY DEF Settled, Tended
<1> QED BY <1>1 DEF Settled

\* The object of a stream operation stays.
LEMMA HoldsKept ==
    ASSUME NEW o \in Attempted, NEW c, NEW d, Holds(o, c), HandlesKept(c, d)
    PROVE  Holds(o, d)
<1>1. o.kind \in StreamKinds => o.id \in StreamIds
  BY DEF Attempted, StreamKinds, ConnectKinds
<1> QED BY <1>1 DEF Holds, HandlesKept

\* A call that lets nothing new happen lets nobody go.
LEMMA BlockedKept ==
    ASSUME NEW o \in Attempted, NEW c, NEW d, Holds(o, c), Blocked(o, c), NothingNew(c, d)
    PROVE  Blocked(o, d)
<1>1. o.kind \in StreamKinds => o.id \in StreamIds /\ c.streams[o.id].phase \in {"open", "gone"}
  BY DEF Attempted, StreamKinds, ConnectKinds, Holds
<1>2. o.kind \in {"open", "accept"} => o.arg \in BOOLEAN
  BY DEF Attempted
<1> QED BY <1>1, <1>2 DEF Blocked, NothingNew, StreamKinds

\* A task that sleeps stays right to.
LEMMA SleepsKept ==
    ASSUME NEW o \in Attempted, NEW x, NEW y, NEW c, NEW d, ReadyIsLive(c), Holds(o, c), Sleeps(o, x, c),
           SameSession(c, d), NothingNew(c, d), c.session_ready \/ Calm(c, d), y.closed = x.closed
    PROVE  Sleeps(o, y, d)
<1>1. d.conn = c.conn /\ d.wt = c.wt /\ d.session_ready = c.session_ready
  BY DEF SameSession
<1>2. MustWait(c) => MustWait(d)
  BY DEF MustWait, ReadyIsLive, Calm
<1>3. Blocked(o, c) => Blocked(o, d)
  BY BlockedKept
<1> QED BY <1>1, <1>2, <1>3 DEF Sleeps

\* The same, when only error and packets changed.
LEMMA CalmSleeps ==
    ASSUME NEW o \in Attempted, NEW x, NEW y, NEW c, NEW d, ReadyIsLive(c), Holds(o, c), Sleeps(o, x, c),
           Calm(c, d), y.closed = x.closed
    PROVE  Sleeps(o, y, d)
<1>1. SameSession(c, d) /\ NothingNew(c, d)
  BY CalmNothingNew DEF Calm, SameSession
<1> QED BY <1>1, SleepsKept

\* The ledger, as long as the session is not freed.
LEMMA AccountedKept ==
    ASSUME NEW g, NEW c, NEW d, Accounted(g, c), (SameSession(c, d) /\ QueueKept(c, d)) \/ Calm(c, d)
    PROVE  Accounted(g, d)
<1>1. d.wt = c.wt
  BY DEF SameSession, Calm
<1> QED BY <1>1, LedgerKept DEF Accounted

\* What QUICHE does adds at most a datagram.
LEMMA AccountedGrows ==
    ASSUME NEW c \in WtClients, NEW d, NEW g \in Seq(1..MaxDatagrams), Accounted(g, c), Evolves(c, d)
    PROVE  Accounted(g, d)
BY LedgerGrows DEF Accounted, Evolves

-----------------------------------------------------------------------------
(* What a turn of a task has to leave behind.                              *)

\* The state x, c of the client is one the invariant allows, with the tasks
\* other than p where they are.
Good(p, x, c) ==
    /\ x \in ClientStates /\ c \in WtClients /\ ReadyIsLive(c) /\ Settled(x, c)
    /\ x.core = client.core
    /\ c.conn = "none" => core.conn = "none"
    /\ core.conn # "none" => (c.conn = "failed" <=> core.conn = "failed")
    /\ core.conn = "none" \/ HandlesKept(core, c)
    /\ \A q \in x.waiters \ {p} : task[q].pc = "wait" /\ Sleeps(task[q].op, x, c)

\* A connection that ended inside start() is still awaited, if p stops waiting.
Awaited(p, x, c) ==
    \/ c.conn # "failed" \/ x.closed
    \/ core.conn = "failed" /\ ~client.closed /\ task[p].pc # "wait"

\* The stages of connect() that are before start().
BeforeStart == {"endpoint", "opened"}
Alone(p) == \A q \in Tasks \ {p} : task[q].pc \notin BeforeStart

\* The task p ends its turn, and the tasks of connect() still have theirs.
LEMMA StepKeeps ==
    ASSUME Inv, NEW p \in Tasks, NEW x, NEW c, Good(p, x, c),
           NEW t \in TaskStates, t.pc \in {"idle", "wait"},
           t.pc = "wait" => /\ x.core /\ c.conn # "none" /\ Holds(t.op, c)
                            /\ t.op.kind = "is_connected" <=> c.conn = "failed",
           t.pc = "wait" \/ Awaited(p, x, c),
           p \in x.waiters => t.pc = "wait" /\ Sleeps(t.op, x, c),
           c.conn = "none" \/ Alone(p),
           got' \in Seq(1..MaxDatagrams), Accounted(got', c),
           client' = x, core' = c, task' = [task EXCEPT ![p] = t]
    PROVE  Inv'
<1>1. task \in [Tasks -> TaskStates] /\ OneConnect /\ Asleep /\ FailureAwaited
  BY DEF Inv, TypeOK
<1>2. task' \in [Tasks -> TaskStates] /\ \A q \in Tasks : task'[q] = IF q = p THEN t ELSE task[q]
  BY <1>1
<1>3. TypeOK' /\ ReadyIsLive(core)' /\ Accounted(got, core)' /\ Settled(client, core)'
  BY <1>2 DEF TypeOK, Good
<1>4. OneConnect'
  <2>1. \A q \in Tasks : task'[q].pc = "resolve" => ~client'.core
    BY <1>1, <1>2 DEF OneConnect, Good
  <2>2. \A q \in Tasks : task'[q].pc \in {"endpoint", "opened"} => client'.core /\ core'.conn = "none"
    BY <1>1, <1>2 DEF OneConnect, Good, Alone, BeforeStart
  <2>3. \A q, u \in Tasks :
          task'[q].pc \in {"resolve", "endpoint", "opened"}
          /\ task'[u].pc \in {"resolve", "endpoint", "opened"} => q = u
    BY <1>1, <1>2 DEF OneConnect
  <2> QED BY <2>1, <2>2, <2>3 DEF OneConnect
<1>5. Asleep'
  <2>1. \A q \in Tasks : task'[q].pc = "wait" =>
          /\ client'.core /\ core'.conn # "none"
          /\ task'[q].op.kind = "is_connected" <=> core'.conn = "failed"
          /\ Holds(task'[q].op, core')
    <3> SUFFICES ASSUME NEW q \in Tasks, task'[q].pc = "wait"
                 PROVE  /\ x.core /\ c.conn # "none"
                        /\ task'[q].op.kind = "is_connected" <=> c.conn = "failed"
                        /\ Holds(task'[q].op, c)
      OBVIOUS
    <3>1. CASE q = p
      BY <1>2, <3>1
    <3>2. CASE q # p
      <4>1. /\ task'[q] = task[q] /\ task[q].pc = "wait" /\ task[q].op \in Attempted
        BY <1>1, <1>2, <3>2 DEF TaskStates
      <4>2. /\ client.core /\ core.conn # "none"
            /\ task[q].op.kind = "is_connected" <=> core.conn = "failed"
            /\ Holds(task[q].op, core)
        BY <1>1, <4>1 DEF Asleep
      <4>3. HandlesKept(core, c) /\ x.core /\ c.conn # "none" /\ (c.conn = "failed" <=> core.conn = "failed")
        BY <4>2 DEF Good
      <4> QED BY <4>1, <4>2, <4>3, HoldsKept
    <3> QED BY <3>1, <3>2
  <2>2. \A q \in client'.waiters : q \in Tasks
    BY DEF Good, ClientStates
  <2>3. \A q \in client'.waiters : task'[q].pc = "wait" /\ Sleeps(task'[q].op, client', core')
    BY <1>2, <2>2 DEF Good
  <2> QED BY <2>1, <2>3 DEF Asleep
<1>6. FailureAwaited'
  BY <1>1, <1>2 DEF FailureAwaited, Awaited
<1> QED BY <1>3, <1>4, <1>5, <1>6 DEF Inv

\* A callback: no task moves.
LEMMA EventKeeps ==
    ASSUME Inv, NEW x, NEW c, x \in ClientStates, c \in WtClients, ReadyIsLive(c), Settled(x, c),
           x.core = client.core, client.closed => x.closed, HandlesKept(core, c),
           c.conn = "none" <=> core.conn = "none", c.conn = "failed" <=> core.conn = "failed",
           \A q \in x.waiters : task[q].pc = "wait" /\ Sleeps(task[q].op, x, c),
           Accounted(got, c), client' = x, core' = c, task' = task, got' = got
    PROVE  Inv'
<1>1. TypeOK' /\ ReadyIsLive(core)' /\ Accounted(got, core)' /\ Settled(client, core)'
  BY DEF Inv, TypeOK
<1>2. OneConnect'
  BY DEF Inv, OneConnect
<1>3. Asleep'
  <2>1. \A q \in Tasks : task[q].pc = "wait" =>
          /\ client.core /\ core.conn # "none"
          /\ task[q].op.kind = "is_connected" <=> core.conn = "failed"
          /\ Holds(task[q].op, core) /\ task[q].op \in Attempted
    BY DEF Inv, Asleep, TypeOK, TaskStates
  <2>2. \A q \in Tasks : task[q].pc = "wait" => Holds(task[q].op, c)
    BY <2>1, HoldsKept
  <2> QED BY <2>1, <2>2 DEF Asleep
<1>4. FailureAwaited'
  BY DEF Inv, FailureAwaited
<1> QED BY <1>1, <1>2, <1>3, <1>4 DEF Inv

\* The results of a task and what it can await have their types.
LEMMA TaskTypes ==
    /\ \A res \in Results : IdleTask(res) \in TaskStates /\ IdleTask(res).pc = "idle"
    /\ \A o \in Attempted : /\ [pc |-> "wait", op |-> o, res |-> "none"] \in TaskStates
                            /\ [pc |-> "wait", op |-> o, res |-> "none"].pc = "wait"
                            /\ [pc |-> "wait", op |-> o, res |-> "none"].op = o
    /\ \A k \in ConnectKinds, b \in BOOLEAN :
         /\ ConnectOp(k, b) \in Attempted /\ ConnectOp(k, b).kind = k /\ ConnectOp(k, b).arg = b
<1>1. \A k \in ConnectKinds, b \in BOOLEAN :
        /\ ConnectOp(k, b) \in Attempted /\ ConnectOp(k, b).kind = k /\ ConnectOp(k, b).arg = b
  BY DEF ConnectOp, Attempted
<1>2. ConnectOp("is_connected", TRUE) \in Attempted
  BY <1>1 DEF ConnectKinds
<1>3. \A res \in Results : IdleTask(res) \in TaskStates /\ IdleTask(res).pc = "idle"
  BY <1>2 DEF IdleTask, TaskStates
<1>4. "none" \in Results
  BY DEF Results
<1>5. \A o \in Attempted : /\ [pc |-> "wait", op |-> o, res |-> "none"] \in TaskStates
                            /\ [pc |-> "wait", op |-> o, res |-> "none"].pc = "wait"
                            /\ [pc |-> "wait", op |-> o, res |-> "none"].op = o
  BY <1>4 DEF TaskStates
<1> QED BY <1>1, <1>3, <1>5

\* The exceptions are results.
LEMMA ResultsFacts ==
    /\ Exceptions \subseteq Results /\ "value" \in Results /\ "connected" \in Results
    /\ "ConnectionError" \in Results /\ "CancelledError" \in Results /\ "TimeoutError" \in Results
    /\ "OSError" \in Results /\ "RuntimeError" \in Results
BY DEF Results, Exceptions, Q!Exceptions

\* A turn that ends the call.
LEMMA RaiseKeeps ==
    ASSUME Inv, NEW p \in Tasks, NEW x, NEW c, Good(p, x, c), p \notin x.waiters, NEW res \in Results,
           c.conn = "none" \/ Alone(p), Awaited(p, x, c), Accounted(got, c), Raise(p, res, x, c)
    PROVE  Inv'
<1> DEFINE t == IdleTask(res)
<1>1. t \in TaskStates /\ t.pc = "idle"
  BY TaskTypes
<1>2. client' = x /\ core' = c /\ task' = [task EXCEPT ![p] = t] /\ got' = got
  BY DEF Raise, Finished
<1>3. got' \in Seq(1..MaxDatagrams) /\ Accounted(got', c)
  BY <1>2 DEF Inv, TypeOK
<1> HIDE DEF t
<1> QED BY <1>1, <1>2, <1>3, StepKeeps

\* connect() fails and tears the client down.
LEMMA ConnectFailsKeeps ==
    ASSUME Inv, NEW p \in Tasks, NEW x \in ClientStates, NEW c \in WtClients, ReadyIsLive(c), Settled(x, c),
           x.core = client.core, c.conn = "none" => core.conn = "none",
           core.conn # "none" => (c.conn = "failed" <=> core.conn = "failed"),
           core.conn = "none" \/ HandlesKept(core, c), x.closed => x.waiters = {}, NEW res \in Results,
           c.conn = "none" \/ Alone(p), Accounted(got, c), ConnectFails(p, res, x, c)
    PROVE  Inv'
<1> DEFINE y == Teardown(x)
<1>1. /\ y \in ClientStates /\ y.core = x.core /\ y.waiters = IF x.closed THEN x.waiters ELSE {}
      /\ y.closed
  BY TeardownFacts
<1>2. Settled(y, c)
  BY TeardownSettles
<1>3. Raise(p, res, y, c)
  BY DEF ConnectFails
<1> HIDE DEF y
<1>4. y.waiters = {}
  BY <1>1
<1>5. Good(p, y, c) /\ Awaited(p, y, c)
  BY <1>1, <1>2, <1>4 DEF Good, Awaited
<1> QED BY <1>3, <1>4, <1>5, RaiseKeeps

\* A turn that puts the task to sleep.
LEMMA SleepKeeps ==
    ASSUME Inv, NEW p \in Tasks, NEW x, NEW c, Good(p, x, c), NEW o \in Attempted,
           Holds(o, c), x.core, Sleeps(o, x, c), Alone(p),
           Accounted(got, c), Sleep(p, o, x, c)
    PROVE  Inv'
<1> DEFINE t == [pc |-> "wait", op |-> o, res |-> "none"]
           y == [x EXCEPT !.waiters = @ \cup {p}]
<1>1. t \in TaskStates /\ t.pc = "wait" /\ t.op = o
  BY TaskTypes
<1>2. client' = y /\ core' = c /\ task' = [task EXCEPT ![p] = t] /\ got' = got
  BY DEF Sleep
<1>3. got' \in Seq(1..MaxDatagrams) /\ Accounted(got', c)
  BY <1>2 DEF Inv, TypeOK
<1>4. /\ y \in ClientStates /\ y.core = x.core /\ y.closed = x.closed /\ y.transport = x.transport
      /\ y.was_connected = x.was_connected /\ y.timer = x.timer /\ y.waiters = x.waiters \cup {p}
  BY DEF Good, ClientStates
<1> HIDE DEF t, y
<1>5. Settled(y, c)
  BY <1>4, SettledSame DEF Good
<1>6. \A i : Sleeps(i, x, c) => Sleeps(i, y, c)
  BY <1>4 DEF Sleeps
<1>7. Good(p, y, c)
  BY <1>4, <1>5, <1>6 DEF Good
<1>8. c.conn # "none" /\ (t.op.kind = "is_connected" <=> c.conn = "failed") /\ Sleeps(t.op, y, c)
  BY <1>1, <1>6 DEF Sleeps
<1> QED BY <1>1, <1>2, <1>3, <1>4, <1>7, <1>8, StepKeeps

\* What the sleepers of the present state hold, in a good one.
LEMMA SleepersHold ==
    ASSUME Inv, NEW p, NEW x, NEW c, Good(p, x, c), NEW q \in x.waiters \ {p}
    PROVE  task[q].op \in Attempted /\ Holds(task[q].op, c)
<1>1. q \in Tasks /\ task[q].pc = "wait"
  BY DEF Good, ClientStates
<1>2. task[q].op \in Attempted /\ core.conn # "none" /\ Holds(task[q].op, core)
  BY <1>1 DEF Inv, Asleep, TypeOK, TaskStates
<1>3. HandlesKept(core, c)
  BY <1>2 DEF Good
<1> QED BY <1>2, <1>3, HoldsKept

\* A call that lets nothing new happen keeps a good state good.
LEMMA GoodMoves ==
    ASSUME Inv, NEW p, NEW x, NEW c, NEW d \in WtClients, Good(p, x, c), SameSession(c, d),
           HandlesKept(c, d), Sends(c, d), NothingNew(c, d),
           c.session_ready \/ Calm(c, d), c.conn = "none" => d.send_queue = c.send_queue
    PROVE  Good(p, x, d)
<1>1. /\ x \in ClientStates /\ c \in WtClients /\ ReadyIsLive(c) /\ Settled(x, c) /\ x.core = client.core
      /\ c.conn = "none" => core.conn = "none"
      /\ core.conn # "none" => (c.conn = "failed" <=> core.conn = "failed")
      /\ core.conn = "none" \/ HandlesKept(core, c)
      /\ \A q \in x.waiters \ {p} : task[q].pc = "wait" /\ Sleeps(task[q].op, x, c)
  BY DEF Good
<1>2. c.conn \in {"none", "failed"} => Calm(c, d)
  BY <1>1 DEF ReadyIsLive
<1>3. Settled(x, d)
  BY <1>1, <1>2, SettledKept
<1>4. ReadyIsLive(d) /\ d.conn = c.conn
  BY <1>1 DEF ReadyIsLive, SameSession
<1>5. core.conn = "none" \/ HandlesKept(core, d)
  BY <1>1 DEF HandlesKept
<1>6. ASSUME NEW q \in x.waiters \ {p} PROVE Sleeps(task[q].op, x, d)
  <2>1. task[q].op \in Attempted /\ Holds(task[q].op, c)
    BY <1>6, SleepersHold
  <2> QED BY <1>1, <1>6, <2>1, SleepsKept
<1> QED BY <1>1, <1>3, <1>4, <1>5, <1>6 DEF Good

\* So does one that changes error and packets only.
LEMMA GoodCalm ==
    ASSUME Inv, NEW p, NEW x, NEW c, NEW d \in WtClients, Good(p, x, c), Calm(c, d), Sends(c, d),
           c.conn = "none" => d.send_queue = c.send_queue
    PROVE  Good(p, x, d)
<1>1. SameSession(c, d) /\ HandlesKept(c, d) /\ NothingNew(c, d)
  BY CalmNothingNew DEF Calm, SameSession, HandlesKept
<1> QED BY <1>1, GoodMoves

\* The invariant makes the present state a good one.
LEMMA GoodNow ==
    ASSUME Inv, NEW p \in Tasks
    PROVE  /\ Good(p, client, core) /\ Accounted(got, core)
           /\ core.conn = "none" \/ Alone(p)
           /\ client.closed => client.waiters = {}
<1>1. HandlesKept(core, core)
  BY DEF HandlesKept
<1>2. Good(p, client, core) /\ Accounted(got, core)
  BY <1>1 DEF Inv, TypeOK, Good, Asleep
<1>3. core.conn = "none" \/ Alone(p)
  BY DEF Inv, OneConnect, Alone, BeforeStart
<1>4. client.closed => client.waiters = {}
  BY DEF Inv, Asleep, Sleeps
<1> QED BY <1>2, <1>3, <1>4

-----------------------------------------------------------------------------
(* The turns of the tasks.                                                 *)

\* Where a turn of connect() begins.
Turning(p, x, c) ==
    /\ Good(p, x, c) /\ p \notin x.waiters /\ x.core /\ c.conn # "none"
    /\ Accounted(got, c) /\ Alone(p)

\* A turn of connect() on a client that is closed, or one that is refused.
LEMMA TurnFails ==
    ASSUME Inv, NEW p \in Tasks, NEW x, NEW c, Turning(p, x, c), NEW d \in WtClients, ReadyIsLive(d),
           Settled(x, d), d.conn = c.conn, HandlesKept(c, d), Accounted(got, d),
           NEW res \in Results, ConnectFails(p, res, x, d)
    PROVE  Inv'
<1>1. /\ x \in ClientStates /\ x.core = client.core /\ Alone(p)
      /\ core.conn = "none" \/ HandlesKept(core, c)
      /\ d.conn = "none" => core.conn = "none"
      /\ core.conn # "none" => (d.conn = "failed" <=> core.conn = "failed")
  BY DEF Turning, Good
<1>2. core.conn = "none" \/ HandlesKept(core, d)
  BY <1>1 DEF HandlesKept
<1>3. x.closed => x.waiters = {}
  BY DEF Turning, Good, Sleeps
<1> QED BY <1>1, <1>2, <1>3, ConnectFailsKeeps

\* The client is closed.
LEMMA ClosedTurnFails ==
    ASSUME Inv, NEW p \in Tasks, NEW x, NEW c, Turning(p, x, c), ConnectFails(p, "ConnectionError", x, c)
    PROVE  Inv'
<1>1. c \in WtClients /\ ReadyIsLive(c) /\ Settled(x, c) /\ Accounted(got, c) /\ HandlesKept(c, c)
  BY DEF Turning, Good, HandlesKept
<1> QED BY <1>1, ResultsFacts, TurnFails

\* An open client in a turn of connect() has an open connection, unless that
\* ended inside start().
LEMMA TurningOpen ==
    ASSUME NEW p, NEW x, NEW c, Turning(p, x, c), ~x.closed
    PROVE  c \in WtClients /\ ReadyIsLive(c) /\ c.conn \in {"open", "failed"} /\ x \in ClientStates
           /\ x.transport /\ Settled(x, c) /\ Tended(x, c)
<1>1. c.conn \in {"none", "open", "closed", "failed"} /\ c \in WtClients /\ Settled(x, c)
  BY DEF Turning, Good, WtClients
<1> QED BY <1>1 DEF Turning, Good, Settled

\* The third wait of connect().
LEMMA SessionReadyTurnKeeps ==
    ASSUME Inv, NEW p \in Tasks, NEW named \in BOOLEAN, NEW x, NEW c, Turning(p, x, c),
           c.conn # "failed", SessionReadyTurn(p, named, x, c)
    PROVE  Inv'
<1> DEFINE o == ConnectOp("is_session_ready", named)
<1>1. CASE x.closed
  BY <1>1, ClosedTurnFails DEF SessionReadyTurn
<1>2. CASE ~x.closed
  <2>1. PICK r \in py_is_session_ready(c) :
          IF r.val THEN Raise(p, "connected", x, r.c) ELSE Sleep(p, o, x, r.c)
    BY <1>2 DEF SessionReadyTurn
  <2>2. c \in WtClients /\ ReadyIsLive(c) /\ c.conn = "open"
    BY <1>2, TurningOpen
  <2>3. /\ r.c \in WtClients /\ Calm(c, r.c) /\ r.c.send_queue = c.send_queue /\ r.val \in BOOLEAN
        /\ c.wt # "freed" => (r.val <=> c.session_ready)
    BY <2>1, <2>2, IsSessionReadyFacts DEF py_is_session_ready
  <2>4. Good(p, x, r.c) /\ Accounted(got, r.c) /\ Alone(p) /\ p \notin x.waiters /\ x.core
    <3>1. Sends(c, r.c)
      BY <2>3 DEF Sends
    <3> QED BY <2>3, <3>1, GoodCalm, AccountedKept DEF Turning
  <2>5. CASE r.val
    <3>1. Awaited(p, x, r.c)
      BY <2>2, <2>3 DEF Awaited, Calm
    <3> QED BY <2>1, <2>4, <2>5, <3>1, ResultsFacts, RaiseKeeps
  <2>6. CASE ~r.val
    <3>1. o \in Attempted /\ o.kind = "is_session_ready"
      BY TaskTypes DEF ConnectKinds
    <3>2. Sleep(p, o, x, r.c)
      BY <2>1, <2>6
    <3> HIDE DEF o
    <3>3. Holds(o, r.c)
      BY <3>1 DEF Holds, StreamKinds
    <3>4. r.c.conn = "open" /\ r.c.wt = c.wt /\ r.c.session_ready = c.session_ready
      BY <2>2, <2>3 DEF Calm
    <3>5. Sleeps(o, x, r.c)
      BY <1>2, <2>3, <2>6, <3>1, <3>4 DEF Sleeps, ConnectKinds
    <3> QED BY <2>4, <3>1, <3>2, <3>3, <3>5, SleepKeeps
  <2> QED BY <2>3, <2>5, <2>6
<1> QED BY <1>1, <1>2

\* The second wait: the CONNECT request is sent, has to wait or is refused.
LEMMA OpenSessionTurnKeeps ==
    ASSUME Inv, NEW p \in Tasks, NEW named \in BOOLEAN, NEW x, NEW c, Turning(p, x, c),
           c.conn # "failed", OpenSessionTurn(p, named, x, c)
    PROVE  Inv'
<1> DEFINE o == ConnectOp("open_session", named)
<1>1. CASE x.closed
  BY <1>1, ClosedTurnFails DEF OpenSessionTurn
<1>2. CASE ~x.closed
  <2>1. PICK r \in py_connect_session(c, named) :
          IF r.ret = "None" THEN Sleep(p, o, x, r.c)
          ELSE IF r.ret # "value" THEN ConnectFails(p, r.ret, x, r.c)
          ELSE SessionReadyTurn(p, named, Process(x, r.c).x, Process(x, r.c).c)
    BY <1>2 DEF OpenSessionTurn
  <2>2. /\ c \in WtClients /\ ReadyIsLive(c) /\ c.conn = "open" /\ x \in ClientStates /\ x.transport
        /\ Settled(x, c) /\ Tended(x, c)
    BY <1>2, TurningOpen
  <2>3. /\ r.c \in WtClients /\ r.ret \in {"value", "None"} \cup Exceptions
        /\ r.c.conn = c.conn /\ r.c.session_ready = c.session_ready /\ r.c.close_sent = c.close_sent
        /\ r.c.streams = c.streams /\ r.c.arrived = c.arrived /\ QueueKept(c, r.c) /\ Sends(c, r.c)
        /\ r.c.dangling => c.dangling \/ c.wt = "freed"
        /\ c.wt # "null" => r.c.wt = c.wt
        /\ r.c.wt \in {c.wt, "live"}
        /\ r.ret # "value" => r.c.wt = c.wt
        /\ r.ret = "None" => Calm(c, r.c)
        /\ r.ret = "None" <=> MustWait(c)
    BY <2>1, <2>2, ConnectSessionFacts
  <2>4. HandlesKept(c, r.c)
    BY <2>3 DEF HandlesKept
  <2>5. ReadyIsLive(r.c)
    BY <2>2, <2>3 DEF ReadyIsLive
  <2>6. Accounted(got, r.c)
    <3>1. Accounted(got, c)
      BY DEF Turning
    <3>2. r.c.wt # "freed" => c.wt # "freed"
      BY <2>3
    <3> QED BY <2>3, <3>1, <3>2 DEF Accounted, Ledger, QueueKept
  <2>7. Tended(x, r.c)
    BY <2>2, <2>3 DEF Tended
  <2>8. Settled(x, r.c)
    <3>1. NoClose(c) => NoClose(r.c)
      BY <2>2, <2>3, NoCloseFacts
    <3> QED BY <2>2, <2>3, <2>7, <3>1 DEF Settled
  <2>9. CASE r.ret = "None"
    <3>1. o \in Attempted /\ o.kind = "open_session"
      BY TaskTypes DEF ConnectKinds
    <3>2. Sleep(p, o, x, r.c)
      BY <2>1, <2>9
    <3> HIDE DEF o
    <3>3. Good(p, x, r.c) /\ Alone(p) /\ x.core
      BY <2>2, <2>3, <2>9, GoodCalm DEF Turning
    <3>4. Holds(o, r.c)
      BY <3>1 DEF Holds, StreamKinds
    <3>5. MustWait(r.c)
      BY <2>3, <2>9 DEF MustWait, Calm
    <3>6. Sleeps(o, x, r.c)
      BY <1>2, <2>2, <2>3, <3>1, <3>5 DEF Sleeps, ConnectKinds
    <3> QED BY <2>6, <3>1, <3>2, <3>3, <3>4, <3>6, SleepKeeps
  <2>10. CASE r.ret \in Exceptions /\ r.ret # "None" /\ r.ret # "value"
    <3>1. ConnectFails(p, r.ret, x, r.c) /\ r.ret \in Results
      BY <2>1, <2>10, ResultsFacts
    <3> QED BY <2>3, <2>4, <2>5, <2>6, <2>8, <3>1, TurnFails
  <2>11. CASE r.ret = "value"
    <3> DEFINE a == Process(x, r.c)
    <3>1. SessionReadyTurn(p, named, a.x, a.c)
      BY <2>1, <2>11
    <3>2. x.core
      BY DEF Turning
    <3>3. /\ a.x \in ClientStates /\ a.c \in WtClients /\ ReadyIsLive(a.c) /\ Calm(r.c, a.c)
          /\ Settled(a.x, a.c) /\ a.x.core /\ a.x.waiters = {}
      BY <1>2, <2>2, <2>3, <2>5, <2>7, <3>2, ProcessSettles
    <3> HIDE DEF a
    <3>4. a.c.conn = "open" /\ HandlesKept(c, a.c) /\ Accounted(got, a.c)
      BY <2>2, <2>3, <2>4, <2>6, <3>3, AccountedKept DEF Calm, HandlesKept
    <3>5. a.x.core = client.core
      BY <3>2, <3>3 DEF Turning, Good, ClientStates, Inv, TypeOK
    <3>6. core.conn = "none" \/ HandlesKept(core, a.c)
      BY <3>4 DEF Turning, Good, HandlesKept
    <3>7. core.conn # "none" => core.conn # "failed"
      BY <2>2 DEF Turning, Good
    <3>8. Good(p, a.x, a.c)
      BY <3>3, <3>4, <3>5, <3>6, <3>7 DEF Good
    <3>9. Turning(p, a.x, a.c) /\ a.c.conn # "failed"
      BY <3>3, <3>4, <3>8 DEF Turning
    <3> QED BY <3>1, <3>9, SessionReadyTurnKeeps
  <2> QED BY <2>3, <2>9, <2>10, <2>11
<1> QED BY <1>1, <1>2

\* The first wait sleeps only if the connection ended inside start(): otherwise it
\* is open as soon as start() has returned.
LEMMA ConnectedTurnKeeps ==
    ASSUME Inv, NEW p \in Tasks, NEW named \in BOOLEAN, NEW x, NEW c, Turning(p, x, c),
           ConnectedTurn(p, named, x, c)
    PROVE  Inv'
<1>1. CASE x.closed
  BY <1>1, ClosedTurnFails DEF ConnectedTurn
<1>2. CASE ~x.closed
  <2>1. c.conn \in {"open", "failed"} /\ c \in WtClients
    BY <1>2, TurningOpen
  <2>2. CASE c.conn = "open"
    <3>1. OpenSessionTurn(p, named, x, c)
      BY <1>2, <2>2 DEF ConnectedTurn, IsConnected
    <3> QED BY <2>2, <3>1, OpenSessionTurnKeeps
  <2>3. CASE c.conn = "failed"
    <3> DEFINE o == ConnectOp("is_connected", named)
    <3>1. o \in Attempted /\ o.kind = "is_connected"
      BY TaskTypes DEF ConnectKinds
    <3>2. Sleep(p, o, x, c)
      BY <1>2, <2>3 DEF ConnectedTurn, IsConnected
    <3> HIDE DEF o
    <3>3. Holds(o, c) /\ Sleeps(o, x, c)
      BY <1>2, <2>3, <3>1 DEF Holds, Sleeps, StreamKinds, ConnectKinds
    <3> QED BY <3>1, <3>2, <3>3, SleepKeeps DEF Turning
  <2> QED BY <2>1, <2>2, <2>3
<1> QED BY <1>1, <1>2

\* A turn of a stream or datagram operation.
LEMMA SessionTurnKeeps ==
    ASSUME Inv, NEW p \in Tasks, p \notin client.waiters, client.core, NEW o \in Attempted,
           o.kind \notin ConnectKinds, Holds(o, core), core.conn = "failed" => task[p].pc # "wait",
           SessionTurn(p, o)
    PROVE  Inv'
<1>1. /\ Good(p, client, core) /\ Accounted(got, core)
      /\ core.conn = "none" \/ Alone(p)
  BY GoodNow
<1>2. /\ client \in ClientStates /\ core \in WtClients /\ ReadyIsLive(core) /\ Settled(client, core)
      /\ got \in Seq(1..MaxDatagrams)
  BY DEF Inv, TypeOK
<1>3. CASE client.closed
  <2>1. Raise(p, "ConnectionError", client, core) /\ Awaited(p, client, core)
    BY <1>3 DEF SessionTurn, Awaited
  <2> QED BY <1>1, <2>1, ResultsFacts, RaiseKeeps
<1>4. CASE ~client.closed
  <2>1. PICK r \in Attempt(o, core) :
          IF r.ret = "None" THEN Sleep(p, o, client, r.c)
          ELSE /\ client' = (IF o.kind \in ProcessesAfter THEN Processed(r) ELSE [x |-> client, c |-> r.c]).x
               /\ core' = (IF o.kind \in ProcessesAfter THEN Processed(r) ELSE [x |-> client, c |-> r.c]).c
               /\ Finished(p, r.ret)
               /\ got' = IF r.ret = "value" /\ o.kind = "receive_datagram" /\ core.wt # "freed"
                            THEN Append(got, r.val) ELSE got
    BY <1>4 DEF SessionTurn
  <2>2. Tried(o, core, r)
    BY <1>2, <2>1, AttemptTried
  <2>3. /\ r.c \in WtClients /\ SameSession(core, r.c) /\ HandlesKept(core, r.c) /\ Sends(core, r.c)
        /\ r.ret \in {"value", "None"} \cup Exceptions
        /\ r.ret # "value" \/ ~core.session_ready => Calm(core, r.c)
        /\ ~core.session_ready => r.c.send_queue = core.send_queue
        /\ o.kind \notin ProcessesAfter => NothingNew(core, r.c)
    BY <2>2 DEF Tried
  <2>4. /\ core.conn = r.c.conn /\ core.wt = r.c.wt
        /\ core.conn = "none" => r.c.send_queue = core.send_queue
    BY <1>2, <2>3 DEF SameSession, ReadyIsLive
  <2>5. CASE r.ret = "None"
    <3>1. Sleep(p, o, client, r.c)
      BY <2>1, <2>5
    <3>2. Calm(core, r.c)
      BY <2>3, <2>5
    <3>3. Good(p, client, r.c) /\ Accounted(got, r.c)
      BY <1>1, <2>3, <2>4, <3>2, GoodCalm, AccountedKept
    <3>4. core.conn = "open"
      <4>1. core.conn \in {"none", "failed"} => core.wt = "null" /\ ~core.session_ready
        BY <1>2 DEF Settled, Blank
      <4>2. core.conn \notin {"none", "failed"}
        BY <2>2, <2>5, <4>1 DEF Tried
      <4>3. core.conn \in {"none", "open", "closed", "failed"}
        BY <1>2 DEF WtClients
      <4> QED BY <1>2, <1>4, <4>2, <4>3 DEF Settled
    <3>5. Holds(o, r.c)
      BY <2>3, HoldsKept
    <3>6. core.wt # "freed" => core.session_ready /\ Blocked(o, core)
      BY <2>2, <2>5 DEF Tried
    <3>7. core.wt # "freed" => r.c.session_ready /\ Blocked(o, r.c)
      <4>1. r.c.session_ready = core.session_ready /\ NothingNew(core, r.c)
        BY <3>2, CalmNothingNew DEF Calm
      <4> QED BY <3>6, <4>1, BlockedKept
    <3>8. Sleeps(o, client, r.c)
      BY <1>4, <2>4, <3>4, <3>7 DEF Sleeps, ConnectKinds
    <3> QED BY <1>1, <3>1, <3>3, <3>4, <3>5, <3>8, SleepKeeps
  <2>6. CASE r.ret # "None"
    <3> DEFINE t == IdleTask(r.ret)
    <3>1. t \in TaskStates /\ t.pc = "idle" /\ task' = [task EXCEPT ![p] = t]
      BY <2>1, <2>3, <2>6, TaskTypes, ResultsFacts DEF Finished
    <3> HIDE DEF t
    <3>2. got' \in Seq(1..MaxDatagrams) /\ Accounted(got', r.c)
      <4>1. CASE QueueKept(core, r.c) /\ (o.kind = "receive_datagram" => r.ret # "value" \/ core.wt = "freed")
        <5>1. got' = got
          BY <2>1, <2>6, <4>1
        <5> QED BY <1>1, <1>2, <2>3, <4>1, <5>1, AccountedKept
      <4>2. CASE /\ o.kind = "receive_datagram" /\ r.ret = "value" /\ core.wt # "freed"
                 /\ core.received_datagrams # <<>> /\ r.val = Head(core.received_datagrams)
                 /\ r.c.received_datagrams = Tail(core.received_datagrams)
        <5>1. got' = Append(got, r.val)
          BY <2>1, <2>6, <4>2
        <5>2. Ledger(got, core) /\ r.c.arrived = core.arrived
          BY <1>1, <2>3, <4>2 DEF Accounted, SameSession
        <5> QED BY <1>2, <4>2, <5>1, <5>2, LedgerTaken DEF Accounted
      <4> QED BY <2>2, <4>1, <4>2 DEF Tried
    <3>3. CASE o.kind \in ProcessesAfter /\ r.ret = "value"
      <4> DEFINE a == Process(client, r.c)
      <4>1. client' = a.x /\ core' = a.c
        BY <2>1, <2>6, <3>3 DEF Processed
      <4>2. core.conn = "open"
        <5>1. core.conn \in {"none", "failed"} => core.wt = "null" /\ ~core.session_ready
          BY <1>2 DEF Settled, Blank
        <5>2. core.conn \notin {"none", "failed"}
          BY <2>2, <3>3, <5>1 DEF Tried
        <5>3. core.conn \in {"none", "open", "closed", "failed"}
          BY <1>2 DEF WtClients
        <5> QED BY <1>2, <1>4, <5>2, <5>3 DEF Settled
      <4>3. client.transport /\ Tended(client, r.c) /\ ReadyIsLive(r.c)
        BY <1>2, <1>4, <2>3, <4>2 DEF Settled, Tended, SameSession, ReadyIsLive
      <4>4. /\ a.x \in ClientStates /\ a.c \in WtClients /\ ReadyIsLive(a.c) /\ Calm(r.c, a.c)
            /\ Settled(a.x, a.c) /\ a.x.core /\ a.x.waiters = {}
        BY <1>2, <1>4, <2>3, <2>4, <4>2, <4>3, ProcessSettles
      <4> HIDE DEF a
      <4>5. a.c.conn = "open" /\ HandlesKept(core, a.c) /\ Accounted(got', a.c)
        BY <2>3, <2>4, <3>2, <4>2, <4>4, AccountedKept DEF Calm, HandlesKept
      <4>6. a.x.core = client.core
        BY <1>2, <4>4 DEF ClientStates
      <4>7. Good(p, a.x, a.c) /\ Awaited(p, a.x, a.c)
        BY <4>2, <4>4, <4>5, <4>6 DEF Good, Awaited
      <4> QED BY <1>1, <3>1, <3>2, <4>1, <4>2, <4>4, <4>5, <4>7, StepKeeps
    <3>4. CASE ~(o.kind \in ProcessesAfter /\ r.ret = "value")
      <4>1. client' = client /\ core' = r.c
        BY <2>1, <2>6, <3>4 DEF Processed
      <4>2. NothingNew(core, r.c)
        BY <2>3, <3>4, CalmNothingNew
      <4>3. Good(p, client, r.c)
        BY <1>1, <2>3, <2>4, <4>2, GoodMoves
      <4>4. Awaited(p, client, r.c)
        BY <1>4, <2>4 DEF Awaited
      <4> QED BY <1>1, <2>4, <3>1, <3>2, <4>1, <4>3, <4>4, StepKeeps
    <3> QED BY <3>3, <3>4
  <2> QED BY <2>5, <2>6
<1> QED BY <1>3, <1>4

\* A coroutine method is called, a sleeping task runs again, a wait is interrupted.
LEMMA WaitsKeepInv ==
    ASSUME Inv, NEW p \in Tasks, NEW o \in Attempted, NEW e \in {"TimeoutError", "CancelledError"},
           Call(p, o) \/ Wake(p) \/ Interrupt(p, e)
    PROVE  Inv'
<1>1. /\ client \in ClientStates /\ task \in [Tasks -> TaskStates] /\ Asleep
      /\ Settled(client, core) /\ core \in WtClients /\ ReadyIsLive(core)
  BY DEF Inv, TypeOK
<1>2. /\ Good(p, client, core) /\ Accounted(got, core)
      /\ core.conn = "none" \/ Alone(p)
      /\ client.closed => client.waiters = {}
  BY GoodNow
<1>3. CASE Call(p, o)
  <2>1. p \notin client.waiters /\ client.core /\ o.kind \notin ConnectKinds /\ SessionTurn(p, o)
    BY <1>1, <1>3 DEF Call, Asleep
  <2>2. Holds(o, core) /\ task[p].pc # "wait"
    BY <1>3 DEF Call, Holds, HasHandle, StreamKinds
  <2> QED BY <2>1, <2>2, SessionTurnKeeps
<1>4. task[p].pc = "wait" =>
        /\ client.core /\ core.conn # "none" /\ task[p].op \in Attempted
        /\ task[p].op.kind = "is_connected" <=> core.conn = "failed"
        /\ Holds(task[p].op, core)
  BY <1>1 DEF Asleep, TaskStates
<1>5. CASE Wake(p)
  <2> DEFINE q == task[p].op
  <2>1. task[p].pc = "wait" /\ p \notin client.waiters
    BY <1>5 DEF Wake
  <2>2. /\ Turning(p, client, core) /\ q \in Attempted /\ Holds(q, core)
        /\ q.kind = "is_connected" <=> core.conn = "failed"
    BY <1>2, <1>4, <2>1 DEF Turning
  <2>3. q.kind \in ConnectKinds => q.arg \in BOOLEAN
    BY <2>2 DEF Attempted, ConnectKinds
  <2>4. CASE q.kind = "open_session"
    <3>1. OpenSessionTurn(p, q.arg, client, core) /\ q.arg \in BOOLEAN /\ core.conn # "failed"
      BY <1>5, <2>2, <2>3, <2>4 DEF Wake, ConnectKinds
    <3> QED BY <2>2, <3>1, OpenSessionTurnKeeps
  <2>5. CASE q.kind = "is_session_ready"
    <3>1. SessionReadyTurn(p, q.arg, client, core) /\ q.arg \in BOOLEAN /\ core.conn # "failed"
      BY <1>5, <2>2, <2>3, <2>5 DEF Wake, ConnectKinds
    <3> QED BY <2>2, <3>1, SessionReadyTurnKeeps
  <2>6. CASE q.kind \notin ConnectKinds
    <3>1. SessionTurn(p, q) /\ core.conn # "failed"
      BY <1>5, <2>2, <2>6 DEF Wake, ConnectKinds
    <3> QED BY <1>4, <2>1, <2>2, <2>6, <3>1, SessionTurnKeeps
  <2>7. CASE q.kind = "is_connected"
    <3>1. ConnectedTurn(p, q.arg, client, core) /\ q.arg \in BOOLEAN
      BY <1>5, <2>3, <2>7 DEF Wake, ConnectKinds
    <3> QED BY <2>2, <3>1, ConnectedTurnKeeps
  <2> QED BY <2>4, <2>5, <2>6, <2>7 DEF ConnectKinds
<1>6. CASE Interrupt(p, e)
  <2> DEFINE x == [client EXCEPT !.waiters = @ \ {p}]
  <2>1. task[p].pc = "wait"
    BY <1>6 DEF Interrupt
  <2>2. /\ ConnectFails(p, e, x, core) \/ Raise(p, e, x, core)
        /\ task[p].op.kind = "is_connected" => ConnectFails(p, e, x, core)
    BY <1>6 DEF Interrupt, ConnectKinds
  <2>3. /\ x \in ClientStates /\ x.core = client.core /\ x.closed = client.closed
        /\ x.transport = client.transport /\ x.was_connected = client.was_connected
        /\ x.timer = client.timer /\ x.waiters = client.waiters \ {p}
    BY <1>1 DEF ClientStates
  <2> HIDE DEF x
  <2>4. Settled(x, core)
    BY <1>1, <2>3, SettledSame
  <2>5. \A i : Sleeps(i, client, core) => Sleeps(i, x, core)
    BY <2>3 DEF Sleeps
  <2>6. Good(p, x, core) /\ p \notin x.waiters
    BY <1>2, <2>3, <2>4, <2>5 DEF Good
  <2>7. e \in Results
    BY ResultsFacts
  <2>8. CASE Raise(p, e, x, core) /\ task[p].op.kind # "is_connected"
    <3>1. Awaited(p, x, core)
      BY <1>4, <2>1, <2>8 DEF Awaited
    <3> QED BY <1>2, <2>6, <2>7, <2>8, <3>1, RaiseKeeps
  <2>9. CASE ConnectFails(p, e, x, core)
    <3>1. HandlesKept(core, core) /\ (x.closed => x.waiters = {})
      BY <1>2, <2>3 DEF HandlesKept
    <3> QED BY <1>1, <1>2, <2>3, <2>4, <2>7, <2>9, <3>1, ConnectFailsKeeps
  <2> QED BY <2>2, <2>8, <2>9
<1> QED BY <1>3, <1>5, <1>6

-----------------------------------------------------------------------------
(* The stages of connect().                                                *)

\* A stage before start(): the task p moves on and the socket may change.
LEMMA StageKeeps ==
    ASSUME Inv, NEW p \in Tasks, NEW x \in ClientStates, NEW pc \in {"resolve", "endpoint", "opened"},
           NEW named \in BOOLEAN,
           x.closed = client.closed, x.transport = client.transport, x.timer = client.timer,
           x.was_connected = client.was_connected, x.waiters = client.waiters,
           client.core => x.core, core.conn = "none", p \notin client.waiters,
           pc = "resolve" <=> ~x.core,
           \A q \in Tasks \ {p} : task[q].pc \notin {"resolve", "endpoint", "opened"},
           client' = x, core' = core, got' = got, Stage(p, pc, named)
    PROVE  Inv'
<1> DEFINE t == [pc |-> pc, op |-> ConnectOp("is_connected", named), res |-> "none"]
<1>1. task \in [Tasks -> TaskStates] /\ Asleep /\ Settled(client, core)
  BY DEF Inv, TypeOK
<1>2. t \in TaskStates /\ t.pc = pc
  BY TaskTypes DEF TaskStates, Results, ConnectKinds
<1>3. task' = [task EXCEPT ![p] = t]
  BY DEF Stage
<1> HIDE DEF t
<1>4. task' \in [Tasks -> TaskStates] /\ \A q \in Tasks : task'[q] = IF q = p THEN t ELSE task[q]
  BY <1>1, <1>2, <1>3
<1>5. Settled(x, core)
  BY <1>1 DEF Settled, Tended
<1>6. TypeOK' /\ ReadyIsLive(core)' /\ Accounted(got, core)' /\ Settled(client, core)'
  BY <1>4, <1>5 DEF Inv, TypeOK
<1>7. OneConnect'
  <2>1. \A q \in Tasks : task'[q].pc \in {"resolve", "endpoint", "opened"} => q = p
    BY <1>4
  <2> QED BY <1>2, <1>4, <2>1 DEF OneConnect
<1>8. Asleep'
  <2>1. \A q \in Tasks : task[q].pc # "wait"
    BY <1>1 DEF Asleep
  <2>2. client.waiters = {}
    BY <1>1 DEF Asleep, Sleeps
  <2>3. \A q \in Tasks : task'[q].pc # "wait"
    BY <1>2, <1>4, <2>1
  <2> QED BY <2>2, <2>3 DEF Asleep
<1>9. FailureAwaited'
  BY DEF FailureAwaited
<1> QED BY <1>6, <1>7, <1>8, <1>9 DEF Inv

\* The stages of connect() before start().
LEMMA ConnectStagesKeepInv ==
    ASSUME Inv, NEW p \in Tasks, NEW named \in BOOLEAN, NEW e \in {"OSError", "RuntimeError", "CancelledError"},
           \/ ConnectCall(p, named) \/ Resolved(p) \/ ConnectAborted(p, e)
           \/ EndpointMade(p) \/ EndpointCancelled(p)
    PROVE  Inv'
<1>1. /\ client \in ClientStates /\ OneConnect /\ Asleep /\ Settled(client, core)
      /\ task \in [Tasks -> TaskStates]
  BY DEF Inv, TypeOK
<1>2. /\ Good(p, client, core) /\ Accounted(got, core)
      /\ core.conn = "none" \/ Alone(p)
  BY GoodNow
<1>3. p \notin client.waiters
  BY <1>1 DEF Asleep, ConnectCall, Resolved, ConnectAborted, EndpointMade, EndpointCancelled
<1>4. task[p].pc \in {"resolve", "endpoint", "opened"} =>
        \A q \in Tasks \ {p} : task[q].pc \notin {"resolve", "endpoint", "opened"}
  BY <1>1 DEF OneConnect
<1>5. task[p].op.arg \in BOOLEAN
  BY <1>1 DEF TaskStates, Attempted
<1>6. CASE ConnectCall(p, named)
  <2>1. /\ ~client.core /\ core.conn = "none" /\ client' = client /\ core' = core /\ got' = got
        /\ Stage(p, "resolve", named) /\ \A q \in Tasks : task[q].pc = "idle"
    BY <1>1, <1>6 DEF ConnectCall, Settled
  <2> QED BY <1>1, <1>3, <2>1, StageKeeps
<1>7. CASE Resolved(p)
  <2> DEFINE x == [client EXCEPT !.core = TRUE]
  <2>1. /\ ~client.core /\ core.conn = "none" /\ client' = x /\ core' = core /\ got' = got
        /\ Stage(p, "endpoint", task[p].op.arg) /\ task[p].pc = "resolve"
    BY <1>1, <1>7 DEF Resolved, OneConnect, Settled
  <2>2. /\ x \in ClientStates /\ x.core = TRUE /\ x.closed = client.closed
        /\ x.transport = client.transport /\ x.was_connected = client.was_connected
        /\ x.timer = client.timer /\ x.waiters = client.waiters
    BY <1>1 DEF ClientStates
  <2> HIDE DEF x
  <2> QED BY <1>3, <1>4, <1>5, <2>1, <2>2, StageKeeps
<1>8. CASE ConnectAborted(p, e)
  <2>1. Raise(p, e, client, core) /\ e \in Results
    BY <1>8, ResultsFacts DEF ConnectAborted
  <2>2. Awaited(p, client, core)
    BY <1>1, <1>8 DEF Awaited, ConnectAborted, OneConnect, Settled
  <2> QED BY <1>2, <1>3, <2>1, <2>2, RaiseKeeps
<1>9. CASE EndpointMade(p)
  <2> DEFINE x == [client EXCEPT !.sock = "open"]
  <2>1. /\ client.core /\ core.conn = "none" /\ client' = x /\ core' = core /\ got' = got
        /\ Stage(p, "opened", task[p].op.arg) /\ task[p].pc = "endpoint"
    BY <1>1, <1>9 DEF EndpointMade, OneConnect
  <2>2. /\ x \in ClientStates /\ x.core = client.core /\ x.closed = client.closed
        /\ x.transport = client.transport /\ x.was_connected = client.was_connected
        /\ x.timer = client.timer /\ x.waiters = client.waiters
    BY <1>1 DEF ClientStates
  <2> HIDE DEF x
  <2> QED BY <1>3, <1>4, <1>5, <2>1, <2>2, StageKeeps
<1>10. CASE EndpointCancelled(p)
  <2> DEFINE x == [client EXCEPT !.sock = IF @ = "open" THEN "closing" ELSE @]
  <2>1. Raise(p, "CancelledError", x, core)
    BY <1>10 DEF EndpointCancelled
  <2>2. /\ x \in ClientStates /\ x.core = client.core /\ x.closed = client.closed
        /\ x.transport = client.transport /\ x.was_connected = client.was_connected
        /\ x.timer = client.timer /\ x.waiters = client.waiters
    BY <1>1 DEF ClientStates
  <2> HIDE DEF x
  <2>3. Settled(x, core)
    BY <1>1, <2>2, SettledSame
  <2>4. \A i : Sleeps(i, client, core) => Sleeps(i, x, core)
    BY <2>2 DEF Sleeps
  <2>5. Good(p, x, core) /\ Awaited(p, x, core)
    BY <1>1, <1>2, <1>10, <2>2, <2>3, <2>4 DEF Good, Awaited, EndpointCancelled, OneConnect
  <2> QED BY <1>2, <1>3, <2>1, <2>2, <2>5, ResultsFacts, RaiseKeeps
<1> QED BY <1>6, <1>7, <1>8, <1>9, <1>10

\* start() runs once, in connect(), on a core that was never started.
LEMMA ConnectStartKeepsInv ==
    ASSUME Inv, NEW p \in Tasks, ConnectStart(p)
    PROVE  Inv'
<1> DEFINE x == [client EXCEPT !.transport = TRUE]
           named == task[p].op.arg
<1>1. /\ client \in ClientStates /\ core \in WtClients /\ OneConnect /\ Asleep
      /\ Settled(client, core) /\ Accounted(got, core) /\ task \in [Tasks -> TaskStates]
  BY DEF Inv, TypeOK
<1>2. /\ task[p].pc = "opened" /\ client.core /\ core.conn = "none" /\ Blank(core)
      /\ ~client.was_connected /\ ~client.timer /\ core.send_queue = <<>> /\ Tended(client, core)
  BY <1>1 DEF ConnectStart, OneConnect, Settled
<1>3. Alone(p)
  BY <1>1, <1>2 DEF OneConnect, Alone, BeforeStart
<1>4. client.waiters = {}
  BY <1>1, <1>2 DEF Asleep, Sleeps
<1>5. /\ x \in ClientStates /\ x.core = client.core /\ x.closed = client.closed
      /\ x.transport = TRUE /\ x.was_connected = client.was_connected
      /\ x.timer = client.timer /\ x.waiters = {}
  BY <1>1, <1>4 DEF ClientStates
<1>6. PICK r \in py_start(core) : ConnectedTurn(p, named, Process(x, r.c).x, Process(x, r.c).c)
  BY DEF ConnectStart
<1>7. /\ r.c \in WtClients /\ r.c.conn \in {"open", "failed"} /\ r.c.last_error = Q!NoError
      /\ Blank(r.c) /\ ~r.c.close_sent /\ (r.c.dangling => core.dangling \/ core.wt = "freed")
  BY <1>1, <1>2, <1>6, StartFacts
<1>8. ReadyIsLive(r.c) /\ Accounted(got, r.c)
  BY <1>1, <1>2, <1>7 DEF Blank, ReadyIsLive, Accounted, Ledger
<1>9. Tended(x, r.c)
  BY <1>2, <1>5, <1>7 DEF Tended, Blank
<1>10. named \in BOOLEAN
  BY <1>1 DEF TaskStates, Attempted
<1> HIDE DEF x, named
<1> DEFINE a == Process(x, r.c)
<1>11. ConnectedTurn(p, named, a.x, a.c)
  BY <1>6
<1>12. CASE client.closed
  <2>1. a.x = x /\ a.c = r.c
    BY <1>5, <1>12 DEF Process
  <2> HIDE DEF a
  <2>2. Settled(x, r.c)
    BY <1>2, <1>5, <1>7, <1>9, <1>12 DEF Settled
  <2>3. Good(p, x, r.c)
    BY <1>2, <1>5, <1>7, <1>8, <2>2 DEF Good
  <2>4. Turning(p, x, r.c)
    BY <1>2, <1>3, <1>5, <1>7, <1>8, <2>3 DEF Turning
  <2> QED BY <1>10, <1>11, <2>1, <2>4, ConnectedTurnKeeps
<1>13. CASE ~client.closed
  <2>1. /\ a.x \in ClientStates /\ a.c \in WtClients /\ ReadyIsLive(a.c) /\ Calm(r.c, a.c)
        /\ Settled(a.x, a.c) /\ a.x.core /\ a.x.waiters = {}
    BY <1>2, <1>5, <1>7, <1>8, <1>9, <1>13, ProcessSettles
  <2> HIDE DEF a
  <2>2. a.c.conn \in {"open", "failed"} /\ Accounted(got, a.c)
    BY <1>7, <1>8, <2>1, AccountedKept DEF Calm
  <2>3. a.x.core = client.core
    BY <1>1, <1>2, <2>1 DEF ClientStates
  <2>4. Good(p, a.x, a.c)
    BY <1>2, <2>1, <2>2, <2>3 DEF Good
  <2>5. Turning(p, a.x, a.c)
    BY <1>3, <2>1, <2>2, <2>4 DEF Turning
  <2> QED BY <1>10, <1>11, <2>5, ConnectedTurnKeeps
<1> QED BY <1>12, <1>13

-----------------------------------------------------------------------------
(* The callbacks, close() and the methods without an await.                *)

\* Where the client is before a callback that it does not ignore.
LEMMA Awake ==
    ASSUME Inv, client.core, ~client.closed
    PROVE  /\ client \in ClientStates /\ core \in WtClients /\ ReadyIsLive(core) /\ Settled(client, core)
           /\ Accounted(got, core) /\ got \in Seq(1..MaxDatagrams)
           /\ core.conn \in {"none", "open", "failed"}
           /\ core.conn = "open" => client.transport /\ client.was_connected
           /\ core.conn = "failed" => client.transport /\ ~client.was_connected /\ ~client.timer /\ Blank(core)
           /\ core.conn = "none" => client.waiters = {} /\ ~client.timer
           /\ Tended(client, core)
<1>1. /\ client \in ClientStates /\ core \in WtClients /\ ReadyIsLive(core) /\ Settled(client, core)
      /\ Accounted(got, core) /\ got \in Seq(1..MaxDatagrams) /\ Asleep
  BY DEF Inv, TypeOK
<1>2. core.conn \in {"none", "open", "closed", "failed"}
  BY <1>1 DEF WtClients
<1>3. core.conn = "none" => client.waiters = {}
  BY <1>1 DEF Asleep, Sleeps
<1> QED BY <1>1, <1>2, <1>3 DEF Settled

\* A call on a connection, then _process.
LEMMA CallbackKeeps ==
    ASSUME Inv, client.core, ~client.closed, core.conn # "none", NEW d \in WtClients, ReadyIsLive(d),
           HandlesKept(core, d), Accounted(got, d), Tended(client, d), d.conn # "none",
           d.conn = "failed" <=> core.conn = "failed", core.conn = "failed" => Calm(core, d),
           client' = Process(client, d).x, core' = Process(client, d).c, task' = task, got' = got
    PROVE  Inv'
<1> DEFINE a == Process(client, d)
<1>1. /\ client \in ClientStates /\ client.transport
      /\ core.conn # "failed" => client.was_connected
      /\ core.conn = "failed" => ~client.was_connected /\ Blank(core)
  BY Awake
<1>2. \/ d.conn \in {"open", "closed"} /\ client.was_connected
      \/ d.conn = "failed" /\ ~client.was_connected /\ Blank(d)
  BY <1>1 DEF WtClients, Blank, Calm
<1>3. /\ a.x \in ClientStates /\ a.c \in WtClients /\ ReadyIsLive(a.c) /\ Calm(d, a.c)
      /\ Settled(a.x, a.c) /\ a.x.core /\ a.x.waiters = {}
  BY <1>1, <1>2, ProcessSettles
<1>4. client' = a.x /\ core' = a.c
  OBVIOUS
<1> HIDE DEF a
<1>5. Accounted(got, a.c) /\ HandlesKept(core, a.c)
  BY <1>3, AccountedKept DEF Calm, HandlesKept
<1>6. a.x.core = client.core
  BY <1>1, <1>3 DEF ClientStates
<1>7. a.c.conn # "none" /\ (a.c.conn = "failed" <=> core.conn = "failed")
  BY <1>2, <1>3 DEF Calm
<1> QED BY <1>3, <1>4, <1>5, <1>6, <1>7, EventKeeps

\* datagram_received and the timer.
LEMMA EventsKeepInv ==
    ASSUME Inv, NEW empty \in BOOLEAN, OnReceive(empty) \/ OnTimeout
    PROVE  Inv'
<1>1. client.core /\ ~client.closed /\ task' = task /\ got' = got
  BY DEF OnReceive, OnTimeout
<1>2. /\ client \in ClientStates /\ core \in WtClients /\ ReadyIsLive(core) /\ Settled(client, core)
      /\ Accounted(got, core) /\ got \in Seq(1..MaxDatagrams)
      /\ core.conn = "none" => client.waiters = {} /\ ~client.timer
      /\ Tended(client, core)
  BY <1>1, Awake
<1>3. PICK r \in py_receive_packet(core, empty) \cup py_handle_timeout(core) :
        client' = Processed(r).x /\ core' = Processed(r).c /\ (OnTimeout \/ r \in py_receive_packet(core, empty))
  BY DEF OnReceive, OnTimeout
<1>4. Evolves(core, r.c)
  BY <1>2, <1>3, ReceivePacketFacts, HandleTimeoutFacts
<1>5. /\ r.c \in WtClients /\ ReadyIsLive(r.c) /\ HandlesKept(core, r.c) /\ Accounted(got, r.c)
      /\ core.conn \in {"none", "failed"} => Calm(core, r.c) /\ r.c.send_queue = core.send_queue
      /\ r.c.conn = "none" => core.conn = "none"
      /\ r.c.conn = "failed" <=> core.conn = "failed"
  BY <1>2, <1>4, AccountedGrows DEF Evolves
<1>6. Tended(client, r.c)
  BY <1>1, <1>2, <1>4 DEF Tended, Evolves, Unended
<1>7. CASE r.ret # "value"
  <2>1. client' = client /\ core' = r.c
    BY <1>3, <1>7 DEF Processed
  <2>2. r \in py_receive_packet(core, empty)
    BY <1>2, <1>3, <1>7, HandleTimeoutFacts
  <2>3. Calm(core, r.c) /\ r.c.send_queue = core.send_queue
    BY <1>2, <1>7, <2>2, ReceivePacketFacts
  <2>4. Settled(client, r.c) /\ r.c.conn = core.conn
    <3>1. Sends(core, r.c)
      BY <2>3 DEF Sends
    <3> QED BY <1>2, <2>3, <3>1, CalmSettled DEF Calm
  <2>5. ASSUME NEW q \in client.waiters PROVE task[q].pc = "wait" /\ Sleeps(task[q].op, client, r.c)
    <3>1. /\ q \in Tasks /\ task[q].pc = "wait" /\ Sleeps(task[q].op, client, core)
      BY <1>2, <2>5 DEF Inv, Asleep, ClientStates
    <3>2. Holds(task[q].op, core) /\ task[q].op \in Attempted
      BY <3>1 DEF Inv, Asleep, TypeOK, TaskStates
    <3> QED BY <1>2, <2>3, <3>1, <3>2, CalmSleeps
  <2> QED BY <1>1, <1>2, <1>5, <2>1, <2>4, <2>5, EventKeeps
<1>8. CASE r.ret = "value" /\ core.conn # "none"
  <2>1. client' = Process(client, r.c).x /\ core' = Process(client, r.c).c
    BY <1>3, <1>8 DEF Processed
  <2>2. r.c.conn # "none"
    BY <1>5, <1>8
  <2> QED BY <1>1, <1>5, <1>6, <1>8, <2>1, <2>2, CallbackKeeps
<1>9. CASE r.ret = "value" /\ core.conn = "none"
  <2> DEFINE a == Process(client, r.c)
  <2>1. client' = a.x /\ core' = a.c
    BY <1>3, <1>9 DEF Processed
  <2>2. r \in py_receive_packet(core, empty)
    BY <1>2, <1>3, <1>9 DEF OnTimeout
  <2>3. r.c.last_error = Q!NoError
    BY <1>2, <1>9, <2>2, ReceivePacketFacts
  <2>4. /\ a.x \in ClientStates /\ a.c \in WtClients /\ Calm(r.c, a.c)
        /\ a.x.core /\ a.x.transport = client.transport /\ a.x.waiters = {}
        /\ a.c.send_queue = IF client.transport THEN <<>> ELSE r.c.send_queue
        /\ r.c.conn # "open" => ~a.x.timer /\ a.x.was_connected = client.was_connected
    BY <1>1, <1>2, <1>5, ProcessFacts
  <2> HIDE DEF a
  <2>5. Calm(core, a.c)
    BY <1>5, <1>9, <2>4, CalmTransitive
  <2>6. a.c.conn = "none" /\ r.c.conn = "none" /\ ReadyIsLive(a.c) /\ HandlesKept(core, a.c)
    BY <1>2, <1>5, <1>9, <2>5 DEF Calm, ReadyIsLive, HandlesKept
  <2>7. Accounted(got, a.c)
    BY <1>2, <2>5, AccountedKept
  <2>8. Tended(a.x, a.c)
    BY <1>1, <1>2, <2>5 DEF Tended, Calm
  <2>9. /\ Blank(core) /\ core.send_queue = <<>> /\ ~client.transport /\ ~client.was_connected
    BY <1>2, <1>9 DEF Settled
  <2>10. Blank(a.c) /\ a.c.send_queue = <<>>
    BY <1>5, <1>9, <2>4, <2>5, <2>9 DEF Blank, Calm
  <2>11. Settled(a.x, a.c)
    BY <2>4, <2>6, <2>8, <2>9, <2>10 DEF Settled
  <2>12. a.x.core = client.core
    BY <1>1, <1>2, <2>4 DEF ClientStates
  <2> QED BY <1>1, <1>9, <2>1, <2>4, <2>6, <2>7, <2>11, <2>12, EventKeeps
<1> QED BY <1>2, <1>7, <1>8, <1>9

\* The socket stops reading, or is lost.
LEMMA SocketKeepsInv ==
    ASSUME Inv, TransportFails \/ OnConnectionLost
    PROVE  Inv'
<1>1. /\ client \in ClientStates /\ core \in WtClients /\ ReadyIsLive(core) /\ Settled(client, core)
      /\ Accounted(got, core) /\ Asleep /\ HandlesKept(core, core)
  BY DEF Inv, TypeOK, HandlesKept
<1>2. ASSUME NEW s \in {"closing", "closed"}
      PROVE  LET x == [client EXCEPT !.sock = s]
             IN /\ x \in ClientStates /\ x.core = client.core /\ x.closed = client.closed
                /\ x.waiters = client.waiters /\ Settled(x, core)
                /\ \A i : Sleeps(i, client, core) => Sleeps(i, x, core)
  <2> DEFINE x == [client EXCEPT !.sock = s]
  <2>1. /\ x \in ClientStates /\ x.core = client.core /\ x.closed = client.closed
        /\ x.transport = client.transport /\ x.was_connected = client.was_connected
        /\ x.timer = client.timer /\ x.waiters = client.waiters
    BY <1>1 DEF ClientStates
  <2> HIDE DEF x
  <2>2. Settled(x, core)
    BY <1>1, <2>1, SettledSame
  <2>3. \A i : Sleeps(i, client, core) => Sleeps(i, x, core)
    BY <2>1 DEF Sleeps
  <2> QED BY <2>1, <2>2, <2>3 DEF x
<1>3. CASE TransportFails
  <2> DEFINE x == [client EXCEPT !.sock = "closing"]
  <2>1. client' = x /\ core' = core /\ task' = task /\ got' = got
    BY <1>3 DEF TransportFails
  <2>2. /\ x \in ClientStates /\ x.core = client.core /\ x.closed = client.closed
        /\ x.waiters = client.waiters /\ Settled(x, core)
        /\ \A i : Sleeps(i, client, core) => Sleeps(i, x, core)
    BY <1>2
  <2> HIDE DEF x
  <2>3. \A q \in x.waiters : task[q].pc = "wait" /\ Sleeps(task[q].op, x, core)
    BY <1>1, <2>2 DEF Asleep
  <2> QED BY <1>1, <2>1, <2>2, <2>3, EventKeeps
<1>4. CASE OnConnectionLost
  <2> DEFINE x == [client EXCEPT !.sock = "closed"]
             y == Teardown(x)
  <2>1. client' = y /\ core' = core /\ task' = task /\ got' = got
    BY <1>4 DEF OnConnectionLost
  <2>2. /\ x \in ClientStates /\ x.core = client.core /\ x.closed = client.closed
        /\ x.waiters = client.waiters /\ Settled(x, core)
    BY <1>2
  <2> HIDE DEF x
  <2>3. /\ y \in ClientStates /\ y.core = x.core /\ y.closed /\ Settled(y, core)
        /\ y.waiters = IF x.closed THEN x.waiters ELSE {}
    BY <2>2, TeardownFacts, TeardownSettles
  <2> HIDE DEF y
  <2>4. y.waiters = {}
    BY <1>1, <2>2, <2>3 DEF Asleep, Sleeps
  <2> QED BY <1>1, <2>1, <2>2, <2>3, <2>4, EventKeeps
<1> QED BY <1>3, <1>4

\* close() of the application.
LEMMA AppCloseKeepsInv ==
    ASSUME Inv, AppClose
    PROVE  Inv'
<1> DEFINE y == Teardown(client)
           b == Close(core)
           d == IF client.core THEN DrainSend(client, b) ELSE core
<1>1. /\ client \in ClientStates /\ core \in WtClients /\ ReadyIsLive(core) /\ Settled(client, core)
      /\ Accounted(got, core) /\ ~client.closed /\ HandlesKept(core, core)
  BY DEF Inv, TypeOK, AppClose, HandlesKept
<1>2. client' = y /\ core' = d /\ task' = task /\ got' = got
  BY DEF AppClose
<1>3. /\ y \in ClientStates /\ y.closed /\ y.core = client.core /\ y.transport = client.transport
      /\ y.was_connected = client.was_connected /\ y.waiters = {} /\ (y.timer => client.timer)
  BY <1>1, TeardownFacts
<1>4. CASE ~client.core
  <2>1. d = core
    BY <1>4
  <2>2. Settled(y, core)
    BY <1>1, TeardownSettles
  <2> HIDE DEF y, d
  <2> QED BY <1>1, <1>2, <1>3, <2>1, <2>2, EventKeeps
<1>5. CASE client.core
  <2>1. /\ b \in WtClients /\ ReadyIsLive(b) /\ b.wt = core.wt /\ b.streams = core.streams
        /\ b.arrived = core.arrived /\ QueueKept(core, b) /\ b.session_ready = core.session_ready
        /\ b.dangling => core.dangling \/ core.wt = "freed"
        /\ core.conn = "none" => /\ b.conn = "none"
                                 /\ core.wt = "null" => b.send_queue = core.send_queue
        /\ b.conn = "none" => core.conn = "none"
        /\ b.conn = "failed" <=> core.conn = "failed"
        /\ b.close_sent => core.close_sent \/ core.wt = "live"
    BY <1>1, CloseFacts
  <2>2. d = DrainSend(client, b)
    BY <1>5
  <2> HIDE DEF b, d, y
  <2>3. /\ d \in WtClients /\ Calm(b, d)
        /\ d.send_queue = IF client.transport THEN <<>> ELSE b.send_queue
    BY <1>1, <2>1, <2>2, DrainSendFacts
  <2>4. /\ ReadyIsLive(d) /\ HandlesKept(core, d) /\ d.wt = core.wt /\ d.streams = core.streams
        /\ d.arrived = core.arrived /\ d.received_datagrams = core.received_datagrams
        /\ d.session_ready = core.session_ready /\ (d.dangling => core.dangling \/ core.wt = "freed")
        /\ d.conn = "none" <=> core.conn = "none"
        /\ d.conn = "failed" <=> core.conn = "failed"
        /\ d.close_sent => core.close_sent \/ core.wt = "live"
    BY <2>1, <2>3 DEF Calm, ReadyIsLive, HandlesKept, QueueKept
  <2>5. Accounted(got, d)
    BY <1>1, <2>4 DEF Accounted, Ledger
  <2>6. Tended(y, d)
    BY <1>1, <1>3, <2>4 DEF Settled, Tended
  <2>7. /\ d.conn = "none" => /\ Blank(d) /\ d.send_queue = <<>>
                              /\ ~y.transport /\ ~y.was_connected /\ ~y.timer
        /\ d.conn = "failed" => Blank(d)
    BY <1>1, <1>3, <2>1, <2>3, <2>4 DEF Settled, Blank
  <2>8. y.transport => NoClose(d)
    BY <1>3, <2>3, NoCloseFacts
  <2>9. y.was_connected => y.transport
    BY <1>1, <1>3 DEF Settled
  <2>10. Settled(y, d)
    BY <1>3, <1>5, <2>6, <2>7, <2>8, <2>9 DEF Settled
  <2> QED BY <1>1, <1>2, <1>3, <2>3, <2>4, <2>5, <2>10, EventKeeps
<1> QED BY <1>4, <1>5

\* A step of the core that lets nothing new happen, without _process.
LEMMA QuietKeeps ==
    ASSUME Inv, NEW d \in WtClients, SameSession(core, d), HandlesKept(core, d), Sends(core, d),
           NothingNew(core, d), core.session_ready \/ (Calm(core, d) /\ d.send_queue = core.send_queue),
           QueueKept(core, d), client' = client, core' = d, task' = task, got' = got
    PROVE  Inv'
<1>1. /\ client \in ClientStates /\ core \in WtClients /\ ReadyIsLive(core) /\ Settled(client, core)
      /\ Accounted(got, core) /\ Asleep /\ task \in [Tasks -> TaskStates]
  BY DEF Inv, TypeOK
<1>2. core.conn \in {"none", "failed"} => Calm(core, d) /\ d.send_queue = core.send_queue
  BY <1>1 DEF ReadyIsLive
<1>3. Settled(client, d) /\ Accounted(got, d)
  BY <1>1, <1>2, SettledKept, AccountedKept
<1>4. ReadyIsLive(d) /\ d.conn = core.conn
  BY <1>1 DEF ReadyIsLive, SameSession
<1>5. ASSUME NEW q \in client.waiters PROVE task[q].pc = "wait" /\ Sleeps(task[q].op, client, d)
  <2>1. q \in Tasks /\ task[q].pc = "wait" /\ Sleeps(task[q].op, client, core)
    BY <1>1, <1>5 DEF Asleep, ClientStates
  <2>2. Holds(task[q].op, core) /\ task[q].op \in Attempted
    BY <1>1, <2>1 DEF Asleep, TaskStates
  <2> QED BY <1>1, <2>1, <2>2, SleepsKept
<1> QED BY <1>1, <1>3, <1>4, <1>5, EventKeeps

\* reset() and stop_sending() of a stream.
LEMMA StreamControlKeepsInv ==
    ASSUME Inv, NEW id \in StreamIds, StreamControl(id)
    PROVE  Inv'
<1>1. /\ client \in ClientStates /\ core \in WtClients /\ ReadyIsLive(core) /\ Settled(client, core)
      /\ Accounted(got, core)
  BY DEF Inv, TypeOK
<1>2. /\ task' = task /\ got' = got /\ core.streams[id].phase \in {"open", "gone"}
  BY DEF StreamControl, HasHandle
<1>3. core.conn \notin {"none", "failed"} /\ client.core
  BY <1>1, <1>2 DEF Settled, Blank
<1>4. PICK r \in py_reset(core, id) \cup py_stop_sending(core, id) :
        client' = Processed(r).x /\ core' = Processed(r).c
  BY DEF StreamControl
<1>5. PICK out \in ResetStream(core, id) \cup StopSending(core, id) : r = Returned(out)
  BY <1>4 DEF py_reset, py_stop_sending
<1>6. Keeps(core, out) /\ NothingNew(core, out.c)
  BY <1>1, ControlFacts
<1>7. r.c = out.c /\ (r.ret = "value" <=> out.st = "OK")
  BY <1>5, <1>6, ReturnedFacts DEF Keeps
<1>8. /\ r.c \in WtClients /\ SameSession(core, r.c) /\ QueueKept(core, r.c) /\ HandlesKept(core, r.c)
      /\ Sends(core, r.c) /\ NothingNew(core, r.c)
      /\ core.session_ready \/ (Calm(core, r.c) /\ r.c.send_queue = core.send_queue)
  BY <1>6, <1>7 DEF Keeps
<1>9. CASE r.ret # "value" \/ client.closed
  <2>1. client' = client /\ core' = r.c
    BY <1>4, <1>9 DEF Processed, Process
  <2> QED BY <1>2, <1>8, <2>1, QuietKeeps
<1>10. CASE r.ret = "value" /\ ~client.closed
  <2>1. client' = Process(client, r.c).x /\ core' = Process(client, r.c).c
    BY <1>4, <1>10 DEF Processed
  <2>2. core.conn = "open" /\ Tended(client, core)
    BY <1>1, <1>3, <1>10 DEF Settled, WtClients
  <2>3. ReadyIsLive(r.c) /\ r.c.conn = "open" /\ Tended(client, r.c)
    BY <1>1, <1>8, <2>2 DEF ReadyIsLive, SameSession, Tended
  <2>4. Accounted(got, r.c)
    BY <1>1, <1>8, AccountedKept
  <2> QED BY <1>2, <1>3, <1>8, <1>10, <2>1, <2>2, <2>3, <2>4, CallbackKeeps
<1> QED BY <1>9, <1>10

\* The queries.
LEMMA QueryKeepsInv ==
    ASSUME Inv, Query
    PROVE  Inv'
<1>1. core \in WtClients
  BY DEF Inv, TypeOK
<1> DEFINE d == Deref(core)
<1>2. client' = client /\ core' = d /\ task' = task /\ got' = got
  BY DEF Query, Inspect
<1>3. d \in WtClients /\ d.send_queue = core.send_queue /\ Calm(core, d)
  BY <1>1, DerefFacts
<1> HIDE DEF d
<1>4. SameSession(core, d) /\ HandlesKept(core, d) /\ Sends(core, d) /\ NothingNew(core, d) /\ QueueKept(core, d)
  BY <1>3, CalmNothingNew DEF Calm, SameSession, HandlesKept, Sends, QueueKept
<1> QED BY <1>2, <1>3, <1>4, QuietKeeps

-----------------------------------------------------------------------------
\* Every action keeps the invariant.
LEMMA InvInductive == Inv /\ [Next]_vars => Inv'
<1> SUFFICES ASSUME Inv, [Next]_vars PROVE Inv'
  OBVIOUS
<1>0. /\ \E o : o \in Attempted
      /\ TRUE \in BOOLEAN /\ "CancelledError" \in {"TimeoutError", "CancelledError"}
      /\ "CancelledError" \in {"OSError", "RuntimeError", "CancelledError"}
  BY TaskTypes DEF ConnectKinds
<1>1. ASSUME NEW p \in Tasks, NEW o \in Attempted, Call(p, o) PROVE Inv'
  BY <1>0, <1>1, WaitsKeepInv
<1>2. ASSUME NEW p \in Tasks, Wake(p) PROVE Inv'
  BY <1>0, <1>2, WaitsKeepInv
<1>3. ASSUME NEW p \in Tasks, NEW e \in {"TimeoutError", "CancelledError"}, Interrupt(p, e) PROVE Inv'
  BY <1>0, <1>3, WaitsKeepInv
<1>4. ASSUME NEW p \in Tasks, Resolved(p) \/ EndpointMade(p) \/ EndpointCancelled(p) PROVE Inv'
  BY <1>0, <1>4, ConnectStagesKeepInv
<1>5. ASSUME NEW p \in Tasks, NEW named \in BOOLEAN, ConnectCall(p, named) PROVE Inv'
  BY <1>0, <1>5, ConnectStagesKeepInv
<1>6. ASSUME NEW p \in Tasks, NEW e \in {"OSError", "RuntimeError", "CancelledError"}, ConnectAborted(p, e)
      PROVE  Inv'
  BY <1>0, <1>6, ConnectStagesKeepInv
<1>7. ASSUME NEW p \in Tasks, ConnectStart(p) PROVE Inv'
  BY <1>7, ConnectStartKeepsInv
<1>8. ASSUME NEW empty \in BOOLEAN, OnReceive(empty) \/ OnTimeout PROVE Inv'
  BY <1>8, EventsKeepInv
<1>9. ASSUME TransportFails \/ OnConnectionLost PROVE Inv'
  BY <1>9, SocketKeepsInv
<1>10. ASSUME AppClose PROVE Inv'
  BY <1>10, AppCloseKeepsInv
<1>11. ASSUME NEW id \in StreamIds, StreamControl(id) PROVE Inv'
  BY <1>11, StreamControlKeepsInv
<1>12. ASSUME Query PROVE Inv'
  BY <1>12, QueryKeepsInv
<1>13. ASSUME UNCHANGED vars PROVE Inv'
  BY <1>13 DEF vars, Inv, TypeOK, OneConnect, Asleep, FailureAwaited
<1> QED BY <1>0, <1>1, <1>2, <1>3, <1>4, <1>5, <1>6, <1>7, <1>8, <1>9, <1>10, <1>11, <1>12, <1>13 DEF Next

\* A client that was just constructed satisfies it.
LEMMA InitInv == Init => Inv
<1> SUFFICES ASSUME Init PROVE Inv
  OBVIOUS
<1>1. /\ client.core = FALSE /\ client.transport = FALSE /\ client.timer = FALSE /\ client.closed = FALSE
      /\ client.waiters = {} /\ client.was_connected = FALSE /\ client \in ClientStates
  BY DEF Init, ClientStates
<1>2. core = FreshClient /\ task = [p \in Tasks |-> IdleTask("none")] /\ got = <<>>
  BY DEF Init
<1>3. /\ core \in WtClients /\ Blank(core) /\ core.conn = "none" /\ core.close_sent = FALSE
      /\ core.dangling = FALSE /\ core.send_queue = <<>>
  BY <1>2, FreshClientFacts
<1>4. ReadyIsLive(core) /\ Tended(client, core)
  BY <1>3 DEF Blank, ReadyIsLive, Tended
<1>5. Settled(client, core)
  BY <1>1, <1>3, <1>4 DEF Settled
<1>6. Accounted(got, core)
  BY <1>2, <1>3, LedgerBlank DEF Accounted, Blank
<1>7. IdleTask("none") \in TaskStates /\ IdleTask("none").pc = "idle"
  BY TaskTypes DEF Results
<1>8. task \in [Tasks -> TaskStates] /\ \A p \in Tasks : task[p].pc = "idle"
  BY <1>2, <1>7
<1>9. TypeOK
  BY <1>1, <1>2, <1>3, <1>8 DEF TypeOK
<1>10. OneConnect /\ Asleep /\ FailureAwaited
  BY <1>1, <1>3, <1>8 DEF OneConnect, Asleep, FailureAwaited
<1> QED BY <1>4, <1>5, <1>6, <1>9, <1>10 DEF Inv

\* The invariant holds in every state.
LEMMA Invariance == Spec => []Inv
BY InitInv, InvInductive, PTL DEF Spec

\* The types of the object, of its WebTransportClient and of the tasks are kept.
THEOREM WtTypeCorrect == Spec => []TypeOK
<1>1. Inv => TypeOK
  BY DEF Inv
<1> QED BY <1>1, Invariance, PTL

\* _process saw every end of the connection of an open client, though
\* receive_packet and handle_timeout swallow CLOSED; an end inside start(), which
\* start() does not report, is awaited by connect().
THEOREM WtDeathNeverMissed == Spec => []DeadConnectionDetected
<1>1. Inv => DeadConnectionDetected
  <2> SUFFICES ASSUME Inv, client.core, ~client.closed
               PROVE  /\ core.conn # "closed"
                      /\ core.conn = "failed" =>
                           \E p \in Tasks : task[p].pc = "wait" /\ task[p].op.kind = "is_connected"
    BY DEF DeadConnectionDetected
  <2>1. core.conn # "closed"
    BY DEF Inv, Settled
  <2>2. ASSUME core.conn = "failed"
        PROVE  \E p \in Tasks : task[p].pc = "wait" /\ task[p].op.kind = "is_connected"
    <3>1. PICK p \in Tasks : task[p].pc = "wait"
      BY <2>2 DEF Inv, FailureAwaited
    <3> QED BY <2>2, <3>1 DEF Inv, Asleep
  <2> QED BY <2>1, <2>2
<1> QED BY <1>1, Invariance, PTL

\* The datagrams of a session that was not freed are delivered once and in order,
\* the ones that came before the answer to the CONNECT request included.
THEOREM WtDatagramsDeliveredOnce == Spec => []DatagramsExactlyOnce
<1>1. Inv => DatagramsExactlyOnce
  BY DEF Inv, Accounted, Ledger, Numbers, DatagramsExactlyOnce
<1> QED BY <1>1, Invariance, PTL

\* Once the client was connected, what closes its session or its connection is
\* handed to the transport before _teardown.
THEOREM WtCloseReachesTransport == Spec => []NoCloseStranded
<1>1. Inv => NoCloseStranded
  BY DEF Inv, Settled, NoClose, NoCloseStranded
<1> QED BY <1>1, Invariance, PTL

\* Nobody sleeps in _wait on a closed client, or while the attempt would succeed,
\* or on a session that is over.
THEOREM WtNoWakeupIsLost == Spec => []NoLostWakeup
<1>1. Inv => NoLostWakeup
  <2> SUFFICES ASSUME Inv, NEW p \in client.waiters
               PROVE  /\ task[p].pc = "wait" /\ ~client.closed
                      /\ core.wt # "freed" =>
                           LET o == task[p].op IN
                           CASE o.kind = "is_connected" -> ~IsConnected(core)
                             [] o.kind = "open_session" ->
                                  \A r \in py_connect_session(core, o.arg) : r.ret = "None"
                             [] o.kind = "is_session_ready" -> \A r \in py_is_session_ready(core) : ~r.val
                             [] OTHER -> /\ core.session_ready
                                         /\ \A r \in Attempt(o, core) : r.ret # "value"
    BY DEF NoLostWakeup
  <2> DEFINE o == task[p].op
  <2>1. core \in WtClients /\ ReadyIsLive(core) /\ p \in Tasks
    BY DEF Inv, TypeOK, ClientStates
  <2>2. task[p].pc = "wait" /\ Sleeps(o, client, core) /\ o \in Attempted
    BY <2>1 DEF Inv, Asleep, TypeOK, TaskStates
  <2>3. o.kind = "open_session" => o.arg \in BOOLEAN
    BY <2>2 DEF Attempted, ConnectKinds
  <2> HIDE DEF o
  <2>4. ASSUME core.wt # "freed", o.kind = "open_session", NEW r \in py_connect_session(core, o.arg)
        PROVE  r.ret = "None"
    BY <2>1, <2>2, <2>3, <2>4, ConnectSessionFacts DEF Sleeps
  <2>5. ASSUME core.wt # "freed", o.kind = "is_session_ready", NEW r \in py_is_session_ready(core)
        PROVE  ~r.val
    BY <2>1, <2>2, <2>5, IsSessionReadyFacts DEF Sleeps, py_is_session_ready
  <2>6. ASSUME core.wt # "freed", o.kind \notin ConnectKinds
        PROVE  core.session_ready /\ \A r \in Attempt(o, core) : r.ret # "value"
    <3>1. core.session_ready /\ Blocked(o, core)
      BY <2>2, <2>6 DEF Sleeps
    <3>2. \A r \in Attempt(o, core) : Tried(o, core, r)
      BY <2>1, <2>2, <2>6, AttemptTried
    <3> QED BY <2>6, <3>1, <3>2 DEF Tried
  <2>7. CASE o.kind = "open_session"
    BY <2>2, <2>4, <2>7 DEF Sleeps, o
  <2>8. CASE o.kind = "is_session_ready"
    BY <2>2, <2>5, <2>8 DEF Sleeps, o
  <2>9. CASE o.kind \notin ConnectKinds
    BY <2>2, <2>6, <2>9 DEF Sleeps, ConnectKinds, o
  <2>10. CASE o.kind = "is_connected"
    BY <2>2, <2>10 DEF Sleeps, IsConnected, o
  <2> QED BY <2>7, <2>8, <2>9, <2>10 DEF ConnectKinds
<1> QED BY <1>1, Invariance, PTL

\* A session that close() ended is never freed under the pointers, and nothing was
\* reached through freed ones, whatever the server does and whatever is called on
\* the closed client.
THEOREM SessionPointersStayGood == Spec => []CloseLeavesPointersGood
<1>1. Inv => CloseLeavesPointersGood
  BY DEF Inv, Settled, Tended, CloseLeavesPointersGood
<1> QED BY <1>1, Invariance, PTL

-----------------------------------------------------------------------------
(* AsyncWt implements AsyncPromise, step by step.  The server keeps the    *)
(* session: with freed pointers anything could be returned.                *)

\* The members of a sequence.
Members(s) == {s[i] : i \in 1..Len(s)}

\* What was delivered and what is queued are numbered in the order of arrival.
LEMMA LedgerNumbers ==
    ASSUME NEW g \in Seq(1..MaxDatagrams), NEW q \in Seq(1..MaxDatagrams), NEW n \in Nat,
           g \o q = Numbers(n)
    PROVE  /\ n = Len(g) + Len(q)
           /\ \A i \in 1..Len(g) : g[i] = i
           /\ \A i \in 1..Len(q) : q[i] = Len(g) + i
<1>1. /\ Len(g) \in Nat /\ Len(q) \in Nat /\ Len(g \o q) = Len(g) + Len(q)
      /\ \A i \in 1..Len(g) : (g \o q)[i] = g[i]
      /\ \A i \in 1..Len(q) : (g \o q)[Len(g) + i] = q[i]
  OBVIOUS
<1>2. Len(Numbers(n)) = n /\ \A i \in 1..n : Numbers(n)[i] = i
  BY DEF Numbers
<1>3. n = Len(g) + Len(q)
  BY <1>1, <1>2
<1>4. \A i \in 1..Len(g) : i \in 1..n
  BY <1>1, <1>3
<1>5. \A i \in 1..Len(q) : Len(g) + i \in 1..n
  BY <1>1, <1>3
<1> QED BY <1>1, <1>2, <1>3, <1>4, <1>5

\* The next datagram to arrive is neither queued nor delivered.
LEMMA NextIsNew ==
    ASSUME NEW g \in Seq(1..MaxDatagrams), NEW q \in Seq(1..MaxDatagrams), NEW n \in Nat,
           g \o q = Numbers(n)
    PROVE  n + 1 \notin Members(q) \cup Members(g)
<1>0. Len(g) \in Nat /\ Len(q) \in Nat
  OBVIOUS
<1>1. /\ n = Len(g) + Len(q)
      /\ \A i \in 1..Len(g) : g[i] = i
      /\ \A i \in 1..Len(q) : q[i] = Len(g) + i
  BY LedgerNumbers, Zenon
<1>2. \A i \in 1..Len(g) : g[i] # n + 1
  BY <1>0, <1>1
<1>3. \A i \in 1..Len(q) : q[i] # n + 1
  BY <1>0, <1>1
<1> QED BY <1>2, <1>3 DEF Members

\* Taking the head takes it from the set.
LEMMA HeadLeaves ==
    ASSUME NEW g \in Seq(1..MaxDatagrams), NEW q \in Seq(1..MaxDatagrams), NEW n \in Nat,
           g \o q = Numbers(n), q # <<>>
    PROVE  Head(q) \in Members(q) /\ Members(Tail(q)) = Members(q) \ {Head(q)}
<1>0. \A i \in 1..Len(q) : q[i] = Len(g) + i
  BY LedgerNumbers, Zenon
<1>1. /\ Len(g) \in Nat /\ Len(q) \in Nat /\ Len(q) > 0
      /\ \A i \in 1..Len(q) : q[i] = Len(g) + i
  BY <1>0
<1>2. /\ Head(q) = q[1] /\ Len(Tail(q)) = Len(q) - 1
      /\ \A i \in 1..Len(q) - 1 : Tail(q)[i] = q[i + 1]
  BY <1>1
<1>3. 1 \in 1..Len(q)
  BY <1>1
<1>4. ASSUME NEW v \in Members(Tail(q)) PROVE v \in Members(q) /\ v # Head(q)
  <2>1. PICK i \in 1..Len(q) - 1 : v = q[i + 1]
    BY <1>2 DEF Members
  <2>2. i + 1 \in 1..Len(q) /\ i + 1 # 1
    BY <1>1
  <2>3. q[i + 1] = Len(g) + (i + 1) /\ q[1] = Len(g) + 1
    BY <1>1, <1>3, <2>2
  <2>4. q[i + 1] # q[1]
    BY <1>1, <2>2, <2>3
  <2> QED BY <1>2, <2>1, <2>2, <2>4 DEF Members
<1>5. ASSUME NEW v \in Members(q), v # Head(q) PROVE v \in Members(Tail(q))
  <2>1. PICK i \in 1..Len(q) : v = q[i]
    BY DEF Members
  <2>2. i # 1
    BY <1>2, <1>5, <2>1
  <2>3. i - 1 \in 1..Len(q) - 1 /\ (i - 1) + 1 = i
    BY <1>1, <2>2
  <2>4. Tail(q)[i - 1] = v
    BY <1>2, <2>1, <2>3
  <2> QED BY <1>2, <2>3, <2>4 DEF Members
<1>6. Head(q) \in Members(q)
  BY <1>2, <1>3 DEF Members
<1> QED BY <1>4, <1>5, <1>6

\* An element more in the sequence is an element more in the set.
LEMMA AppendAdds ==
    ASSUME NEW S, NEW s \in Seq(S), NEW v
    PROVE  Members(Append(s, v)) = Members(s) \cup {v}
<1> DEFINE t == Append(s, v)
<1>1. Len(t) = Len(s) + 1 /\ Len(s) \in Nat /\ t[Len(s) + 1] = v /\ \A i \in 1..Len(s) : t[i] = s[i]
  OBVIOUS
<1> HIDE DEF t
<1>2. ASSUME NEW w \in Members(t) PROVE w \in Members(s) \cup {v}
  <2>1. PICK i \in 1..Len(t) : w = t[i]
    BY DEF Members
  <2>2. i = Len(s) + 1 \/ i \in 1..Len(s)
    BY <1>1
  <2> QED BY <1>1, <2>1, <2>2 DEF Members
<1>3. ASSUME NEW w \in Members(s) PROVE w \in Members(t)
  <2>1. PICK i \in 1..Len(s) : w = s[i]
    BY DEF Members
  <2>2. i \in 1..Len(t) /\ t[i] = w
    BY <1>1, <2>1
  <2> QED BY <2>2 DEF Members
<1>4. Len(s) + 1 \in 1..Len(t)
  BY <1>1
<1>5. v \in Members(t)
  BY <1>1, <1>4 DEF Members
<1> QED BY <1>2, <1>3, <1>5 DEF t

\* The task p moves to t.
Moves(p, t) == task' = [task EXCEPT ![p] = t]

\* The task p moves to t: AsyncPromise sees its call change to Seen(t).
LEMMA CallMoves ==
    ASSUME NEW p \in Tasks, NEW t, task \in [Tasks -> TaskStates], Moves(p, t)
    PROVE  Promise!Set(p, Seen(t))
<1>1. \A q \in Tasks : task'[q] = IF q = p THEN t ELSE task[q]
  BY DEF Moves
<1>2. [q \in Tasks |-> Seen(task'[q])] = [[q \in Tasks |-> Seen(task[q])] EXCEPT ![p] = Seen(t)]
  BY <1>1
<1> QED BY <1>2 DEF Promise!Set

\* What a step may be to AsyncPromise.
Kept == Promise!Next \/ UNCHANGED Promise!vars

\* connect() returns only when the session is ready.
Truthful ==
    \A p \in Tasks : task'[p] # task[p] /\ task'[p].res = "connected" => core'.session_ready

Sound == Kept /\ Truthful

\* Only the task that moves can have returned from connect().
LEMMA MovesTruthful ==
    ASSUME NEW p \in Tasks, NEW t, task \in [Tasks -> TaskStates], Moves(p, t),
           t.res = "connected" => core'.session_ready
    PROVE  Truthful
<1>1. \A q \in Tasks : task'[q] = IF q = p THEN t ELSE task[q]
  BY DEF Moves
<1> QED BY <1>1 DEF Truthful

\* A call that ends with an exception fails.
LEMMA FailStep ==
    ASSUME NEW p \in Tasks, task \in [Tasks -> TaskStates], NEW res \in Results,
           res \notin {"none", "connected", "value"}, Finished(p, res),
           client'.closed = client.closed \/ client'.closed, QueueKept(core, core'), got' = got
    PROVE  Sound
<1> DEFINE t == IdleTask(res)
<1>1. Seen(t) = "error" /\ t.res = res
  BY DEF Seen, IdleTask
<1>2. Moves(p, t)
  BY DEF Finished, Moves
<1> HIDE DEF t
<1>3. Promise!Set(p, Seen(t))
  BY <1>2, CallMoves
<1>4. Promise!Fail(p)
  BY <1>1, <1>3 DEF Promise!Fail, Promise!GoesDownOrNot, QueueKept
<1>5. Truthful
  BY <1>1, <1>2, MovesTruthful
<1> QED BY <1>4, <1>5 DEF Sound, Kept, Promise!Next

\* A call that returns none of the datagrams does so while the client is up.
LEMMA OkStep ==
    ASSUME NEW p \in Tasks, task \in [Tasks -> TaskStates], NEW res \in {"connected", "value"},
           Finished(p, res), res = "connected" => core'.session_ready,
           ~client.closed, ~client'.closed, QueueKept(core, core'), got' = got
    PROVE  Sound
<1> DEFINE t == IdleTask(res)
<1>1. Seen(t) = "ok" /\ t.res = res
  BY DEF Seen, IdleTask
<1>2. Moves(p, t)
  BY DEF Finished, Moves
<1> HIDE DEF t
<1>3. Promise!Set(p, Seen(t))
  BY <1>2, CallMoves
<1>4. Promise!Return(p)
  BY <1>1, <1>3 DEF Promise!Return, QueueKept
<1>5. Truthful
  BY <1>1, <1>2, MovesTruthful
<1> QED BY <1>4, <1>5 DEF Sound, Kept, Promise!Next

\* receive_datagram takes the head of the queue and hands it to its caller.
LEMMA DatagramStep ==
    ASSUME NEW p \in Tasks, task \in [Tasks -> TaskStates], Finished(p, "value"),
           ~client.closed, ~client'.closed, core \in WtClients, got \in Seq(1..MaxDatagrams),
           Ledger(got, core), core.received_datagrams # <<>>,
           core'.received_datagrams = Tail(core.received_datagrams),
           got' = Append(got, Head(core.received_datagrams))
    PROVE  Sound
<1> DEFINE t == IdleTask("value")
           q == core.received_datagrams
           n == core.arrived
<1>1. Seen(t) = "ok" /\ t.res = "value"
  BY DEF Seen, IdleTask
<1>2. Moves(p, t)
  BY DEF Finished, Moves
<1>3. q \in Seq(1..MaxDatagrams) /\ n \in Nat /\ got \o q = Numbers(n) /\ q # <<>>
  BY BoundsAssumption DEF WtClients, Ledger
<1>4. core'.received_datagrams = Tail(q) /\ got' = Append(got, Head(q))
  OBVIOUS
<1>5. Head(q) \in Members(q) /\ Members(Tail(q)) = Members(q) \ {Head(q)}
  BY <1>3, HeadLeaves
<1>6. Members(got') = Members(got) \cup {Head(q)}
  BY <1>4, AppendAdds
<1>7. \E i \in Members(q) : Members(core'.received_datagrams) = Members(q) \ {i}
                            /\ Members(got') = Members(got) \cup {i}
  BY <1>4, <1>5, <1>6
<1> HIDE DEF t
<1>8. Promise!Set(p, Seen(t))
  BY <1>2, CallMoves
<1>9. Promise!Return(p)
  BY <1>1, <1>7, <1>8 DEF Promise!Return, Members
<1>10. Truthful
  BY <1>1, <1>2, MovesTruthful
<1> QED BY <1>9, <1>10 DEF Sound, Kept, Promise!Next

\* A task that goes to sleep, or gets its socket, has begun its call; one that
\* slept before has not moved.
LEMMA BusyStep ==
    ASSUME NEW p \in Tasks, task \in [Tasks -> TaskStates], NEW t, Seen(t) \in {"none", "busy"},
           t.res = "none", Moves(p, t), Seen(task[p]) = "busy" => Seen(t) = "busy",
           client'.closed = client.closed, QueueKept(core, core'), got' = got
    PROVE  Sound
<1>1. Promise!Set(p, Seen(t))
  BY CallMoves
<1>2. Truthful
  BY MovesTruthful
<1>3. CASE Seen(task[p]) # "busy"
  <2>1. Promise!Begin(p)
    BY <1>1, <1>3 DEF Promise!Begin, QueueKept
  <2> QED BY <1>2, <2>1 DEF Sound, Kept, Promise!Next
<1>4. CASE Seen(task[p]) = "busy"
  <2>1. [q \in Tasks |-> Seen(task'[q])] = [q \in Tasks |-> Seen(task[q])]
    BY <1>4 DEF Moves
  <2>2. UNCHANGED Promise!vars
    BY <2>1 DEF Promise!vars, QueueKept
  <2> QED BY <1>2, <2>2 DEF Sound, Kept
<1> QED BY <1>3, <1>4

\* An event brings at most one datagram, which is new, and may close the client.
LEMMA EventStep ==
    ASSUME core \in WtClients, got \in Seq(1..MaxDatagrams), Ledger(got, core), DatagramsGrow(core, core'),
           core' \in WtClients, ~client.closed, task' = task, got' = got
    PROVE  Sound
<1> DEFINE q == core.received_datagrams
           n == core.arrived
           A == Members(q)
           T == Members(got)
<1>1. q \in Seq(1..MaxDatagrams) /\ n \in Nat /\ got \o q = Numbers(n)
  BY BoundsAssumption DEF WtClients, Ledger
<1>2. \E new \in SUBSET ((1..MaxDatagrams) \ (A \cup T)) : Members(core'.received_datagrams) = A \cup new
  <2>1. CASE core'.arrived = n /\ QueueKept(core, core')
    <3>1. Members(core'.received_datagrams) = A \cup {}
      BY <2>1 DEF QueueKept
    <3> QED BY <3>1
  <2>2. CASE core'.arrived = n + 1 /\ core'.received_datagrams = Append(q, n + 1)
    <3>1. n + 1 \notin A \cup T
      BY <1>1, NextIsNew
    <3>2. n + 1 \in 1..MaxDatagrams
      <4>1. core'.arrived \in 0..MaxDatagrams
        BY DEF WtClients
      <4> QED BY <1>1, <2>2, <4>1, BoundsAssumption
    <3>3. Members(core'.received_datagrams) = A \cup {n + 1}
      BY <1>1, <2>2, AppendAdds
    <3> HIDE DEF A, T, n
    <3> QED BY <3>1, <3>2, <3>3
  <2> QED BY <2>1, <2>2 DEF DatagramsGrow
<1>3. Promise!Event
  BY <1>2 DEF Promise!Event, Promise!GoesDownOrNot, Members
<1>4. Truthful
  BY DEF Truthful
<1> QED BY <1>3, <1>4 DEF Sound, Kept, Promise!Next

\* A step that shows neither in the calls nor in the datagrams.
LEMMA StutterStep ==
    ASSUME client'.closed = client.closed, QueueKept(core, core'), task' = task, got' = got
    PROVE  Sound
<1>1. UNCHANGED Promise!vars
  BY DEF Promise!vars, QueueKept
<1> QED BY <1>1 DEF Sound, Kept, Truthful

\* Going to sleep.
LEMMA SleepStep ==
    ASSUME Inv, NEW p \in Tasks, NEW o, NEW x \in ClientStates, NEW c, x.closed = client.closed,
           QueueKept(core, c), Sleep(p, o, x, c)
    PROVE  Sound
<1> DEFINE t == [pc |-> "wait", op |-> o, res |-> "none"]
<1>1. Seen(t) = "busy" /\ t.res = "none"
  BY DEF Seen
<1>2. task' = [task EXCEPT ![p] = t] /\ core' = c /\ got' = got /\ client' = [x EXCEPT !.waiters = @ \cup {p}]
  BY DEF Sleep
<1>3. client'.closed = client.closed
  BY <1>2 DEF ClientStates
<1>4. task \in [Tasks -> TaskStates]
  BY DEF Inv, TypeOK
<1> HIDE DEF t
<1>5. Moves(p, t) /\ QueueKept(core, core') /\ got' = got
  BY <1>2 DEF Moves
<1> QED BY <1>1, <1>3, <1>4, <1>5, BusyStep

\* Ending with an exception.
LEMMA RaiseStep ==
    ASSUME Inv, NEW p \in Tasks, NEW res \in Results, res \notin {"none", "connected", "value"},
           NEW x, NEW c, x.closed = client.closed \/ x.closed, QueueKept(core, c), Raise(p, res, x, c)
    PROVE  Sound
<1>1. client' = x /\ core' = c /\ Finished(p, res) /\ got' = got
  BY DEF Raise
<1>2. task \in [Tasks -> TaskStates]
  BY DEF Inv, TypeOK
<1> QED BY <1>1, <1>2, FailStep

\* A failing connect() takes the client down.
LEMMA ConnectFailsStep ==
    ASSUME Inv, NEW p \in Tasks, NEW res \in Results, res \notin {"none", "connected", "value"},
           NEW x \in ClientStates, NEW c, QueueKept(core, c), ConnectFails(p, res, x, c)
    PROVE  Sound
<1> DEFINE y == Teardown(x)
<1>1. y.closed
  BY TeardownFacts
<1>2. Raise(p, res, y, c)
  BY DEF ConnectFails
<1> HIDE DEF y
<1> QED BY <1>1, <1>2, RaiseStep

\* No exception is mistaken for a result.
LEMMA ExceptionsFail ==
    \A res \in Exceptions \cup {"OSError", "TimeoutError", "CancelledError"} :
        res \in Results /\ res \notin {"none", "connected", "value", "None"}
BY DEF Results, Exceptions, Q!Exceptions

\* A turn of connect() begins with the client as AsyncPromise sees it now.
Unseen(x, c) == x.closed = client.closed /\ QueueKept(core, c)

\* On a client that is closed.
LEMMA ClosedTurnStep ==
    ASSUME Inv, NEW p \in Tasks, NEW x, NEW c, Turning(p, x, c), Unseen(x, c),
           ConnectFails(p, "ConnectionError", x, c)
    PROVE  Sound
<1>1. x \in ClientStates /\ QueueKept(core, c)
  BY DEF Turning, Good, Unseen
<1>2. "ConnectionError" \in Results
  BY ResultsFacts
<1> QED BY <1>1, <1>2, ConnectFailsStep

\* The third wait of connect() ends when the session is ready, and not before.
LEMMA SessionReadyTurnStep ==
    ASSUME ~ServerEndsSession, Inv, NEW p \in Tasks, NEW named \in BOOLEAN, NEW x, NEW c,
           Turning(p, x, c), Unseen(x, c), SessionReadyTurn(p, named, x, c)
    PROVE  Sound
<1>1. CASE x.closed
  BY <1>1, ClosedTurnStep DEF SessionReadyTurn
<1>2. CASE ~x.closed
  <2>1. PICK r \in py_is_session_ready(c) :
          IF r.val THEN Raise(p, "connected", x, r.c)
          ELSE Sleep(p, ConnectOp("is_session_ready", named), x, r.c)
    BY <1>2 DEF SessionReadyTurn
  <2>2. c \in WtClients /\ ReadyIsLive(c) /\ x \in ClientStates /\ c.wt # "freed"
    BY <1>2, TurningOpen DEF Tended
  <2>3. Calm(c, r.c) /\ r.val \in BOOLEAN /\ (r.val <=> c.session_ready)
    BY <2>1, <2>2, IsSessionReadyFacts DEF py_is_session_ready
  <2>4. QueueKept(core, r.c) /\ x.closed = client.closed /\ r.c.session_ready = c.session_ready
    BY <2>3 DEF Unseen, QueueKept, Calm
  <2>5. CASE r.val
    <3>1. client' = x /\ core' = r.c /\ Finished(p, "connected") /\ got' = got
      BY <2>1, <2>5 DEF Raise
    <3>2. task \in [Tasks -> TaskStates]
      BY DEF Inv, TypeOK
    <3>3. core'.session_ready /\ ~client.closed /\ ~client'.closed /\ QueueKept(core, core')
      BY <1>2, <2>3, <2>4, <2>5, <3>1
    <3> QED BY <3>1, <3>2, <3>3, OkStep
  <2>6. CASE ~r.val
    BY <2>1, <2>2, <2>4, <2>6, SleepStep
  <2> QED BY <2>5, <2>6
<1> QED BY <1>1, <1>2

\* The second wait.
LEMMA OpenSessionTurnStep ==
    ASSUME ~ServerEndsSession, Inv, NEW p \in Tasks, NEW named \in BOOLEAN, NEW x, NEW c,
           Turning(p, x, c), c.conn # "failed", Unseen(x, c), OpenSessionTurn(p, named, x, c)
    PROVE  Sound
<1>1. CASE x.closed
  BY <1>1, ClosedTurnStep DEF OpenSessionTurn
<1>2. CASE ~x.closed
  <2>1. PICK r \in py_connect_session(c, named) :
          IF r.ret = "None" THEN Sleep(p, ConnectOp("open_session", named), x, r.c)
          ELSE IF r.ret # "value" THEN ConnectFails(p, r.ret, x, r.c)
          ELSE SessionReadyTurn(p, named, Process(x, r.c).x, Process(x, r.c).c)
    BY <1>2 DEF OpenSessionTurn
  <2>2. /\ c \in WtClients /\ ReadyIsLive(c) /\ c.conn = "open" /\ x \in ClientStates /\ x.transport
        /\ Tended(x, c)
    BY <1>2, TurningOpen
  <2>3. /\ r.c \in WtClients /\ r.ret \in {"value", "None"} \cup Exceptions
        /\ r.c.conn = c.conn /\ r.c.session_ready = c.session_ready /\ r.c.close_sent = c.close_sent
        /\ r.c.streams = c.streams /\ r.c.arrived = c.arrived /\ QueueKept(c, r.c)
        /\ r.c.dangling => c.dangling \/ c.wt = "freed"
        /\ c.wt # "null" => r.c.wt = c.wt
        /\ r.c.wt \in {c.wt, "live"}
    BY <2>1, <2>2, ConnectSessionFacts
  <2>4. QueueKept(core, r.c) /\ x.closed = client.closed
    BY <2>3 DEF Unseen, QueueKept
  <2>5. CASE r.ret = "None"
    BY <2>1, <2>2, <2>4, <2>5, SleepStep
  <2>6. CASE r.ret \in Exceptions
    <3>1. r.ret \in Results /\ r.ret \notin {"none", "connected", "value", "None"}
      BY <2>6, ExceptionsFail
    <3>2. ConnectFails(p, r.ret, x, r.c)
      BY <2>1, <3>1
    <3> QED BY <2>2, <2>4, <3>1, <3>2, ConnectFailsStep
  <2>7. CASE r.ret = "value"
    <3> DEFINE a == Process(x, r.c)
    <3>1. SessionReadyTurn(p, named, a.x, a.c)
      BY <2>1, <2>7
    <3>2. x.core /\ Tended(x, r.c) /\ ReadyIsLive(r.c)
      BY <2>2, <2>3 DEF Turning, Tended, ReadyIsLive
    <3>3. /\ a.x \in ClientStates /\ a.c \in WtClients /\ ReadyIsLive(a.c) /\ Calm(r.c, a.c)
          /\ Settled(a.x, a.c) /\ a.x.core /\ a.x.waiters = {}
          /\ r.c.conn # "failed" => (a.x.closed <=> r.c.conn = "closed")
      BY <1>2, <2>2, <2>3, <3>2, ProcessSettles
    <3> HIDE DEF a
    <3>4. a.c.conn = "open" /\ HandlesKept(c, a.c) /\ QueueKept(c, a.c) /\ a.c.arrived = c.arrived
      BY <2>2, <2>3, <3>3 DEF Calm, HandlesKept, QueueKept
    <3>5. Accounted(got, a.c)
      <4>1. Accounted(got, c) /\ c.wt # "freed"
        BY <2>2 DEF Turning, Tended
      <4> QED BY <3>4, <4>1 DEF Accounted, Ledger, QueueKept
    <3>6. a.x.core = client.core
      BY <3>2, <3>3 DEF Turning, Good, ClientStates, Inv, TypeOK
    <3>7. core.conn = "none" \/ HandlesKept(core, a.c)
      BY <3>4 DEF Turning, Good, HandlesKept
    <3>8. core.conn # "none" => core.conn # "failed"
      BY <2>2 DEF Turning, Good
    <3>9. Good(p, a.x, a.c)
      BY <3>3, <3>4, <3>6, <3>7, <3>8 DEF Good
    <3>10. Turning(p, a.x, a.c)
      BY <3>3, <3>4, <3>5, <3>9 DEF Turning
    <3>11. Unseen(a.x, a.c)
      <4>1. ~a.x.closed /\ ~client.closed
        BY <1>2, <2>2, <2>3, <2>4, <3>3
      <4>2. a.x.closed = client.closed
        BY <3>3, <4>1 DEF ClientStates, Inv, TypeOK
      <4> QED BY <3>4, <4>2 DEF Unseen, QueueKept
    <3> QED BY <3>1, <3>10, <3>11, SessionReadyTurnStep
  <2> QED BY <2>3, <2>5, <2>6, <2>7
<1> QED BY <1>1, <1>2

\* The first wait.
LEMMA ConnectedTurnStep ==
    ASSUME ~ServerEndsSession, Inv, NEW p \in Tasks, NEW named \in BOOLEAN, NEW x, NEW c,
           Turning(p, x, c), Unseen(x, c), ConnectedTurn(p, named, x, c)
    PROVE  Sound
<1>1. CASE x.closed
  BY <1>1, ClosedTurnStep DEF ConnectedTurn
<1>2. CASE ~x.closed
  <2>1. c.conn \in {"open", "failed"} /\ x \in ClientStates
    BY <1>2, TurningOpen
  <2>2. CASE c.conn = "open"
    <3>1. OpenSessionTurn(p, named, x, c)
      BY <1>2, <2>2 DEF ConnectedTurn, IsConnected
    <3> QED BY <2>2, <3>1, OpenSessionTurnStep
  <2>3. CASE c.conn = "failed"
    <3>1. Sleep(p, ConnectOp("is_connected", named), x, c)
      BY <1>2, <2>3 DEF ConnectedTurn, IsConnected
    <3> QED BY <2>1, <3>1, SleepStep DEF Unseen
  <2> QED BY <2>1, <2>2, <2>3
<1> QED BY <1>1, <1>2

\* A turn of a stream or datagram operation.
LEMMA SessionTurnStep ==
    ASSUME ~ServerEndsSession, Inv, NEW p \in Tasks, client.core, NEW o \in Attempted,
           o.kind \notin ConnectKinds, SessionTurn(p, o)
    PROVE  Sound
<1>1. /\ client \in ClientStates /\ core \in WtClients /\ ReadyIsLive(core) /\ Settled(client, core)
      /\ got \in Seq(1..MaxDatagrams) /\ task \in [Tasks -> TaskStates]
      /\ Tended(client, core) /\ Accounted(got, core)
  BY DEF Inv, TypeOK, Settled
<1>2. core.wt # "freed" /\ Ledger(got, core)
  BY <1>1 DEF Tended, Accounted
<1>3. CASE client.closed
  <2>1. Raise(p, "ConnectionError", client, core) /\ QueueKept(core, core)
    BY <1>3 DEF SessionTurn, QueueKept
  <2>2. "ConnectionError" \in Results
    BY ResultsFacts
  <2> QED BY <2>1, <2>2, RaiseStep
<1>4. CASE ~client.closed
  <2>1. PICK r \in Attempt(o, core) :
          IF r.ret = "None" THEN Sleep(p, o, client, r.c)
          ELSE /\ client' = (IF o.kind \in ProcessesAfter THEN Processed(r) ELSE [x |-> client, c |-> r.c]).x
               /\ core' = (IF o.kind \in ProcessesAfter THEN Processed(r) ELSE [x |-> client, c |-> r.c]).c
               /\ Finished(p, r.ret)
               /\ got' = IF r.ret = "value" /\ o.kind = "receive_datagram" /\ core.wt # "freed"
                            THEN Append(got, r.val) ELSE got
    BY <1>4 DEF SessionTurn
  <2>2. Tried(o, core, r)
    BY <1>1, <2>1, AttemptTried
  <2>3. CASE r.ret = "None"
    <3>1. Sleep(p, o, client, r.c)
      BY <2>1, <2>3
    <3>2. QueueKept(core, r.c)
      BY <2>2, <2>3 DEF Tried
    <3> QED BY <1>1, <3>1, <3>2, SleepStep
  <2>4. CASE r.ret \in Exceptions
    <3>1. r.ret \in Results /\ r.ret \notin {"none", "connected", "value", "None"}
      BY <2>4, ExceptionsFail
    <3>2. client' = client /\ core' = r.c /\ got' = got /\ Finished(p, r.ret)
      BY <2>1, <3>1 DEF Processed
    <3>3. QueueKept(core, r.c)
      BY <2>2, <3>1 DEF Tried
    <3> QED BY <1>1, <3>1, <3>2, <3>3, FailStep
  <2>5. CASE r.ret = "value" /\ o.kind = "receive_datagram"
    <3>1. /\ core.received_datagrams # <<>> /\ r.val = Head(core.received_datagrams)
          /\ r.c.received_datagrams = Tail(core.received_datagrams)
      BY <1>2, <2>2, <2>5 DEF Tried
    <3>2. client' = client /\ core' = r.c /\ Finished(p, "value") /\ got' = Append(got, r.val)
      BY <1>2, <2>1, <2>5 DEF ProcessesAfter
    <3> QED BY <1>1, <1>2, <1>4, <3>1, <3>2, DatagramStep
  <2>6. CASE r.ret = "value" /\ o.kind # "receive_datagram"
    <3>1. r.c \in WtClients /\ QueueKept(core, r.c) /\ SameSession(core, r.c) /\ core.session_ready
      BY <1>2, <2>2, <2>6 DEF Tried
    <3>2. Finished(p, "value") /\ got' = got
      BY <2>1, <2>6
    <3>3. CASE o.kind \in ProcessesAfter
      <4> DEFINE a == Process(client, r.c)
      <4>1. client' = a.x /\ core' = a.c
        BY <2>1, <2>6, <3>3 DEF Processed
      <4>2. core.conn = "open" /\ r.c.conn = "open"
        BY <1>1, <3>1 DEF ReadyIsLive, SameSession
      <4>3. client.transport /\ Tended(client, r.c) /\ ReadyIsLive(r.c)
        BY <1>1, <1>4, <3>1, <4>2 DEF Settled, Tended, SameSession, ReadyIsLive
      <4>4. Calm(r.c, a.c) /\ (r.c.conn # "failed" => (a.x.closed <=> r.c.conn = "closed"))
        BY <1>1, <1>4, <3>1, <4>2, <4>3, ProcessSettles
      <4> HIDE DEF a
      <4>5. ~client'.closed /\ QueueKept(core, core')
        BY <3>1, <4>1, <4>2, <4>4 DEF QueueKept, Calm
      <4> QED BY <1>1, <1>4, <3>2, <4>5, OkStep
    <3>4. CASE o.kind \notin ProcessesAfter
      <4>1. client' = client /\ core' = r.c
        BY <2>1, <2>6, <3>4
      <4> QED BY <1>1, <1>4, <3>1, <3>2, <4>1, OkStep
    <3> QED BY <3>3, <3>4
  <2>7. r.ret \in {"value", "None"} \cup Exceptions
    BY <2>2 DEF Tried
  <2> QED BY <2>3, <2>4, <2>5, <2>6, <2>7
<1> QED BY <1>3, <1>4

\* A coroutine method is called, a sleeping task runs again, a wait is interrupted.
LEMMA WaitsStep ==
    ASSUME ~ServerEndsSession, Inv, NEW p \in Tasks, NEW o \in Attempted,
           NEW e \in {"TimeoutError", "CancelledError"},
           Call(p, o) \/ Wake(p) \/ Interrupt(p, e)
    PROVE  Sound
<1>1. /\ client \in ClientStates /\ task \in [Tasks -> TaskStates] /\ Asleep
  BY DEF Inv, TypeOK
<1>2. /\ Good(p, client, core) /\ Accounted(got, core)
      /\ core.conn = "none" \/ Alone(p)
  BY GoodNow
<1>3. CASE Call(p, o)
  BY <1>3, SessionTurnStep DEF Call
<1>4. task[p].pc = "wait" =>
        /\ client.core /\ core.conn # "none" /\ task[p].op \in Attempted
        /\ task[p].op.kind = "is_connected" <=> core.conn = "failed"
  BY <1>1 DEF Asleep, TaskStates
<1>5. Unseen(client, core)
  BY DEF Unseen, QueueKept
<1>6. CASE Wake(p)
  <2> DEFINE q == task[p].op
  <2>1. task[p].pc = "wait" /\ p \notin client.waiters
    BY <1>6 DEF Wake
  <2>2. /\ Turning(p, client, core) /\ q \in Attempted
        /\ q.kind = "is_connected" <=> core.conn = "failed"
    BY <1>2, <1>4, <2>1 DEF Turning
  <2>3. q.kind \in ConnectKinds => q.arg \in BOOLEAN
    BY <2>2 DEF Attempted, ConnectKinds
  <2>4. CASE q.kind = "open_session"
    <3>1. OpenSessionTurn(p, q.arg, client, core) /\ q.arg \in BOOLEAN /\ core.conn # "failed"
      BY <1>6, <2>2, <2>3, <2>4 DEF Wake, ConnectKinds
    <3> QED BY <1>5, <2>2, <3>1, OpenSessionTurnStep
  <2>5. CASE q.kind = "is_session_ready"
    <3>1. SessionReadyTurn(p, q.arg, client, core) /\ q.arg \in BOOLEAN
      BY <1>6, <2>3, <2>5 DEF Wake, ConnectKinds
    <3> QED BY <1>5, <2>2, <3>1, SessionReadyTurnStep
  <2>6. CASE q.kind \notin ConnectKinds
    <3>1. SessionTurn(p, q)
      BY <1>6, <2>6 DEF Wake, ConnectKinds
    <3> QED BY <1>4, <2>1, <2>2, <2>6, <3>1, SessionTurnStep
  <2>7. CASE q.kind = "is_connected"
    <3>1. ConnectedTurn(p, q.arg, client, core) /\ q.arg \in BOOLEAN
      BY <1>6, <2>3, <2>7 DEF Wake, ConnectKinds
    <3> QED BY <1>5, <2>2, <3>1, ConnectedTurnStep
  <2> QED BY <2>4, <2>5, <2>6, <2>7 DEF ConnectKinds
<1>7. CASE Interrupt(p, e)
  <2> DEFINE x == [client EXCEPT !.waiters = @ \ {p}]
  <2>1. ConnectFails(p, e, x, core) \/ Raise(p, e, x, core)
    BY <1>7 DEF Interrupt
  <2>2. x \in ClientStates /\ x.closed = client.closed
    BY <1>1 DEF ClientStates
  <2>3. e \in Results /\ e \notin {"none", "connected", "value"} /\ QueueKept(core, core)
    BY ExceptionsFail DEF QueueKept
  <2> HIDE DEF x
  <2>4. CASE ConnectFails(p, e, x, core)
    BY <2>2, <2>3, <2>4, ConnectFailsStep
  <2>5. CASE Raise(p, e, x, core)
    BY <2>2, <2>3, <2>5, RaiseStep
  <2> QED BY <2>1, <2>4, <2>5
<1> QED BY <1>3, <1>6, <1>7

\* The stages of connect() before start().
LEMMA ConnectStep ==
    ASSUME Inv, NEW p \in Tasks, NEW named \in BOOLEAN, NEW e \in {"OSError", "RuntimeError", "CancelledError"},
           \/ ConnectCall(p, named) \/ Resolved(p) \/ ConnectAborted(p, e)
           \/ EndpointMade(p) \/ EndpointCancelled(p)
    PROVE  Sound
<1>1. client \in ClientStates /\ task \in [Tasks -> TaskStates] /\ QueueKept(core, core)
  BY DEF Inv, TypeOK, QueueKept
<1>2. ASSUME NEW pc \in {"resolve", "endpoint", "opened"}, NEW b, Stage(p, pc, b),
             client'.closed = client.closed, core' = core, got' = got, task[p].pc \notin {"opened", "wait"}
      PROVE  Sound
  <2> DEFINE t == [pc |-> pc, op |-> ConnectOp("is_connected", b), res |-> "none"]
  <2>1. Seen(t) \in {"none", "busy"} /\ Seen(task[p]) # "busy" /\ t.res = "none"
    BY <1>2 DEF Seen
  <2>2. Moves(p, t) /\ QueueKept(core, core')
    BY <1>1, <1>2 DEF Stage, Moves
  <2> HIDE DEF t
  <2> QED BY <1>1, <1>2, <2>1, <2>2, BusyStep
<1>3. CASE ConnectCall(p, named)
  BY <1>2, <1>3 DEF ConnectCall
<1>4. CASE Resolved(p)
  <2>1. client'.closed = client.closed
    BY <1>1, <1>4 DEF Resolved, ClientStates
  <2> QED BY <1>2, <1>4, <2>1 DEF Resolved
<1>5. CASE ConnectAborted(p, e)
  <2>1. e \in Results /\ e \notin {"none", "connected", "value"}
    BY ResultsFacts
  <2> QED BY <1>1, <1>5, <2>1, RaiseStep DEF ConnectAborted
<1>6. CASE EndpointMade(p)
  <2>1. client'.closed = client.closed
    BY <1>1, <1>6 DEF EndpointMade, ClientStates
  <2> QED BY <1>2, <1>6, <2>1 DEF EndpointMade
<1>7. CASE EndpointCancelled(p)
  <2> DEFINE x == [client EXCEPT !.sock = IF @ = "open" THEN "closing" ELSE @]
  <2>1. Raise(p, "CancelledError", x, core)
    BY <1>7 DEF EndpointCancelled
  <2>2. x.closed = client.closed
    BY <1>1 DEF ClientStates
  <2>3. "CancelledError" \in Results
    BY ResultsFacts
  <2> HIDE DEF x
  <2> QED BY <1>1, <2>1, <2>2, <2>3, RaiseStep
<1> QED BY <1>3, <1>4, <1>5, <1>6, <1>7

\* start() and the first turns of the waits of connect().
LEMMA ConnectStartStep ==
    ASSUME ~ServerEndsSession, Inv, NEW p \in Tasks, ConnectStart(p)
    PROVE  Sound
<1> DEFINE x == [client EXCEPT !.transport = TRUE]
           named == task[p].op.arg
<1>1. /\ client \in ClientStates /\ core \in WtClients /\ OneConnect /\ Asleep
      /\ Settled(client, core) /\ Accounted(got, core) /\ task \in [Tasks -> TaskStates]
  BY DEF Inv, TypeOK
<1>2. /\ task[p].pc = "opened" /\ client.core /\ core.conn = "none" /\ Blank(core)
      /\ ~client.was_connected /\ ~client.timer /\ core.send_queue = <<>> /\ Tended(client, core)
  BY <1>1 DEF ConnectStart, OneConnect, Settled
<1>3. Alone(p)
  BY <1>1, <1>2 DEF OneConnect, Alone, BeforeStart
<1>4. client.waiters = {}
  BY <1>1, <1>2 DEF Asleep, Sleeps
<1>5. /\ x \in ClientStates /\ x.core = client.core /\ x.closed = client.closed
      /\ x.transport = TRUE /\ x.was_connected = client.was_connected
      /\ x.timer = client.timer /\ x.waiters = {}
  BY <1>1, <1>4 DEF ClientStates
<1>6. PICK r \in py_start(core) : ConnectedTurn(p, named, Process(x, r.c).x, Process(x, r.c).c)
  BY DEF ConnectStart
<1>7. /\ r.c \in WtClients /\ r.c.conn \in {"open", "failed"} /\ r.c.last_error = Q!NoError
      /\ Blank(r.c) /\ ~r.c.close_sent /\ (r.c.dangling => core.dangling \/ core.wt = "freed")
  BY <1>1, <1>2, <1>6, StartFacts
<1>8. ReadyIsLive(r.c) /\ Accounted(got, r.c) /\ QueueKept(core, r.c)
  BY <1>1, <1>2, <1>7 DEF Blank, ReadyIsLive, Accounted, Ledger, QueueKept
<1>9. Tended(x, r.c)
  BY <1>2, <1>5, <1>7 DEF Tended, Blank
<1>10. named \in BOOLEAN
  BY <1>1 DEF TaskStates, Attempted
<1> HIDE DEF x, named
<1> DEFINE a == Process(x, r.c)
<1>11. ConnectedTurn(p, named, a.x, a.c)
  BY <1>6
<1>12. CASE client.closed
  <2>1. a.x = x /\ a.c = r.c
    BY <1>5, <1>12 DEF Process
  <2> HIDE DEF a
  <2>2. Settled(x, r.c)
    BY <1>2, <1>5, <1>7, <1>9, <1>12 DEF Settled
  <2>3. Good(p, x, r.c)
    BY <1>2, <1>5, <1>7, <1>8, <2>2 DEF Good
  <2>4. Turning(p, x, r.c) /\ Unseen(x, r.c)
    BY <1>2, <1>3, <1>5, <1>7, <1>8, <2>3 DEF Turning, Unseen
  <2> QED BY <1>10, <1>11, <2>1, <2>4, ConnectedTurnStep
<1>13. CASE ~client.closed
  <2>1. /\ a.x \in ClientStates /\ a.c \in WtClients /\ ReadyIsLive(a.c) /\ Calm(r.c, a.c)
        /\ Settled(a.x, a.c) /\ a.x.core /\ a.x.waiters = {}
        /\ r.c.conn # "failed" => (a.x.closed <=> r.c.conn = "closed")
        /\ r.c.conn = "failed" /\ r.c.last_error = Q!NoError => ~a.x.closed
    BY <1>2, <1>5, <1>7, <1>8, <1>9, <1>13, ProcessSettles
  <2> HIDE DEF a
  <2>2. a.c.conn \in {"open", "failed"} /\ Accounted(got, a.c)
    BY <1>7, <1>8, <2>1, AccountedKept DEF Calm
  <2>3. a.x.core = client.core /\ a.x.closed = client.closed
    BY <1>1, <1>2, <1>7, <1>13, <2>1 DEF ClientStates
  <2>4. Good(p, a.x, a.c)
    BY <1>2, <2>1, <2>2, <2>3 DEF Good
  <2>5. Turning(p, a.x, a.c)
    BY <1>3, <2>1, <2>2, <2>4 DEF Turning
  <2>6. Unseen(a.x, a.c)
    BY <1>8, <2>1, <2>3 DEF Unseen, QueueKept, Calm
  <2> QED BY <1>10, <1>11, <2>5, <2>6, ConnectedTurnStep
<1> QED BY <1>12, <1>13

\* The callbacks and close().
LEMMA EventsStep ==
    ASSUME ~ServerEndsSession, Inv, Inv', NEW empty \in BOOLEAN,
           OnReceive(empty) \/ OnTimeout \/ TransportFails \/ OnConnectionLost \/ AppClose
    PROVE  Sound
<1>1. /\ client \in ClientStates /\ core \in WtClients /\ ReadyIsLive(core) /\ Settled(client, core)
      /\ Tended(client, core) /\ Accounted(got, core) /\ got \in Seq(1..MaxDatagrams)
  BY DEF Inv, TypeOK, Settled
<1>2. /\ Ledger(got, core) /\ core' \in WtClients /\ core'.wt # "freed"
  <2>1. core' \in WtClients /\ Tended(client', core')
    BY DEF Inv, TypeOK, Settled
  <2> QED BY <1>1, <2>1 DEF Tended, Accounted
<1>3. task' = task /\ got' = got
  BY DEF OnReceive, OnTimeout, TransportFails, OnConnectionLost, AppClose
<1>4. DatagramsGrow(core, core) /\ QueueKept(core, core)
  BY DEF DatagramsGrow, QueueKept
<1>5. CASE OnReceive(empty) \/ OnTimeout
  <2>1. client.core /\ ~client.closed
    BY <1>5 DEF OnReceive, OnTimeout
  <2>2. PICK r \in py_receive_packet(core, empty) \cup py_handle_timeout(core) :
          core' = Process(client, r.c).c \/ core' = r.c
    BY <1>5 DEF OnReceive, OnTimeout, Processed
  <2>3. Evolves(core, r.c)
    BY <1>1, <2>2, ReceivePacketFacts, HandleTimeoutFacts
  <2>4. r.c \in WtClients
    BY <2>3 DEF Evolves
  <2>5. core' = r.c \/ Calm(r.c, core')
    BY <1>1, <2>1, <2>2, <2>4, ProcessFacts
  <2>6. core'.wt = r.c.wt /\ core'.arrived = r.c.arrived /\ core'.received_datagrams = r.c.received_datagrams
    BY <2>5 DEF Calm
  <2>7. DatagramsGrow(core, core')
    BY <1>2, <2>3, <2>6 DEF Evolves, DatagramsGrow, QueueKept
  <2> QED BY <1>1, <1>2, <1>3, <2>1, <2>7, EventStep
<1>6. CASE TransportFails
  <2>1. client'.closed = client.closed /\ core' = core
    BY <1>1, <1>6 DEF TransportFails, ClientStates
  <2> QED BY <1>3, <1>4, <2>1, StutterStep
<1>7. CASE OnConnectionLost
  <2> DEFINE x == [client EXCEPT !.sock = "closed"]
  <2>1. client' = Teardown(x) /\ core' = core /\ x \in ClientStates /\ x.closed = client.closed
    BY <1>1, <1>7 DEF OnConnectionLost, ClientStates
  <2> HIDE DEF x
  <2>2. CASE client.closed
    <3>1. client'.closed = client.closed
      BY <2>1, <2>2 DEF Teardown
    <3> QED BY <1>3, <1>4, <2>1, <3>1, StutterStep
  <2>3. CASE ~client.closed
    BY <1>1, <1>2, <1>3, <1>4, <2>1, <2>3, EventStep
  <2> QED BY <2>2, <2>3
<1>8. CASE AppClose
  <2>1. ~client.closed /\ core' = IF client.core THEN DrainSend(client, Close(core)) ELSE core
    BY <1>8 DEF AppClose
  <2>2. DatagramsGrow(core, core')
    <3>1. CASE client.core
      <4>1. Close(core) \in WtClients /\ Close(core).arrived = core.arrived /\ QueueKept(core, Close(core))
        BY <1>1, CloseFacts
      <4>2. Calm(Close(core), core')
        BY <1>1, <2>1, <3>1, <4>1, DrainSendFacts
      <4> QED BY <4>1, <4>2 DEF DatagramsGrow, QueueKept, Calm
    <3>2. CASE ~client.core
      BY <1>4, <2>1, <3>2
    <3> QED BY <3>1, <3>2
  <2> QED BY <1>1, <1>2, <1>3, <2>1, <2>2, EventStep
<1> QED BY <1>5, <1>6, <1>7, <1>8

\* reset() and stop_sending() are not seen.
LEMMA StreamControlStep ==
    ASSUME Inv, NEW id \in StreamIds, StreamControl(id)
    PROVE  Sound
<1>1. /\ client \in ClientStates /\ core \in WtClients /\ ReadyIsLive(core) /\ Settled(client, core)
  BY DEF Inv, TypeOK
<1>2. task' = task /\ got' = got
  BY DEF StreamControl
<1>3. core.streams[id].phase \in {"open", "gone"}
  BY DEF StreamControl, HasHandle
<1>4. core.conn \notin {"none", "failed"} /\ client.core
  BY <1>1, <1>3 DEF Settled, Blank
<1>5. PICK r \in py_reset(core, id) \cup py_stop_sending(core, id) :
        client' = Processed(r).x /\ core' = Processed(r).c
  BY DEF StreamControl
<1>6. PICK out \in ResetStream(core, id) \cup StopSending(core, id) : r = Returned(out)
  BY <1>5 DEF py_reset, py_stop_sending
<1>7. Keeps(core, out)
  BY <1>1, ControlFacts
<1>8. r.c = out.c
  BY <1>6, <1>7, ReturnedFacts DEF Keeps
<1>9. r.c \in WtClients /\ SameSession(core, r.c) /\ QueueKept(core, r.c)
  BY <1>7, <1>8 DEF Keeps
<1>10. CASE r.ret # "value" \/ client.closed
  <2>1. client' = client /\ core' = r.c
    BY <1>5, <1>10 DEF Processed, Process
  <2> QED BY <1>2, <1>9, <2>1, StutterStep
<1>11. CASE r.ret = "value" /\ ~client.closed
  <2> DEFINE a == Process(client, r.c)
  <2>1. client' = a.x /\ core' = a.c
    BY <1>5, <1>11 DEF Processed
  <2>2. core.conn = "open" /\ r.c.conn = "open" /\ Tended(client, core) /\ client.transport
    BY <1>1, <1>4, <1>9, <1>11 DEF Settled, WtClients, SameSession
  <2>3. ReadyIsLive(r.c) /\ Tended(client, r.c)
    BY <1>1, <1>9, <2>2 DEF ReadyIsLive, SameSession, Tended
  <2>4. a.x \in ClientStates /\ Calm(r.c, a.c) /\ (r.c.conn # "failed" => (a.x.closed <=> r.c.conn = "closed"))
    BY <1>1, <1>4, <1>9, <1>11, <2>2, <2>3, ProcessSettles
  <2> HIDE DEF a
  <2>5. client'.closed = client.closed /\ QueueKept(core, core')
    BY <1>1, <1>9, <1>11, <2>1, <2>2, <2>4 DEF QueueKept, Calm, ClientStates
  <2> QED BY <1>2, <2>5, StutterStep
<1> QED BY <1>10, <1>11

\* Nor are the queries.
LEMMA QueryStep ==
    ASSUME Inv, Query
    PROVE  Sound
<1>1. client' = client /\ core' = Deref(core) /\ task' = task /\ got' = got /\ core \in WtClients
  BY DEF Query, Inspect, Inv, TypeOK
<1>2. QueueKept(core, core')
  BY <1>1, DerefFacts DEF QueueKept, Calm
<1> QED BY <1>1, <1>2, StutterStep

\* Every step is one of AsyncPromise, or none, and no connect() returns early.
LEMMA StepIsSound ==
    ASSUME ~ServerEndsSession
    PROVE  Inv /\ Inv' /\ [Next]_vars => Sound
<1> SUFFICES ASSUME Inv, Inv', [Next]_vars PROVE Sound
  OBVIOUS
<1>0. /\ \E o : o \in Attempted
      /\ TRUE \in BOOLEAN /\ "CancelledError" \in {"TimeoutError", "CancelledError"}
      /\ "CancelledError" \in {"OSError", "RuntimeError", "CancelledError"}
  BY TaskTypes DEF ConnectKinds
<1>1. ASSUME NEW p \in Tasks, NEW o \in Attempted, Call(p, o) PROVE Sound
  BY <1>0, <1>1, WaitsStep
<1>2. ASSUME NEW p \in Tasks, Wake(p) PROVE Sound
  BY <1>0, <1>2, WaitsStep
<1>3. ASSUME NEW p \in Tasks, NEW e \in {"TimeoutError", "CancelledError"}, Interrupt(p, e) PROVE Sound
  BY <1>0, <1>3, WaitsStep
<1>4. ASSUME NEW p \in Tasks, Resolved(p) \/ EndpointMade(p) \/ EndpointCancelled(p) PROVE Sound
  BY <1>0, <1>4, ConnectStep
<1>5. ASSUME NEW p \in Tasks, NEW named \in BOOLEAN, ConnectCall(p, named) PROVE Sound
  BY <1>0, <1>5, ConnectStep
<1>6. ASSUME NEW p \in Tasks, NEW e \in {"OSError", "RuntimeError", "CancelledError"}, ConnectAborted(p, e)
      PROVE  Sound
  BY <1>0, <1>6, ConnectStep
<1>7. ASSUME NEW p \in Tasks, ConnectStart(p) PROVE Sound
  BY <1>7, ConnectStartStep
<1>8. ASSUME NEW empty \in BOOLEAN,
             OnReceive(empty) \/ OnTimeout \/ TransportFails \/ OnConnectionLost \/ AppClose
      PROVE  Sound
  BY <1>8, EventsStep
<1>9. ASSUME NEW id \in StreamIds, StreamControl(id) PROVE Sound
  BY <1>9, StreamControlStep
<1>10. ASSUME Query PROVE Sound
  BY <1>10, QueryStep
<1>11. ASSUME UNCHANGED vars PROVE Sound
  BY <1>11, StutterStep DEF vars, QueueKept
<1> QED BY <1>0, <1>1, <1>2, <1>3, <1>4, <1>5, <1>6, <1>7, <1>8, <1>9, <1>10, <1>11 DEF Next

\* A client that was just constructed is an initial state of AsyncPromise.
LEMMA InitKeepsPromise == Init => Promise!Init
<1> SUFFICES ASSUME Init PROVE Promise!Init
  OBVIOUS
<1>1. /\ client.closed = FALSE /\ core.received_datagrams = <<>> /\ got = <<>>
      /\ task = [p \in Tasks |-> IdleTask("none")]
  BY DEF Init, FreshClient
<1>2. Len(<<>>) = 0
  OBVIOUS
<1>3. {got[i] : i \in 1..Len(got)} = {}
      /\ {core.received_datagrams[i] : i \in 1..Len(core.received_datagrams)} = {}
  BY <1>1, <1>2
<1>4. Seen(IdleTask("none")) = "none"
  BY DEF Seen, IdleTask
<1>5. [p \in Tasks |-> Seen(task[p])] = [p \in Tasks |-> "none"]
  BY <1>1, <1>4
<1> QED BY <1>1, <1>3, <1>5 DEF Promise!Init

\* With a server that keeps the session, connect() returns only when it is ready.
THEOREM ConnectTellsTheTruth == ASSUME ~ServerEndsSession PROVE Spec => ConnectMeansSession
<1>1. Inv /\ Inv' /\ [Next]_vars =>
        [\A p \in Tasks : task'[p] # task[p] /\ task'[p].res = "connected" => core'.session_ready]_vars
  BY StepIsSound DEF Sound, Truthful
<1> QED BY <1>1, Invariance, PTL DEF Spec, ConnectMeansSession

\* With a server that keeps the session, AsyncWebTransportClient implements the
\* safety part of AsyncPromise, for any number of tasks: a call returns only on a
\* client that is up, and every datagram is handed to one call.
THEOREM WtKeepsPromise == ASSUME ~ServerEndsSession PROVE Spec => Promise!Spec
<1>1. Inv /\ Inv' /\ [Next]_vars => [Promise!Next]_Promise!vars
  BY StepIsSound DEF Sound, Kept
<1> QED BY <1>1, InitKeepsPromise, Invariance, PTL DEF Spec, Promise!Spec
=============================================================================
