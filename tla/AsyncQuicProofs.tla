--------------------------- MODULE AsyncQuicProofs ---------------------------
(***************************************************************************)
(* Proofs about AsyncQuic, for any set of tasks, any number of attempts to *)
(* connect and all bounds of the glue.                                     *)
(***************************************************************************)
EXTENDS AsyncQuic, QuicGlueProofs

\* A task that is past the construction of its core has one.
StageHasCore ==
    \A p \in Tasks : task[p].pc \in {"endpoint", "opened", "wait"} => task[p].core # 0

\* A client that is not closed holds no core whose connection ended in
\* receive_packet, handle_timeout or close().
EndsNoticed == client.core # 0 /\ ~client.closed => cores[client.core].conn # "closed"

\* The inductive invariant.
Inv == TypeOK /\ StageHasCore /\ EndsNoticed /\ AlarmsServed

\* A closed client has no timer.
Silent(x) == x.closed => ~x.timer

\* What _process needs of the core it looks at: a connection that has ended
\* has left an error.
Explained(x, cs) ==
    /\ Silent(x)
    /\ x.core # 0 /\ ~x.closed /\ cs[x.core].conn = "closed" => cs[x.core].last_error # NoError

\* What EndsNoticed and AlarmsServed say, of a client object and
\* its cores.
Watched(x, cs) ==
    /\ Silent(x)
    /\ x.core # 0 /\ ~x.closed =>
         /\ cs[x.core].conn # "closed"
         /\ cs[x.core].conn = "open" => x.timer

-----------------------------------------------------------------------------
\* _teardown closes the client and changes its type in no way.
LEMMA TeardownFacts ==
    ASSUME NEW x \in ClientStates, NEW reason \in Reasons
    PROVE  /\ Teardown(x, reason) \in ClientStates
           /\ Teardown(x, reason).closed = TRUE
           /\ Teardown(x, reason).core = x.core
           /\ Silent(x) => Silent(Teardown(x, reason))
<1>1. CASE x.closed
  BY <1>1 DEF Teardown, ClientStates
<1>2. CASE ~x.closed
  <2> DEFINE y == [x EXCEPT !.closed = TRUE, !.close_reason = reason, !.timer = FALSE]
  <2>1. y \in ClientStates /\ y.closed = TRUE /\ y.core = x.core /\ y.timer = FALSE
    BY DEF ClientStates
  <2> HIDE DEF y
  <2> DEFINE z == CloseTransport(y)
  <2>2. z \in ClientStates /\ z.closed = TRUE /\ z.core = x.core /\ z.timer = FALSE
    <3>1. CASE y.transport # 0 /\ y.sock[y.transport] = "open"
      <4>1. y.transport \in Attempts /\ y.sock \in [Attempts -> {"none", "open", "closing", "closed"}]
        BY <2>1, <3>1 DEF ClientStates
      <4>2. [y.sock EXCEPT ![y.transport] = "closing"] \in [Attempts -> {"none", "open", "closing", "closed"}]
        BY <4>1
      <4>3. z = [y EXCEPT !.sock = [y.sock EXCEPT ![y.transport] = "closing"]]
        BY <2>1, <3>1 DEF CloseTransport, ClientStates
      <4> QED BY <2>1, <4>2, <4>3 DEF ClientStates
    <3>2. CASE ~(y.transport # 0 /\ y.sock[y.transport] = "open")
      BY <2>1, <3>2 DEF CloseTransport
    <3> QED BY <3>1, <3>2
  <2>3. Teardown(x, reason) = [z EXCEPT !.waiters = {}]
    BY <1>2 DEF Teardown, WakeWaiters, y
  <2> HIDE DEF z
  <2> QED BY <2>2, <2>3 DEF ClientStates, Silent
<1> QED BY <1>1, <1>2

\* _teardown of a client that is not closed wakes everybody.
LEMMA TeardownWakes ==
    ASSUME NEW x \in ClientStates, NEW reason
    PROVE  Teardown(x, reason).waiters = IF x.closed THEN x.waiters ELSE {}
<1> DEFINE z == CloseTransport([x EXCEPT !.closed = TRUE, !.close_reason = reason, !.timer = FALSE])
<1>1. Teardown(x, reason) = IF x.closed THEN x ELSE [z EXCEPT !.waiters = {}]
  BY DEF Teardown, WakeWaiters
<1>2. "waiters" \in DOMAIN z
  BY DEF CloseTransport, ClientStates
<1> HIDE DEF z
<1> QED BY <1>1, <1>2

\* Draining changes the send queue only.
LEMMA DrainFacts ==
    ASSUME NEW x, NEW c \in Clients
    PROVE  /\ DrainSend(x, c) \in Clients /\ DrainSend(x, c).conn = c.conn
           /\ DrainSend(x, c).last_error = c.last_error /\ Calm(c, DrainSend(x, c))
<1>1. <<>> \in Seq({"packet", "close"})
  OBVIOUS
<1> QED BY <1>1 DEF DrainSend, Clients, Calm

\* _process keeps the types and detects the end of the connection, provided
\* that the end left an error.
LEMMA ProcessFacts ==
    ASSUME NEW x \in ClientStates, NEW cs \in [Attempts -> Clients], Explained(x, cs)
    PROVE  /\ Process(x, cs).x \in ClientStates /\ Process(x, cs).cs \in [Attempts -> Clients]
           /\ Watched(Process(x, cs).x, Process(x, cs).cs)
           /\ Process(x, cs).x.core = x.core
<1>1. CASE x.core = 0 \/ x.closed
  BY <1>1 DEF Process, Watched, Explained
<1>2. CASE ~(x.core = 0 \/ x.closed)
  <2>1. x.core \in Attempts /\ cs[x.core] \in Clients
    BY <1>2 DEF ClientStates
  <2> DEFINE c == DrainSend(x, cs[x.core])
  <2>2. /\ c \in Clients /\ c.conn = cs[x.core].conn /\ c.last_error = cs[x.core].last_error
        /\ c.conn \in {"none", "open", "closed", "failed"} /\ c.last_error \in Errors
    <3>1. c \in Clients /\ c.conn = cs[x.core].conn /\ c.last_error = cs[x.core].last_error
      BY <2>1, DrainFacts
    <3> QED BY <3>1 DEF Clients
  <2> HIDE DEF c
  <2>3. CASE Dead(x, c)
    <3>1. Process(x, cs) = [x |-> Teardown(x, DeathReason(c)), cs |-> [cs EXCEPT ![x.core] = c]]
      BY <1>2, <2>3 DEF Process, c
    <3>2. DeathReason(c) \in Reasons
      BY <2>2 DEF DeathReason, Reasons, Errors, NoError
    <3>3. [cs EXCEPT ![x.core] = c] \in [Attempts -> Clients]
      BY <2>1, <2>2
    <3> DEFINE y == Teardown(x, DeathReason(c))
    <3>4. y \in ClientStates /\ y.closed = TRUE /\ y.core = x.core /\ Silent(y)
      BY <3>2, TeardownFacts DEF Explained
    <3>5. Process(x, cs).x = y /\ Process(x, cs).cs = [cs EXCEPT ![x.core] = c]
      BY <3>1
    <3> HIDE DEF y
    <3> QED BY <3>3, <3>4, <3>5 DEF Watched
  <2>4. CASE ~Dead(x, c)
    <3> DEFINE d == ResetRuntimeError(c)
               y == [x EXCEPT !.was_connected = @ \/ IsConnected(c)]
               z == [y EXCEPT !.timer = HasAlarm(c)]
               w == [z EXCEPT !.waiters = {}]
    <3>1. Process(x, cs) = [x |-> w, cs |-> [cs EXCEPT ![x.core] = d]]
      BY <1>2, <2>4 DEF Process, RescheduleTimer, WakeWaiters, NextTimeoutMs, Out, c
    <3>2. d \in Clients /\ d.conn = c.conn
      BY <2>2, ResetFacts
    <3>3. (x.was_connected \/ IsConnected(c)) \in BOOLEAN /\ HasAlarm(c) \in BOOLEAN
      BY DEF IsConnected, HasAlarm
    <3>4. w \in ClientStates /\ w.core = x.core /\ w.closed = x.closed /\ w.timer = (c.conn = "open")
      BY <3>3 DEF ClientStates, HasAlarm
    <3>5. c.conn # "closed"
      BY <1>2, <2>1, <2>2, <2>4 DEF Explained, Silent, Dead, IsConnected
    <3>6. [cs EXCEPT ![x.core] = d] \in [Attempts -> Clients] /\ [cs EXCEPT ![x.core] = d][x.core] = d
      BY <2>1, <3>2
    <3> HIDE DEF d, w
    <3>7. Process(x, cs).x = w /\ Process(x, cs).cs = [cs EXCEPT ![x.core] = d]
      BY <3>1
    <3> QED BY <1>2, <3>2, <3>4, <3>5, <3>6, <3>7 DEF Watched, Silent
  <2> QED BY <2>3, <2>4
<1> QED BY <1>1, <1>2

\* No attempt() opens or ends a connection.
LEMMA AttemptFacts ==
    ASSUME NEW c \in Clients, NEW o \in Attempted, NEW r \in Attempt(o, c)
    PROVE  /\ PyKeeps(c, r)
           /\ r.ret = "value" /\ o.kind = "receive_datagram" => r.val \in 1..MaxDatagrams
           /\ o.kind # "receive_datagram" => QueueKept(c, r.c)
<1>1. CASE o.kind = "is_connected"
  <2>1. r = [c |-> c, ret |-> IF IsConnected(c) THEN "value" ELSE "None", val |-> 0]
    BY <1>1 DEF Attempt
  <2> QED BY <1>1, <2>1 DEF PyKeeps, SameSession, HandlesKept, Calm, QueueKept
<1>2. CASE o.kind = "send_datagram"
  <2>1. r \in py_send_datagram(c, FALSE)
    BY <1>2 DEF Attempt
  <2> QED BY <1>2, <2>1, SendDatagramKeeps
<1>3. CASE o.kind = "receive_datagram"
  <2>1. r \in py_receive_datagram(c)
    BY <1>3 DEF Attempt
  <2>2. c.received_datagrams \in Seq(1..MaxDatagrams)
    BY DEF Clients
  <2> QED BY <1>3, <2>1, <2>2, ReceiveDatagramKeeps, HeadAndTail
<1>4. CASE o.kind = "open"
  <2>1. r \in py_open_stream(c, o.uni) /\ o.uni \in BOOLEAN
    BY <1>4 DEF Attempt, Attempted
  <2> QED BY <1>4, <2>1, OpenStreamKeeps
<1>5. CASE o.kind = "accept"
  <2>1. r \in py_accept_stream(c, o.uni) /\ o.uni \in BOOLEAN
    BY <1>5 DEF Attempt, Attempted
  <2> QED BY <1>5, <2>1, AcceptStreamKeeps
<1>6. CASE o.kind \in {"read", "write", "write_fin"}
  <2>1. o.id \in StreamIds
    BY <1>6 DEF Attempted
  <2>2. r \in py_read(c, o.id) \/ r \in py_write(c, o.id, FALSE) \/ r \in py_write(c, o.id, TRUE)
    BY <1>6 DEF Attempt
  <2> QED BY <1>6, <2>1, <2>2, ReadKeeps, WriteKeeps
<1>7. o.kind \in {"is_connected", "send_datagram", "receive_datagram", "open", "accept",
                  "read", "write", "write_fin"}
  BY DEF Attempted
<1> QED BY <1>1, <1>2, <1>3, <1>4, <1>5, <1>6, <1>7

-----------------------------------------------------------------------------
\* The state a task returns to is a task state.
LEMMA FinishedFacts ==
    ASSUME TypeOK, StageHasCore, NEW p \in Tasks, NEW res \in Results, task' = Finished(p, res)
    PROVE  task' \in [Tasks -> TaskStates] /\ StageHasCore'
<1>1. IsConnectedOp \in Attempted
  BY DEF IsConnectedOp, Attempted
<1>2. IdleTask(res) \in TaskStates /\ IdleTask(res).pc = "idle"
  BY <1>1 DEF IdleTask, TaskStates
<1>3. task' = [task EXCEPT ![p] = IdleTask(res)]
  BY DEF Finished
<1> QED BY <1>2, <1>3 DEF TypeOK, StageHasCore

\* A stage of connect, or a wait, with a core of its own.
LEMMA StageFacts ==
    ASSUME TypeOK, StageHasCore, NEW p \in Tasks, NEW o \in Attempted, NEW a \in {0} \cup Attempts,
           NEW pc \in {"resolve", "endpoint", "opened", "wait"}, pc # "resolve" => a # 0,
           task' = [task EXCEPT ![p] = [pc |-> pc, op |-> o, core |-> a, res |-> "none"]]
    PROVE  task' \in [Tasks -> TaskStates] /\ StageHasCore'
<1> DEFINE t == [pc |-> pc, op |-> o, core |-> a, res |-> "none"]
<1>1. t \in TaskStates /\ t.pc = pc /\ t.core = a
  BY DEF TaskStates, Results
<1> HIDE DEF t
<1>2. task' = [task EXCEPT ![p] = t]
  BY DEF t
<1> QED BY <1>1, <1>2 DEF TypeOK, StageHasCore

\* Inv, seen through Watched.
LEMMA InvFacts ==
    ASSUME Inv
    PROVE  /\ client \in ClientStates /\ cores \in [Attempts -> Clients]
           /\ Watched(client, cores) /\ Explained(client, cores) /\ Silent(client)
BY DEF Inv, TypeOK, EndsNoticed, AlarmsServed, HasAlarm, Watched, Explained, Silent

\* How a step establishes Inv'.
LEMMA InvFromParts ==
    ASSUME client' \in ClientStates, cores' \in [Attempts -> Clients], Watched(client', cores'),
           task' \in [Tasks -> TaskStates], StageHasCore', got' \in [Attempts -> Seq(1..MaxDatagrams)]
    PROVE  Inv'
BY DEF Inv, TypeOK, EndsNoticed, AlarmsServed, HasAlarm, Watched, Silent

\* Replacing the client of a core by one with the same connection.
LEMMA SameConnection ==
    ASSUME NEW x \in ClientStates, NEW cs \in [Attempts -> Clients], NEW a \in Attempts,
           NEW d \in Clients, d.conn = cs[a].conn, Watched(x, cs)
    PROVE  /\ [cs EXCEPT ![a] = d] \in [Attempts -> Clients]
           /\ Watched(x, [cs EXCEPT ![a] = d]) /\ Explained(x, [cs EXCEPT ![a] = d])
<1>1. [cs EXCEPT ![a] = d] \in [Attempts -> Clients]
  OBVIOUS
<1>2. \A b \in Attempts : [cs EXCEPT ![a] = d][b].conn = cs[b].conn
  OBVIOUS
<1>3. x.core # 0 => x.core \in Attempts
  BY DEF ClientStates
<1> QED BY <1>1, <1>2, <1>3 DEF Watched, Silent, Explained

\* One turn of the loop in _wait.
LEMMA TurnKeepsInv ==
    ASSUME Inv, NEW p \in Tasks, NEW o \in Attempted, NEW a \in Attempts, Turn(p, o, a)
    PROVE  Inv'
<1> USE InvFacts
<1>t. TypeOK /\ StageHasCore /\ got \in [Attempts -> Seq(1..MaxDatagrams)] /\ cores[a] \in Clients
  BY DEF Inv, TypeOK
<1>1. CASE client.closed
  <2>1. task' = Finished(p, "ConnectionError") /\ UNCHANGED <<client, cores, got>>
    BY <1>1 DEF Turn
  <2>2. "ConnectionError" \in Results
    BY DEF Results, Exceptions
  <2>3. task' \in [Tasks -> TaskStates] /\ StageHasCore'
    BY <1>t, <2>1, <2>2, FinishedFacts
  <2> QED BY <1>t, <2>1, <2>3, InvFromParts
<1>2. CASE ~client.closed
  <2> DEFINE cs(r) == [cores EXCEPT ![a] = r.c]
             after(r) == IF r.ret = "value" /\ o.kind \in ProcessesAfter
                           THEN Process(client, cs(r)) ELSE [x |-> client, cs |-> cs(r)]
  <2>1. PICK r \in Attempt(o, cores[a]) :
          /\ cores' = after(r).cs
          /\ got' = IF r.ret = "value" /\ o.kind = "receive_datagram"
                      THEN [got EXCEPT ![a] = Append(@, r.val)] ELSE got
          /\ IF r.ret = "None"
               THEN /\ client' = [after(r).x EXCEPT !.waiters = @ \cup {p}]
                    /\ task' = [task EXCEPT ![p] = [pc |-> "wait", op |-> o, core |-> a, res |-> "none"]]
               ELSE /\ client' = after(r).x
                    /\ task' = Finished(p, r.ret)
    BY <1>2 DEF Turn
  <2>2. /\ r.c \in Clients /\ r.c.conn = cores[a].conn /\ r.ret \in {"value", "None"} \cup Exceptions
        /\ r.ret = "value" /\ o.kind = "receive_datagram" => r.val \in 1..MaxDatagrams
    BY <1>t, AttemptFacts DEF PyKeeps, SameSession
  <2>3. cs(r) \in [Attempts -> Clients] /\ Watched(client, cs(r)) /\ Explained(client, cs(r))
    BY <2>2, SameConnection
  <2> HIDE DEF cs
  <2>4. after(r).x \in ClientStates /\ after(r).cs \in [Attempts -> Clients]
        /\ Watched(after(r).x, after(r).cs)
    <3>1. CASE after(r) = Process(client, cs(r))
      BY <2>3, <3>1, ProcessFacts
    <3>2. CASE after(r) = [x |-> client, cs |-> cs(r)]
      BY <2>3, <3>2
    <3> QED BY <3>1, <3>2
  <2> HIDE DEF after
  <2>5. client' \in ClientStates /\ Watched(client', cores')
    <3> DEFINE x == after(r).x
    <3>1. [x EXCEPT !.waiters = @ \cup {p}] \in ClientStates
          /\ [x EXCEPT !.waiters = @ \cup {p}].core = x.core
          /\ [x EXCEPT !.waiters = @ \cup {p}].closed = x.closed
          /\ [x EXCEPT !.waiters = @ \cup {p}].timer = x.timer
      BY <2>4 DEF ClientStates
    <3> QED BY <2>1, <2>4, <3>1 DEF Watched, Silent
  <2>6. got' \in [Attempts -> Seq(1..MaxDatagrams)]
    <3>1. ASSUME r.val \in 1..MaxDatagrams
          PROVE  [got EXCEPT ![a] = Append(@, r.val)] \in [Attempts -> Seq(1..MaxDatagrams)]
      <4>1. Append(got[a], r.val) \in Seq(1..MaxDatagrams)
        BY <1>t, <3>1
      <4> QED BY <1>t, <4>1
    <3> QED BY <1>t, <2>1, <2>2, <3>1
  <2>7. task' \in [Tasks -> TaskStates] /\ StageHasCore'
    <3>1. a \in {0} \cup Attempts /\ a # 0
      BY MaxAttemptsAssumption DEF Attempts
    <3>2. CASE r.ret = "None"
      BY <1>t, <2>1, <3>1, <3>2, StageFacts
    <3>3. CASE r.ret # "None"
      <4>1. r.ret \in Results
        BY <2>2, <3>3 DEF Results
      <4> QED BY <1>t, <2>1, <3>3, <4>1, FinishedFacts
    <3> QED BY <3>2, <3>3
  <2> QED BY <2>1, <2>4, <2>5, <2>6, <2>7, InvFromParts
<1> QED BY <1>1, <1>2

-----------------------------------------------------------------------------
\* An update of the sockets or of the waiters touches neither the core nor
\* the closed flag of the client object.
LEMMA ObjectUpdate ==
    ASSUME NEW x \in ClientStates, NEW k \in Attempts, NEW p,
           NEW st \in {"none", "open", "closing", "closed"}
    PROVE  /\ [x EXCEPT !.sock[k] = st] \in ClientStates
           /\ [x EXCEPT !.sock[k] = st].core = x.core /\ [x EXCEPT !.sock[k] = st].closed = x.closed
           /\ [x EXCEPT !.sock[k] = st].timer = x.timer
           /\ [x EXCEPT !.waiters = @ \ {p}] \in ClientStates
           /\ [x EXCEPT !.waiters = @ \ {p}].core = x.core
           /\ [x EXCEPT !.waiters = @ \ {p}].closed = x.closed
           /\ [x EXCEPT !.waiters = @ \ {p}].timer = x.timer
           /\ [x EXCEPT !.transport = k] \in ClientStates
           /\ [x EXCEPT !.transport = k].core = x.core /\ [x EXCEPT !.transport = k].closed = x.closed
           /\ [x EXCEPT !.transport = k].timer = x.timer
<1>1. [x.sock EXCEPT ![k] = st] \in [Attempts -> {"none", "open", "closing", "closed"}]
  BY DEF ClientStates
<1> QED BY <1>1 DEF ClientStates

\* Interrupt: a deadline or a cancellation of a task in _wait.
LEMMA InterruptKeepsInv ==
    ASSUME Inv, NEW p \in Tasks, NEW e \in {"TimeoutError", "CancelledError"}, Interrupt(p, e)
    PROVE  Inv'
<1> USE InvFacts
<1> DEFINE x == [client EXCEPT !.waiters = @ \ {p}]
<1>1. x \in ClientStates /\ x.core = client.core /\ x.closed = client.closed /\ x.timer = client.timer
  BY DEF ClientStates
<1>2. client' \in {x, Teardown(x, "connect failed")} /\ UNCHANGED <<cores, got>> /\ task' = Finished(p, e)
  BY DEF Interrupt
<1> HIDE DEF x
<1>3. "connect failed" \in Reasons /\ e \in Results
  BY DEF Reasons, Results
<1>4. client' \in ClientStates /\ Watched(client', cores')
  BY <1>1, <1>2, <1>3, TeardownFacts DEF Watched, Silent
<1>5. task' \in [Tasks -> TaskStates] /\ StageHasCore'
  BY <1>2, <1>3, FinishedFacts DEF Inv
<1> QED BY <1>2, <1>4, <1>5, InvFromParts DEF Inv, TypeOK

\* The stages of connect() before its try block.
LEMMA ConnectStagesKeepInv ==
    ASSUME Inv, NEW p \in Tasks, NEW e \in {"OSError", "RuntimeError", "CancelledError"},
           \/ ConnectCall(p) \/ Resolved(p) \/ ConnectAborted(p, e)
           \/ EndpointMade(p) \/ EndpointCancelled(p)
    PROVE  Inv'
<1> USE InvFacts
<1>t. /\ TypeOK /\ StageHasCore /\ got \in [Attempts -> Seq(1..MaxDatagrams)]
      /\ IsConnectedOp \in Attempted /\ e \in Results /\ "CancelledError" \in Results
  BY DEF Inv, TypeOK, IsConnectedOp, Attempted, Results, Exceptions
<1>c. task[p].pc \in {"endpoint", "opened"} => task[p].core \in Attempts /\ task[p].core # 0
  BY <1>t DEF TypeOK, StageHasCore, TaskStates
<1>1. CASE ConnectCall(p)
  <2>1. task' \in [Tasks -> TaskStates] /\ StageHasCore'
    BY <1>1, <1>t, StageFacts DEF ConnectCall, Stage
  <2> QED BY <1>1, <1>t, <2>1, InvFromParts DEF ConnectCall
<1>2. CASE Resolved(p)
  <2>1. client.core + 1 \in Attempts /\ client.core + 1 # 0
    BY <1>2, MaxAttemptsAssumption DEF Resolved, ClientStates, Attempts
  <2>2. task' \in [Tasks -> TaskStates] /\ StageHasCore'
    BY <1>2, <1>t, <2>1, StageFacts DEF Resolved, Stage
  <2>3. /\ client' = [client EXCEPT !.core = @ + 1] /\ got' = got
        /\ cores' = [cores EXCEPT ![client.core + 1] = FreshClient]
    BY <1>2 DEF Resolved
  <2>4. client' \in ClientStates /\ client'.core = client.core + 1 /\ client'.closed = client.closed /\ client'.timer = client.timer
    BY <2>1, <2>3 DEF ClientStates
  <2>5. cores' \in [Attempts -> Clients] /\ cores'[client.core + 1] = FreshClient
    BY <2>1, <2>3, FreshClientFacts
  <2>6. FreshClient.conn = "none"
    BY DEF FreshClient
  <2> QED BY <2>6, <1>t, <2>2, <2>3, <2>4, <2>5, InvFromParts DEF Watched, Silent
<1>3. CASE ConnectAborted(p, e)
  <2>1. task' \in [Tasks -> TaskStates] /\ StageHasCore'
    BY <1>3, <1>t, FinishedFacts DEF ConnectAborted
  <2> QED BY <1>3, <1>t, <2>1, InvFromParts DEF ConnectAborted
<1>4. CASE EndpointMade(p)
  <2>1. task[p].core \in Attempts /\ task[p].core # 0
    BY <1>4, <1>c DEF EndpointMade
  <2>2. task' \in [Tasks -> TaskStates] /\ StageHasCore'
    BY <1>4, <1>t, <2>1, StageFacts DEF EndpointMade, Stage
  <2>3. client' = [client EXCEPT !.sock[task[p].core] = "open"] /\ UNCHANGED <<cores, got>>
    BY <1>4 DEF EndpointMade
  <2>4. client' \in ClientStates /\ client'.core = client.core /\ client'.closed = client.closed /\ client'.timer = client.timer
    BY <2>1, <2>3, ObjectUpdate
  <2> QED BY <1>t, <2>2, <2>3, <2>4, InvFromParts DEF Watched, Silent
<1>5. CASE EndpointCancelled(p)
  <2>1. task[p].core \in Attempts
    BY <1>5, <1>c DEF EndpointCancelled
  <2>2. task' \in [Tasks -> TaskStates] /\ StageHasCore'
    BY <1>5, <1>t, FinishedFacts DEF EndpointCancelled
  <2> DEFINE st == IF client.sock[task[p].core] = "open" THEN "closing" ELSE client.sock[task[p].core]
  <2>3. st \in {"none", "open", "closing", "closed"}
    BY <2>1 DEF ClientStates
  <2>4. client' = [client EXCEPT !.sock[task[p].core] = st] /\ UNCHANGED <<cores, got>>
    BY <1>5 DEF EndpointCancelled
  <2> HIDE DEF st
  <2>5. client' \in ClientStates /\ client'.core = client.core /\ client'.closed = client.closed /\ client'.timer = client.timer
    BY <2>1, <2>3, <2>4, ObjectUpdate
  <2> QED BY <1>t, <2>2, <2>4, <2>5, InvFromParts DEF Watched, Silent
<1> QED BY <1>1, <1>2, <1>3, <1>4, <1>5

\* connect()'s try block up to its first await.
LEMMA ConnectStartKeepsInv ==
    ASSUME Inv, NEW p \in Tasks, ConnectStart(p)
    PROVE  Inv'
<1> USE InvFacts
<1> DEFINE a == task[p].core
           x == [client EXCEPT !.transport = a]
           cs(r) == [cores EXCEPT ![a] = r.c]
<1>t. /\ TypeOK /\ StageHasCore /\ got \in [Attempts -> Seq(1..MaxDatagrams)]
      /\ IsConnectedOp \in Attempted /\ "connect failed" \in Reasons
      /\ "ConnectionError" \in Results
  BY DEF Inv, TypeOK, IsConnectedOp, Attempted, Results, Exceptions, Reasons
<1>1. a \in Attempts /\ a # 0
  BY <1>t DEF ConnectStart, TypeOK, StageHasCore, TaskStates
<1>2. cores[a] \in Clients
  BY <1>1
<1>3. x \in ClientStates /\ x.core = client.core /\ x.closed = client.closed /\ x.timer = client.timer
  BY <1>1, ObjectUpdate
<1>4. PICK r \in py_start(cores[a]) :
        /\ got' = got
        /\ cores' = Process(x, cs(r)).cs
        /\ IF Process(x, cs(r)).x.closed
             THEN /\ client' = Teardown(Process(x, cs(r)).x, "connect failed")
                  /\ task' = Finished(p, "ConnectionError")
             ELSE /\ client' = [Process(x, cs(r)).x EXCEPT !.waiters = @ \cup {p}]
                  /\ Stage(p, "wait", a)
  BY DEF ConnectStart
<1>5. r.c \in Clients /\ r.c.conn # "closed"
  BY <1>2, <1>4, StartFacts
<1>6. cs(r) \in [Attempts -> Clients]
  BY <1>1, <1>5
<1>7. Explained(x, cs(r))
  <2>1. CASE x.core = a
    BY <1>1, <1>5, <2>1 DEF Explained, Silent
  <2>2. CASE x.core # a
    BY <1>1, <1>3, <2>2 DEF Explained, Silent, Watched, ClientStates
  <2> QED BY <2>1, <2>2
<1> DEFINE y == Process(x, cs(r)).x
           ds == Process(x, cs(r)).cs
<1>8. y \in ClientStates /\ ds \in [Attempts -> Clients] /\ Watched(y, ds)
  BY <1>3, <1>6, <1>7, ProcessFacts
<1>9. /\ cores' = ds /\ got' = got
      /\ IF y.closed
           THEN client' = Teardown(y, "connect failed") /\ task' = Finished(p, "ConnectionError")
           ELSE client' = [y EXCEPT !.waiters = @ \cup {p}] /\ Stage(p, "wait", a)
  BY <1>4
<1> HIDE DEF y, ds
<1>10. CASE y.closed
  <2>1. client' \in ClientStates /\ client'.closed /\ Silent(client')
    BY <1>t, <1>8, <1>9, <1>10, TeardownFacts DEF Watched
  <2>2. task' \in [Tasks -> TaskStates] /\ StageHasCore'
    BY <1>t, <1>9, <1>10, FinishedFacts
  <2> QED BY <1>t, <1>8, <1>9, <2>1, <2>2, InvFromParts DEF Watched, Silent
<1>11. CASE ~y.closed
  <2>1. client' \in ClientStates /\ client'.core = y.core /\ client'.closed = y.closed /\ client'.timer = y.timer
    BY <1>8, <1>9, <1>11 DEF ClientStates
  <2>2. task' \in [Tasks -> TaskStates] /\ StageHasCore'
    BY <1>1, <1>t, <1>9, <1>11, StageFacts DEF Stage
  <2> QED BY <1>t, <1>8, <1>9, <2>1, <2>2, InvFromParts DEF Watched, Silent
<1> QED BY <1>10, <1>11

\* A step that changes one core and runs _process, or raises before it.
LEMMA CallbackKeepsInv ==
    ASSUME Inv, NEW a \in Attempts, NEW r, r.c \in Clients, UNCHANGED <<task, got>>,
           r.ret = "value" => Explained(client, [cores EXCEPT ![a] = r.c]),
           r.ret # "value" => r.c.conn = cores[a].conn,
           LET cs == [cores EXCEPT ![a] = r.c]
               after == IF r.ret = "value" THEN Process(client, cs) ELSE [x |-> client, cs |-> cs]
           IN client' = after.x /\ cores' = after.cs
    PROVE  Inv'
<1> USE InvFacts
<1> DEFINE cs == [cores EXCEPT ![a] = r.c]
<1>1. cs \in [Attempts -> Clients]
  OBVIOUS
<1>2. task' \in [Tasks -> TaskStates] /\ StageHasCore' /\ got' \in [Attempts -> Seq(1..MaxDatagrams)]
  BY DEF Inv, TypeOK, StageHasCore
<1>3. CASE r.ret = "value"
  <2>1. client' = Process(client, cs).x /\ cores' = Process(client, cs).cs
    BY <1>3
  <2>2. Explained(client, cs)
    BY <1>3
  <2> HIDE DEF cs
  <2>3. client' \in ClientStates /\ cores' \in [Attempts -> Clients] /\ Watched(client', cores')
    BY <1>1, <2>1, <2>2, ProcessFacts
  <2> QED BY <1>2, <2>3, InvFromParts
<1>4. CASE r.ret # "value"
  <2>1. client' = client /\ cores' = cs
    BY <1>4
  <2>2. Watched(client, cs)
    BY <1>4, SameConnection
  <2> QED BY <1>1, <1>2, <2>1, <2>2, InvFromParts
<1> QED BY <1>3, <1>4

\* The callbacks of the transport.
LEMMA SocketsKeepInv ==
    ASSUME Inv, NEW k \in Attempts, TransportFails(k) \/ OnConnectionLost(k)
    PROVE  Inv'
<1> USE InvFacts
<1>1. UNCHANGED <<cores, task, got>>
  BY DEF TransportFails, OnConnectionLost
<1>2. task' \in [Tasks -> TaskStates] /\ StageHasCore' /\ got' \in [Attempts -> Seq(1..MaxDatagrams)]
  BY <1>1 DEF Inv, TypeOK, StageHasCore
<1>3. CASE TransportFails(k)
  <2>1. client' = [client EXCEPT !.sock[k] = "closing"]
    BY <1>3 DEF TransportFails
  <2>2. client' \in ClientStates /\ client'.core = client.core /\ client'.closed = client.closed /\ client'.timer = client.timer
    BY <2>1, ObjectUpdate
  <2> QED BY <1>1, <1>2, <2>2, InvFromParts DEF Watched, Silent
<1>4. CASE OnConnectionLost(k)
  <2> DEFINE x == [client EXCEPT !.sock[k] = "closed"]
  <2>1. x \in ClientStates /\ Silent(x)
    BY ObjectUpdate DEF Silent
  <2>2. client' = Teardown(x, "connection lost")
    BY <1>4 DEF OnConnectionLost
  <2> HIDE DEF x
  <2>3. client' \in ClientStates /\ client'.closed /\ Silent(client')
    BY <2>1, <2>2, TeardownFacts DEF Reasons
  <2> QED BY <1>1, <1>2, <2>3, InvFromParts DEF Watched, Silent
<1> QED BY <1>3, <1>4

\* datagram_received, the timer and the stream controls end in _process.
LEMMA CallbacksKeepInv ==
    ASSUME Inv, NEW k \in Attempts, NEW empty \in BOOLEAN, OnReceive(k, empty) \/ OnTimeout
    PROVE  Inv'
<1> USE InvFacts
<1> DEFINE a == client.core
<1>1. a \in Attempts /\ cores[a] \in Clients /\ cores[a].conn # "closed"
  BY DEF OnReceive, OnTimeout, ClientStates, Watched
<1>2. CASE OnReceive(k, empty)
  <2>1. PICK r \in py_receive_packet(cores[a], empty) :
          LET cs == [cores EXCEPT ![a] = r.c]
              after == IF r.ret = "value" THEN Process(client, cs) ELSE [x |-> client, cs |-> cs]
          IN client' = after.x /\ cores' = after.cs
    BY <1>2 DEF OnReceive
  <2>2. /\ r.c \in Clients /\ (r.ret # "value" => r.c.conn = cores[a].conn)
        /\ (r.ret = "value" => (r.c.conn = "closed" => r.c.last_error # NoError))
    BY <1>1, <2>1, ReceivePacketFacts DEF Calm
  <2>3. r.ret = "value" => Explained(client, [cores EXCEPT ![a] = r.c])
    BY <1>1, <2>2 DEF Explained, Silent
  <2>4. UNCHANGED <<task, got>>
    BY <1>2 DEF OnReceive
  <2> HIDE DEF a
  <2> QED BY <1>1, <2>1, <2>2, <2>3, <2>4, CallbackKeepsInv
<1>3. CASE OnTimeout
  <2>1. PICK r \in py_handle_timeout(cores[a]) :
          LET after == Process(client, [cores EXCEPT ![a] = r.c])
          IN client' = after.x /\ cores' = after.cs
    BY <1>3 DEF OnTimeout
  <2>2. r.c \in Clients /\ (r.c.conn = "closed" => r.c.last_error # NoError)
    BY <1>1, <2>1, HandleTimeoutFacts
  <2> DEFINE cs == [cores EXCEPT ![a] = r.c]
  <2>3. cs \in [Attempts -> Clients] /\ Explained(client, cs)
    BY <1>1, <2>2 DEF Explained, Silent
  <2>4. client' = Process(client, cs).x /\ cores' = Process(client, cs).cs
    BY <2>1
  <2> HIDE DEF cs
  <2>5. client' \in ClientStates /\ cores' \in [Attempts -> Clients] /\ Watched(client', cores')
    BY <2>3, <2>4, ProcessFacts
  <2>6. task' \in [Tasks -> TaskStates] /\ StageHasCore' /\ got' \in [Attempts -> Seq(1..MaxDatagrams)]
    BY <1>3 DEF OnTimeout, Inv, TypeOK, StageHasCore
  <2> QED BY <2>5, <2>6, InvFromParts
<1> QED BY <1>2, <1>3

\* reset() and stop_sending().
LEMMA StreamControlsKeepInv ==
    ASSUME Inv, NEW a \in Attempts, NEW id \in StreamIds, StreamReset(a, id) \/ StreamStopSending(a, id)
    PROVE  Inv'
<1> USE InvFacts
<1>1. PICK r \in py_reset(cores[a], id) \cup py_stop_sending(cores[a], id) :
        LET cs == [cores EXCEPT ![a] = r.c]
            after == IF r.ret = "value" THEN Process(client, cs) ELSE [x |-> client, cs |-> cs]
        IN client' = after.x /\ cores' = after.cs
  BY DEF StreamReset, StreamStopSending, StreamControl
<1>2. UNCHANGED <<task, got>>
  BY DEF StreamReset, StreamStopSending, StreamControl
<1>3. r.c \in Clients /\ r.c.conn = cores[a].conn
  <2>1. cores[a] \in Clients
    OBVIOUS
  <2> QED BY <1>1, <2>1, ResetStreamKeeps, StopSendingKeeps DEF PyKeeps, SameSession
<1>4. Explained(client, [cores EXCEPT ![a] = r.c])
  BY <1>3, SameConnection
<1> QED BY <1>1, <1>2, <1>3, <1>4, CallbackKeepsInv

\* close() of the application, and the refused datagram.
LEMMA AppCallsKeepInv ==
    ASSUME Inv, AppClose \/ SendOversized
    PROVE  Inv'
<1> USE InvFacts
<1>1. task' \in [Tasks -> TaskStates] /\ StageHasCore' /\ got' \in [Attempts -> Seq(1..MaxDatagrams)]
  BY DEF AppClose, SendOversized, Inv, TypeOK, StageHasCore
<1>2. CASE AppClose
  <2>1. client' = Teardown(client, "closed by application")
    BY <1>2 DEF AppClose
  <2>2. client' \in ClientStates /\ client'.closed /\ Silent(client')
    BY <2>1, TeardownFacts DEF Reasons
  <2>3. cores' \in [Attempts -> Clients]
    <3>1. CASE client.core = 0
      BY <1>2, <3>1 DEF AppClose
    <3>2. CASE client.core # 0
      <4>1. client.core \in Attempts
        BY <3>2 DEF ClientStates
      <4>2. DrainSend(client, Close(cores[client.core])) \in Clients
        BY <4>1, CloseFacts, DrainFacts
      <4>3. cores' = [cores EXCEPT ![client.core] = DrainSend(client, Close(cores[client.core]))]
        BY <1>2, <3>2 DEF AppClose
      <4> QED BY <4>2, <4>3
    <3> QED BY <3>1, <3>2
  <2> QED BY <1>1, <2>2, <2>3, InvFromParts DEF Watched, Silent
<1>3. CASE SendOversized
  <2> DEFINE a == client.core
  <2>1. a \in Attempts
    BY <1>3 DEF SendOversized, ClientStates
  <2>2. PICK r \in py_send_datagram(cores[a], TRUE) : cores' = [cores EXCEPT ![a] = r.c]
    BY <1>3 DEF SendOversized
  <2>3. r.c \in Clients /\ r.c.conn = cores[a].conn
    BY <2>1, <2>2, SendDatagramKeeps DEF PyKeeps, SameSession
  <2>4. client' = client
    BY <1>3 DEF SendOversized
  <2> HIDE DEF a
  <2>5. cores' \in [Attempts -> Clients] /\ Watched(client, cores')
    BY <2>1, <2>2, <2>3, SameConnection
  <2> QED BY <1>1, <2>4, <2>5, InvFromParts
<1> QED BY <1>2, <1>3

-----------------------------------------------------------------------------
\* Every action keeps the invariant.
LEMMA InvInductive == Inv /\ [Next]_vars => Inv'
<1> SUFFICES ASSUME Inv, [Next]_vars PROVE Inv'
  OBVIOUS
<1>t. client \in ClientStates /\ task \in [Tasks -> TaskStates] /\ StageHasCore
  BY DEF Inv, TypeOK
<1>1. ASSUME NEW p \in Tasks, NEW o \in Attempted, Call(p, o) PROVE Inv'
  <2>1. PICK a \in Attempts : Turn(p, o, a)
    BY <1>1, <1>t DEF Call, ClientStates
  <2> QED BY <2>1, TurnKeepsInv
<1>2. ASSUME NEW p \in Tasks, Wake(p) PROVE Inv'
  <2>1. task[p].core \in Attempts /\ task[p].op \in Attempted
    BY <1>2, <1>t DEF Wake, StageHasCore, TaskStates
  <2> QED BY <1>2, <2>1, TurnKeepsInv DEF Wake
<1>3. ASSUME NEW p \in Tasks, NEW e \in {"TimeoutError", "CancelledError"}, Interrupt(p, e) PROVE Inv'
  BY <1>3, InterruptKeepsInv
<1>4. ASSUME NEW p \in Tasks, NEW e \in {"OSError", "RuntimeError", "CancelledError"},
             \/ ConnectCall(p) \/ Resolved(p) \/ ConnectAborted(p, e)
             \/ EndpointMade(p) \/ EndpointCancelled(p)
      PROVE  Inv'
  BY <1>4, ConnectStagesKeepInv
<1>5. ASSUME NEW p \in Tasks, ConnectStart(p) PROVE Inv'
  BY <1>5, ConnectStartKeepsInv
<1>6. ASSUME NEW k \in Attempts, NEW empty \in BOOLEAN, OnReceive(k, empty) \/ OnTimeout PROVE Inv'
  BY <1>6, CallbacksKeepInv
<1>7. ASSUME NEW k \in Attempts, TransportFails(k) \/ OnConnectionLost(k) PROVE Inv'
  BY <1>7, SocketsKeepInv
<1>8. ASSUME AppClose \/ SendOversized PROVE Inv'
  BY <1>8, AppCallsKeepInv
<1>9. ASSUME NEW a \in Attempts, NEW id \in StreamIds, StreamReset(a, id) \/ StreamStopSending(a, id)
      PROVE  Inv'
  BY <1>9, StreamControlsKeepInv
<1>10. ASSUME UNCHANGED vars PROVE Inv'
  BY <1>10 DEF vars, Inv, TypeOK, StageHasCore, EndsNoticed, AlarmsServed, HasAlarm
<1>11. 1 \in Attempts /\ "OSError" \in {"OSError", "RuntimeError", "CancelledError"} /\ TRUE \in BOOLEAN
  BY MaxAttemptsAssumption DEF Attempts
<1> QED BY <1>1, <1>2, <1>3, <1>4, <1>5, <1>6, <1>7, <1>8, <1>9, <1>10, <1>11 DEF Next

\* The client that was just constructed satisfies the invariant.
LEMMA InitInv == Init => Inv
<1> SUFFICES ASSUME Init PROVE Inv
  OBVIOUS
<1>1. client \in ClientStates
  BY DEF Init, ClientStates, Reasons, Errors, NoError
<1>2. cores \in [Attempts -> Clients]
  BY FreshClientFacts DEF Init
<1>3. IdleTask("none") \in TaskStates /\ IdleTask("none").pc = "idle"
  BY DEF IdleTask, TaskStates, Results, IsConnectedOp, Attempted
<1>4. task \in [Tasks -> TaskStates] /\ StageHasCore
  BY <1>3 DEF Init, StageHasCore
<1>5. got \in [Attempts -> Seq(1..MaxDatagrams)]
  <2>1. <<>> \in Seq(1..MaxDatagrams)
    OBVIOUS
  <2> QED BY <2>1 DEF Init
<1>6. EndsNoticed /\ AlarmsServed
  BY DEF Init, EndsNoticed, AlarmsServed
<1> QED BY <1>1, <1>2, <1>4, <1>5, <1>6 DEF Inv, TypeOK

\* The types hold in every reachable state, for every value of the constants.
THEOREM TypeCorrect == Spec => []TypeOK
<1>1. Inv => TypeOK
  BY DEF Inv
<1> QED BY <1>1, InitInv, InvInductive, PTL DEF Spec

\* The alarms of QUICHE are always served: the event loop's timer is armed
\* while the current connection is open, and off once the client is closed.
THEOREM AlarmsAlwaysServed == Spec => []AlarmsServed
<1>1. Inv => AlarmsServed
  BY DEF Inv
<1> QED BY <1>1, InitInv, InvInductive, PTL DEF Spec

-----------------------------------------------------------------------------
(* The second invariant, on top of the first: the cores of the attempts,   *)
(* the datagrams and the sleeping tasks.                                   *)

Stages == {"endpoint", "opened"}
StreamKinds == {"read", "write", "write_fin"}

\* Every attempt has a core of its own, which is not started before its task
\* gets to the try block of connect(); the cores of later attempts are unused.
StagesApart ==
    /\ \A p \in Tasks : task[p].core <= client.core
    /\ \A p \in Tasks : task[p].pc \in Stages => cores[task[p].core].conn = "none"
    /\ \A p, q \in Tasks :
         p # q /\ task[p].pc \in Stages /\ task[q].pc \in Stages => task[p].core # task[q].core
    /\ \A a \in Attempts : a > client.core => cores[a].conn = "none"

\* A core that was not started has received nothing and has no streams.
NothingYet(c, g) == g = <<>> /\ c.received_datagrams = <<>> /\ \A id \in StreamIds : ~HasHandle(c, id)
NoneIsBlank == \A a \in Attempts : cores[a].conn = "none" => NothingYet(cores[a], got[a])

\* A task that waits on a stream got the stream from the core it waits on.
WaitsOnHandle ==
    \A p \in Tasks : task[p].pc = "wait" /\ task[p].op.kind \in StreamKinds
                       => HasHandle(cores[task[p].core], task[p].op.id)

\* attempt() of o would succeed on core c.
Possible(o, c) ==
    \/ o.kind = "is_connected" /\ IsConnected(c)
    \/ o.kind = "send_datagram" /\ CanSend(c)
    \/ o.kind = "receive_datagram" /\ CanReceive(c)
    \/ o.kind = "open" /\ CanOpen(c, o.uni)
    \/ o.kind = "accept" /\ CanAccept(c, o.uni)
    \/ o.kind = "read" /\ CanRead(c, o.id)
    \/ o.kind \in {"write", "write_fin"} /\ CanWriteTo(c, o.id)

\* NoLostWakeup, in terms of the state of the core.
Asleep ==
    \A p \in client.waiters :
        /\ task[p].pc = "wait" /\ ~client.closed
        /\ ~Possible(task[p].op, cores[task[p].core])

Order == StagesApart /\ NoneIsBlank /\ DatagramsExactlyOnce /\ WaitsOnHandle
Inv2 == Order /\ Asleep

-----------------------------------------------------------------------------
\* attempt() returns a value only if it is possible, and None only if not.
LEMMA AttemptAnswers ==
    ASSUME NEW c \in Clients, NEW o \in Attempted, NEW r \in Attempt(o, c)
    PROVE  Answers(r, Possible(o, c))
<1>1. CASE o.kind = "is_connected"
  <2>1. r.ret = IF IsConnected(c) THEN "value" ELSE "None"
    BY <1>1 DEF Attempt
  <2> QED BY <1>1, <2>1 DEF Answers, Possible
<1>2. CASE o.kind = "send_datagram"
  <2>1. r \in py_send_datagram(c, FALSE)
    BY <1>2 DEF Attempt
  <2> QED BY <1>2, <2>1, SendDatagramAnswers DEF Answers, Possible
<1>3. CASE o.kind = "receive_datagram"
  <2>1. r \in py_receive_datagram(c)
    BY <1>3 DEF Attempt
  <2> QED BY <1>3, <2>1, ReceiveDatagramKeeps DEF Answers, Possible, CanReceive
<1>4. CASE o.kind = "open"
  <2>1. r \in py_open_stream(c, o.uni) /\ o.uni \in BOOLEAN
    BY <1>4 DEF Attempt, Attempted
  <2> QED BY <1>4, <2>1, OpenStreamAnswers DEF Answers, Possible
<1>5. CASE o.kind = "accept"
  <2>1. r \in py_accept_stream(c, o.uni) /\ o.uni \in BOOLEAN
    BY <1>5 DEF Attempt, Attempted
  <2> QED BY <1>5, <2>1, AcceptStreamAnswers DEF Answers, Possible
<1>6. CASE o.kind = "read"
  <2>1. r \in py_read(c, o.id) /\ o.id \in StreamIds
    BY <1>6 DEF Attempt, Attempted
  <2> QED BY <1>6, <2>1, ReadAnswers DEF Answers, Possible
<1>7. CASE o.kind \in {"write", "write_fin"}
  <2>1. o.id \in StreamIds /\ \E fin \in BOOLEAN : r \in py_write(c, o.id, fin)
    BY <1>7 DEF Attempt, Attempted
  <2> QED BY <1>7, <2>1, WriteAnswers DEF Answers, Possible
<1>8. o.kind \in {"is_connected", "send_datagram", "receive_datagram", "open", "accept",
                  "read", "write", "write_fin"}
  BY DEF Attempted
<1> QED BY <1>1, <1>2, <1>3, <1>4, <1>5, <1>6, <1>7, <1>8

\* The attempts that do not run _process make nothing possible that was not.
LEMMA AttemptNothingNew ==
    ASSUME NEW c \in Clients, NEW o \in Attempted, NEW r \in Attempt(o, c),
           r.ret # "value" \/ o.kind \notin ProcessesAfter
    PROVE  NothingNew(c, r.c)
<1>1. CASE r.ret # "value"
  <2>1. Calm(c, r.c)
    BY <1>1, AttemptFacts DEF PyKeeps
  <2> QED BY <2>1, CalmNothingNew
<1>2. CASE o.kind = "is_connected"
  <2>1. r.c = c
    BY <1>2 DEF Attempt
  <2> QED BY <2>1 DEF NothingNew
<1>3. CASE o.kind = "receive_datagram"
  BY <1>3, ReceiveNothingNew DEF Attempt
<1>4. CASE o.kind = "open"
  <2>1. r \in py_open_stream(c, o.uni) /\ o.uni \in BOOLEAN
    BY <1>4 DEF Attempt, Attempted
  <2> QED BY <2>1, OpenNothingNew
<1>5. CASE o.kind = "accept"
  <2>1. r \in py_accept_stream(c, o.uni) /\ o.uni \in BOOLEAN
    BY <1>5 DEF Attempt, Attempted
  <2> QED BY <2>1, AcceptNothingNew
<1>6. CASE o.kind = "read"
  <2>1. r \in py_read(c, o.id) /\ o.id \in StreamIds
    BY <1>6 DEF Attempt, Attempted
  <2> QED BY <2>1, ReadNothingNew
<1>7. r.ret # "value" \/ o.kind \in {"is_connected", "receive_datagram", "open", "accept", "read"}
  BY DEF Attempted, ProcessesAfter
<1> QED BY <1>1, <1>2, <1>3, <1>4, <1>5, <1>6, <1>7

\* What a task waits for does not become possible when nothing new does.
LEMMA StillAsleep ==
    ASSUME NEW c, NEW d, NEW o \in Attempted, NothingNew(c, d),
           o.kind \in StreamKinds => HasHandle(c, o.id), ~Possible(o, c)
    PROVE  ~Possible(o, d)
<1>1. o.kind \in {"open", "accept"} => o.uni \in BOOLEAN
  BY DEF Attempted
<1>2. o.kind \in StreamKinds => o.id \in StreamIds /\ c.streams[o.id].phase \in {"open", "gone"}
  BY DEF Attempted, StreamKinds, HasHandle
<1>3. CASE o.kind \in StreamKinds
  BY <1>2, <1>3 DEF NothingNew, Possible, StreamKinds
<1>4. CASE o.kind \notin StreamKinds
  BY <1>1, <1>4 DEF NothingNew, Possible, StreamKinds
<1> QED BY <1>3, <1>4

-----------------------------------------------------------------------------
\* _process touches a core's error and its queue of packets only.  When there
\* is a core and the client is not closed, it wakes everybody.
LEMMA ProcessWakes ==
    ASSUME NEW x \in ClientStates, NEW cs \in [Attempts -> Clients]
    PROVE  /\ \A a \in Attempts : Calm(cs[a], Process(x, cs).cs[a])
           /\ x.core # 0 /\ ~x.closed => Process(x, cs).x.waiters = {}
           /\ x.core = 0 \/ x.closed => Process(x, cs) = [x |-> x, cs |-> cs]
<1>s. \A c : Calm(c, c)
  BY DEF Calm
<1>1. CASE x.core = 0 \/ x.closed
  BY <1>1, <1>s DEF Process
<1>2. CASE ~(x.core = 0 \/ x.closed)
  <2>1. x.core \in Attempts /\ cs[x.core] \in Clients
    BY <1>2 DEF ClientStates
  <2> DEFINE c == DrainSend(x, cs[x.core])
  <2>2. c \in Clients /\ Calm(cs[x.core], c)
    BY <2>1, DrainFacts
  <2> HIDE DEF c
  <2>3. CASE Dead(x, c)
    <3> DEFINE y == Teardown(x, DeathReason(c))
    <3>1. Process(x, cs) = [x |-> y, cs |-> [cs EXCEPT ![x.core] = c]]
      BY <1>2, <2>3 DEF Process, c
    <3>2. y.waiters = {}
      BY <1>2, TeardownWakes
    <3> HIDE DEF y
    <3>3. Process(x, cs).x = y /\ Process(x, cs).cs = [cs EXCEPT ![x.core] = c]
      BY <3>1
    <3> QED BY <1>2, <1>s, <2>1, <2>2, <3>2, <3>3
  <2>4. CASE ~Dead(x, c)
    <3> DEFINE d == ResetRuntimeError(c)
               z == RescheduleTimer([x EXCEPT !.was_connected = @ \/ IsConnected(c)], c)
               w == WakeWaiters(z)
    <3>1. Process(x, cs) = [x |-> w, cs |-> [cs EXCEPT ![x.core] = d]]
      BY <1>2, <2>4 DEF Process, NextTimeoutMs, Out, c
    <3>2. Calm(cs[x.core], d)
      BY <2>2, ResetFacts, CalmTransitive
    <3>3. w.waiters = {}
      BY DEF WakeWaiters, RescheduleTimer, ClientStates
    <3> HIDE DEF d, w
    <3>4. Process(x, cs).x = w /\ Process(x, cs).cs = [cs EXCEPT ![x.core] = d]
      BY <3>1
    <3> QED BY <1>2, <1>s, <2>1, <3>2, <3>3, <3>4
  <2> QED BY <2>3, <2>4
<1> QED BY <1>1, <1>2

-----------------------------------------------------------------------------
\* What a step may do to a core c whose datagrams g were delivered, other than
\* constructing or starting it.
CoreStep(c, d, g, h) ==
    /\ HandlesKept(c, d)
    /\ Ledger(g, c) => Ledger(h, d)
    /\ c.conn = "none" /\ NothingYet(c, g) => Calm(c, d) /\ h = g
    /\ d.conn = "none" => c.conn = "none"

CoresStep == \A a \in Attempts : CoreStep(cores[a], cores'[a], got[a], got'[a])

\* What a step may do to the tasks, other than giving one a new core.
TasksStep ==
    \A p \in Tasks :
        \/ task'[p] = task[p]
        \/ task[p].pc \in Stages /\ task'[p].pc \in Stages /\ task'[p].core = task[p].core
        \/ /\ task'[p].pc \notin Stages /\ task'[p].core <= client.core
           /\ task'[p].pc = "wait" /\ task'[p].op.kind \in StreamKinds
                => HasHandle(cores[task'[p].core], task'[p].op.id)

\* An error or a packet more.
LEMMA CalmStep ==
    ASSUME NEW c, NEW d, NEW g, Calm(c, d)
    PROVE  CoreStep(c, d, g, g)
<1>1. Ledger(g, c) => Ledger(g, d)
  BY LedgerKept
<1> QED BY <1>1 DEF CoreStep, Calm, HandlesKept

\* QUICHE runs.
LEMMA EvolvesStep ==
    ASSUME NEW c \in Clients, NEW d \in Clients, NEW g \in Seq(1..MaxDatagrams), Evolves(c, d)
    PROVE  CoreStep(c, d, g, g)
<1>1. Ledger(g, c) => Ledger(g, d)
  BY LedgerGrows DEF Evolves
<1> QED BY <1>1 DEF CoreStep, Evolves

\* _process runs after a step.
LEMMA StepThenCalm ==
    ASSUME NEW c, NEW d, NEW e, NEW g, NEW h, CoreStep(c, d, g, h), Calm(d, e)
    PROVE  CoreStep(c, e, g, h)
<1>1. Ledger(h, d) => Ledger(h, e)
  BY LedgerKept
<1>2. Calm(c, d) => Calm(c, e)
  BY CalmTransitive
<1>3. e.conn = d.conn /\ e.streams = d.streams
  BY DEF Calm
<1>4. HandlesKept(c, e)
  BY <1>3 DEF CoreStep, HandlesKept
<1> QED BY <1>1, <1>2, <1>3, <1>4 DEF CoreStep

\* A call that needs a connection to succeed.
LEMMA CallStep ==
    ASSUME NEW c, NEW r, NEW g, PyKeeps(c, r), QueueKept(c, r.c), r.ret = "value" => c.conn = "open"
    PROVE  CoreStep(c, r.c, g, g)
<1>1. SameSession(c, r.c) /\ HandlesKept(c, r.c) /\ (r.ret # "value" => Calm(c, r.c))
  BY DEF PyKeeps
<1>2. Ledger(g, c) => Ledger(g, r.c)
  BY <1>1, LedgerKept
<1> QED BY <1>1, <1>2 DEF CoreStep, SameSession

\* attempt() of a task.
LEMMA AttemptStep ==
    ASSUME NEW c \in Clients, NEW o \in Attempted, NEW r \in Attempt(o, c), NEW g \in Seq(1..MaxDatagrams)
    PROVE  CoreStep(c, r.c, g, IF r.ret = "value" /\ o.kind = "receive_datagram" THEN Append(g, r.val) ELSE g)
<1>1. PyKeeps(c, r) /\ (o.kind # "receive_datagram" => QueueKept(c, r.c))
  BY AttemptFacts
<1>2. CASE r.ret # "value"
  <2>1. Calm(c, r.c)
    BY <1>1, <1>2 DEF PyKeeps
  <2> QED BY <1>2, <2>1, CalmStep
<1>3. CASE r.ret = "value" /\ o.kind # "receive_datagram"
  <2>1. Possible(o, c)
    BY <1>3, AttemptAnswers DEF Answers
  <2>2. c.conn = "open"
    BY <1>3, <2>1 DEF Possible, IsConnected, CanSend, CanOpen, CanAccept, CanRead, CanWriteTo
  <2> QED BY <1>1, <1>3, <2>2, CallStep
<1>4. CASE r.ret = "value" /\ o.kind = "receive_datagram"
  <2>1. r \in py_receive_datagram(c)
    BY <1>4 DEF Attempt
  <2>2. Ledger(g, c) => Ledger(Append(g, r.val), r.c)
    BY <1>4, <2>1, LedgerTaken
  <2>3. c.received_datagrams # <<>>
    BY <1>4, <2>1, ReceiveDatagramKeeps
  <2>4. SameSession(c, r.c) /\ HandlesKept(c, r.c)
    BY <1>1 DEF PyKeeps
  <2> QED BY <1>4, <2>2, <2>3, <2>4 DEF CoreStep, SameSession, NothingYet
<1> QED BY <1>2, <1>3, <1>4

\* A step of these kinds keeps the order of the cores and of the datagrams.
LEMMA StepKeepsOrder ==
    ASSUME Inv, Inv', Order, CoresStep, TasksStep, client'.core = client.core
    PROVE  Order'
<1>1. /\ cores \in [Attempts -> Clients] /\ cores' \in [Attempts -> Clients]
      /\ task \in [Tasks -> TaskStates] /\ task' \in [Tasks -> TaskStates]
      /\ got \in [Attempts -> Seq(1..MaxDatagrams)] /\ StageHasCore /\ StageHasCore'
      /\ StagesApart /\ NoneIsBlank /\ DatagramsExactlyOnce /\ WaitsOnHandle
  BY DEF Inv, TypeOK, Order
<1>2. \A p \in Tasks : /\ task[p].pc \in {"endpoint", "opened", "wait"} => task[p].core \in Attempts
                       /\ task'[p].pc \in {"endpoint", "opened", "wait"} => task'[p].core \in Attempts
                       /\ task'[p].op \in Attempted
  BY <1>1 DEF StageHasCore, TaskStates
<1>3. ASSUME NEW a \in Attempts, cores[a].conn = "none"
      PROVE  /\ cores'[a].conn = "none" /\ NothingYet(cores'[a], got'[a])
  <2>1. Calm(cores[a], cores'[a]) /\ got'[a] = got[a] /\ NothingYet(cores[a], got[a])
    BY <1>1, <1>3 DEF NoneIsBlank, CoresStep, CoreStep
  <2> QED BY <1>3, <2>1 DEF Calm, NothingYet, HasHandle
<1>4. NoneIsBlank'
  BY <1>3 DEF NoneIsBlank, CoresStep, CoreStep
<1>5. DatagramsExactlyOnce'
  BY <1>1 DEF DatagramsExactlyOnce, CoresStep, CoreStep, Ledger, Numbers
<1>6. WaitsOnHandle'
  <2> SUFFICES ASSUME NEW p \in Tasks, task'[p].pc = "wait", task'[p].op.kind \in StreamKinds
               PROVE  HasHandle(cores'[task'[p].core], task'[p].op.id)
    BY DEF WaitsOnHandle
  <2>1. HasHandle(cores[task'[p].core], task'[p].op.id)
    BY <1>1 DEF TasksStep, WaitsOnHandle, Stages
  <2>2. task'[p].core \in Attempts /\ task'[p].op.id \in StreamIds
    BY <1>2 DEF Attempted, StreamKinds
  <2> QED BY <2>1, <2>2 DEF CoresStep, CoreStep, HandlesKept, HasHandle
<1>7. StagesApart'
  <2>1. \A p \in Tasks : task'[p].core <= client'.core
    BY <1>1 DEF TasksStep, StagesApart
  <2>2. \A p \in Tasks : task'[p].pc \in Stages => task[p].pc \in Stages /\ task'[p].core = task[p].core
    BY DEF TasksStep
  <2>3. \A p \in Tasks : task'[p].pc \in Stages => cores'[task'[p].core].conn = "none"
    BY <1>1, <1>2, <1>3, <2>2 DEF StagesApart, Stages
  <2>4. \A p, q \in Tasks :
           p # q /\ task'[p].pc \in Stages /\ task'[q].pc \in Stages => task'[p].core # task'[q].core
    BY <1>1, <2>2 DEF StagesApart
  <2>5. \A a \in Attempts : a > client'.core => cores'[a].conn = "none"
    BY <1>1, <1>3 DEF StagesApart
  <2> QED BY <2>1, <2>3, <2>4, <2>5 DEF StagesApart
<1> QED BY <1>4, <1>5, <1>6, <1>7 DEF Order

\* Nobody who sleeps on can be satisfied if nothing new has become possible.
LEMMA SleepersKept ==
    ASSUME Inv, Inv', Inv2, client'.closed => client.closed,
           \A q \in client'.waiters :
              /\ q \in client.waiters /\ task'[q] = task[q]
              /\ NothingNew(cores[task[q].core], cores'[task[q].core])
    PROVE  Asleep'
<1> SUFFICES ASSUME NEW q \in client'.waiters
             PROVE  /\ task'[q].pc = "wait" /\ ~client'.closed
                    /\ ~Possible(task'[q].op, cores'[task'[q].core])
  BY DEF Asleep
<1>1. /\ q \in client.waiters /\ task'[q] = task[q] /\ q \in Tasks
      /\ NothingNew(cores[task[q].core], cores'[task[q].core])
  BY DEF Inv, TypeOK, ClientStates
<1>2. task[q].pc = "wait" /\ ~client.closed /\ ~Possible(task[q].op, cores[task[q].core])
  BY <1>1 DEF Inv2, Asleep
<1>3. task[q].op \in Attempted
  BY <1>1 DEF Inv, TypeOK, TaskStates
<1>4. task[q].op.kind \in StreamKinds => HasHandle(cores[task[q].core], task[q].op.id)
  BY <1>1, <1>2 DEF Inv2, Order, WaitsOnHandle
<1>5. ~Possible(task[q].op, cores'[task[q].core])
  BY <1>1, <1>2, <1>3, <1>4, StillAsleep
<1> QED BY <1>1, <1>2, <1>5

\* When everybody was woken there is nobody to worry about.
LEMMA NobodyAsleep == ASSUME client'.waiters = {} PROVE Asleep'
BY DEF Asleep

-----------------------------------------------------------------------------
\* One core takes a step, and _process may follow.
LEMMA OneCoreSteps ==
    ASSUME Inv, NEW a \in Attempts, NEW d, NEW h, CoreStep(cores[a], d, got[a], h),
           \A b \in Attempts : got'[b] = IF b = a THEN h ELSE got[b],
           \A b \in Attempts : Calm(IF b = a THEN d ELSE cores[b], cores'[b])
    PROVE  CoresStep
<1> SUFFICES ASSUME NEW b \in Attempts PROVE CoreStep(cores[b], cores'[b], got[b], got'[b])
  BY DEF CoresStep
<1>1. CASE b = a
  BY <1>1, StepThenCalm
<1>2. CASE b # a
  BY <1>2, CalmStep
<1> QED BY <1>1, <1>2

\* The cores are left alone.
LEMMA NoCoreSteps == ASSUME UNCHANGED <<cores, got>> PROVE CoresStep
<1>1. \A c : Calm(c, c)
  BY DEF Calm
<1> QED BY <1>1, CalmStep DEF CoresStep

\* A task ends its call.
LEMMA TaskEnds ==
    ASSUME Inv, NEW p \in Tasks, NEW res, task' = Finished(p, res)
    PROVE  TasksStep /\ \A q \in Tasks : q # p => task'[q] = task[q]
<1>1. task' = [task EXCEPT ![p] = IdleTask(res)] /\ task \in [Tasks -> TaskStates] /\ client.core \in {0} \cup Attempts
  BY DEF Finished, Inv, TypeOK, ClientStates
<1>2. task'[p] = IdleTask(res) /\ \A q \in Tasks : q # p => task'[q] = task[q]
  BY <1>1
<1>3. IdleTask(res).pc = "idle" /\ IdleTask(res).core = 0
  BY DEF IdleTask
<1>4. 0 <= client.core
  BY <1>1 DEF Attempts
<1> QED BY <1>2, <1>3, <1>4 DEF TasksStep, Stages

\* A task goes to sleep.
LEMMA TaskSleeps ==
    ASSUME Inv, NEW p \in Tasks, NEW o \in Attempted, NEW a \in Attempts, a <= client.core,
           o.kind \in StreamKinds => HasHandle(cores[a], o.id),
           task' = [task EXCEPT ![p] = [pc |-> "wait", op |-> o, core |-> a, res |-> "none"]]
    PROVE  /\ TasksStep /\ \A q \in Tasks : q # p => task'[q] = task[q]
           /\ task'[p].pc = "wait" /\ task'[p].op = o /\ task'[p].core = a
<1> DEFINE t == [pc |-> "wait", op |-> o, core |-> a, res |-> "none"]
<1>1. t.pc = "wait" /\ t.op = o /\ t.core = a
  OBVIOUS
<1> HIDE DEF t
<1>2. task' = [task EXCEPT ![p] = t] /\ task \in [Tasks -> TaskStates]
  BY DEF t, Inv, TypeOK
<1>3. task'[p] = t /\ \A q \in Tasks : q # p => task'[q] = task[q]
  BY <1>2
<1> QED BY <1>1, <1>3 DEF TasksStep, Stages

\* One turn of the loop in _wait.
LEMMA TurnKeepsInv2 ==
    ASSUME Inv, Inv', Inv2, NEW p \in Tasks, NEW o \in Attempted, NEW a \in Attempts, a <= client.core,
           client.core # 0, p \notin client.waiters,
           o.kind \in StreamKinds => HasHandle(cores[a], o.id), Turn(p, o, a)
    PROVE  Inv2'
<1> USE InvFacts
<1>t. /\ got \in [Attempts -> Seq(1..MaxDatagrams)] /\ got[a] \in Seq(1..MaxDatagrams)
      /\ cores[a] \in Clients /\ Order /\ Asleep /\ client.waiters \subseteq Tasks
  BY DEF Inv, TypeOK, Inv2, ClientStates
<1>1. CASE client.closed
  <2>1. task' = Finished(p, "ConnectionError") /\ UNCHANGED <<client, cores, got>>
    BY <1>1 DEF Turn
  <2>2. client'.waiters = {}
    BY <1>1, <1>t, <2>1 DEF Asleep
  <2>3. Order'
    BY <1>t, <2>1, TaskEnds, NoCoreSteps, StepKeepsOrder
  <2> QED BY <2>2, <2>3, NobodyAsleep DEF Inv2
<1>2. CASE ~client.closed
  <2> DEFINE cs(r) == [cores EXCEPT ![a] = r.c]
             runs(r) == r.ret = "value" /\ o.kind \in ProcessesAfter
             after(r) == IF runs(r) THEN Process(client, cs(r)) ELSE [x |-> client, cs |-> cs(r)]
             h(r) == IF r.ret = "value" /\ o.kind = "receive_datagram" THEN Append(got[a], r.val) ELSE got[a]
  <2>1. PICK r \in Attempt(o, cores[a]) :
          /\ cores' = after(r).cs
          /\ got' = IF r.ret = "value" /\ o.kind = "receive_datagram"
                      THEN [got EXCEPT ![a] = Append(@, r.val)] ELSE got
          /\ IF r.ret = "None"
               THEN /\ client' = [after(r).x EXCEPT !.waiters = @ \cup {p}]
                    /\ task' = [task EXCEPT ![p] = [pc |-> "wait", op |-> o, core |-> a, res |-> "none"]]
               ELSE /\ client' = after(r).x
                    /\ task' = Finished(p, r.ret)
    BY <1>2 DEF Turn
  <2>2. r.c \in Clients /\ CoreStep(cores[a], r.c, got[a], h(r))
    BY <1>t, AttemptFacts, AttemptStep DEF PyKeeps
  <2>3. \A b \in Attempts : got'[b] = IF b = a THEN h(r) ELSE got[b]
    BY <1>t, <2>1
  <2>4. cs(r) \in [Attempts -> Clients] /\ \A b \in Attempts : cs(r)[b] = IF b = a THEN r.c ELSE cores[b]
    BY <2>2
  <2> HIDE DEF cs, h
  <2>5. ~runs(r) => after(r).x = client /\ after(r).cs = cs(r)
    OBVIOUS
  <2>6. runs(r) => after(r) = Process(client, cs(r))
    OBVIOUS
  <2> HIDE DEF after
  <2>7. \A b \in Attempts : Calm(cs(r)[b], cores'[b])
    <3>1. CASE runs(r)
      BY <2>1, <2>4, <2>6, <3>1, ProcessWakes
    <3>2. CASE ~runs(r)
      BY <2>1, <2>5, <3>2 DEF Calm
    <3> QED BY <3>1, <3>2
  <2>8. CoresStep
    BY <2>2, <2>3, <2>4, <2>7, OneCoreSteps
  <2>9. TasksStep /\ \A q \in Tasks : q # p => task'[q] = task[q]
    BY <2>1, TaskEnds, TaskSleeps
  <2>10. after(r).x.core = client.core /\ after(r).x \in ClientStates
    <3>1. CASE runs(r)
      <4>1. r.c.conn = cores[a].conn
        BY <1>t, AttemptFacts DEF PyKeeps, SameSession
      <4>2. Explained(client, cs(r))
        BY <2>2, <4>1, SameConnection DEF cs
      <4> QED BY <2>4, <2>6, <3>1, <4>2, ProcessFacts
    <3>2. CASE ~runs(r)
      BY <2>5, <3>2
    <3> QED BY <3>1, <3>2
  <2>11. client'.core = client.core
    BY <2>1, <2>10 DEF ClientStates
  <2>12. Order'
    BY <1>t, <2>8, <2>9, <2>11, StepKeepsOrder
  <2>13. Asleep'
    <3>1. CASE runs(r)
      <4>1. client'.waiters = {}
        BY <1>2, <2>1, <2>4, <2>6, <3>1, ProcessWakes
      <4> QED BY <4>1, NobodyAsleep
    <3>2. CASE ~runs(r)
      <4>1. NothingNew(cores[a], r.c)
        BY <1>t, <3>2, AttemptNothingNew
      <4>2. \A b \in Attempts : NothingNew(cores[b], cores'[b])
        <5>1. cores' = cs(r)
          BY <2>1, <2>5, <3>2
        <5>2. \A c : NothingNew(c, c)
          BY DEF NothingNew
        <5> QED BY <2>4, <4>1, <5>1, <5>2
      <4>3. \A q \in client.waiters :
               q # p /\ task'[q] = task[q] /\ NothingNew(cores[task[q].core], cores'[task[q].core])
        <5>1. \A q \in client.waiters : task[q].core \in Attempts
          BY <1>t DEF Inv, TypeOK, StageHasCore, TaskStates, Asleep
        <5> QED BY <1>t, <2>9, <4>2, <5>1
      <4>4. CASE r.ret # "None"
        <5>1. client' = client
          BY <2>1, <2>5, <3>2, <4>4
        <5> QED BY <4>3, <5>1, SleepersKept
      <4>5. CASE r.ret = "None"
        <5>1. client' = [client EXCEPT !.waiters = @ \cup {p}]
          BY <2>1, <2>5, <3>2, <4>5
        <5>2. client'.waiters = client.waiters \cup {p} /\ client'.closed = client.closed
          BY <5>1 DEF ClientStates
        <5>3. task'[p].pc = "wait" /\ task'[p].op = o /\ task'[p].core = a
          BY <2>1, <4>5, TaskSleeps
        <5>4. ~Possible(o, cores[a])
          BY <1>t, <4>5, AttemptAnswers DEF Answers
        <5>5. ~Possible(o, cores'[a])
          BY <4>2, <5>4, StillAsleep
        <5>6. ASSUME NEW q \in client.waiters
              PROVE  task'[q].pc = "wait" /\ ~Possible(task'[q].op, cores'[task'[q].core])
          <6>1. task[q].pc = "wait" /\ ~Possible(task[q].op, cores[task[q].core])
            BY <1>t DEF Asleep
          <6>2. task[q].op \in Attempted /\ q \in Tasks
            BY <1>t DEF Inv, TypeOK, TaskStates
          <6>3. task[q].op.kind \in StreamKinds => HasHandle(cores[task[q].core], task[q].op.id)
            BY <1>t, <6>1, <6>2 DEF Order, WaitsOnHandle
          <6> QED BY <4>3, <6>1, <6>2, <6>3, StillAsleep
        <5> QED BY <1>2, <5>2, <5>3, <5>5, <5>6 DEF Asleep
      <4> QED BY <4>4, <4>5
    <3> QED BY <3>1, <3>2
  <2> QED BY <2>12, <2>13 DEF Inv2
<1> QED BY <1>1, <1>2

\* A callback or a call without an await: one core takes a step, and _process
\* or _teardown wakes everybody unless the call raised.
LEMMA CallbackKeepsInv2 ==
    ASSUME Inv, Inv', Inv2, NEW a \in Attempts, NEW d, CoreStep(cores[a], d, got[a], got[a]),
           UNCHANGED <<task, got>>, client'.core = client.core,
           \A b \in Attempts : Calm(IF b = a THEN d ELSE cores[b], cores'[b]),
           client'.waiters = {} \/ (client' = client /\ Calm(cores[a], d))
    PROVE  Inv2'
<1>1. CoresStep
  BY OneCoreSteps
<1>2. TasksStep
  BY DEF TasksStep
<1>3. Order'
  BY <1>1, <1>2, StepKeepsOrder DEF Inv2
<1>4. CASE client'.waiters = {}
  BY <1>3, <1>4, NobodyAsleep DEF Inv2
<1>5. CASE client' = client /\ Calm(cores[a], d)
  <2>1. \A b \in Attempts : NothingNew(cores[b], cores'[b])
    BY <1>5, CalmTransitive, CalmNothingNew
  <2>2. \A q \in client.waiters : task[q].core \in Attempts
    BY DEF Inv, TypeOK, StageHasCore, TaskStates, Inv2, Asleep, ClientStates
  <2> QED BY <1>3, <1>5, <2>1, <2>2, SleepersKept DEF Inv2
<1> QED BY <1>4, <1>5

\* A client without a core, or that is closed, has no waiters, and so has one
\* whose _process ran.
LEMMA ProcessedNobodyAsleep ==
    ASSUME Inv, Inv2, NEW cs \in [Attempts -> Clients]
    PROVE  Process(client, cs).x.waiters = {}
<1>1. client \in ClientStates
  BY InvFacts
<1>2. ASSUME client.core = 0 \/ client.closed PROVE client.waiters = {}
  <2> SUFFICES ASSUME NEW q \in client.waiters PROVE FALSE
    OBVIOUS
  <2>1. q \in Tasks /\ task[q].pc = "wait" /\ ~client.closed
    BY <1>1 DEF Inv2, Asleep, ClientStates
  <2>2. task[q].core \in Attempts /\ task[q].core <= client.core
    BY <2>1 DEF Inv, TypeOK, StageHasCore, TaskStates, Inv2, Order, StagesApart
  <2> QED BY <1>2, <2>1, <2>2 DEF Attempts
<1>3. CASE client.core = 0 \/ client.closed
  BY <1>1, <1>2, <1>3, ProcessWakes
<1>4. CASE ~(client.core = 0 \/ client.closed)
  BY <1>1, <1>4, ProcessWakes
<1> QED BY <1>3, <1>4

\* datagram_received and the timer.
LEMMA EventsKeepInv2 ==
    ASSUME Inv, Inv', Inv2, NEW k \in Attempts, NEW empty \in BOOLEAN, OnReceive(k, empty) \/ OnTimeout
    PROVE  Inv2'
<1> USE InvFacts
<1> DEFINE a == client.core
           cs(r) == [cores EXCEPT ![a] = r.c]
<1>1. /\ a \in Attempts /\ cores[a] \in Clients /\ got[a] \in Seq(1..MaxDatagrams)
      /\ cores[a].conn # "closed" /\ UNCHANGED <<task, got>>
  BY DEF OnReceive, OnTimeout, ClientStates, Inv, TypeOK, EndsNoticed
<1>2. ASSUME NEW r, r.c \in Clients, Evolves(cores[a], r.c), r.c.conn = "closed" => r.c.last_error # NoError,
             client' = Process(client, cs(r)).x, cores' = Process(client, cs(r)).cs
      PROVE  Inv2'
  <2>1. cs(r) \in [Attempts -> Clients] /\ \A b \in Attempts : cs(r)[b] = IF b = a THEN r.c ELSE cores[b]
    BY <1>1, <1>2
  <2>2. Explained(client, cs(r))
    BY <1>1, <1>2, <2>1 DEF Explained
  <2> HIDE DEF cs
  <2>3. client'.core = client.core
    BY <1>2, <2>1, <2>2, ProcessFacts
  <2>4. client'.waiters = {} /\ \A b \in Attempts : Calm(cs(r)[b], cores'[b])
    BY <1>2, <2>1, ProcessWakes, ProcessedNobodyAsleep
  <2>5. CoreStep(cores[a], r.c, got[a], got[a])
    BY <1>1, <1>2, EvolvesStep
  <2> HIDE DEF a
  <2> QED BY <1>1, <2>1, <2>3, <2>4, <2>5, CallbackKeepsInv2
<1>3. CASE OnReceive(k, empty)
  <2>1. PICK r \in py_receive_packet(cores[a], empty) :
          LET after == IF r.ret = "value" THEN Process(client, cs(r)) ELSE [x |-> client, cs |-> cs(r)]
          IN client' = after.x /\ cores' = after.cs
    BY <1>3 DEF OnReceive
  <2>2. /\ r.c \in Clients /\ Evolves(cores[a], r.c) /\ (r.ret # "value" => Calm(cores[a], r.c))
        /\ (r.ret = "value" => (r.c.conn = "closed" => r.c.last_error # NoError))
    BY <1>1, <2>1, ReceivePacketFacts
  <2>3. CASE r.ret = "value"
    BY <1>2, <2>1, <2>2, <2>3
  <2>4. CASE r.ret # "value"
    <3>1. client' = client /\ cores' = cs(r)
      BY <2>1, <2>4
    <3>2. \A b \in Attempts : Calm(IF b = a THEN r.c ELSE cores[b], cores'[b])
      BY <1>1, <3>1 DEF Calm
    <3>3. CoreStep(cores[a], r.c, got[a], got[a]) /\ Calm(cores[a], r.c)
      BY <2>2, <2>4, CalmStep
    <3> HIDE DEF a
    <3> QED BY <1>1, <3>1, <3>2, <3>3, CallbackKeepsInv2
  <2> QED BY <2>3, <2>4
<1>4. CASE OnTimeout
  <2>1. PICK r \in py_handle_timeout(cores[a]) :
          client' = Process(client, cs(r)).x /\ cores' = Process(client, cs(r)).cs
    BY <1>4 DEF OnTimeout
  <2>2. r.c \in Clients /\ Evolves(cores[a], r.c) /\ (r.c.conn = "closed" => r.c.last_error # NoError)
    BY <1>1, <2>1, HandleTimeoutFacts
  <2> QED BY <1>2, <2>1, <2>2
<1> QED BY <1>3, <1>4

\* reset() and stop_sending() of a stream.
LEMMA StreamControlsKeepInv2 ==
    ASSUME Inv, Inv', Inv2, NEW a \in Attempts, NEW id \in StreamIds,
           StreamReset(a, id) \/ StreamStopSending(a, id)
    PROVE  Inv2'
<1> USE InvFacts
<1> DEFINE cs(r) == [cores EXCEPT ![a] = r.c]
<1>1. PICK r \in py_reset(cores[a], id) \cup py_stop_sending(cores[a], id) :
        LET after == IF r.ret = "value" THEN Process(client, cs(r)) ELSE [x |-> client, cs |-> cs(r)]
        IN client' = after.x /\ cores' = after.cs
  BY DEF StreamReset, StreamStopSending, StreamControl
<1>2. UNCHANGED <<task, got>> /\ cores[a] \in Clients
  BY DEF StreamReset, StreamStopSending, StreamControl
<1>3. PyKeeps(cores[a], r) /\ QueueKept(cores[a], r.c)
  BY <1>1, <1>2, ResetStreamKeeps, StopSendingKeeps
<1>4. CoreStep(cores[a], r.c, got[a], got[a])
  BY <1>1, <1>2, <1>3, ControlAnswers, CallStep DEF IsConnected
<1>5. r.c \in Clients /\ r.c.conn = cores[a].conn /\ (r.ret # "value" => Calm(cores[a], r.c))
  BY <1>3 DEF PyKeeps, SameSession
<1>6. cs(r) \in [Attempts -> Clients] /\ \A b \in Attempts : cs(r)[b] = IF b = a THEN r.c ELSE cores[b]
  BY <1>5
<1>7. Explained(client, cs(r))
  BY <1>5, SameConnection
<1> HIDE DEF cs
<1>8. CASE r.ret = "value"
  <2>1. client' = Process(client, cs(r)).x /\ cores' = Process(client, cs(r)).cs
    BY <1>1, <1>8
  <2>2. client'.core = client.core
    BY <1>6, <1>7, <2>1, ProcessFacts
  <2>3. client'.waiters = {} /\ \A b \in Attempts : Calm(cs(r)[b], cores'[b])
    BY <1>6, <2>1, ProcessWakes, ProcessedNobodyAsleep
  <2> QED BY <1>2, <1>4, <1>6, <2>2, <2>3, CallbackKeepsInv2
<1>9. CASE r.ret # "value"
  <2>1. client' = client /\ cores' = cs(r)
    BY <1>1, <1>9
  <2>2. \A b \in Attempts : Calm(IF b = a THEN r.c ELSE cores[b], cores'[b])
    BY <1>6, <2>1 DEF Calm
  <2> QED BY <1>2, <1>4, <1>5, <1>9, <2>1, <2>2, CallbackKeepsInv2
<1> QED BY <1>8, <1>9

\* _teardown wakes everybody, and keeps the core.
LEMMA TeardownNobodyAsleep ==
    ASSUME Inv, Inv2, NEW x \in ClientStates, NEW reason \in Reasons, x.closed = client.closed,
           x.waiters \subseteq client.waiters
    PROVE  Teardown(x, reason).waiters = {} /\ Teardown(x, reason).core = x.core
<1>1. client.closed => client.waiters = {}
  BY DEF Inv2, Asleep
<1> QED BY <1>1, TeardownFacts, TeardownWakes

\* close() of the application, and the refused datagram.
LEMMA AppCallsKeepInv2 ==
    ASSUME Inv, Inv', Inv2, AppClose \/ SendOversized
    PROVE  Inv2'
<1> USE InvFacts
<1> DEFINE a == client.core
<1>1. UNCHANGED <<task, got>> /\ got \in [Attempts -> Seq(1..MaxDatagrams)] /\ a \in {0} \cup Attempts
  BY DEF AppClose, SendOversized, Inv, TypeOK, ClientStates
<1>2. CASE AppClose
  <2>1. client' = Teardown(client, "closed by application") /\ "closed by application" \in Reasons
    BY <1>2 DEF AppClose, Reasons
  <2>2. client'.waiters = {} /\ client'.core = client.core
    BY <2>1, TeardownNobodyAsleep
  <2>3. CASE a = 0
    <3>1. cores' = cores
      BY <1>2, <2>3 DEF AppClose
    <3>2. CoresStep /\ TasksStep
      BY <1>1, <3>1, NoCoreSteps DEF TasksStep
    <3>3. Order'
      BY <2>2, <3>2, StepKeepsOrder DEF Inv2
    <3> QED BY <2>2, <3>3, NobodyAsleep DEF Inv2
  <2>4. CASE a # 0
    <3>1. a \in Attempts /\ cores[a] \in Clients /\ got[a] \in Seq(1..MaxDatagrams)
      BY <1>1, <2>4
    <3> DEFINE d == Close(cores[a])
               e == DrainSend(client, d)
    <3>2. d \in Clients /\ Evolves(cores[a], d)
      BY <3>1, CloseFacts
    <3>3. cores' = [cores EXCEPT ![a] = e]
      BY <1>2, <2>4 DEF AppClose
    <3> HIDE DEF d
    <3>4. Calm(d, e)
      BY <3>2, DrainFacts
    <3> HIDE DEF a, e
    <3>5. \A b \in Attempts : Calm(IF b = a THEN d ELSE cores[b], cores'[b])
      BY <3>1, <3>3, <3>4 DEF Calm
    <3>6. CoreStep(cores[a], d, got[a], got[a])
      BY <3>1, <3>2, EvolvesStep
    <3> QED BY <1>1, <2>2, <3>1, <3>5, <3>6, CallbackKeepsInv2
  <2> QED BY <2>3, <2>4
<1>3. CASE SendOversized
  <2>1. a \in Attempts /\ cores[a] \in Clients /\ client' = client
    BY <1>1, <1>3 DEF SendOversized
  <2>2. PICK r \in py_send_datagram(cores[a], TRUE) : cores' = [cores EXCEPT ![a] = r.c]
    BY <1>3 DEF SendOversized
  <2>3. Calm(cores[a], r.c)
    BY <2>1, <2>2, SendDatagramKeeps DEF PyKeeps
  <2> HIDE DEF a
  <2>4. \A b \in Attempts : Calm(IF b = a THEN r.c ELSE cores[b], cores'[b])
    BY <2>1, <2>2 DEF Calm
  <2>5. CoreStep(cores[a], r.c, got[a], got[a])
    BY <2>3, CalmStep
  <2> QED BY <1>1, <2>1, <2>3, <2>4, <2>5, CallbackKeepsInv2
<1> QED BY <1>2, <1>3

\* A step that leaves the cores alone and puts nobody to sleep.
LEMMA QuietKeepsInv2 ==
    ASSUME Inv, Inv', Inv2, UNCHANGED <<cores, got>>, TasksStep, client'.core = client.core,
           client'.waiters \subseteq client.waiters, client'.waiters = {} \/ client'.closed = client.closed,
           \A q \in client'.waiters : task'[q] = task[q]
    PROVE  Inv2'
<1>1. CoresStep
  BY NoCoreSteps
<1>2. Order'
  BY <1>1, StepKeepsOrder DEF Inv2
<1>3. \A c : NothingNew(c, c)
  BY DEF NothingNew
<1>4. CASE client'.waiters = {}
  BY <1>2, <1>4, NobodyAsleep DEF Inv2
<1>5. CASE client'.closed = client.closed
  <2>1. \A q \in client'.waiters : q \in client.waiters /\ NothingNew(cores[task[q].core], cores'[task[q].core])
    BY <1>3
  <2> QED BY <1>2, <1>5, <2>1, SleepersKept DEF Inv2
<1> QED BY <1>4, <1>5

\* A task that does not wait is not among the waiters.
LEMMA WaitersWait ==
    ASSUME Inv2, NEW p, task[p].pc # "wait"
    PROVE  p \notin client.waiters
BY DEF Inv2, Asleep

\* A deadline or a cancellation.
LEMMA InterruptKeepsInv2 ==
    ASSUME Inv, Inv', Inv2, NEW p \in Tasks, NEW e, Interrupt(p, e)
    PROVE  Inv2'
<1> USE InvFacts
<1> DEFINE x == [client EXCEPT !.waiters = @ \ {p}]
<1>1. x \in ClientStates /\ x.core = client.core /\ x.closed = client.closed
      /\ x.waiters = client.waiters \ {p} /\ client.waiters \subseteq Tasks
  BY DEF ClientStates
<1>2. client' \in {x, Teardown(x, "connect failed")} /\ UNCHANGED <<cores, got>> /\ task' = Finished(p, e)
  BY DEF Interrupt
<1> HIDE DEF x
<1>3. Teardown(x, "connect failed").waiters = {} /\ Teardown(x, "connect failed").core = x.core
  <2>1. "connect failed" \in Reasons
    BY DEF Reasons
  <2> QED BY <1>1, <2>1, TeardownNobodyAsleep
<1>4. TasksStep /\ \A q \in Tasks : q # p => task'[q] = task[q]
  BY <1>2, TaskEnds
<1>5. /\ client'.core = client.core /\ client'.waiters \subseteq client.waiters \ {p}
      /\ client'.waiters = {} \/ client'.closed = client.closed
  BY <1>1, <1>2, <1>3
<1> QED BY <1>1, <1>2, <1>4, <1>5, QuietKeepsInv2

\* The callbacks of the transport.
LEMMA SocketsKeepInv2 ==
    ASSUME Inv, Inv', Inv2, NEW k \in Attempts, TransportFails(k) \/ OnConnectionLost(k)
    PROVE  Inv2'
<1> USE InvFacts
<1>1. UNCHANGED <<cores, task, got>> /\ TasksStep
  BY DEF TransportFails, OnConnectionLost, TasksStep
<1>2. CASE TransportFails(k)
  <2>1. client' = [client EXCEPT !.sock[k] = "closing"]
    BY <1>2 DEF TransportFails
  <2>2. client'.core = client.core /\ client'.closed = client.closed /\ client'.waiters = client.waiters
    BY <2>1 DEF ClientStates
  <2> QED BY <1>1, <2>2, QuietKeepsInv2
<1>3. CASE OnConnectionLost(k)
  <2> DEFINE x == [client EXCEPT !.sock[k] = "closed"]
  <2>1. x \in ClientStates /\ x.core = client.core /\ x.closed = client.closed /\ x.waiters = client.waiters
    BY ObjectUpdate DEF ClientStates
  <2>2. client' = Teardown(x, "connection lost") /\ "connection lost" \in Reasons
    BY <1>3 DEF OnConnectionLost, Reasons
  <2> HIDE DEF x
  <2>3. client'.waiters = {} /\ client'.core = client.core
    BY <2>1, <2>2, TeardownNobodyAsleep
  <2> QED BY <1>1, <2>3, QuietKeepsInv2
<1> QED BY <1>2, <1>3

-----------------------------------------------------------------------------
\* The stages of connect() that neither construct nor start a core.
LEMMA ConnectStagesKeepInv2 ==
    ASSUME Inv, Inv', Inv2, NEW p \in Tasks, NEW e,
           ConnectCall(p) \/ ConnectAborted(p, e) \/ EndpointMade(p) \/ EndpointCancelled(p)
    PROVE  Inv2'
<1> USE InvFacts
<1>1. /\ UNCHANGED <<cores, got>> /\ task[p].pc # "wait" /\ task \in [Tasks -> TaskStates]
      /\ client.waiters \subseteq Tasks
  BY DEF ConnectCall, ConnectAborted, EndpointMade, EndpointCancelled, Inv, TypeOK, ClientStates
<1>2. p \notin client.waiters
  BY <1>1, WaitersWait
<1>3. client'.core = client.core /\ client'.waiters = client.waiters /\ client'.closed = client.closed
  BY DEF ConnectCall, ConnectAborted, EndpointMade, EndpointCancelled, ClientStates
<1>4. TasksStep /\ \A q \in Tasks : q # p => task'[q] = task[q]
  <2>1. CASE ConnectCall(p)
    <3> DEFINE t == [pc |-> "resolve", op |-> IsConnectedOp, core |-> 0, res |-> "none"]
    <3>1. t.pc = "resolve" /\ t.core = 0 /\ task' = [task EXCEPT ![p] = t]
      BY <2>1 DEF ConnectCall, Stage
    <3> HIDE DEF t
    <3>2. task'[p] = t /\ \A q \in Tasks : q # p => task'[q] = task[q]
      BY <1>1, <3>1
    <3>3. 0 <= client.core
      BY DEF ClientStates, Attempts
    <3> QED BY <3>1, <3>2, <3>3 DEF TasksStep, Stages
  <2>2. CASE EndpointMade(p)
    <3> DEFINE t == [pc |-> "opened", op |-> IsConnectedOp, core |-> task[p].core, res |-> "none"]
    <3>1. /\ t.pc = "opened" /\ t.core = task[p].core /\ task' = [task EXCEPT ![p] = t]
          /\ task[p].pc = "endpoint"
      BY <2>2 DEF EndpointMade, Stage
    <3> HIDE DEF t
    <3>2. task'[p] = t /\ \A q \in Tasks : q # p => task'[q] = task[q]
      BY <1>1, <3>1
    <3> QED BY <3>1, <3>2 DEF TasksStep, Stages
  <2>3. CASE ConnectAborted(p, e) \/ EndpointCancelled(p)
    <3>1. PICK res : task' = Finished(p, res)
      BY <2>3 DEF ConnectAborted, EndpointCancelled
    <3> QED BY <3>1, TaskEnds
  <2> QED BY <2>1, <2>2, <2>3
<1> QED BY <1>1, <1>2, <1>3, <1>4, QuietKeepsInv2

\* A new core: nobody knows it yet, and nothing was delivered from it.
LEMMA ResolvedKeepsInv2 ==
    ASSUME Inv, Inv', Inv2, NEW p \in Tasks, Resolved(p)
    PROVE  Inv2'
<1> USE InvFacts
<1> DEFINE n == client.core + 1
           t == [pc |-> "endpoint", op |-> IsConnectedOp, core |-> n, res |-> "none"]
<1>1. /\ StagesApart /\ NoneIsBlank /\ DatagramsExactlyOnce /\ WaitsOnHandle /\ Asleep
      /\ task \in [Tasks -> TaskStates] /\ StageHasCore /\ client.core \in Nat
      /\ client.waiters \subseteq Tasks
  BY DEF Inv2, Order, Inv, TypeOK, ClientStates, Attempts
<1>2. n \in Attempts /\ n > client.core /\ task[p].pc = "resolve"
  BY MaxAttemptsAssumption DEF Resolved, ClientStates, Attempts
<1>3. /\ client'.core = n /\ client'.waiters = client.waiters /\ client'.closed = client.closed
      /\ cores' = [cores EXCEPT ![n] = FreshClient] /\ got' = got
      /\ task' = [task EXCEPT ![p] = t] /\ t.pc = "endpoint" /\ t.core = n
  BY DEF Resolved, Stage, ClientStates
<1>4. /\ cores'[n] = FreshClient /\ \A a \in Attempts : a # n => cores'[a] = cores[a]
      /\ task'[p] = t /\ \A q \in Tasks : q # p => task'[q] = task[q]
  BY <1>1, <1>2, <1>3
<1>5. \A q \in Tasks : task[q].core <= client.core /\ task[q].core \in {0} \cup Attempts /\ task[q].core # n
  BY <1>1, <1>2 DEF StagesApart, TaskStates
<1>6. FreshClient.conn = "none" /\ NothingYet(FreshClient, <<>>) /\ Ledger(<<>>, FreshClient)
  <2>1. /\ FreshClient.conn = "none" /\ FreshClient.received_datagrams = <<>> /\ FreshClient.arrived = 0
        /\ FreshClient.session_ready = FALSE
    BY DEF FreshClient
  <2>2. \A id \in StreamIds : FreshClient.streams[id].phase = "unused"
    BY DEF FreshClient, UnusedStream
  <2>3. Blank(FreshClient)
    BY <2>1, <2>2 DEF Blank
  <2> QED BY <2>1, <2>2, <2>3, LedgerBlank DEF NothingYet, HasHandle
<1>7. got[n] = <<>>
  BY <1>1, <1>2 DEF StagesApart, NoneIsBlank, NothingYet
<1> HIDE DEF n, t
<1>8. NoneIsBlank'
  BY <1>1, <1>3, <1>4, <1>6, <1>7 DEF NoneIsBlank
<1>9. DatagramsExactlyOnce'
  <2>1. Ledger(got'[n], cores'[n])
    BY <1>3, <1>4, <1>6, <1>7
  <2>2. \A a \in Attempts : Ledger(got'[a], cores'[a])
    BY <1>1, <1>3, <1>4, <2>1 DEF DatagramsExactlyOnce, Ledger, Numbers
  <2> QED BY <2>2 DEF DatagramsExactlyOnce, Ledger, Numbers
<1>10. WaitsOnHandle'
  <2>1. \A q \in Tasks : task'[q].pc = "wait" => q # p /\ task'[q] = task[q]
    BY <1>3, <1>4
  <2>2. \A q \in Tasks : task[q].pc = "wait" => cores'[task[q].core] = cores[task[q].core]
    BY <1>1, <1>4, <1>5 DEF StageHasCore
  <2> QED BY <1>1, <2>1, <2>2 DEF WaitsOnHandle
<1>11. StagesApart'
  <2>1. \A q \in Tasks : task'[q].core <= client'.core
    BY <1>1, <1>3, <1>4, <1>5 DEF n, Attempts
  <2>2. \A q \in Tasks : q # p /\ task'[q].pc \in Stages =>
                           /\ task[q].pc \in Stages /\ task'[q].core = task[q].core
                           /\ cores'[task[q].core] = cores[task[q].core]
    BY <1>1, <1>4, <1>5 DEF StageHasCore, Stages
  <2>3. \A q \in Tasks : task'[q].pc \in Stages => cores'[task'[q].core].conn = "none"
    BY <1>1, <1>3, <1>4, <1>6, <2>2 DEF StagesApart
  <2>4. \A q, u \in Tasks :
           q # u /\ task'[q].pc \in Stages /\ task'[u].pc \in Stages => task'[q].core # task'[u].core
    BY <1>1, <1>3, <1>4, <1>5, <2>2 DEF StagesApart
  <2>5. \A a \in Attempts : a > client'.core => a # n /\ a > client.core
    BY <1>1, <1>3 DEF n, Attempts
  <2>6. \A a \in Attempts : a > client'.core => cores'[a].conn = "none"
    BY <1>1, <1>4, <2>5 DEF StagesApart
  <2> QED BY <2>1, <2>3, <2>4, <2>6 DEF StagesApart
<1>12. Asleep'
  <2>1. p \notin client.waiters
    BY <1>2, WaitersWait
  <2>2. \A q \in client.waiters : cores'[task[q].core] = cores[task[q].core]
    BY <1>1, <1>4, <1>5 DEF StageHasCore, Asleep
  <2>3. \A c : NothingNew(c, c)
    BY DEF NothingNew
  <2> QED BY <1>1, <1>3, <1>4, <2>1, <2>2, <2>3, SleepersKept
<1> QED BY <1>8, <1>9, <1>10, <1>11, <1>12 DEF Inv2, Order

\* connect()'s try block: the core of the task is started, and _process or
\* _teardown wakes everybody before the task itself goes to sleep.
LEMMA ConnectStartKeepsInv2 ==
    ASSUME Inv, Inv', Inv2, NEW p \in Tasks, ConnectStart(p)
    PROVE  Inv2'
<1> USE InvFacts
<1> DEFINE a == task[p].core
           x == [client EXCEPT !.transport = a]
           cs(r) == [cores EXCEPT ![a] = r.c]
           t == [pc |-> "wait", op |-> IsConnectedOp, core |-> a, res |-> "none"]
<1>1. /\ StagesApart /\ NoneIsBlank /\ DatagramsExactlyOnce /\ WaitsOnHandle /\ Asleep
      /\ task \in [Tasks -> TaskStates] /\ StageHasCore /\ client.core \in {0} \cup Attempts
      /\ "connect failed" \in Reasons /\ got \in [Attempts -> Seq(1..MaxDatagrams)]
  BY DEF Inv2, Order, Inv, TypeOK, ClientStates, Reasons
<1>r. client.core \in {0} \cup Attempts
  BY <1>1
<1>2. a \in Attempts /\ task[p].pc = "opened" /\ cores[a] \in Clients
  BY <1>1 DEF ConnectStart, StageHasCore, TaskStates
<1>3. cores[a].conn = "none" /\ NothingYet(cores[a], got[a]) /\ a <= client.core
  BY <1>1, <1>2 DEF StagesApart, Stages, NoneIsBlank
<1>4. /\ x \in ClientStates /\ x.core = client.core /\ x.closed = client.closed /\ x.timer = client.timer
      /\ x.waiters = client.waiters
  BY <1>2, ObjectUpdate DEF ClientStates
<1>5. PICK r \in py_start(cores[a]) :
        /\ got' = got
        /\ cores' = Process(x, cs(r)).cs
        /\ IF Process(x, cs(r)).x.closed
             THEN /\ client' = Teardown(Process(x, cs(r)).x, "connect failed")
                  /\ task' = Finished(p, "ConnectionError")
             ELSE /\ client' = [Process(x, cs(r)).x EXCEPT !.waiters = @ \cup {p}]
                  /\ task' = [task EXCEPT ![p] = t]
  BY DEF ConnectStart, Stage
<1>6. r.c \in Clients /\ r.c.conn \notin {"none", "closed"} /\ Blank(r.c)
  BY <1>2, <1>3, StartFacts
<1>7. cs(r) \in [Attempts -> Clients] /\ \A b \in Attempts : cs(r)[b] = IF b = a THEN r.c ELSE cores[b]
  BY <1>2, <1>6
<1>8. t.pc = "wait" /\ t.op = IsConnectedOp /\ t.core = a
  OBVIOUS
<1> HIDE DEF cs, x, t
<1>9. \A b \in Attempts : Calm(cs(r)[b], cores'[b])
  BY <1>4, <1>5, <1>7, ProcessWakes
<1>10. /\ \A q \in Tasks : q # p => task'[q] = task[q]
       /\ task'[p].pc \notin Stages /\ task'[p].core <= client.core
       /\ task'[p].pc = "wait" => task'[p] = t
  <2>1. CASE \E res : task' = Finished(p, res)
    <3>1. PICK res : task' = [task EXCEPT ![p] = IdleTask(res)]
      BY <2>1 DEF Finished
    <3>2. IdleTask(res).pc = "idle" /\ IdleTask(res).core = 0
      BY DEF IdleTask
    <3>0. 0 <= client.core
      BY <1>r DEF Attempts
    <3>3. task'[p] = IdleTask(res) /\ \A q \in Tasks : q # p => task'[q] = task[q]
      BY <1>1, <3>1
    <3> QED BY <3>0, <3>2, <3>3 DEF Stages
  <2>2. CASE task' = [task EXCEPT ![p] = t]
    <3>1. task'[p] = t /\ \A q \in Tasks : q # p => task'[q] = task[q]
      BY <1>1, <2>2
    <3> QED BY <1>3, <1>8, <3>1 DEF Stages
  <2> QED BY <1>5, <2>1, <2>2
<1>11. /\ client'.core = client.core
       /\ client'.waiters = {} \/ (client'.waiters = {p} /\ ~client'.closed /\ task'[p] = t)
  <2> DEFINE y == Process(x, cs(r)).x
  <2>1. Explained(x, cs(r))
    <3>1. x.core = a => cs(r)[x.core].conn # "closed"
      BY <1>2, <1>6, <1>7
    <3>2. x.core # 0 /\ x.core # a => cs(r)[x.core] = cores[x.core]
      BY <1>1, <1>4, <1>7
    <3>3. Explained(client, cores)
      OBVIOUS
    <3> QED BY <1>4, <3>1, <3>2, <3>3 DEF Explained, Silent
  <2>2. y \in ClientStates /\ y.core = client.core
    BY <1>4, <1>7, <2>1, ProcessFacts
  <2>3. x.core # 0
    BY <1>2, <1>3, <1>4 DEF Attempts
  <2>4. y.waiters = {}
    <3>1. CASE x.closed
      <4>1. y = x
        BY <1>4, <1>7, <3>1, ProcessWakes
      <4>2. client.waiters = {}
        BY <1>1, <1>4, <3>1 DEF Asleep
      <4> QED BY <1>4, <4>1, <4>2
    <3>2. CASE ~x.closed
      BY <1>4, <1>7, <2>3, <3>2, ProcessWakes
    <3> QED BY <3>1, <3>2
  <2>5. IF y.closed THEN client' = Teardown(y, "connect failed")
        ELSE client' = [y EXCEPT !.waiters = @ \cup {p}] /\ task' = [task EXCEPT ![p] = t]
    BY <1>5
  <2> HIDE DEF y
  <2>6. CASE y.closed
    <3>1. client' = Teardown(y, "connect failed")
      BY <2>5, <2>6
    <3>2. Teardown(y, "connect failed") = y
      BY <2>6 DEF Teardown
    <3> QED BY <2>2, <2>4, <3>1, <3>2
  <2>7. CASE ~y.closed
    <3>1. client'.waiters = {p} /\ client'.core = y.core /\ client'.closed = y.closed
      BY <2>2, <2>4, <2>5, <2>7 DEF ClientStates
    <3>2. task'[p] = t
      BY <1>1, <2>5, <2>7
    <3> QED BY <2>2, <2>7, <3>1, <3>2
  <2> QED BY <2>6, <2>7
<1>12. Blank(cores'[a]) /\ cores'[a].conn # "none" /\ got'[a] = <<>>
  <2>1. Calm(r.c, cores'[a])
    BY <1>2, <1>7, <1>9
  <2> QED BY <1>3, <1>5, <1>6, <2>1 DEF Calm, Blank, NothingYet
<1>13. \A b \in Attempts : b # a => Calm(cores[b], cores'[b])
  BY <1>7, <1>9
<1> HIDE DEF a
<1>14. NoneIsBlank'
  BY <1>1, <1>5, <1>12, <1>13 DEF NoneIsBlank, NothingYet, HasHandle, Calm
<1>15. DatagramsExactlyOnce'
  <2>1. ASSUME NEW b \in Attempts PROVE Ledger(got'[b], cores'[b])
    <3>1. CASE b = a
      BY <1>12, <3>1, LedgerBlank
    <3>2. CASE b # a
      <4>1. Ledger(got[b], cores[b])
        BY <1>1 DEF DatagramsExactlyOnce, Ledger, Numbers
      <4> QED BY <1>5, <1>13, <3>2, <4>1, LedgerKept
    <3> QED BY <3>1, <3>2
  <2> QED BY <2>1 DEF DatagramsExactlyOnce, Ledger, Numbers
<1>16. WaitsOnHandle'
  <2> SUFFICES ASSUME NEW q \in Tasks, task'[q].pc = "wait", task'[q].op.kind \in StreamKinds
               PROVE  HasHandle(cores'[task'[q].core], task'[q].op.id)
    BY DEF WaitsOnHandle
  <2>1. q # p
    BY <1>8, <1>10 DEF IsConnectedOp, StreamKinds
  <2>2. task'[q] = task[q] /\ HasHandle(cores[task[q].core], task[q].op.id)
    BY <1>1, <1>10, <2>1 DEF WaitsOnHandle
  <2>3. task[q].core \in Attempts /\ task[q].op.id \in StreamIds
    BY <1>1, <2>2 DEF StageHasCore, TaskStates, Attempted, StreamKinds
  <2>4. task[q].core # a
    BY <1>3, <2>2, <2>3 DEF NothingYet
  <2> QED BY <1>13, <2>2, <2>3, <2>4 DEF Calm, HasHandle
<1>17. StagesApart'
  <2>1. \A q \in Tasks : task'[q].core <= client'.core
    BY <1>1, <1>10, <1>11 DEF StagesApart
  <2>2. \A q \in Tasks : task'[q].pc \in Stages =>
           /\ q # p /\ task'[q] = task[q] /\ task[q].core \in Attempts /\ task[q].core # a
    BY <1>1, <1>2, <1>10 DEF StagesApart, Stages, StageHasCore, TaskStates, a
  <2>3. ASSUME NEW q \in Tasks, task'[q].pc \in Stages PROVE cores'[task'[q].core].conn = "none"
    <3>1. task'[q] = task[q] /\ task[q].core \in Attempts /\ task[q].core # a
      BY <2>2, <2>3
    <3>2. cores[task[q].core].conn = "none"
      BY <1>1, <2>3, <3>1 DEF StagesApart
    <3>3. Calm(cores[task[q].core], cores'[task[q].core])
      BY <1>13, <3>1
    <3> QED BY <3>1, <3>2, <3>3 DEF Calm
  <2>4. \A q, u \in Tasks :
           q # u /\ task'[q].pc \in Stages /\ task'[u].pc \in Stages => task'[q].core # task'[u].core
    BY <1>1, <2>2 DEF StagesApart
  <2>5. ASSUME NEW b \in Attempts, b > client'.core PROVE b # a
    <3>1. client'.core = client.core /\ a <= client.core
      BY <1>3, <1>11
    <3>2. b \in Int /\ a \in Int /\ client.core \in Int
      BY <1>r, <1>2 DEF Attempts
    <3> QED BY <2>5, <3>1, <3>2
  <2>6. \A b \in Attempts : b > client'.core => cores'[b].conn = "none"
    BY <1>1, <1>11, <1>13, <2>5 DEF StagesApart, Calm
  <2> QED BY <2>1, <2>3, <2>4, <2>6 DEF StagesApart
<1>18. Asleep'
  <2>1. CASE client'.waiters = {}
    BY <2>1, NobodyAsleep
  <2>2. CASE client'.waiters = {p} /\ ~client'.closed /\ task'[p] = t
    <3>1. ~IsConnected(cores'[a])
      BY <1>12 DEF Blank, IsConnected
    <3>2. ~Possible(IsConnectedOp, cores'[a])
      BY <3>1 DEF Possible, IsConnectedOp
    <3> QED BY <1>8, <2>2, <3>2 DEF Asleep
  <2> QED BY <1>11, <2>1, <2>2
<1> QED BY <1>14, <1>15, <1>16, <1>17, <1>18 DEF Inv2, Order

-----------------------------------------------------------------------------
\* Every action keeps the second invariant.
LEMMA Inv2Inductive == Inv /\ Inv' /\ Inv2 /\ [Next]_vars => Inv2'
<1> SUFFICES ASSUME Inv, Inv', Inv2, [Next]_vars PROVE Inv2'
  OBVIOUS
<1>t. /\ client \in ClientStates /\ task \in [Tasks -> TaskStates] /\ StageHasCore
      /\ StagesApart /\ NoneIsBlank /\ WaitsOnHandle /\ Asleep
  BY DEF Inv, TypeOK, Inv2, Order
<1>1. ASSUME NEW p \in Tasks, NEW o \in Attempted, Call(p, o) PROVE Inv2'
  <2>1. p \notin client.waiters /\ client.core # 0 /\ client.core \in Attempts /\ client.core <= client.core
    BY <1>1, <1>t, WaitersWait DEF Call, ClientStates, Attempts
  <2>2. CASE o.kind \in StreamKinds
    <3>1. PICK a \in Attempts : HasHandle(cores[a], o.id) /\ Turn(p, o, a)
      BY <1>1, <2>2 DEF Call, StreamKinds
    <3>2. o.id \in StreamIds
      BY <2>2 DEF Attempted, StreamKinds
    <3>3. ~(a > client.core)
      BY <1>t, <3>1, <3>2 DEF StagesApart, NoneIsBlank, NothingYet
    <3>4. a <= client.core
      BY <2>1, <3>3 DEF Attempts
    <3> QED BY <2>1, <3>1, <3>4, TurnKeepsInv2
  <2>3. CASE o.kind \notin StreamKinds
    <3>1. Turn(p, o, client.core)
      BY <1>1, <2>3 DEF Call, StreamKinds
    <3> QED BY <2>1, <2>3, <3>1, TurnKeepsInv2
  <2> QED BY <2>2, <2>3
<1>2. ASSUME NEW p \in Tasks, Wake(p) PROVE Inv2'
  <2>1. /\ task[p].core \in Attempts /\ task[p].op \in Attempted /\ task[p].core <= client.core
        /\ client.core # 0 /\ p \notin client.waiters
        /\ task[p].op.kind \in StreamKinds => HasHandle(cores[task[p].core], task[p].op.id)
    BY <1>2, <1>t DEF Wake, StageHasCore, TaskStates, StagesApart, WaitsOnHandle, Attempts
  <2> QED BY <1>2, <2>1, TurnKeepsInv2 DEF Wake
<1>3. ASSUME NEW p \in Tasks, NEW e \in {"TimeoutError", "CancelledError"}, Interrupt(p, e) PROVE Inv2'
  BY <1>3, InterruptKeepsInv2
<1>4. ASSUME NEW p \in Tasks, NEW e,
             ConnectCall(p) \/ ConnectAborted(p, e) \/ EndpointMade(p) \/ EndpointCancelled(p)
      PROVE  Inv2'
  BY <1>4, ConnectStagesKeepInv2
<1>5. ASSUME NEW p \in Tasks, Resolved(p) PROVE Inv2'
  BY <1>5, ResolvedKeepsInv2
<1>6. ASSUME NEW p \in Tasks, ConnectStart(p) PROVE Inv2'
  BY <1>6, ConnectStartKeepsInv2
<1>7. ASSUME NEW k \in Attempts, NEW empty \in BOOLEAN, OnReceive(k, empty) \/ OnTimeout PROVE Inv2'
  BY <1>7, EventsKeepInv2
<1>8. ASSUME NEW k \in Attempts, TransportFails(k) \/ OnConnectionLost(k) PROVE Inv2'
  BY <1>8, SocketsKeepInv2
<1>9. ASSUME AppClose \/ SendOversized PROVE Inv2'
  BY <1>9, AppCallsKeepInv2
<1>10. ASSUME NEW a \in Attempts, NEW id \in StreamIds, StreamReset(a, id) \/ StreamStopSending(a, id)
       PROVE  Inv2'
  BY <1>10, StreamControlsKeepInv2
<1>11. ASSUME UNCHANGED vars PROVE Inv2'
  BY <1>11 DEF vars, Inv2, Order, StagesApart, NoneIsBlank, DatagramsExactlyOnce, WaitsOnHandle, Asleep
<1>12. 1 \in Attempts /\ TRUE \in BOOLEAN
  BY MaxAttemptsAssumption DEF Attempts
<1> QED BY <1>1, <1>2, <1>3, <1>4, <1>5, <1>6, <1>7, <1>8, <1>9, <1>10, <1>11, <1>12 DEF Next

\* A client that was just constructed satisfies it.
LEMMA InitInv2 == Init => Inv2
<1> SUFFICES ASSUME Init PROVE Inv2
  OBVIOUS
<1>1. /\ client.core = 0 /\ client.waiters = {} /\ cores = [a \in Attempts |-> FreshClient]
      /\ task = [p \in Tasks |-> IdleTask("none")] /\ got = [a \in Attempts |-> <<>>]
  BY DEF Init
<1>2. IdleTask("none").pc = "idle" /\ IdleTask("none").core = 0
  BY DEF IdleTask
<1>3. /\ FreshClient.conn = "none" /\ FreshClient.received_datagrams = <<>> /\ FreshClient.arrived = 0
      /\ FreshClient.session_ready = FALSE
  BY DEF FreshClient
<1>4. \A id \in StreamIds : FreshClient.streams[id].phase = "unused"
  BY DEF FreshClient, UnusedStream
<1>5. Ledger(<<>>, FreshClient)
  BY <1>3, <1>4, LedgerBlank DEF Blank
<1>6. StagesApart /\ WaitsOnHandle
  BY <1>1, <1>2, <1>3 DEF StagesApart, Stages, WaitsOnHandle
<1>7. NoneIsBlank
  BY <1>1, <1>3, <1>4 DEF NoneIsBlank, NothingYet, HasHandle
<1>8. DatagramsExactlyOnce
  BY <1>1, <1>5 DEF DatagramsExactlyOnce, Ledger, Numbers
<1>9. Asleep
  BY <1>1 DEF Asleep
<1> QED BY <1>6, <1>7, <1>8, <1>9 DEF Inv2, Order

\* Datagrams reach the application exactly once and in order of arrival,
\* whatever the tasks, deadlines, cancellations and further connect() calls do.
THEOREM DatagramsDeliveredOnce == Spec => []DatagramsExactlyOnce
<1>1. Inv2 => DatagramsExactlyOnce
  BY DEF Inv2, Order
<1> QED BY <1>1, InitInv, InvInductive, InitInv2, Inv2Inductive, PTL DEF Spec

\* No wake-up is lost: nobody sleeps on a closed client or while the attempt
\* would succeed, for any number of tasks and of attempts to connect.
THEOREM NoWakeupIsLost == Spec => []NoLostWakeup
<1>1. Inv /\ Inv2 => NoLostWakeup
  <2> SUFFICES ASSUME Inv, Inv2, NEW p \in client.waiters
               PROVE  /\ task[p].pc = "wait" /\ ~client.closed
                      /\ \A r \in Attempt(task[p].op, cores[task[p].core]) : r.ret # "value"
    BY DEF NoLostWakeup
  <2>1. task[p].pc = "wait" /\ ~client.closed /\ ~Possible(task[p].op, cores[task[p].core])
    BY DEF Inv2, Asleep
  <2>2. p \in Tasks
    BY DEF Inv, TypeOK, ClientStates
  <2>3. task[p].op \in Attempted /\ cores[task[p].core] \in Clients
    BY <2>1, <2>2 DEF Inv, TypeOK, StageHasCore, TaskStates
  <2> QED BY <2>1, <2>3, AttemptAnswers DEF Answers
<1> QED BY <1>1, InitInv, InvInductive, InitInv2, Inv2Inductive, PTL DEF Spec

-----------------------------------------------------------------------------
(* An end inside start(): the connect() that called it still waits.        *)

Awaiting(p) == task[p].pc = "wait" /\ task[p].op = IsConnectedOp /\ task[p].core = client.core
Failed == client.core # 0 /\ ~client.closed /\ cores[client.core].conn = "failed"
FailureAwaited == Failed => \E p \in Tasks : Awaiting(p)

\* What every step but that of start() does: no connection becomes a failed
\* one, and connect() goes on waiting unless the client is torn down.
Patient ==
    /\ \A a \in Attempts : cores'[a].conn = "failed" => cores[a].conn = "failed"
    /\ client'.core = client.core /\ (client.closed => client'.closed)
    /\ \A p \in Tasks : Failed /\ Awaiting(p) => client'.closed \/ Awaiting(p)'

\* Such a step keeps the invariant.
LEMMA PatientKeeps ==
    ASSUME Inv, FailureAwaited, Patient
    PROVE  FailureAwaited'
<1> SUFFICES ASSUME Failed' PROVE \E p \in Tasks : Awaiting(p)'
  BY DEF FailureAwaited
<1>1. client.core \in {0} \cup Attempts
  BY DEF Inv, TypeOK, ClientStates
<1>2. Failed
  BY <1>1 DEF Failed, Patient
<1>3. PICK p \in Tasks : Awaiting(p)
  BY <1>2 DEF FailureAwaited
<1> QED BY <1>2, <1>3 DEF Patient, Failed

\* _process turns no connection into a failed one and leaves a closed client alone.
LEMMA ProcessPatient ==
    ASSUME Inv, NEW a \in Attempts, NEW d \in Clients, d.conn = "failed" => cores[a].conn = "failed",
           Explained(client, [cores EXCEPT ![a] = d]),
           client' = Process(client, [cores EXCEPT ![a] = d]).x,
           cores' = Process(client, [cores EXCEPT ![a] = d]).cs
    PROVE  /\ \A b \in Attempts : cores'[b].conn = "failed" => cores[b].conn = "failed"
           /\ client'.core = client.core /\ (client.closed => client'.closed)
<1> USE InvFacts
<1> DEFINE cs == [cores EXCEPT ![a] = d]
<1>1. cs \in [Attempts -> Clients] /\ \A b \in Attempts : cs[b] = IF b = a THEN d ELSE cores[b]
  OBVIOUS
<1> HIDE DEF cs
<1>2. client' = Process(client, cs).x /\ cores' = Process(client, cs).cs /\ Explained(client, cs)
  BY DEF cs
<1>3. \A b \in Attempts : Calm(cs[b], cores'[b])
  BY <1>1, <1>2, ProcessWakes
<1>4. client'.core = client.core
  BY <1>1, <1>2, ProcessFacts
<1>5. client.closed => client' = client
  BY <1>1, <1>2, ProcessWakes
<1> QED BY <1>1, <1>3, <1>4, <1>5 DEF Calm

\* A step that changes one core and leaves the client alone.
LEMMA CorePatient ==
    ASSUME Inv, NEW a \in Attempts, NEW d, d.conn = "failed" => cores[a].conn = "failed",
           cores' = [cores EXCEPT ![a] = d]
    PROVE  \A b \in Attempts : cores'[b].conn = "failed" => cores[b].conn = "failed"
BY DEF Inv, TypeOK

\* One turn of the loop in _wait: a task that awaits a failed connection goes
\* back to sleep.
LEMMA TurnPatient ==
    ASSUME Inv, NEW p \in Tasks, NEW o \in Attempted, NEW a \in Attempts, Turn(p, o, a),
           Awaiting(p) => o = IsConnectedOp /\ a = client.core
    PROVE  Patient
<1> USE InvFacts
<1>t. cores[a] \in Clients /\ task \in [Tasks -> TaskStates]
  BY DEF Inv, TypeOK
<1>1. CASE client.closed
  <2>1. UNCHANGED <<client, cores>>
    BY <1>1 DEF Turn
  <2> QED BY <1>1, <2>1 DEF Patient
<1>2. CASE ~client.closed
  <2> DEFINE cs(r) == [cores EXCEPT ![a] = r.c]
             after(r) == IF r.ret = "value" /\ o.kind \in ProcessesAfter
                           THEN Process(client, cs(r)) ELSE [x |-> client, cs |-> cs(r)]
             t == [pc |-> "wait", op |-> o, core |-> a, res |-> "none"]
  <2>1. PICK r \in Attempt(o, cores[a]) :
          /\ cores' = after(r).cs
          /\ IF r.ret = "None"
               THEN /\ client' = [after(r).x EXCEPT !.waiters = @ \cup {p}]
                    /\ task' = [task EXCEPT ![p] = t]
               ELSE /\ client' = after(r).x
                    /\ task' = Finished(p, r.ret)
    BY <1>2 DEF Turn
  <2>2. r.c \in Clients /\ r.c.conn = cores[a].conn
    BY <1>t, AttemptFacts DEF PyKeeps, SameSession
  <2>3. cs(r) \in [Attempts -> Clients] /\ Explained(client, cs(r))
    BY <2>2, SameConnection
  <2>4. \A b \in Attempts : cs(r)[b].conn = cores[b].conn
    BY <2>2
  <2> HIDE DEF cs
  <2>5. /\ after(r).x \in ClientStates /\ after(r).x.core = client.core
        /\ \A b \in Attempts : after(r).cs[b].conn = cores[b].conn
    <3>1. CASE after(r) = Process(client, cs(r))
      <4>1. Process(client, cs(r)).x \in ClientStates /\ Process(client, cs(r)).x.core = client.core
        BY <2>3, ProcessFacts
      <4>2. \A b \in Attempts : Calm(cs(r)[b], Process(client, cs(r)).cs[b])
        BY <2>3, ProcessWakes
      <4> QED BY <2>4, <3>1, <4>1, <4>2 DEF Calm
    <3>2. CASE after(r) = [x |-> client, cs |-> cs(r)]
      BY <2>4, <3>2
    <3> QED BY <3>1, <3>2
  <2> HIDE DEF after
  <2>6. client'.core = client.core
    BY <2>1, <2>5 DEF ClientStates
  <2>7. ASSUME NEW q \in Tasks, Failed, Awaiting(q) PROVE Awaiting(q)'
    <3>1. CASE q # p
      <4>1. task'[q] = task[q]
        BY <1>t, <2>1, <3>1 DEF Finished
      <4> QED BY <2>6, <2>7, <4>1 DEF Awaiting
    <3>2. CASE q = p
      <4>1. o = IsConnectedOp /\ a = client.core /\ cores[a].conn = "failed"
        BY <2>7, <3>2 DEF Failed
      <4>2. r.ret = "None"
        BY <4>1 DEF Attempt, IsConnectedOp, IsConnected
      <4>3. task'[p] = t
        BY <1>t, <2>1, <4>2
      <4>4. t.pc = "wait" /\ t.op = o /\ t.core = a
        OBVIOUS
      <4> QED BY <2>6, <3>2, <4>1, <4>3, <4>4 DEF Awaiting
    <3> QED BY <3>1, <3>2
  <2> QED BY <1>2, <2>1, <2>5, <2>6, <2>7 DEF Patient
<1> QED BY <1>1, <1>2

\* The callbacks of the transport and of the timer, close() and the refused datagram.
LEMMA EventsPatient ==
    ASSUME Inv, NEW k \in Attempts, NEW empty \in BOOLEAN,
           \/ OnReceive(k, empty) \/ OnTimeout \/ TransportFails(k) \/ OnConnectionLost(k)
           \/ AppClose \/ SendOversized
    PROVE  Patient
<1> USE InvFacts
<1> DEFINE a == client.core
<1>t. task' = task
  BY DEF OnReceive, OnTimeout, TransportFails, OnConnectionLost, AppClose, SendOversized
<1>a. client'.core = client.core => \A p \in Tasks : Awaiting(p) => Awaiting(p)'
  BY <1>t DEF Awaiting
<1>1. CASE OnReceive(k, empty) \/ OnTimeout
  <2>1. a \in Attempts /\ cores[a] \in Clients /\ cores[a].conn # "closed" /\ ~client.closed
    BY <1>1 DEF OnReceive, OnTimeout, ClientStates, Watched
  <2>2. ASSUME NEW r, r.c \in Clients, Evolves(cores[a], r.c), r.c.conn = "closed" => r.c.last_error # NoError,
               client' = Process(client, [cores EXCEPT ![a] = r.c]).x,
               cores' = Process(client, [cores EXCEPT ![a] = r.c]).cs
        PROVE  Patient
    <3>1. Explained(client, [cores EXCEPT ![a] = r.c])
      BY <2>1, <2>2 DEF Explained
    <3>2. r.c.conn = "failed" => cores[a].conn = "failed"
      BY <2>2 DEF Evolves
    <3> HIDE DEF a
    <3> QED BY <1>a, <2>1, <2>2, <3>1, <3>2, ProcessPatient DEF Patient
  <2>3. CASE OnReceive(k, empty)
    <3>1. PICK r \in py_receive_packet(cores[a], empty) :
            LET cs == [cores EXCEPT ![a] = r.c]
                after == IF r.ret = "value" THEN Process(client, cs) ELSE [x |-> client, cs |-> cs]
            IN client' = after.x /\ cores' = after.cs
      BY <2>3 DEF OnReceive
    <3>2. /\ r.c \in Clients /\ Evolves(cores[a], r.c)
          /\ (r.ret = "value" => (r.c.conn = "closed" => r.c.last_error # NoError))
      BY <2>1, <3>1, ReceivePacketFacts
    <3>3. CASE r.ret = "value"
      BY <2>2, <3>1, <3>2, <3>3
    <3>4. CASE r.ret # "value"
      <4>1. client' = client /\ cores' = [cores EXCEPT ![a] = r.c]
        BY <3>1, <3>4
      <4>2. r.c.conn = "failed" => cores[a].conn = "failed"
        BY <3>2 DEF Evolves
      <4> HIDE DEF a
      <4> QED BY <1>a, <2>1, <4>1, <4>2, CorePatient DEF Patient
    <3> QED BY <3>3, <3>4
  <2>4. CASE OnTimeout
    <3>1. PICK r \in py_handle_timeout(cores[a]) :
            /\ client' = Process(client, [cores EXCEPT ![a] = r.c]).x
            /\ cores' = Process(client, [cores EXCEPT ![a] = r.c]).cs
      BY <2>4 DEF OnTimeout
    <3>2. r.c \in Clients /\ Evolves(cores[a], r.c) /\ (r.c.conn = "closed" => r.c.last_error # NoError)
      BY <2>1, <3>1, HandleTimeoutFacts
    <3> QED BY <2>2, <3>1, <3>2
  <2> QED BY <1>1, <2>3, <2>4
<1>2. CASE TransportFails(k)
  <2>1. client' = [client EXCEPT !.sock[k] = "closing"] /\ cores' = cores
    BY <1>2 DEF TransportFails
  <2>2. client'.core = client.core /\ client'.closed = client.closed
    BY <2>1, ObjectUpdate
  <2> QED BY <1>a, <2>1, <2>2 DEF Patient
<1>3. CASE OnConnectionLost(k)
  <2> DEFINE x == [client EXCEPT !.sock[k] = "closed"]
  <2>1. x \in ClientStates /\ x.core = client.core
    BY ObjectUpdate
  <2>2. client' = Teardown(x, "connection lost") /\ "connection lost" \in Reasons /\ cores' = cores
    BY <1>3 DEF OnConnectionLost, Reasons
  <2> HIDE DEF x
  <2>3. client'.closed /\ client'.core = client.core
    BY <2>1, <2>2, TeardownFacts
  <2> QED BY <1>a, <2>2, <2>3 DEF Patient
<1>4. CASE AppClose
  <2>1. client' = Teardown(client, "closed by application") /\ "closed by application" \in Reasons
    BY <1>4 DEF AppClose, Reasons
  <2>2. client'.closed /\ client'.core = client.core
    BY <2>1, TeardownFacts
  <2>3. CASE a = 0
    <3>1. cores' = cores
      BY <1>4, <2>3 DEF AppClose
    <3> QED BY <1>a, <2>2, <3>1 DEF Patient
  <2>4. CASE a # 0
    <3> DEFINE d == Close(cores[a])
               e == DrainSend(client, d)
    <3>1. a \in Attempts /\ cores[a] \in Clients
      BY <2>4 DEF ClientStates
    <3>2. d \in Clients /\ Evolves(cores[a], d)
      BY <3>1, CloseFacts
    <3>3. cores' = [cores EXCEPT ![a] = e]
      BY <1>4, <2>4 DEF AppClose
    <3> HIDE DEF d
    <3>4. e.conn = d.conn
      BY <3>2, DrainFacts
    <3> HIDE DEF a, e
    <3>5. e.conn = "failed" => cores[a].conn = "failed"
      BY <3>2, <3>4 DEF Evolves
    <3> QED BY <1>a, <2>2, <3>1, <3>3, <3>5, CorePatient DEF Patient
  <2> QED BY <2>3, <2>4
<1>5. CASE SendOversized
  <2>1. a \in Attempts /\ cores[a] \in Clients /\ client' = client
    BY <1>5 DEF SendOversized, ClientStates
  <2>2. PICK r \in py_send_datagram(cores[a], TRUE) : cores' = [cores EXCEPT ![a] = r.c]
    BY <1>5 DEF SendOversized
  <2>3. r.c.conn = cores[a].conn
    BY <2>1, <2>2, SendDatagramKeeps DEF PyKeeps, SameSession
  <2> HIDE DEF a
  <2> QED BY <1>a, <2>1, <2>2, <2>3, CorePatient DEF Patient
<1> QED BY <1>1, <1>2, <1>3, <1>4, <1>5

\* reset() and stop_sending().
LEMMA ControlsPatient ==
    ASSUME Inv, NEW k \in Attempts, NEW id \in StreamIds, StreamReset(k, id) \/ StreamStopSending(k, id)
    PROVE  Patient
<1> USE InvFacts
<1>a. client'.core = client.core => \A p \in Tasks : Awaiting(p) => Awaiting(p)'
  BY DEF Awaiting, StreamReset, StreamStopSending, StreamControl
<1>1. PICK r \in py_reset(cores[k], id) \cup py_stop_sending(cores[k], id) :
        LET cs == [cores EXCEPT ![k] = r.c]
            after == IF r.ret = "value" THEN Process(client, cs) ELSE [x |-> client, cs |-> cs]
        IN client' = after.x /\ cores' = after.cs
  BY DEF StreamReset, StreamStopSending, StreamControl
<1>2. r.c \in Clients /\ r.c.conn = cores[k].conn
  <2>1. cores[k] \in Clients
    OBVIOUS
  <2> QED BY <1>1, <2>1, ResetStreamKeeps, StopSendingKeeps DEF PyKeeps, SameSession
<1>3. Explained(client, [cores EXCEPT ![k] = r.c])
  BY <1>2, SameConnection
<1>4. CASE r.ret = "value"
  <2>1. /\ client' = Process(client, [cores EXCEPT ![k] = r.c]).x
        /\ cores' = Process(client, [cores EXCEPT ![k] = r.c]).cs
    BY <1>1, <1>4
  <2> QED BY <1>a, <1>2, <1>3, <2>1, ProcessPatient DEF Patient
<1>5. CASE r.ret # "value"
  <2>1. client' = client /\ cores' = [cores EXCEPT ![k] = r.c]
    BY <1>1, <1>5
  <2> QED BY <1>a, <1>2, <2>1, CorePatient DEF Patient
<1> QED BY <1>4, <1>5

\* The stages of connect() before start(), and its way out.
LEMMA StagesPatient ==
    ASSUME Inv, NEW p \in Tasks, NEW e,
           \/ Interrupt(p, e) \/ ConnectCall(p) \/ ConnectAborted(p, e)
           \/ EndpointMade(p) \/ EndpointCancelled(p)
    PROVE  Patient
<1> USE InvFacts
<1>t. task \in [Tasks -> TaskStates] /\ cores' = cores
  BY DEF Inv, TypeOK, Interrupt, ConnectCall, ConnectAborted, EndpointMade, EndpointCancelled
<1>1. CASE Interrupt(p, e)
  <2> DEFINE x == [client EXCEPT !.waiters = @ \ {p}]
  <2>1. x \in ClientStates /\ x.core = client.core /\ x.closed = client.closed
    BY DEF ClientStates
  <2>2. /\ client' = IF task[p].op = IsConnectedOp THEN Teardown(x, "connect failed") ELSE x
        /\ task' = Finished(p, e)
    BY <1>1 DEF Interrupt
  <2> HIDE DEF x
  <2>3. "connect failed" \in Reasons
    BY DEF Reasons
  <2>4. /\ Teardown(x, "connect failed").core = x.core /\ Teardown(x, "connect failed").closed = TRUE
    BY <2>1, <2>3, TeardownFacts
  <2>5. client'.core = client.core /\ (client.closed => client'.closed)
    BY <2>1, <2>2, <2>4
  <2>6. \A q \in Tasks : q # p => task'[q] = task[q]
    BY <1>t, <2>2 DEF Finished
  <2>7. Awaiting(p) => client'.closed
    BY <2>2, <2>4 DEF Awaiting
  <2> QED BY <1>t, <2>5, <2>6, <2>7 DEF Patient, Awaiting
<1>2. CASE ConnectCall(p) \/ ConnectAborted(p, e) \/ EndpointMade(p) \/ EndpointCancelled(p)
  <2>1. client'.core = client.core /\ client'.closed = client.closed
    BY <1>2 DEF ConnectCall, ConnectAborted, EndpointMade, EndpointCancelled, ClientStates
  <2>2. task[p].pc # "wait" /\ \A q \in Tasks : q # p => task'[q] = task[q]
    BY <1>2, <1>t DEF ConnectCall, ConnectAborted, EndpointMade, EndpointCancelled, Stage, Finished
  <2> QED BY <1>t, <2>1, <2>2 DEF Patient, Awaiting
<1> QED BY <1>1, <1>2

\* start() may leave a failed connection: its connect() goes to sleep.  A new
\* core is not a failed one.
LEMMA StartAwaited ==
    ASSUME Inv, FailureAwaited, NEW p \in Tasks, ConnectStart(p) \/ Resolved(p), Inv2
    PROVE  FailureAwaited'
<1> USE InvFacts
<1>t. /\ task \in [Tasks -> TaskStates] /\ StageHasCore /\ client.core \in {0} \cup Attempts
      /\ StagesApart
  BY DEF Inv, TypeOK, ClientStates, Inv2, Order
<1>1. CASE Resolved(p)
  <2>1. client.core + 1 \in Attempts
    BY <1>1, MaxAttemptsAssumption DEF Resolved, ClientStates, Attempts
  <2>2. client'.core = client.core + 1 /\ cores' = [cores EXCEPT ![client.core + 1] = FreshClient]
    BY <1>1 DEF Resolved, ClientStates
  <2>3. cores'[client'.core].conn = "none"
    BY <2>1, <2>2 DEF FreshClient
  <2> QED BY <2>3 DEF FailureAwaited, Failed
<1>2. CASE ConnectStart(p)
  <2> DEFINE a == task[p].core
             x == [client EXCEPT !.transport = a]
             cs(r) == [cores EXCEPT ![a] = r.c]
             t == [pc |-> "wait", op |-> IsConnectedOp, core |-> a, res |-> "none"]
  <2>1. a \in Attempts /\ cores[a] \in Clients /\ task[p].pc = "opened"
    BY <1>2, <1>t DEF ConnectStart, StageHasCore, TaskStates
  <2>2. x \in ClientStates /\ x.core = client.core /\ x.closed = client.closed /\ x.timer = client.timer
    BY <2>1, ObjectUpdate
  <2>3. PICK r \in py_start(cores[a]) :
          /\ cores' = Process(x, cs(r)).cs
          /\ IF Process(x, cs(r)).x.closed
               THEN /\ client' = Teardown(Process(x, cs(r)).x, "connect failed")
                    /\ task' = Finished(p, "ConnectionError")
               ELSE /\ client' = [Process(x, cs(r)).x EXCEPT !.waiters = @ \cup {p}]
                    /\ task' = [task EXCEPT ![p] = t]
    BY <1>2 DEF ConnectStart, Stage
  <2>4. r.c \in Clients /\ r.c.conn # "closed"
    BY <2>1, <2>3, StartFacts
  <2>5. cs(r) \in [Attempts -> Clients] /\ \A b \in Attempts : cs(r)[b] = IF b = a THEN r.c ELSE cores[b]
    BY <2>1, <2>4
  <2>6. Explained(x, cs(r))
    BY <1>t, <2>2, <2>4, <2>5 DEF Explained, Silent
  <2>7. t.pc = "wait" /\ t.op = IsConnectedOp /\ t.core = a
    OBVIOUS
  <2> HIDE DEF x, cs, t
  <2> DEFINE y == Process(x, cs(r)).x
  <2>8. /\ y \in ClientStates /\ y.core = client.core /\ (x.closed => y = x)
        /\ \A b \in Attempts : Calm(cs(r)[b], cores'[b])
    <3>1. y \in ClientStates /\ y.core = client.core
      BY <2>2, <2>5, <2>6, ProcessFacts
    <3>2. x.closed => Process(x, cs(r)) = [x |-> x, cs |-> cs(r)]
      BY <2>2, <2>5, ProcessWakes
    <3>3. \A b \in Attempts : Calm(cs(r)[b], Process(x, cs(r)).cs[b])
      BY <2>2, <2>5, ProcessWakes
    <3>4. x.closed => y = x
      BY <3>2
    <3>5. cores' = Process(x, cs(r)).cs
      BY <2>3
    <3> HIDE DEF y
    <3> QED BY <3>1, <3>3, <3>4, <3>5
  <2>9. IF y.closed THEN client' = Teardown(y, "connect failed")
        ELSE client' = [y EXCEPT !.waiters = @ \cup {p}] /\ task' = [task EXCEPT ![p] = t]
    BY <2>3
  <2> HIDE DEF y
  <2>10. CASE y.closed
    <3>1. client' = Teardown(y, "connect failed")
      BY <2>9, <2>10
    <3>2. client'.closed
      BY <2>8, <2>10, <3>1 DEF Teardown
    <3> QED BY <3>2 DEF FailureAwaited, Failed
  <2>11. CASE ~y.closed
    <3>1. client'.core = client.core /\ client'.closed = y.closed /\ ~client.closed
      BY <2>2, <2>8, <2>9, <2>11 DEF ClientStates
    <3>2. task'[p] = t /\ \A q \in Tasks : q # p => task'[q] = task[q]
      BY <1>t, <2>9, <2>11
    <3>3. CASE client.core = a
      BY <2>7, <3>1, <3>2, <3>3 DEF FailureAwaited, Awaiting
    <3>4. CASE client.core # a
      <4> SUFFICES ASSUME Failed' PROVE \E q \in Tasks : Awaiting(q)'
        BY DEF FailureAwaited
      <4>1. cores'[client.core].conn = cores[client.core].conn /\ client.core # 0
        BY <1>t, <2>5, <2>8, <3>1, <3>4 DEF Calm, Failed
      <4>2. Failed
        BY <3>1, <4>1 DEF Failed
      <4>3. PICK q \in Tasks : Awaiting(q)
        BY <4>2 DEF FailureAwaited
      <4>4. q # p
        BY <2>1, <4>3 DEF Awaiting
      <4> QED BY <3>1, <3>2, <4>3, <4>4 DEF Awaiting
    <3> QED BY <3>3, <3>4
  <2> QED BY <2>10, <2>11
<1> QED BY <1>1, <1>2

\* Every action keeps it.
LEMMA FailureAwaitedInductive == Inv /\ Inv2 /\ FailureAwaited /\ [Next]_vars => FailureAwaited'
<1> SUFFICES ASSUME Inv, Inv2, FailureAwaited, [Next]_vars PROVE FailureAwaited'
  OBVIOUS
<1>t. client \in ClientStates /\ task \in [Tasks -> TaskStates] /\ StageHasCore
  BY DEF Inv, TypeOK
<1>1. ASSUME NEW p \in Tasks, NEW o \in Attempted, Call(p, o) PROVE FailureAwaited'
  <2>1. PICK a \in Attempts : Turn(p, o, a)
    BY <1>1, <1>t DEF Call, ClientStates
  <2>2. ~Awaiting(p)
    BY <1>1 DEF Call, Awaiting
  <2> QED BY <2>1, <2>2, TurnPatient, PatientKeeps
<1>2. ASSUME NEW p \in Tasks, Wake(p) PROVE FailureAwaited'
  <2>1. task[p].core \in Attempts /\ task[p].op \in Attempted
    BY <1>2, <1>t DEF Wake, StageHasCore, TaskStates
  <2>2. Turn(p, task[p].op, task[p].core)
    BY <1>2 DEF Wake
  <2>3. Awaiting(p) => task[p].op = IsConnectedOp /\ task[p].core = client.core
    BY DEF Awaiting
  <2>4. Patient
    BY <2>1, <2>2, <2>3, TurnPatient
  <2> QED BY <2>4, PatientKeeps
<1>3. ASSUME NEW p \in Tasks, NEW e,
             \/ Interrupt(p, e) \/ ConnectCall(p) \/ ConnectAborted(p, e)
             \/ EndpointMade(p) \/ EndpointCancelled(p)
      PROVE  FailureAwaited'
  BY <1>3, StagesPatient, PatientKeeps
<1>4. ASSUME NEW p \in Tasks, ConnectStart(p) \/ Resolved(p) PROVE FailureAwaited'
  BY <1>4, StartAwaited
<1>5. ASSUME NEW k \in Attempts, NEW empty \in BOOLEAN,
             \/ OnReceive(k, empty) \/ OnTimeout \/ TransportFails(k) \/ OnConnectionLost(k)
             \/ AppClose \/ SendOversized
      PROVE  FailureAwaited'
  BY <1>5, EventsPatient, PatientKeeps
<1>6. ASSUME NEW k \in Attempts, NEW id \in StreamIds, StreamReset(k, id) \/ StreamStopSending(k, id)
      PROVE  FailureAwaited'
  BY <1>6, ControlsPatient, PatientKeeps
<1>7. ASSUME UNCHANGED vars PROVE FailureAwaited'
  BY <1>7 DEF vars, FailureAwaited, Failed, Awaiting
<1>8. 1 \in Attempts /\ TRUE \in BOOLEAN
  BY MaxAttemptsAssumption DEF Attempts
<1> QED BY <1>1, <1>2, <1>3, <1>4, <1>5, <1>6, <1>7, <1>8 DEF Next

\* The asyncio client never misses the end of its connection: whenever control
\* is back in the event loop, a client that is not closed holds a core whose
\* connection has not ended, or has ended inside the start() of a connect()
\* that still waits; for any number of tasks and of attempts.
THEOREM DeathNeverMissed == Spec => []DeadConnectionDetected
<1>1. Inv /\ FailureAwaited => DeadConnectionDetected
  BY DEF Inv, EndsNoticed, FailureAwaited, Failed, Awaiting, DeadConnectionDetected
<1>2. Init => FailureAwaited
  <2> SUFFICES ASSUME Init PROVE FailureAwaited
    OBVIOUS
  <2>1. client.core = 0
    BY DEF Init
  <2> QED BY <2>1 DEF FailureAwaited, Failed
<1> QED BY <1>1, <1>2, InitInv, InvInductive, InitInv2, Inv2Inductive, FailureAwaitedInductive, PTL DEF Spec

-----------------------------------------------------------------------------
(* The third invariant: CONNECTION_CLOSE and ConnectionError.  They are    *)
(* right as long as connect() starts one core only.                        *)

\* No core but the current one has been started: connect() was perhaps called
\* again after the resolver or the socket failed, but not once it had called
\* start().
OneStarted == \A a \in Attempts : a # client.core => cores[a].conn = "none"

\* The object x and its core c fit together: a started core has a transport;
\* no CONNECTION_CLOSE waits, unless an attempt that never got a connection was
\* torn down; a connection that was established is, until the client is closed.
Fits(x, c) ==
    /\ c.conn # "none" => x.transport # 0
    /\ ~x.closed \/ x.was_connected => NoClose(c)
    /\ x.was_connected => c.conn # "none"
    /\ x.was_connected /\ ~x.closed => IsConnected(c)

Settled ==
    /\ client.was_connected => client.core # 0
    /\ client.core # 0 => Fits(client, cores[client.core])

\* Whoever waits for more than a datagram waits on a core that was started.
WaitsStarted ==
    \A p \in Tasks : task[p].pc = "wait" /\ task[p].op.kind # "receive_datagram"
                       => cores[task[p].core].conn # "none"

Inv3 == Settled /\ WaitsStarted

\* No attempt() queues a CONNECTION_CLOSE, ConnectionError means that there is
\* no connection, and whoever is told to wait has one (is_connected and
\* receive_datagram, which do not ask, aside).
LEMMA AttemptReports ==
    ASSUME NEW c \in Clients, NEW o \in Attempted, NEW r \in Attempt(o, c)
    PROVE  /\ Sends(c, r.c)
           /\ r.ret = "ConnectionError" => ~IsConnected(c) /\ o.kind # "receive_datagram"
           /\ r.ret = "None" /\ o.kind \notin {"is_connected", "receive_datagram"} => IsConnected(c)
<1>1. CASE o.kind = "is_connected"
  <2>1. r = [c |-> c, ret |-> IF IsConnected(c) THEN "value" ELSE "None", val |-> 0]
    BY <1>1 DEF Attempt
  <2> QED BY <1>1, <2>1 DEF Sends
<1>2. CASE o.kind = "send_datagram"
  <2>1. r \in py_send_datagram(c, FALSE)
    BY <1>2 DEF Attempt
  <2> QED BY <1>2, <2>1, SendDatagramReports DEF PyReports
<1>3. CASE o.kind = "receive_datagram"
  <2>1. r \in py_receive_datagram(c)
    BY <1>3 DEF Attempt
  <2>2. r.ret \in {"value", "None"}
    BY <2>1, ReceiveDatagramKeeps
  <2>3. Sends(c, r.c)
    BY <2>1, ReceiveDatagramSends
  <2> QED BY <1>3, <2>2, <2>3
<1>4. CASE o.kind = "open"
  <2>1. r \in py_open_stream(c, o.uni) /\ o.uni \in BOOLEAN
    BY <1>4 DEF Attempt, Attempted
  <2> QED BY <1>4, <2>1, OpenStreamReports DEF PyReports
<1>5. CASE o.kind = "accept"
  <2>1. r \in py_accept_stream(c, o.uni) /\ o.uni \in BOOLEAN
    BY <1>5 DEF Attempt, Attempted
  <2> QED BY <1>5, <2>1, AcceptStreamReports DEF PyReports
<1>6. CASE o.kind = "read"
  <2>1. r \in py_read(c, o.id) /\ o.id \in StreamIds
    BY <1>6 DEF Attempt, Attempted
  <2> QED BY <1>6, <2>1, ReadReports DEF PyReports
<1>7. CASE o.kind \in {"write", "write_fin"}
  <2>1. o.id \in StreamIds /\ \E fin \in BOOLEAN : r \in py_write(c, o.id, fin)
    BY <1>7 DEF Attempt, Attempted
  <2> QED BY <1>7, <2>1, WriteReports DEF PyReports
<1>8. o.kind \in {"is_connected", "send_datagram", "receive_datagram", "open", "accept",
                  "read", "write", "write_fin"}
  BY DEF Attempted
<1> QED BY <1>1, <1>2, <1>3, <1>4, <1>5, <1>6, <1>7, <1>8

\* _teardown touches neither the transport's name nor was_connected.
LEMMA TeardownKeeps ==
    ASSUME NEW x \in ClientStates, NEW reason
    PROVE  /\ Teardown(x, reason).transport = x.transport
           /\ Teardown(x, reason).was_connected = x.was_connected
           /\ Teardown(x, reason).core = x.core
           /\ Teardown(x, reason).closed
<1>1. CASE x.closed
  BY <1>1 DEF Teardown
<1>2. CASE ~x.closed
  <2> DEFINE y == [x EXCEPT !.closed = TRUE, !.close_reason = reason, !.timer = FALSE]
             z == CloseTransport(y)
  <2>1. /\ y.transport = x.transport /\ y.was_connected = x.was_connected /\ y.core = x.core /\ y.closed
        /\ {"transport", "was_connected", "core", "closed", "sock", "waiters"} \subseteq DOMAIN y
    BY DEF ClientStates
  <2> HIDE DEF y
  <2>2. /\ z.transport = x.transport /\ z.was_connected = x.was_connected /\ z.core = x.core /\ z.closed
        /\ {"transport", "was_connected", "core", "closed", "waiters"} \subseteq DOMAIN z
    BY <2>1 DEF CloseTransport
  <2>3. Teardown(x, reason) = [z EXCEPT !.waiters = {}]
    BY <1>2 DEF Teardown, WakeWaiters, y
  <2> HIDE DEF z
  <2> QED BY <2>2, <2>3
<1> QED BY <1>1, <1>2

\* A call that sends at most an ordinary packet leaves what fits.
LEMMA CallFits ==
    ASSUME NEW x, NEW y, NEW c \in Clients, NEW d, Fits(x, c), Sends(c, d),
           d.conn = c.conn, d.session_ready = c.session_ready,
           y.transport = x.transport, y.was_connected = x.was_connected, y.closed = x.closed
    PROVE  Fits(y, d)
<1>1. NoClose(c) => NoClose(d)
  BY SendsNoClose
<1> QED BY <1>1 DEF Fits, IsConnected

\* What _process needs to make object and core fit: the transport of a started
\* core, into which it drains the queue.
Drainable(x, c) ==
    /\ c.conn # "none" => x.transport # 0
    /\ c.conn = "none" => NoClose(c) /\ ~x.was_connected

\* _process makes them fit, and never tears down an established connection.
LEMMA ProcessFits ==
    ASSUME NEW x \in ClientStates, NEW cs \in [Attempts -> Clients], x.core # 0, ~x.closed,
           Drainable(x, cs[x.core])
    PROVE  /\ Process(x, cs).x.core = x.core /\ Fits(Process(x, cs).x, Process(x, cs).cs[x.core])
           /\ IsConnected(cs[x.core]) => ~Process(x, cs).x.closed
<1>1. x.core \in Attempts /\ cs[x.core] \in Clients
  BY DEF ClientStates
<1> DEFINE c == DrainSend(x, cs[x.core])
<1>2. /\ c \in Clients /\ c.conn = cs[x.core].conn /\ Calm(cs[x.core], c)
  BY <1>1, DrainFacts
<1>3. IsConnected(c) = IsConnected(cs[x.core])
  BY <1>2 DEF Calm, IsConnected
<1>4. NoClose(c)
  <2>1. CASE x.transport = 0
    BY <2>1 DEF DrainSend, Drainable
  <2>2. CASE x.transport # 0
    <3>1. c.send_queue = <<>>
      BY <1>1, <2>2 DEF DrainSend, Clients
    <3>2. \A q : q = <<>> => \A i \in 1..Len(q) : q[i] # "close"
      OBVIOUS
    <3> HIDE DEF c
    <3> QED BY <3>1, <3>2 DEF NoClose
  <2> QED BY <2>1, <2>2
<1>5. /\ c.conn # "none" => x.transport # 0
      /\ x.was_connected => c.conn # "none"
  BY <1>2 DEF Drainable
<1> HIDE DEF c
<1>6. CASE Dead(x, c)
  <2> DEFINE y == Teardown(x, DeathReason(c))
  <2>1. Process(x, cs) = [x |-> y, cs |-> [cs EXCEPT ![x.core] = c]]
    BY <1>6 DEF Process, c
  <2>2. y.transport = x.transport /\ y.was_connected = x.was_connected /\ y.core = x.core /\ y.closed
    BY TeardownKeeps
  <2> HIDE DEF y
  <2>3. Process(x, cs).x = y /\ Process(x, cs).cs[x.core] = c
    BY <1>1, <2>1
  <2>4. ~IsConnected(c)
    BY <1>6 DEF Dead
  <2> QED BY <1>3, <1>4, <1>5, <2>2, <2>3, <2>4 DEF Fits
<1>7. CASE ~Dead(x, c)
  <2> DEFINE d == ResetRuntimeError(c)
             y == [x EXCEPT !.was_connected = @ \/ IsConnected(c)]
             z == [y EXCEPT !.timer = HasAlarm(c)]
             w == [z EXCEPT !.waiters = {}]
  <2>1. Process(x, cs) = [x |-> w, cs |-> [cs EXCEPT ![x.core] = d]]
    BY <1>7 DEF Process, RescheduleTimer, WakeWaiters, NextTimeoutMs, Out, c
  <2>2. d \in Clients /\ d.conn = c.conn /\ d.send_queue = c.send_queue /\ IsConnected(d) = IsConnected(c)
    BY <1>2, ResetFacts, ErrorsSendNothing, CalmCan
  <2>3. /\ w.transport = x.transport /\ w.was_connected = (x.was_connected \/ IsConnected(c))
        /\ w.core = x.core /\ w.closed = x.closed
    BY DEF ClientStates
  <2> HIDE DEF d, w
  <2>4. Process(x, cs).x = w /\ Process(x, cs).cs[x.core] = d
    BY <1>1, <2>1
  <2>5. x.was_connected => IsConnected(c)
    BY <1>7 DEF Dead
  <2>6. NoClose(d)
    BY <1>4, <2>2 DEF NoClose
  <2>7. IsConnected(c) => c.conn # "none"
    BY DEF IsConnected
  <2> QED BY <1>3, <1>5, <2>2, <2>3, <2>4, <2>5, <2>6, <2>7 DEF Fits
<1> QED BY <1>6, <1>7

\* What fits can be drained; so can a core whose connection changed since, unless
\* that put a CONNECTION_CLOSE in the queue of a core that was not started.
LEMMA FitsDrainable ==
    ASSUME NEW x, NEW c \in Clients, NEW d, Fits(x, c), ~x.closed, d.conn = "none" <=> c.conn = "none",
           c.conn = "none" => Sends(c, d)
    PROVE  Drainable(x, d)
<1>1. c.conn = "none" => NoClose(d)
  BY SendsNoClose DEF Fits
<1> QED BY <1>1 DEF Fits, Drainable

-----------------------------------------------------------------------------
\* How a step keeps the third invariant.
StartedKept == \A a \in Attempts : cores[a].conn # "none" => cores'[a].conn # "none"
WaitersStart ==
    \A p \in Tasks : \/ task'[p] = task[p] \/ task'[p].pc # "wait" \/ task'[p].op.kind = "receive_datagram"
                     \/ cores'[task'[p].core].conn # "none"

\* A wait on a started core stays one.
LEMMA WaitsStartedKept ==
    ASSUME Inv, WaitsStarted, StartedKept, WaitersStart
    PROVE  WaitsStarted'
<1> SUFFICES ASSUME NEW p \in Tasks, task'[p].pc = "wait", task'[p].op.kind # "receive_datagram"
             PROVE  cores'[task'[p].core].conn # "none"
  BY DEF WaitsStarted
<1>1. CASE task'[p] = task[p]
  <2>1. task[p].core \in Attempts
    BY <1>1 DEF Inv, TypeOK, StageHasCore, TaskStates
  <2> QED BY <1>1, <2>1 DEF WaitsStarted, StartedKept
<1> QED BY <1>1 DEF WaitersStart

\* A stream object belongs to the core that was started.
LEMMA HandleIsCurrent ==
    ASSUME Inv2, OneStarted, NEW a \in Attempts, NEW id \in StreamIds, HasHandle(cores[a], id)
    PROVE  a = client.core
BY DEF Inv2, Order, NoneIsBlank, NothingYet, OneStarted

\* One turn of the loop in _wait.
LEMMA TurnKeepsInv3 ==
    ASSUME Inv, Inv2, Inv3, NEW p \in Tasks, NEW o \in Attempted, NEW a \in Attempts, client.core # 0,
           a # client.core => o.kind = "receive_datagram",
           o.kind = "is_connected" => cores[a].conn # "none", Turn(p, o, a)
    PROVE  Inv3'
<1> USE InvFacts
<1>t. cores[a] \in Clients /\ client.core \in Attempts /\ cores[client.core] \in Clients
      /\ task \in [Tasks -> TaskStates]
  BY DEF ClientStates, Inv, TypeOK
<1>1. CASE client.closed
  <2>1. task' = [task EXCEPT ![p] = IdleTask("ConnectionError")] /\ UNCHANGED <<client, cores, got>>
    BY <1>1 DEF Turn, Finished
  <2>2. WaitersStart
    BY <1>t, <2>1 DEF WaitersStart, IdleTask
  <2>3. StartedKept
    BY <2>1 DEF StartedKept
  <2>4. Settled'
    BY <2>1 DEF Settled, Inv3
  <2> QED BY <2>2, <2>3, <2>4, WaitsStartedKept DEF Inv3
<1>2. CASE ~client.closed
  <2> DEFINE cs(r) == [cores EXCEPT ![a] = r.c]
             t == [pc |-> "wait", op |-> o, core |-> a, res |-> "none"]
             after(r) == IF r.ret = "value" /\ o.kind \in ProcessesAfter
                            THEN Process(client, cs(r)) ELSE [x |-> client, cs |-> cs(r)]
  <2>1. PICK r \in Attempt(o, cores[a]) :
          /\ cores' = after(r).cs
          /\ IF r.ret = "None"
               THEN client' = [after(r).x EXCEPT !.waiters = @ \cup {p}] /\ task' = [task EXCEPT ![p] = t]
               ELSE client' = after(r).x /\ task' = Finished(p, r.ret)
    BY <1>2 DEF Turn
  <2>2. /\ r.c \in Clients /\ r.c.conn = cores[a].conn /\ r.c.session_ready = cores[a].session_ready
        /\ Sends(cores[a], r.c)
        /\ r.ret = "None" /\ o.kind \notin {"is_connected", "receive_datagram"} => IsConnected(cores[a])
    <3>1. PyKeeps(cores[a], r)
      BY <1>t, <2>1, AttemptFacts
    <3> QED BY <1>t, <2>1, <3>1, AttemptReports DEF PyKeeps, SameSession
  <2>3. cs(r) \in [Attempts -> Clients] /\ \A b \in Attempts : cs(r)[b] = IF b = a THEN r.c ELSE cores[b]
    BY <2>2
  <2>4. Fits(client, cores[client.core])
    BY DEF Inv3, Settled
  <2>5. \A b \in Attempts : cs(r)[b].conn = cores[b].conn
    BY <2>2, <2>3
  <2> HIDE DEF cs
  <2>6. \A b \in Attempts : cores'[b].conn = cores[b].conn
    <3>1. CASE r.ret = "value" /\ o.kind \in ProcessesAfter
      <4>1. cores' = Process(client, cs(r)).cs
        BY <2>1, <3>1
      <4> QED BY <2>3, <2>5, <4>1, ProcessWakes DEF Calm
    <3>2. CASE ~(r.ret = "value" /\ o.kind \in ProcessesAfter)
      <4>1. cores' = cs(r)
        BY <2>1, <3>2
      <4> QED BY <2>5, <4>1
    <3> QED BY <3>1, <3>2
  <2>7. StartedKept
    BY <2>6 DEF StartedKept
  <2>8. WaitersStart
    <3>1. CASE r.ret = "None"
      <4>1. task' = [task EXCEPT ![p] = t] /\ t.op = o /\ t.core = a
        BY <2>1, <3>1
      <4>2. o.kind # "receive_datagram" => cores'[a].conn # "none"
        BY <2>2, <2>6, <3>1 DEF IsConnected
      <4> HIDE DEF t
      <4> QED BY <1>t, <4>1, <4>2 DEF WaitersStart
    <3>2. CASE r.ret # "None"
      BY <1>t, <2>1, <3>2 DEF WaitersStart, Finished, IdleTask
    <3> QED BY <3>1, <3>2
  <2>9. Settled'
    <3>1. CASE r.ret = "value" /\ o.kind \in ProcessesAfter
      <4>1. a = client.core
        BY <3>1 DEF ProcessesAfter
      <4>2. client' = Process(client, cs(r)).x /\ cores' = Process(client, cs(r)).cs
        BY <2>1, <3>1
      <4>3. Drainable(client, r.c)
        BY <1>t, <1>2, <2>2, <2>4, <4>1, FitsDrainable
      <4>4. Drainable(client, cs(r)[client.core])
        BY <1>t, <2>3, <4>1, <4>3
      <4>5. client'.core = client.core /\ Fits(client', cores'[client.core])
        BY <1>2, <2>3, <4>2, <4>4, ProcessFits
      <4> QED BY <4>5 DEF Settled
    <3>2. CASE ~(r.ret = "value" /\ o.kind \in ProcessesAfter)
      <4>1. cores' = cs(r) /\ client' \in {client, [client EXCEPT !.waiters = @ \cup {p}]}
        BY <2>1, <3>2
      <4>2. /\ client'.core = client.core /\ client'.transport = client.transport
            /\ client'.was_connected = client.was_connected /\ client'.closed = client.closed
        BY <4>1 DEF ClientStates
      <4> DEFINE d == cs(r)[client.core]
                 c == cores[client.core]
      <4>3. d.conn = c.conn /\ d.session_ready = c.session_ready /\ Sends(c, d)
        BY <1>t, <2>2, <2>3 DEF Sends
      <4>4. Fits(client', d)
        <5> HIDE DEF d
        <5> QED BY <1>t, <2>4, <4>2, <4>3, CallFits
      <4>5. Fits(client', cores'[client'.core])
        BY <4>1, <4>2, <4>4
      <4> HIDE DEF c, d
      <4> QED BY <4>2, <4>5 DEF Settled
    <3> QED BY <3>1, <3>2
  <2> QED BY <2>7, <2>8, <2>9, WaitsStartedKept DEF Inv3
<1> QED BY <1>1, <1>2

\* QUICHE runs, then _process.
LEMMA ProcessedKeepsInv3 ==
    ASSUME Inv, Inv3, client.core # 0, ~client.closed, task' = task, NEW d \in Clients,
           d.conn = "none" <=> cores[client.core].conn = "none",
           cores[client.core].conn = "none" => Sends(cores[client.core], d),
           client' = Process(client, [cores EXCEPT ![client.core] = d]).x,
           cores' = Process(client, [cores EXCEPT ![client.core] = d]).cs
    PROVE  Inv3'
<1> USE InvFacts
<1> DEFINE a == client.core
           c == cores[a]
           cs == [cores EXCEPT ![a] = d]
<1>1. a \in Attempts /\ c \in Clients
  BY DEF ClientStates
<1>2. cs \in [Attempts -> Clients] /\ \A b \in Attempts : cs[b] = IF b = a THEN d ELSE cores[b]
  BY <1>1
<1>3. Fits(client, c)
  BY DEF Inv3, Settled
<1> HIDE DEF cs
<1>4. Drainable(client, cs[a])
  <2>1. Drainable(client, d)
    <3> HIDE DEF a
    <3> QED BY <1>1, <1>3, FitsDrainable DEF a
  <2> QED BY <1>1, <1>2, <2>1
<1>5. client' = Process(client, cs).x /\ cores' = Process(client, cs).cs
  BY DEF cs
<1>6. client'.core = client.core /\ Fits(client', cores'[client.core])
  BY <1>2, <1>4, <1>5, ProcessFits
<1>7. \A b \in Attempts : cores'[b].conn = cs[b].conn
  BY <1>2, <1>5, ProcessWakes DEF Calm
<1>8. StartedKept
  BY <1>2, <1>7 DEF StartedKept
<1>9. WaitersStart
  BY DEF WaitersStart
<1>10. Settled'
  BY <1>6 DEF Settled
<1> QED BY <1>8, <1>9, <1>10, WaitsStartedKept DEF Inv3

\* A core queues at most an ordinary packet, and the client object stays as it is.
LEMMA PassiveKeepsInv3 ==
    ASSUME Inv, Inv3, client.core # 0, task' = task, client' = client, NEW d,
           d.conn = cores[client.core].conn, d.session_ready = cores[client.core].session_ready,
           Sends(cores[client.core], d), cores' = [cores EXCEPT ![client.core] = d]
    PROVE  Inv3'
<1> USE InvFacts
<1>1. client.core \in Attempts /\ cores[client.core] \in Clients
  BY DEF ClientStates
<1>2. \A b \in Attempts : cores'[b] = IF b = client.core THEN d ELSE cores[b]
  BY <1>1
<1>3. Fits(client, cores[client.core])
  BY DEF Inv3, Settled
<1>4. Fits(client, d)
  BY <1>1, <1>3, CallFits
<1>5. StartedKept /\ WaitersStart
  BY <1>2 DEF StartedKept, WaitersStart
<1>6. Settled'
  BY <1>1, <1>2, <1>4 DEF Settled, Inv3
<1> QED BY <1>5, <1>6, WaitsStartedKept DEF Inv3

\* Received packets and the timer.
LEMMA EventsKeepInv3 ==
    ASSUME Inv, Inv3, NEW k \in Attempts, NEW empty \in BOOLEAN, OnReceive(k, empty) \/ OnTimeout
    PROVE  Inv3'
<1> USE InvFacts
<1> DEFINE a == client.core
           cs(r) == [cores EXCEPT ![a] = r.c]
<1>1. a \in Attempts /\ a # 0 /\ cores[a] \in Clients /\ ~client.closed /\ task' = task
  BY DEF OnReceive, OnTimeout, ClientStates
<1>e. \A d : Evolves(cores[a], d) => (d.conn = "none" <=> cores[a].conn = "none")
  BY DEF Evolves, Calm
<1>2. CASE OnReceive(k, empty)
  <2>1. PICK r \in py_receive_packet(cores[a], empty) :
          LET after == IF r.ret = "value" THEN Process(client, cs(r)) ELSE [x |-> client, cs |-> cs(r)]
          IN client' = after.x /\ cores' = after.cs
    BY <1>2 DEF OnReceive
  <2>2. r.c \in Clients /\ Evolves(cores[a], r.c) /\ (r.ret # "value" => Calm(cores[a], r.c))
    BY <1>1, <2>1, ReceivePacketFacts
  <2>3. cores[a].conn = "none" \/ r.ret # "value" => Sends(cores[a], r.c)
    BY <1>1, <2>1, ReceiveNotStarted DEF Sends
  <2>4. CASE r.ret = "value"
    <3>1. client' = Process(client, cs(r)).x /\ cores' = Process(client, cs(r)).cs
      BY <2>1, <2>4
    <3>2. r.c.conn = "none" <=> cores[a].conn = "none"
      BY <1>e, <2>2
    <3> QED BY <1>1, <2>2, <2>3, <3>1, <3>2, ProcessedKeepsInv3
  <2>5. CASE r.ret # "value"
    <3>1. client' = client /\ cores' = cs(r)
      BY <2>1, <2>5
    <3>2. r.c.conn = cores[a].conn /\ r.c.session_ready = cores[a].session_ready
      BY <2>2, <2>5 DEF Calm
    <3> QED BY <1>1, <2>3, <2>5, <3>1, <3>2, PassiveKeepsInv3
  <2> QED BY <2>4, <2>5
<1>3. CASE OnTimeout
  <2>1. PICK r \in py_handle_timeout(cores[a]) :
          client' = Process(client, cs(r)).x /\ cores' = Process(client, cs(r)).cs
    BY <1>3 DEF OnTimeout
  <2>2. r.c \in Clients /\ Evolves(cores[a], r.c)
    BY <1>1, <2>1, HandleTimeoutFacts
  <2>3. cores[a].conn = "none" => Sends(cores[a], r.c)
    BY <1>1, <2>1, TimeoutNotStarted DEF Sends
  <2>4. r.c.conn = "none" <=> cores[a].conn = "none"
    BY <1>e, <2>2
  <2> QED BY <1>1, <2>1, <2>2, <2>3, <2>4, ProcessedKeepsInv3
<1> QED BY <1>2, <1>3

\* reset() and stop_sending().
LEMMA StreamControlsKeepInv3 ==
    ASSUME Inv, Inv2, Inv3, OneStarted, NEW b \in Attempts, NEW id \in StreamIds,
           StreamReset(b, id) \/ StreamStopSending(b, id)
    PROVE  Inv3'
<1> USE InvFacts
<1> DEFINE a == client.core
           cs(r) == [cores EXCEPT ![a] = r.c]
<1>1. b = a /\ a \in Attempts /\ a # 0 /\ cores[a] \in Clients /\ task' = task
  <2>1. HasHandle(cores[b], id) /\ task' = task
    BY DEF StreamReset, StreamStopSending, StreamControl
  <2> QED BY <2>1, HandleIsCurrent DEF ClientStates, Attempts
<1>2. PICK r \in py_reset(cores[a], id) \cup py_stop_sending(cores[a], id) :
        LET after == IF r.ret = "value" THEN Process(client, cs(r)) ELSE [x |-> client, cs |-> cs(r)]
        IN client' = after.x /\ cores' = after.cs
  BY <1>1 DEF StreamReset, StreamStopSending, StreamControl
<1>3. PyKeeps(cores[a], r)
  BY <1>1, <1>2, ResetStreamKeeps, StopSendingKeeps
<1>4. r.c \in Clients /\ r.c.conn = cores[a].conn /\ r.c.session_ready = cores[a].session_ready
  BY <1>3 DEF PyKeeps, SameSession
<1>5. Sends(cores[a], r.c)
  BY <1>1, <1>2, ControlReports DEF PyReports
<1>6. CASE r.ret = "value" /\ ~client.closed
  <2>1. client' = Process(client, cs(r)).x /\ cores' = Process(client, cs(r)).cs
    BY <1>2, <1>6
  <2> QED BY <1>1, <1>4, <1>5, <1>6, <2>1, ProcessedKeepsInv3
<1>7. CASE ~(r.ret = "value" /\ ~client.closed)
  <2>1. client' = client /\ cores' = cs(r)
    BY <1>2, <1>7 DEF Process
  <2> QED BY <1>1, <1>4, <1>5, <2>1, PassiveKeepsInv3
<1> QED BY <1>6, <1>7

\* close() of the application drains the CONNECTION_CLOSE before it tears down;
\* the refused datagram queues nothing of the kind.
LEMMA AppCallsKeepInv3 ==
    ASSUME Inv, Inv3, AppClose \/ SendOversized
    PROVE  Inv3'
<1> USE InvFacts
<1> DEFINE a == client.core
<1>1. task' = task /\ a \in {0} \cup Attempts
  BY DEF AppClose, SendOversized, ClientStates
<1>2. CASE AppClose
  <2>1. /\ client' = Teardown(client, "closed by application")
        /\ client'.transport = client.transport /\ client'.was_connected = client.was_connected
        /\ client'.core = client.core /\ client'.closed
    BY <1>2, TeardownKeeps DEF AppClose
  <2>2. WaitersStart
    BY <1>1 DEF WaitersStart
  <2>3. CASE a = 0
    <3>1. cores' = cores
      BY <1>2, <2>3 DEF AppClose
    <3>2. StartedKept /\ Settled'
      BY <2>1, <2>3, <3>1 DEF StartedKept, Settled, Inv3
    <3> QED BY <2>2, <3>2, WaitsStartedKept DEF Inv3
  <2>4. CASE a # 0
    <3>1. a \in Attempts /\ cores[a] \in Clients
      BY <1>1, <2>4
    <3> DEFINE c == cores[a]
               d == Close(c)
               e == DrainSend(client, d)
    <3>2. d \in Clients /\ (d.conn = "none" <=> c.conn = "none")
      BY <3>1, CloseFacts DEF Evolves, Calm
    <3>3. cores' = [cores EXCEPT ![a] = e]
      BY <1>2, <2>4 DEF AppClose
    <3> HIDE DEF d
    <3>4. e.conn = d.conn
      BY <3>2, DrainFacts
    <3>5. Fits(client, c)
      BY <2>4 DEF Inv3, Settled
    <3>6. client.transport # 0 => NoClose(e)
      <4>1. client.transport # 0 => e.send_queue = <<>>
        BY <3>2 DEF DrainSend, Clients
      <4>2. \A q : q = <<>> => \A i \in 1..Len(q) : q[i] # "close"
        OBVIOUS
      <4> HIDE DEF e
      <4> QED BY <4>1, <4>2 DEF NoClose
    <3> HIDE DEF e
    <3>7. Fits(client', e)
      BY <2>1, <3>2, <3>4, <3>5, <3>6 DEF Fits
    <3>8. \A b \in Attempts : cores'[b] = IF b = a THEN e ELSE cores[b]
      BY <3>1, <3>3
    <3>9. StartedKept
      BY <3>2, <3>4, <3>8 DEF StartedKept
    <3>10. Settled'
      BY <2>1, <2>4, <3>1, <3>7, <3>8 DEF Settled
    <3> QED BY <2>2, <3>9, <3>10, WaitsStartedKept DEF Inv3
  <2> QED BY <2>3, <2>4
<1>3. CASE SendOversized
  <2>1. a # 0 /\ a \in Attempts /\ cores[a] \in Clients /\ client' = client
    BY <1>1, <1>3 DEF SendOversized
  <2>2. PICK r \in py_send_datagram(cores[a], TRUE) : cores' = [cores EXCEPT ![a] = r.c]
    BY <1>3 DEF SendOversized
  <2>3. r.c.conn = cores[a].conn /\ r.c.session_ready = cores[a].session_ready
    BY <2>1, <2>2, SendDatagramKeeps DEF PyKeeps, SameSession
  <2>4. Sends(cores[a], r.c)
    BY <2>1, <2>2, SendDatagramReports DEF PyReports
  <2> QED BY <1>1, <2>1, <2>2, <2>3, <2>4, PassiveKeepsInv3
<1> QED BY <1>2, <1>3

\* A step that leaves the cores alone, and at most tears down.
LEMMA QuietKeepsInv3 ==
    ASSUME Inv, Inv3, cores' = cores, WaitersStart, client'.core = client.core,
           client'.transport = client.transport, client'.was_connected = client.was_connected,
           client.closed => client'.closed
    PROVE  Inv3'
<1>1. StartedKept
  BY DEF StartedKept
<1>2. Settled'
  BY DEF Inv3, Settled, Fits
<1> QED BY <1>1, <1>2, WaitsStartedKept DEF Inv3

\* A deadline or a cancellation.
LEMMA InterruptKeepsInv3 ==
    ASSUME Inv, Inv3, NEW p \in Tasks, NEW e, Interrupt(p, e)
    PROVE  Inv3'
<1> USE InvFacts
<1> DEFINE x == [client EXCEPT !.waiters = @ \ {p}]
<1>1. /\ x \in ClientStates /\ x.core = client.core /\ x.transport = client.transport
      /\ x.was_connected = client.was_connected /\ x.closed = client.closed
  BY DEF ClientStates
<1>2. cores' = cores /\ task' = [task EXCEPT ![p] = IdleTask(e)] /\ client' \in {x, Teardown(x, "connect failed")}
  BY DEF Interrupt, Finished
<1> HIDE DEF x
<1>3. WaitersStart
  BY <1>2 DEF WaitersStart, IdleTask, Inv, TypeOK
<1> QED BY <1>1, <1>2, <1>3, TeardownKeeps, QuietKeepsInv3

\* The sockets.
LEMMA SocketsKeepInv3 ==
    ASSUME Inv, Inv3, NEW k \in Attempts, TransportFails(k) \/ OnConnectionLost(k)
    PROVE  Inv3'
<1> USE InvFacts
<1> DEFINE x(st) == [client EXCEPT !.sock[k] = st]
<1>1. ASSUME NEW st \in {"closing", "closed"}
      PROVE  /\ x(st) \in ClientStates /\ x(st).core = client.core /\ x(st).transport = client.transport
             /\ x(st).was_connected = client.was_connected /\ x(st).closed = client.closed
  BY ObjectUpdate DEF ClientStates
<1>2. /\ cores' = cores /\ task' = task
      /\ client' \in {x("closing"), Teardown(x("closed"), "connection lost")}
  BY DEF TransportFails, OnConnectionLost
<1> HIDE DEF x
<1>3. WaitersStart
  BY <1>2 DEF WaitersStart
<1>4. CASE client' = x("closing")
  BY <1>1, <1>2, <1>3, <1>4, QuietKeepsInv3
<1>5. CASE client' = Teardown(x("closed"), "connection lost")
  <2>1. x("closed") \in ClientStates
    BY <1>1
  <2>2. /\ client'.core = x("closed").core /\ client'.transport = x("closed").transport
        /\ client'.was_connected = x("closed").was_connected /\ client'.closed
    BY <1>5, <2>1, TeardownKeeps
  <2> QED BY <1>1, <1>2, <1>3, <2>2, QuietKeepsInv3
<1> QED BY <1>2, <1>4, <1>5

\* The stages of connect() before start(), the core's construction aside.
LEMMA ConnectStagesKeepInv3 ==
    ASSUME Inv, Inv3, NEW p \in Tasks, NEW e,
           ConnectCall(p) \/ ConnectAborted(p, e) \/ EndpointMade(p) \/ EndpointCancelled(p)
    PROVE  Inv3'
<1> USE InvFacts
<1>1. /\ cores' = cores /\ client'.core = client.core /\ client'.transport = client.transport
      /\ client'.was_connected = client.was_connected /\ client'.closed = client.closed
  BY DEF ConnectCall, ConnectAborted, EndpointMade, EndpointCancelled, ClientStates
<1>2. \E t : t.pc # "wait" /\ task' = [task EXCEPT ![p] = t]
  BY DEF ConnectCall, ConnectAborted, EndpointMade, EndpointCancelled, Stage, Finished, IdleTask
<1>3. WaitersStart
  BY <1>2 DEF WaitersStart, Inv, TypeOK
<1> QED BY <1>1, <1>3, QuietKeepsInv3

\* self._core is replaced: only before the old one was started.
LEMMA ResolvedKeepsInv3 ==
    ASSUME Inv, Inv2, Inv3, OneStarted', NEW p \in Tasks, Resolved(p)
    PROVE  Inv3'
<1> USE InvFacts
<1> DEFINE n == client.core + 1
           t == [pc |-> "endpoint", op |-> IsConnectedOp, core |-> n, res |-> "none"]
<1>1. n \in Attempts /\ n # 0 /\ n # client.core /\ n > client.core /\ task \in [Tasks -> TaskStates]
  BY MaxAttemptsAssumption DEF Resolved, ClientStates, Attempts, Inv, TypeOK
<1>2. /\ client'.core = n /\ client'.transport = client.transport
      /\ client'.was_connected = client.was_connected /\ client'.closed = client.closed
      /\ cores' = [cores EXCEPT ![n] = FreshClient]
      /\ task' = [task EXCEPT ![p] = t] /\ t.pc = "endpoint"
  BY DEF Resolved, Stage, ClientStates
<1>3. /\ cores'[n] = FreshClient /\ \A a \in Attempts : a # n => cores'[a] = cores[a]
      /\ task'[p].pc = "endpoint" /\ \A q \in Tasks : q # p => task'[q] = task[q]
  BY <1>1, <1>2
<1>4. ~client.was_connected
  <2>1. client.core # 0 => cores'[client.core] = cores[client.core] /\ cores'[client.core].conn = "none"
    BY <1>1, <1>2, <1>3 DEF OneStarted, ClientStates
  <2> QED BY <2>1 DEF Inv3, Settled, Fits
<1>5. FreshClient.conn = "none" /\ NoClose(FreshClient)
  BY DEF FreshClient, NoClose
<1> HIDE DEF n, t
<1>6. Settled'
  BY <1>1, <1>2, <1>3, <1>4, <1>5 DEF Settled, Fits
<1>7. StartedKept
  <2>1. cores[n].conn = "none"
    BY <1>1 DEF Inv2, Order, StagesApart
  <2> QED BY <1>3, <2>1 DEF StartedKept
<1>8. WaitersStart
  BY <1>3 DEF WaitersStart
<1> QED BY <1>6, <1>7, <1>8, WaitsStartedKept DEF Inv3

\* connect()'s try block.  The core that is started is the current one.
LEMMA ConnectStartKeepsInv3 ==
    ASSUME Inv, Inv', Inv2, Inv3, OneStarted', NEW p \in Tasks, ConnectStart(p)
    PROVE  Inv3' /\ task[p].core = client.core /\ ~client.was_connected
<1> USE InvFacts
<1> DEFINE a == task[p].core
           x == [client EXCEPT !.transport = a]
           cs(r) == [cores EXCEPT ![a] = r.c]
           t == [pc |-> "wait", op |-> IsConnectedOp, core |-> a, res |-> "none"]
<1>1. /\ StagesApart /\ task \in [Tasks -> TaskStates] /\ StageHasCore
      /\ client.core \in {0} \cup Attempts
  BY DEF Inv2, Order, Inv, TypeOK, ClientStates
<1>2. a \in Attempts /\ a # 0 /\ task[p].pc = "opened" /\ cores[a] \in Clients /\ cores[a].conn = "none"
  <2>1. task[p].pc = "opened" /\ a \in Attempts /\ a # 0
    BY <1>1 DEF ConnectStart, StageHasCore, TaskStates
  <2> QED BY <1>1, <2>1 DEF StagesApart, Stages
<1>3. /\ x \in ClientStates /\ x.core = client.core /\ x.closed = client.closed /\ x.transport = a
      /\ x.was_connected = client.was_connected /\ x.timer = client.timer
  BY <1>2, ObjectUpdate DEF ClientStates
<1>4. PICK r \in py_start(cores[a]) :
        /\ cores' = Process(x, cs(r)).cs
        /\ IF Process(x, cs(r)).x.closed
             THEN /\ client' = Teardown(Process(x, cs(r)).x, "connect failed")
                  /\ task' = Finished(p, "ConnectionError")
             ELSE /\ client' = [Process(x, cs(r)).x EXCEPT !.waiters = @ \cup {p}]
                  /\ task' = [task EXCEPT ![p] = t]
  BY DEF ConnectStart, Stage
<1>5. r.c \in Clients /\ r.c.conn \notin {"none", "closed"}
  BY <1>2, StartFacts
<1>6. cs(r) \in [Attempts -> Clients] /\ \A b \in Attempts : cs(r)[b] = IF b = a THEN r.c ELSE cores[b]
  BY <1>2, <1>5
<1>7. t.pc = "wait" /\ t.core = a
  OBVIOUS
<1> HIDE DEF x, cs, t
<1>8. \A b \in Attempts : cores'[b].conn = cs(r)[b].conn
  <2>1. cores' = Process(x, cs(r)).cs
    BY <1>4
  <2> QED BY <1>3, <1>6, <2>1, ProcessWakes DEF Calm
<1>9. cores'[a].conn # "none" /\ StartedKept
  BY <1>2, <1>5, <1>6, <1>8 DEF StartedKept
<1>10. WaitersStart
  <2>1. CASE \E res : task' = Finished(p, res)
    BY <1>1, <2>1 DEF WaitersStart, Finished, IdleTask
  <2>2. CASE task' = [task EXCEPT ![p] = t]
    BY <1>1, <1>7, <1>9, <2>2 DEF WaitersStart
  <2> QED BY <1>4, <2>1, <2>2
<1>11. client'.core = client.core /\ (client.core = a => ~client.was_connected /\ Fits(client', cores'[a]))
  <2>w. client.core = a => ~client.was_connected
    BY <1>2 DEF Inv3, Settled, Fits
  <2> DEFINE y == Process(x, cs(r)).x
  <2>1. cores' = Process(x, cs(r)).cs /\ y \in ClientStates /\ y.core = client.core
    <3>1. Explained(x, cs(r))
      <4>1. x.core = a => cs(r)[x.core].conn # "closed"
        BY <1>2, <1>5, <1>6
      <4>2. x.core # 0 /\ x.core # a => cs(r)[x.core] = cores[x.core]
        BY <1>1, <1>3, <1>6
      <4>3. Explained(client, cores)
        OBVIOUS
      <4> QED BY <1>3, <4>1, <4>2, <4>3 DEF Explained, Silent
    <3> QED BY <1>3, <1>4, <1>6, <3>1, ProcessFacts
  <2>2. client.core = a => Fits(y, cores'[a])
    <3>1. CASE x.closed
      <4>1. y = x /\ cores' = cs(r)
        BY <1>3, <1>6, <2>1, <3>1, ProcessWakes
      <4>2. cores'[a] = r.c
        BY <1>2, <1>6, <4>1
      <4> QED BY <1>2, <1>3, <2>w, <3>1, <4>1, <4>2 DEF Fits
    <3>2. CASE ~x.closed /\ client.core = a
      <4>1. Drainable(x, cs(r)[x.core])
        BY <1>2, <1>3, <1>5, <1>6, <3>2 DEF Drainable
      <4> QED BY <1>2, <1>3, <1>6, <2>1, <3>2, <4>1, ProcessFits
    <3> QED BY <3>1, <3>2
  <2>3. IF y.closed THEN client' = Teardown(y, "connect failed")
                    ELSE client' = [y EXCEPT !.waiters = @ \cup {p}]
    BY <1>4
  <2> HIDE DEF y
  <2>4. /\ client'.core = client.core /\ client'.transport = y.transport /\ client'.closed = y.closed
        /\ client'.was_connected = y.was_connected
    <3>1. CASE y.closed
      BY <2>1, <2>3, <3>1 DEF Teardown
    <3>2. CASE ~y.closed
      BY <2>1, <2>3, <3>2 DEF ClientStates
    <3> QED BY <3>1, <3>2
  <2> QED BY <2>w, <2>2, <2>4 DEF Fits
<1>12. client.core = a
  BY <1>2, <1>9, <1>11 DEF OneStarted
<1>13. Settled'
  BY <1>2, <1>11, <1>12 DEF Settled
<1> QED BY <1>9, <1>10, <1>11, <1>12, <1>13, WaitsStartedKept DEF Inv3

-----------------------------------------------------------------------------
\* A call of a task, or its wake-up, uses the current core, unless it waits for
\* a datagram; a task that waits for the handshake waits on a started core.
LEMMA TurnIsCurrent ==
    ASSUME Inv, Inv2, Inv3, OneStarted, NEW p \in Tasks, NEW o \in Attempted, Call(p, o) \/ Wake(p)
    PROVE  \E q \in Attempted, a \in Attempts :
              /\ Turn(p, q, a) /\ client.core # 0 /\ p \notin client.waiters
              /\ a # client.core => q.kind = "receive_datagram"
              /\ q.kind = "is_connected" => cores[a].conn # "none"
              /\ q.kind = "is_connected" => task[p].pc = "wait"
<1> USE InvFacts
<1>t. /\ task \in [Tasks -> TaskStates] /\ StageHasCore /\ StagesApart /\ client.core \in {0} \cup Attempts
  BY DEF Inv, TypeOK, Inv2, Order, ClientStates
<1>1. CASE Call(p, o)
  <2>1. client.core # 0 /\ client.core \in Attempts /\ o.kind # "is_connected" /\ p \notin client.waiters
    BY <1>1, <1>t, WaitersWait DEF Call
  <2>2. CASE o.kind \in StreamKinds
    <3>1. PICK a \in Attempts : HasHandle(cores[a], o.id) /\ Turn(p, o, a)
      BY <1>1, <2>2 DEF Call, StreamKinds
    <3>2. o.id \in StreamIds
      BY <2>2 DEF Attempted, StreamKinds
    <3>3. a = client.core
      BY <3>1, <3>2, HandleIsCurrent
    <3> QED BY <2>1, <3>1, <3>3
  <2>3. CASE o.kind \notin StreamKinds
    <3>1. Turn(p, o, client.core)
      BY <1>1, <2>3 DEF Call, StreamKinds
    <3> QED BY <2>1, <3>1
  <2> QED BY <2>2, <2>3
<1>2. CASE Wake(p)
  <2> DEFINE q == task[p].op
             a == task[p].core
  <2>1. /\ a \in Attempts /\ q \in Attempted /\ task[p].pc = "wait" /\ a <= client.core
        /\ p \notin client.waiters /\ Turn(p, q, a)
    BY <1>2, <1>t DEF Wake, StageHasCore, TaskStates, StagesApart
  <2>2. client.core # 0
    BY <1>t, <2>1 DEF Attempts
  <2>3. q.kind # "receive_datagram" => cores[a].conn # "none"
    BY <2>1 DEF Inv3, WaitsStarted
  <2>4. a # client.core => q.kind = "receive_datagram"
    BY <2>1, <2>3 DEF OneStarted
  <2> HIDE DEF q, a
  <2> QED BY <2>1, <2>2, <2>3, <2>4
<1> QED BY <1>1, <1>2

\* Every action keeps the third invariant, as long as connect() starts one core.
LEMMA Inv3Inductive ==
    Inv /\ Inv' /\ Inv2 /\ OneStarted /\ OneStarted' /\ Inv3 /\ [Next]_vars => Inv3'
<1> SUFFICES ASSUME Inv, Inv', Inv2, OneStarted, OneStarted', Inv3, [Next]_vars PROVE Inv3'
  OBVIOUS
<1>1. ASSUME NEW p \in Tasks, NEW o \in Attempted, Call(p, o) \/ Wake(p) PROVE Inv3'
  <2>1. PICK q \in Attempted, a \in Attempts :
              /\ Turn(p, q, a) /\ client.core # 0
              /\ a # client.core => q.kind = "receive_datagram"
              /\ q.kind = "is_connected" => cores[a].conn # "none"
    BY <1>1, TurnIsCurrent
  <2> QED BY <2>1, TurnKeepsInv3
<1>3. ASSUME NEW p \in Tasks, NEW e \in {"TimeoutError", "CancelledError"}, Interrupt(p, e) PROVE Inv3'
  BY <1>3, InterruptKeepsInv3
<1>4. ASSUME NEW p \in Tasks, NEW e,
             ConnectCall(p) \/ ConnectAborted(p, e) \/ EndpointMade(p) \/ EndpointCancelled(p)
      PROVE  Inv3'
  BY <1>4, ConnectStagesKeepInv3
<1>5. ASSUME NEW p \in Tasks, Resolved(p) PROVE Inv3'
  BY <1>5, ResolvedKeepsInv3
<1>6. ASSUME NEW p \in Tasks, ConnectStart(p) PROVE Inv3'
  BY <1>6, ConnectStartKeepsInv3
<1>7. ASSUME NEW k \in Attempts, NEW empty \in BOOLEAN, OnReceive(k, empty) \/ OnTimeout PROVE Inv3'
  BY <1>7, EventsKeepInv3
<1>8. ASSUME NEW k \in Attempts, TransportFails(k) \/ OnConnectionLost(k) PROVE Inv3'
  BY <1>8, SocketsKeepInv3
<1>9. ASSUME AppClose \/ SendOversized PROVE Inv3'
  BY <1>9, AppCallsKeepInv3
<1>10. ASSUME NEW a \in Attempts, NEW id \in StreamIds, StreamReset(a, id) \/ StreamStopSending(a, id)
       PROVE  Inv3'
  BY <1>10, StreamControlsKeepInv3
<1>11. ASSUME UNCHANGED vars PROVE Inv3'
  BY <1>11 DEF vars, Inv3, Settled, WaitsStarted
<1>12. 1 \in Attempts /\ TRUE \in BOOLEAN /\ IsConnectedOp \in Attempted
  BY MaxAttemptsAssumption DEF Attempts, IsConnectedOp, Attempted
<1>13. ASSUME NEW p \in Tasks, Wake(p) PROVE Inv3'
  BY <1>1, <1>12, <1>13
<1> QED BY <1>1, <1>3, <1>4, <1>5, <1>6, <1>7, <1>8, <1>9, <1>10, <1>11, <1>12, <1>13 DEF Next

\* A client that was just constructed satisfies it.
LEMMA InitInv3 == Init => Inv3
<1> SUFFICES ASSUME Init PROVE Inv3
  OBVIOUS
<1>1. client.core = 0 /\ client.was_connected = FALSE /\ task = [p \in Tasks |-> IdleTask("none")]
  BY DEF Init
<1>2. IdleTask("none").pc = "idle"
  BY DEF IdleTask
<1> QED BY <1>1, <1>2 DEF Inv3, Settled, WaitsStarted

\* The runs have one attempt to connect, which is the current one.
LEMMA OneAttemptOneStarted == Inv2 /\ Inv /\ MaxAttempts = 1 => OneStarted
BY DEF Inv2, Order, StagesApart, Inv, TypeOK, ClientStates, Attempts, OneStarted

\* As long as connect() has started one core only, a CONNECTION_CLOSE that was
\* queued on an established connection, by close() or by QUICHE, is with the
\* transport when the client is closed: for any number of tasks, of failed
\* attempts to get as far as start(), and whatever the application still calls.
THEOREM CloseNeverStranded == Spec /\ []OneStarted => []NoCloseStranded
<1>1. Inv3 => NoCloseStranded
  BY DEF Inv3, Settled, Fits, NoClose, NoCloseStranded
<1> QED BY <1>1, InitInv, InvInductive, InitInv2, Inv2Inductive, InitInv3, Inv3Inductive, PTL DEF Spec

\* The hypothesis holds by itself if connect() gets as far as a core only once,
\* as in the runs.
THEOREM OneConnectIsOneStarted == ASSUME MaxAttempts = 1 PROVE Spec => []OneStarted
<1>1. Inv /\ Inv2 => OneStarted
  BY OneAttemptOneStarted
<1> QED BY <1>1, InitInv, InvInductive, InitInv2, Inv2Inductive, PTL DEF Spec

-----------------------------------------------------------------------------
\* What a turn of a client that is not closed does: attempt() runs on core a,
\* the client stays up, and the task has its result or sleeps.
TurnRuns(p, o, a, r) ==
    /\ ~client'.closed
    /\ \A b \in Attempts :
         cores'[b].received_datagrams = (IF b = a THEN r.c ELSE cores[b]).received_datagrams
    /\ got' = IF r.ret = "value" /\ o.kind = "receive_datagram"
                THEN [got EXCEPT ![a] = Append(@, r.val)] ELSE got
    /\ task' = [task EXCEPT ![p] = IF r.ret = "None"
                                     THEN [pc |-> "wait", op |-> o, core |-> a, res |-> "none"]
                                     ELSE IdleTask(r.ret)]
    /\ r.ret = "ConnectionError" => ~client.was_connected

\* No call of a task tears the client down: _process, which runs after a call
\* that succeeded, finds the connection established.
LEMMA TurnOutcome ==
    ASSUME Inv, Inv3, NEW p \in Tasks, NEW o \in Attempted, NEW a \in Attempts, client.core # 0,
           a # client.core => o.kind = "receive_datagram", ~client.closed, Turn(p, o, a)
    PROVE  \E r \in Attempt(o, cores[a]) : TurnRuns(p, o, a, r)
<1> USE InvFacts
<1>t. cores[a] \in Clients /\ client.core \in Attempts
  BY DEF ClientStates
<1> DEFINE cs(r) == [cores EXCEPT ![a] = r.c]
           t == [pc |-> "wait", op |-> o, core |-> a, res |-> "none"]
           after(r) == IF r.ret = "value" /\ o.kind \in ProcessesAfter
                          THEN Process(client, cs(r)) ELSE [x |-> client, cs |-> cs(r)]
<1>1. PICK r \in Attempt(o, cores[a]) :
        /\ cores' = after(r).cs
        /\ got' = IF r.ret = "value" /\ o.kind = "receive_datagram"
                    THEN [got EXCEPT ![a] = Append(@, r.val)] ELSE got
        /\ IF r.ret = "None"
             THEN client' = [after(r).x EXCEPT !.waiters = @ \cup {p}] /\ task' = [task EXCEPT ![p] = t]
             ELSE client' = after(r).x /\ task' = [task EXCEPT ![p] = IdleTask(r.ret)]
  BY DEF Turn, Finished
<1>2. r.c \in Clients /\ r.c.conn = cores[a].conn /\ r.c.session_ready = cores[a].session_ready
  BY <1>t, <1>1, AttemptFacts DEF PyKeeps, SameSession
<1>3. cs(r) \in [Attempts -> Clients] /\ \A b \in Attempts : cs(r)[b] = IF b = a THEN r.c ELSE cores[b]
  BY <1>2
<1> HIDE DEF cs
<1>4. r.ret = "ConnectionError" => ~client.was_connected
  <2>1. r.ret = "ConnectionError" => ~IsConnected(cores[a]) /\ a = client.core
    BY <1>t, <1>1, AttemptReports
  <2> QED BY <2>1 DEF Inv3, Settled, Fits
<1>5. ~client'.closed /\ \A b \in Attempts : cores'[b].received_datagrams = cs(r)[b].received_datagrams
  <2>1. CASE r.ret = "value" /\ o.kind \in ProcessesAfter
    <3>1. client' = Process(client, cs(r)).x /\ cores' = Process(client, cs(r)).cs
      BY <1>1, <2>1
    <3>2. Possible(o, cores[a])
      BY <1>t, <1>1, <2>1, AttemptAnswers DEF Answers
    <3>3. IsConnected(cores[a]) /\ a = client.core
      BY <2>1, <3>2 DEF ProcessesAfter, Possible, CanSend, CanWriteTo
    <3>4. IsConnected(cs(r)[client.core])
      BY <1>t, <1>2, <1>3, <3>3 DEF IsConnected
    <3>5. Drainable(client, cs(r)[client.core])
      <4>1. Fits(client, cores[client.core])
        BY DEF Inv3, Settled
      <4>2. cs(r)[client.core].conn = cores[client.core].conn /\ cores[client.core].conn # "none"
        BY <1>t, <1>2, <1>3, <3>3 DEF IsConnected
      <4> QED BY <4>1, <4>2 DEF Drainable, Fits
    <3>6. ~client'.closed
      BY <1>3, <3>1, <3>4, <3>5, ProcessFits
    <3>7. \A b \in Attempts : Calm(cs(r)[b], cores'[b])
      BY <1>3, <3>1, ProcessWakes
    <3> QED BY <3>6, <3>7 DEF Calm
  <2>2. CASE ~(r.ret = "value" /\ o.kind \in ProcessesAfter)
    <3>1. cores' = cs(r) /\ client' \in {client, [client EXCEPT !.waiters = @ \cup {p}]}
      BY <1>1, <2>2
    <3> QED BY <3>1 DEF ClientStates
  <2> QED BY <2>1, <2>2
<1>6. \A b \in Attempts :
        cores'[b].received_datagrams = (IF b = a THEN r.c ELSE cores[b]).received_datagrams
  BY <1>3, <1>5
<1>7. task' = [task EXCEPT ![p] = IF r.ret = "None" THEN t ELSE IdleTask(r.ret)]
  BY <1>1
<1> QED BY <1>1, <1>4, <1>5, <1>6, <1>7 DEF TurnRuns

\* As long as connect() has started one core only, a call raises ConnectionError
\* on a connection that had been established only if the client has been torn
\* down, so that close_reason explains the exception.
THEOREM ErrorsAreExplained == Spec /\ []OneStarted => ConnectionErrorMeansClosed
<1> DEFINE Explains ==
      \A p \in Tasks :
          task'[p] # task[p] /\ task'[p].res = "ConnectionError" /\ client.was_connected => client'.closed
<1>1. ASSUME Inv, Inv', Inv2, OneStarted, OneStarted', Inv3, [Next]_vars PROVE [Explains]_vars
  <2> SUFFICES ASSUME Next PROVE Explains
    BY <1>1
  <2>t. task \in [Tasks -> TaskStates]
    BY <1>1 DEF Inv, TypeOK
  <2>e. \A res : IdleTask(res).res = res
    BY DEF IdleTask
  <2>1. ASSUME NEW p \in Tasks, NEW o \in Attempted, Call(p, o) \/ Wake(p) PROVE Explains
    <3>1. PICK q \in Attempted, a \in Attempts :
              /\ Turn(p, q, a) /\ client.core # 0
              /\ a # client.core => q.kind = "receive_datagram"
      BY <1>1, <2>1, TurnIsCurrent
    <3>2. CASE client.closed
      BY <3>1, <3>2 DEF Turn
    <3>3. CASE ~client.closed
      <4>1. PICK r \in Attempt(q, cores[a]) : TurnRuns(p, q, a, r)
        BY <1>1, <3>1, <3>3, TurnOutcome
      <4>2. /\ \A k \in Tasks : k # p => task'[k] = task[k]
            /\ r.ret = "None" => task'[p].res = "none"
            /\ r.ret # "None" => task'[p].res = r.ret
        BY <2>t, <2>e, <4>1 DEF TurnRuns
      <4> QED BY <4>1, <4>2 DEF TurnRuns
    <3> QED BY <3>2, <3>3
  <2>2. ASSUME NEW p \in Tasks, NEW res, res # "ConnectionError", task' = Finished(p, res) PROVE Explains
    BY <2>2, <2>t, <2>e DEF Finished
  <2>3. ASSUME NEW p \in Tasks, NEW pc, NEW a, Stage(p, pc, a) PROVE Explains
    BY <2>3, <2>t DEF Stage
  <2>4. ASSUME NEW p \in Tasks, ConnectStart(p) PROVE Explains
    BY <1>1, <2>4, ConnectStartKeepsInv3
  <2>5. ASSUME task' = task PROVE Explains
    BY <2>5
  <2>6. ASSUME NEW p \in Tasks, NEW e \in {"TimeoutError", "CancelledError"}, Interrupt(p, e) PROVE Explains
    BY <2>2, <2>6 DEF Interrupt
  <2>7. ASSUME NEW p \in Tasks, ConnectCall(p) \/ Resolved(p) \/ EndpointMade(p) PROVE Explains
    BY <2>3, <2>7 DEF ConnectCall, Resolved, EndpointMade
  <2>8. ASSUME NEW p \in Tasks, NEW e \in {"OSError", "RuntimeError", "CancelledError"},
               ConnectAborted(p, e) \/ EndpointCancelled(p)
        PROVE  Explains
    BY <2>2, <2>8 DEF ConnectAborted, EndpointCancelled
  <2>9. ASSUME NEW k \in Attempts, NEW empty \in BOOLEAN,
               OnReceive(k, empty) \/ OnTimeout \/ TransportFails(k) \/ OnConnectionLost(k)
        PROVE  task' = task
    BY <2>9 DEF OnReceive, OnTimeout, TransportFails, OnConnectionLost
  <2>10. AppClose \/ SendOversized => task' = task
    BY DEF AppClose, SendOversized
  <2>11. ASSUME NEW a \in Attempts, NEW id \in StreamIds, StreamReset(a, id) \/ StreamStopSending(a, id)
         PROVE  task' = task
    BY <2>11 DEF StreamReset, StreamStopSending, StreamControl
  <2>12. 1 \in Attempts /\ TRUE \in BOOLEAN /\ IsConnectedOp \in Attempted
    BY MaxAttemptsAssumption DEF Attempts, IsConnectedOp, Attempted
  <2>13. ASSUME NEW p \in Tasks, Wake(p) PROVE Explains
    BY <2>1, <2>12, <2>13
  <2>14. ASSUME NEW p \in Tasks, EndpointCancelled(p) PROVE Explains
    BY <2>8, <2>14
  <2> HIDE DEF Explains
  <2> QED BY <2>1, <2>4, <2>5, <2>6, <2>7, <2>8, <2>9, <2>10, <2>11, <2>12, <2>13, <2>14 DEF Next
<1>2. ConnectionErrorMeansClosed <=> [][Explains]_vars
  BY DEF ConnectionErrorMeansClosed
<1> HIDE DEF Explains
<1> QED BY <1>1, <1>2, InitInv, InvInductive, InitInv2, Inv2Inductive, InitInv3, Inv3Inductive, PTL DEF Spec

-----------------------------------------------------------------------------
(* AsyncQuic implements AsyncPromise.  The datagrams of all cores are one  *)
(* set there, a datagram being a core and the number it came with.         *)

Avail(cs) ==
    UNION {{<<a, cs[a].received_datagrams[i]>> : i \in 1..Len(cs[a].received_datagrams)} : a \in Attempts}
Taken(gs) == UNION {{<<a, gs[a][i]>> : i \in 1..Len(gs[a])} : a \in Attempts}

\* An available datagram is in the queue of its core.
LEMMA AvailElements ==
    ASSUME NEW cs, NEW v
    PROVE  v \in Avail(cs) <=> \E a \in Attempts : \E n \in Members(cs[a].received_datagrams) : v = <<a, n>>
BY DEF Avail, Members

\* A datagram that was taken is in the history of its core.
LEMMA TakenElements ==
    ASSUME NEW gs, NEW v
    PROVE  v \in Taken(gs) <=> \E a \in Attempts : \E n \in Members(gs[a]) : v = <<a, n>>
BY DEF Taken, Members

\* No queue changes.
QueuesKept == \A a \in Attempts : cores'[a].received_datagrams = cores[a].received_datagrams

\* Then the available datagrams are the same.
LEMMA SameAvail == ASSUME QueuesKept PROVE Avail(cores') = Avail(cores)
BY DEF QueuesKept, Avail

\* Cores that are calm, or unchanged, keep their queues.
LEMMA CalmQueues == ASSUME \A a \in Attempts : Calm(cores[a], cores'[a]) PROVE QueuesKept
BY DEF QueuesKept, Calm

\* A datagram more in the queue, or in the history, of core a.
QueueGains(cs, ds, a, n) ==
    /\ Members(ds[a].received_datagrams) = Members(cs[a].received_datagrams) \cup {n}
    /\ \A b \in Attempts : b # a => ds[b].received_datagrams = cs[b].received_datagrams
HistoryGains(gs, hs, a, n) ==
    /\ Members(hs[a]) = Members(gs[a]) \cup {n}
    /\ \A b \in Attempts : b # a => hs[b] = gs[b]

\* The set T has the element v more than S.
OneMore(S, T, v) == T = S \cup {v}

\* It is available.
LEMMA AvailGrows ==
    ASSUME NEW cs, NEW ds, NEW a \in Attempts, NEW n, QueueGains(cs, ds, a, n)
    PROVE  OneMore(Avail(cs), Avail(ds), <<a, n>>)
<1> USE DEF QueueGains, OneMore
<1>1. ASSUME NEW v \in Avail(ds) PROVE v \in Avail(cs) \cup {<<a, n>>}
  <2>0. PICK b \in Attempts : \E m \in Members(ds[b].received_datagrams) : v = <<b, m>>
    BY AvailElements
  <2>1. PICK m \in Members(ds[b].received_datagrams) : v = <<b, m>>
    BY <2>0
  <2>2. b # a => m \in Members(cs[b].received_datagrams)
    BY <2>1
  <2>3. b = a => m = n \/ m \in Members(cs[b].received_datagrams)
    BY <2>1
  <2> QED BY <2>1, <2>2, <2>3, AvailElements
<1>2. ASSUME NEW v \in Avail(cs) PROVE v \in Avail(ds)
  <2>0. PICK b \in Attempts : \E m \in Members(cs[b].received_datagrams) : v = <<b, m>>
    BY AvailElements
  <2>1. PICK m \in Members(cs[b].received_datagrams) : v = <<b, m>>
    BY <2>0
  <2>2. m \in Members(ds[b].received_datagrams)
    BY <2>1
  <2> QED BY <2>1, <2>2, AvailElements
<1>3. <<a, n>> \in Avail(ds)
  BY AvailElements
<1> QED BY <1>1, <1>2, <1>3

\* A datagram less in the queue of core a.
LEMMA AvailShrinks ==
    ASSUME NEW cs, NEW ds, NEW a \in Attempts, NEW n \in Members(cs[a].received_datagrams),
           Members(ds[a].received_datagrams) = Members(cs[a].received_datagrams) \ {n},
           \A b \in Attempts : b # a => ds[b].received_datagrams = cs[b].received_datagrams
    PROVE  <<a, n>> \in Avail(cs) /\ Avail(ds) = Avail(cs) \ {<<a, n>>}
<1>1. ASSUME NEW v \in Avail(ds) PROVE v \in Avail(cs) \ {<<a, n>>}
  <2>0. PICK b \in Attempts : \E m \in Members(ds[b].received_datagrams) : v = <<b, m>>
    BY AvailElements
  <2>1. PICK m \in Members(ds[b].received_datagrams) : v = <<b, m>>
    BY <2>0
  <2>2. m \in Members(cs[b].received_datagrams) /\ (b # a \/ m # n)
    BY <2>1
  <2>3. v # <<a, n>>
    BY <2>1, <2>2
  <2> QED BY <2>1, <2>2, <2>3, AvailElements
<1>2. ASSUME NEW v \in Avail(cs), v # <<a, n>> PROVE v \in Avail(ds)
  <2>0. PICK b \in Attempts : \E m \in Members(cs[b].received_datagrams) : v = <<b, m>>
    BY AvailElements
  <2>1. PICK m \in Members(cs[b].received_datagrams) : v = <<b, m>>
    BY <2>0
  <2>2. b # a \/ m # n
    BY <1>2, <2>1
  <2>3. m \in Members(ds[b].received_datagrams)
    BY <2>1, <2>2
  <2> QED BY <2>1, <2>3, AvailElements
<1>3. <<a, n>> \in Avail(cs)
  BY AvailElements
<1> QED BY <1>1, <1>2, <1>3

\* It was taken.
LEMMA TakenGrows ==
    ASSUME NEW gs, NEW hs, NEW a \in Attempts, NEW n, HistoryGains(gs, hs, a, n)
    PROVE  OneMore(Taken(gs), Taken(hs), <<a, n>>)
<1> USE DEF HistoryGains, OneMore
<1>1. ASSUME NEW v \in Taken(hs) PROVE v \in Taken(gs) \cup {<<a, n>>}
  <2>0. PICK b \in Attempts : \E m \in Members(hs[b]) : v = <<b, m>>
    BY TakenElements
  <2>1. PICK m \in Members(hs[b]) : v = <<b, m>>
    BY <2>0
  <2>2. b # a => m \in Members(gs[b])
    BY <2>1
  <2>3. b = a => m = n \/ m \in Members(gs[b])
    BY <2>1
  <2> QED BY <2>1, <2>2, <2>3, TakenElements
<1>2. ASSUME NEW v \in Taken(gs) PROVE v \in Taken(hs)
  <2>0. PICK b \in Attempts : \E m \in Members(gs[b]) : v = <<b, m>>
    BY TakenElements
  <2>1. PICK m \in Members(gs[b]) : v = <<b, m>>
    BY <2>0
  <2>2. m \in Members(hs[b])
    BY <2>1
  <2> QED BY <2>1, <2>2, TakenElements
<1>3. <<a, n>> \in Taken(hs)
  BY TakenElements
<1> QED BY <1>1, <1>2, <1>3

\* The task p moves to t.
Moves(p, t) == task' = [task EXCEPT ![p] = t]

\* The task p moves to t: AsyncPromise sees its call change to Seen(t).
LEMMA CallMoves ==
    ASSUME NEW p \in Tasks, NEW t, task \in [Tasks -> TaskStates], Moves(p, t)
    PROVE  Promise!Set(p, Seen(t))
<1>1. \A q \in Tasks : task'[q] = IF q = p THEN t ELSE task[q]
  BY DEF Moves
<1>2. [q \in Tasks |-> Seen(task'[q])] = [[q \in Tasks |-> Seen(task[q])] EXCEPT ![p] = Seen(t)]
  BY <1>1
<1> QED BY <1>2 DEF Promise!Set

\* What a step may be to AsyncPromise.
Kept == Promise!Next \/ UNCHANGED Promise!vars

\* A call that ends with an exception fails.
LEMMA FailStep ==
    ASSUME NEW p \in Tasks, task \in [Tasks -> TaskStates], NEW res, res \notin {"none", "value"},
           task' = Finished(p, res), client'.closed = client.closed \/ client'.closed, QueuesKept, got' = got
    PROVE  Kept
<1> DEFINE t == IdleTask(res)
<1>1. Seen(t) = "error"
  BY DEF Seen, IdleTask
<1>2. Moves(p, t)
  BY DEF Finished, Moves
<1> HIDE DEF t
<1>3. Promise!Set(p, Seen(t))
  BY <1>2, CallMoves
<1>4. Avail(cores') = Avail(cores)
  BY SameAvail
<1>5. Promise!GoesDownOrNot
  BY DEF Promise!GoesDownOrNot
<1>6. Taken(got') = Taken(got)
  OBVIOUS
<1>7. Promise!Fail(p)
  BY <1>1, <1>3, <1>4, <1>5, <1>6 DEF Promise!Fail, Avail, Taken
<1> QED BY <1>7 DEF Kept, Promise!Next

\* A call that returns none of the datagrams does so while the client is up.
LEMMA OkStep ==
    ASSUME NEW p \in Tasks, task \in [Tasks -> TaskStates], Moves(p, IdleTask("value")),
           ~client.closed, ~client'.closed, QueuesKept, got' = got
    PROVE  Kept
<1> DEFINE t == IdleTask("value")
<1>1. Seen(t) = "ok"
  BY DEF Seen, IdleTask
<1> HIDE DEF t
<1>2. Promise!Set(p, Seen(t))
  BY CallMoves DEF t
<1>3. Avail(cores') = Avail(cores)
  BY SameAvail
<1>4. Promise!Return(p)
  BY <1>1, <1>2, <1>3 DEF Promise!Return, Avail
<1> QED BY <1>4 DEF Kept, Promise!Next

\* receive_datagram takes the head of the queue of its core for its caller.
LEMMA DatagramStep ==
    ASSUME Inv, Inv2, NEW p \in Tasks, NEW a \in Attempts, Moves(p, IdleTask("value")),
           ~client.closed, ~client'.closed, cores[a].received_datagrams # <<>>,
           \A b \in Attempts : cores'[b].received_datagrams =
              IF b = a THEN Tail(cores[a].received_datagrams) ELSE cores[b].received_datagrams,
           got' = [got EXCEPT ![a] = Append(@, Head(cores[a].received_datagrams))]
    PROVE  Kept
<1> DEFINE t == IdleTask("value")
           q == cores[a].received_datagrams
           g == got[a]
           n == Head(q)
<1>1. Seen(t) = "ok"
  BY DEF Seen, IdleTask
<1>2. task \in [Tasks -> TaskStates] /\ cores[a] \in Clients /\ got \in [Attempts -> Seq(1..MaxDatagrams)]
  BY DEF Inv, TypeOK
<1>3. q \in Seq(1..MaxDatagrams) /\ cores[a].arrived \in Nat /\ g \in Seq(1..MaxDatagrams)
  BY <1>2, BoundsAssumption DEF Clients
<1>4. g \o q = Numbers(cores[a].arrived) /\ q # <<>>
  BY DEF Inv2, Order, DatagramsExactlyOnce, Numbers
<1>5. \A b \in Attempts : got'[b] = IF b = a THEN Append(g, n) ELSE got[b]
  BY <1>2
<1>6. n \in Members(q) /\ Members(Tail(q)) = Members(q) \ {n}
  BY <1>3, <1>4, HeadLeaves
<1>7. Members(got'[a]) = Members(g) \cup {n}
  BY <1>3, <1>5, AppendAdds
<1> HIDE DEF t, n
<1>8. Promise!Set(p, Seen(t))
  BY <1>2, CallMoves DEF t
<1>9. <<a, n>> \in Avail(cores) /\ Avail(cores') = Avail(cores) \ {<<a, n>>}
  <2>1. Members(cores'[a].received_datagrams) = Members(q) \ {n}
    BY <1>6
  <2> QED BY <1>6, <2>1, AvailShrinks
<1>10. Taken(got') = Taken(got) \cup {<<a, n>>}
  <2>1. HistoryGains(got, got', a, n)
    BY <1>5, <1>7 DEF HistoryGains
  <2>2. OneMore(Taken(got), Taken(got'), <<a, n>>)
    BY <2>1, TakenGrows
  <2> QED BY <2>2 DEF OneMore
<1>11. \E i \in Avail(cores) : Avail(cores') = Avail(cores) \ {i} /\ Taken(got') = Taken(got) \cup {i}
  BY <1>9, <1>10
<1>12. Promise!Return(p)
  BY <1>1, <1>8, <1>11 DEF Promise!Return, Avail, Taken
<1> QED BY <1>12 DEF Kept, Promise!Next

\* A task that goes to sleep, or gets its socket, has begun its call; one that
\* slept before has not moved.
LEMMA BusyStep ==
    ASSUME NEW p \in Tasks, task \in [Tasks -> TaskStates], NEW t, Seen(t) \in {"none", "busy"},
           Moves(p, t), Seen(task[p]) = "busy" => Seen(t) = "busy",
           client'.closed = client.closed, Avail(cores') = Avail(cores), got' = got
    PROVE  Kept
<1>1. Promise!Set(p, Seen(t))
  BY CallMoves
<1>2. CASE Seen(task[p]) # "busy"
  <2>1. Promise!Begin(p)
    BY <1>1, <1>2 DEF Promise!Begin, Avail
  <2> QED BY <2>1 DEF Kept, Promise!Next
<1>3. CASE Seen(task[p]) = "busy"
  <2>1. [q \in Tasks |-> Seen(task'[q])] = [q \in Tasks |-> Seen(task[q])]
    BY <1>3 DEF Moves
  <2>2. UNCHANGED Promise!vars
    BY <2>1 DEF Promise!vars, Avail
  <2> QED BY <2>2 DEF Kept
<1> QED BY <1>2, <1>3

\* An event brings at most one datagram, which is new, and may close the client.
LEMMA EventStep ==
    ASSUME Inv, Inv', Inv2, ~client.closed, task' = task, got' = got, NEW a \in Attempts,
           DatagramsGrow(cores[a], cores'[a]),
           \A b \in Attempts : b # a => cores'[b].received_datagrams = cores[b].received_datagrams
    PROVE  Kept
<1> DEFINE q == cores[a].received_datagrams
           n == cores[a].arrived
           g == got[a]
           A == Avail(cores)
           T == Taken(got)
<1>1. cores[a] \in Clients /\ cores'[a] \in Clients /\ got \in [Attempts -> Seq(1..MaxDatagrams)]
  BY DEF Inv, TypeOK
<1>2. q \in Seq(1..MaxDatagrams) /\ n \in Nat /\ g \in Seq(1..MaxDatagrams)
  <2>1. cores[a] \in Clients /\ got \in [Attempts -> Seq(1..MaxDatagrams)]
    BY <1>1
  <2> QED BY <2>1, BoundsAssumption DEF Clients
<1>3. g \o q = Numbers(n)
  BY DEF Inv2, Order, DatagramsExactlyOnce, Numbers
<1>4. \E new \in SUBSET ((Attempts \X (1..MaxDatagrams)) \ (A \cup T)) : Avail(cores') = A \cup new
  <2>1. CASE cores'[a].arrived = n /\ QueueKept(cores[a], cores'[a])
    <3>1. QueuesKept
      BY <2>1 DEF QueuesKept, QueueKept
    <3>2. Avail(cores') = A \cup {}
      BY <3>1, SameAvail
    <3> QED BY <3>2
  <2>2. CASE cores'[a].arrived = n + 1 /\ cores'[a].received_datagrams = Append(q, n + 1)
    <3>1. n + 1 \notin Members(q) \cup Members(g)
      BY <1>2, <1>3, NextIsNew
    <3>2. n + 1 \in 1..MaxDatagrams
      <4>1. cores'[a].arrived \in 0..MaxDatagrams
        BY <1>1 DEF Clients
      <4> QED BY <1>2, <2>2, <4>1, BoundsAssumption
    <3>3. Members(cores'[a].received_datagrams) = Members(q) \cup {n + 1}
      BY <1>2, <2>2, AppendAdds
    <3> DEFINE v == <<a, n + 1>>
    <3>4. Avail(cores') = A \cup {v}
      <4>1. QueueGains(cores, cores', a, n + 1)
        BY <3>3 DEF QueueGains
      <4>2. OneMore(Avail(cores), Avail(cores'), <<a, n + 1>>)
        BY <4>1, AvailGrows
      <4> QED BY <4>2 DEF OneMore
    <3>5. v \notin A
      BY <3>1, AvailElements
    <3>6. v \notin T
      BY <3>1, TakenElements
    <3>7. v \in Attempts \X (1..MaxDatagrams)
      BY <3>2
    <3> HIDE DEF v, A, T
    <3> QED BY <3>4, <3>5, <3>6, <3>7
  <2> QED BY <2>1, <2>2 DEF DatagramsGrow
<1>5. Promise!GoesDownOrNot
  BY DEF Promise!GoesDownOrNot
<1>6. Taken(got') = Taken(got)
  OBVIOUS
<1>7. Promise!Event
  BY <1>4, <1>5, <1>6 DEF Promise!Event, Avail, Taken
<1> QED BY <1>7 DEF Kept, Promise!Next

\* A step that shows neither in the calls nor in the datagrams.
LEMMA StutterStep ==
    ASSUME client'.closed = client.closed, QueuesKept, task' = task, got' = got
    PROVE  Kept
<1>1. Avail(cores') = Avail(cores)
  BY SameAvail
<1>2. UNCHANGED Promise!vars
  BY <1>1 DEF Promise!vars, Avail
<1> QED BY <1>2 DEF Kept

\* A call of a task, or its wake-up: an exception, a return or a sleep.
LEMMA TurnStep ==
    ASSUME Inv, Inv', Inv2, Inv3, OneStarted, NEW p \in Tasks, NEW o \in Attempted, Call(p, o) \/ Wake(p)
    PROVE  Kept
<1>1. PICK q \in Attempted, a \in Attempts :
        Turn(p, q, a) /\ client.core # 0 /\ (a # client.core => q.kind = "receive_datagram")
  BY TurnIsCurrent
<1>2. task \in [Tasks -> TaskStates] /\ cores[a] \in Clients /\ client \in ClientStates /\ client' \in ClientStates
  BY DEF Inv, TypeOK
<1>3. CASE client.closed
  <2>1. task' = Finished(p, "ConnectionError") /\ UNCHANGED <<client, cores, got>>
    BY <1>1, <1>3 DEF Turn
  <2>2. QueuesKept
    BY <2>1 DEF QueuesKept
  <2> QED BY <1>2, <2>1, <2>2, FailStep
<1>4. CASE ~client.closed
  <2>1. PICK r \in Attempt(q, cores[a]) : TurnRuns(p, q, a, r)
    BY <1>1, <1>4, TurnOutcome
  <2>2. PyKeeps(cores[a], r) /\ (q.kind # "receive_datagram" => QueueKept(cores[a], r.c))
    BY <1>2, <2>1, AttemptFacts
  <2>3. /\ ~client'.closed /\ client'.closed = client.closed
        /\ \A b \in Attempts :
             cores'[b].received_datagrams = (IF b = a THEN r.c ELSE cores[b]).received_datagrams
    BY <1>2, <1>4, <2>1 DEF TurnRuns, ClientStates
  <2>4. r.c.received_datagrams = cores[a].received_datagrams => QueuesKept
    BY <2>3 DEF QueuesKept
  <2>5. CASE r.ret # "value"
    <3>1. QueuesKept /\ got' = got
      BY <2>1, <2>2, <2>4, <2>5 DEF TurnRuns, PyKeeps, Calm
    <3>2. CASE r.ret = "None"
      <4> DEFINE t == [pc |-> "wait", op |-> q, core |-> a, res |-> "none"]
      <4>1. Seen(t) = "busy" /\ Moves(p, t)
        BY <2>1, <3>2 DEF Seen, Moves, TurnRuns
      <4>2. Avail(cores') = Avail(cores)
        BY <3>1, SameAvail
      <4> HIDE DEF t
      <4> QED BY <1>2, <2>3, <3>1, <4>1, <4>2, BusyStep
    <3>3. CASE r.ret # "None"
      <4>1. task' = Finished(p, r.ret)
        BY <2>1, <3>3 DEF TurnRuns, Finished
      <4>2. r.ret \notin {"none", "value"}
        BY <2>2, <2>5, <3>3 DEF PyKeeps, Exceptions
      <4> QED BY <1>2, <2>3, <3>1, <4>1, <4>2, FailStep
    <3> QED BY <3>2, <3>3
  <2>6. CASE r.ret = "value"
    <3>1. Moves(p, IdleTask("value"))
      BY <2>1, <2>6 DEF TurnRuns, Moves
    <3>2. CASE q.kind = "receive_datagram"
      <4>1. r \in py_receive_datagram(cores[a])
        BY <2>1, <3>2 DEF Attempt
      <4>2. /\ cores[a].received_datagrams # <<>> /\ r.val = Head(cores[a].received_datagrams)
            /\ r.c.received_datagrams = Tail(cores[a].received_datagrams)
        BY <1>2, <2>6, <4>1, ReceiveDatagramKeeps
      <4>3. got' = [got EXCEPT ![a] = Append(@, Head(cores[a].received_datagrams))]
        BY <2>1, <2>6, <3>2, <4>2 DEF TurnRuns
      <4>4. \A b \in Attempts : cores'[b].received_datagrams =
               IF b = a THEN Tail(cores[a].received_datagrams) ELSE cores[b].received_datagrams
        BY <2>3, <4>2
      <4> QED BY <1>4, <2>3, <3>1, <4>2, <4>3, <4>4, DatagramStep
    <3>3. CASE q.kind # "receive_datagram"
      <4>1. QueuesKept /\ got' = got
        BY <2>1, <2>2, <2>4, <3>3 DEF TurnRuns, QueueKept
      <4> QED BY <1>2, <1>4, <2>3, <3>1, <4>1, OkStep
    <3> QED BY <3>2, <3>3
  <2> QED BY <2>5, <2>6
<1> QED BY <1>3, <1>4

\* A callback changes one core, and then the client settles the others.
LEMMA EvolutionStep ==
    ASSUME Inv, Inv', Inv2, ~client.closed, task' = task, got' = got, NEW a \in Attempts, NEW d,
           DatagramsGrow(cores[a], d),
           \A b \in Attempts : Calm(IF b = a THEN d ELSE cores[b], cores'[b])
    PROVE  Kept
<1>1. Calm(d, cores'[a]) /\ \A b \in Attempts : b # a => Calm(cores[b], cores'[b])
  OBVIOUS
<1>2. DatagramsGrow(cores[a], cores'[a])
  BY <1>1 DEF DatagramsGrow, Calm, QueueKept
<1>3. \A b \in Attempts : b # a => cores'[b].received_datagrams = cores[b].received_datagrams
  BY <1>1 DEF Calm
<1> QED BY <1>2, <1>3, EventStep

\* datagram_received and the timer.
LEMMA CallbackStep ==
    ASSUME Inv, Inv', Inv2, NEW k \in Attempts, NEW empty \in BOOLEAN, OnReceive(k, empty) \/ OnTimeout
    PROVE  Kept
<1> USE InvFacts
<1> DEFINE a == client.core
           cs(r) == [cores EXCEPT ![a] = r.c]
<1>1. a \in Attempts /\ cores[a] \in Clients /\ ~client.closed /\ task' = task /\ got' = got
  BY DEF OnReceive, OnTimeout, ClientStates
<1>2. ASSUME NEW r, r.c \in Clients, Evolves(cores[a], r.c),
             cores' = cs(r) \/ cores' = Process(client, cs(r)).cs
      PROVE  Kept
  <2>1. cs(r) \in [Attempts -> Clients] /\ \A b \in Attempts : cs(r)[b] = IF b = a THEN r.c ELSE cores[b]
    BY <1>1, <1>2
  <2> HIDE DEF cs
  <2>2. \A b \in Attempts : Calm(cs(r)[b], cores'[b])
    <3>1. CASE cores' = cs(r)
      BY <3>1 DEF Calm
    <3>2. CASE cores' = Process(client, cs(r)).cs
      BY <2>1, <3>2, ProcessWakes
    <3> QED BY <1>2, <3>1, <3>2
  <2>3. DatagramsGrow(cores[a], r.c)
    BY <1>2 DEF Evolves
  <2> HIDE DEF a
  <2> QED BY <1>1, <2>1, <2>2, <2>3, EvolutionStep
<1>3. CASE OnReceive(k, empty)
  <2>1. PICK r \in py_receive_packet(cores[a], empty) :
          LET after == IF r.ret = "value" THEN Process(client, cs(r)) ELSE [x |-> client, cs |-> cs(r)]
          IN client' = after.x /\ cores' = after.cs
    BY <1>3 DEF OnReceive
  <2>2. r.c \in Clients /\ Evolves(cores[a], r.c)
    BY <1>1, <2>1, ReceivePacketFacts
  <2>3. cores' = cs(r) \/ cores' = Process(client, cs(r)).cs
    BY <2>1
  <2> QED BY <1>2, <2>2, <2>3
<1>4. CASE OnTimeout
  <2>1. PICK r \in py_handle_timeout(cores[a]) : cores' = Process(client, cs(r)).cs
    BY <1>4 DEF OnTimeout
  <2>2. r.c \in Clients /\ Evolves(cores[a], r.c)
    BY <1>1, <2>1, HandleTimeoutFacts
  <2> QED BY <1>2, <2>1, <2>2
<1> QED BY <1>3, <1>4

\* A step that leaves the queues and the calls alone, and may close the client.
LEMMA QuietStep ==
    ASSUME Inv, Inv', Inv2, QueuesKept, \A a \in Attempts : cores'[a].arrived = cores[a].arrived,
           task' = task, got' = got, client.closed => client'.closed
    PROVE  Kept
<1>1. client.closed \in BOOLEAN /\ client'.closed \in BOOLEAN /\ 1 \in Attempts
  BY MaxAttemptsAssumption DEF Inv, TypeOK, ClientStates, Attempts
<1>2. CASE client.closed
  BY <1>1, <1>2, StutterStep
<1>3. CASE ~client.closed
  <2>1. DatagramsGrow(cores[1], cores'[1])
    BY <1>1 DEF QueuesKept, DatagramsGrow, QueueKept
  <2> QED BY <1>1, <1>3, <2>1, EventStep DEF QueuesKept
<1> QED BY <1>1, <1>2, <1>3

\* reset() and stop_sending() of a stream.
LEMMA StreamControlStep ==
    ASSUME Inv, Inv', Inv2, NEW a \in Attempts, NEW id \in StreamIds,
           StreamReset(a, id) \/ StreamStopSending(a, id)
    PROVE  Kept
<1> USE InvFacts
<1> DEFINE cs(r) == [cores EXCEPT ![a] = r.c]
<1>1. PICK r \in py_reset(cores[a], id) \cup py_stop_sending(cores[a], id) :
        LET after == IF r.ret = "value" THEN Process(client, cs(r)) ELSE [x |-> client, cs |-> cs(r)]
        IN client' = after.x /\ cores' = after.cs
  BY DEF StreamReset, StreamStopSending, StreamControl
<1>2. task' = task /\ got' = got /\ cores[a] \in Clients
  BY DEF StreamReset, StreamStopSending, StreamControl
<1>3. r.c \in Clients /\ r.c.arrived = cores[a].arrived /\ QueueKept(cores[a], r.c)
  BY <1>1, <1>2, ResetStreamKeeps, StopSendingKeeps DEF PyKeeps, SameSession
<1>4. cs(r) \in [Attempts -> Clients] /\ \A b \in Attempts : cs(r)[b] = IF b = a THEN r.c ELSE cores[b]
  BY <1>3
<1> HIDE DEF cs
<1>5. /\ \A b \in Attempts : Calm(cs(r)[b], cores'[b])
      /\ client.closed => client' = client
  <2>1. CASE r.ret = "value"
    <3>1. client' = Process(client, cs(r)).x /\ cores' = Process(client, cs(r)).cs
      BY <1>1, <2>1
    <3>2. \A b \in Attempts : Calm(cs(r)[b], cores'[b])
      BY <1>4, <3>1, ProcessWakes
    <3>3. client.closed => client' = client
      BY <3>1 DEF Process
    <3> QED BY <3>2, <3>3
  <2>2. CASE r.ret # "value"
    BY <1>1, <2>2 DEF Calm
  <2> QED BY <2>1, <2>2
<1>6. /\ \A b \in Attempts : cores'[b].received_datagrams = cores[b].received_datagrams
      /\ \A b \in Attempts : cores'[b].arrived = cores[b].arrived
  BY <1>3, <1>4, <1>5 DEF Calm, QueueKept
<1>7. QueuesKept
  BY <1>6 DEF QueuesKept
<1> QED BY <1>2, <1>5, <1>6, <1>7, QuietStep

\* close() of the application, and the refused datagram.
LEMMA AppCallStep ==
    ASSUME Inv, Inv', Inv2, AppClose \/ SendOversized
    PROVE  Kept
<1> USE InvFacts
<1> DEFINE a == client.core
<1>1. task' = task /\ got' = got /\ a \in {0} \cup Attempts
  BY DEF AppClose, SendOversized, ClientStates
<1>2. CASE AppClose
  <2>1. ~client.closed
    BY <1>2 DEF AppClose
  <2>2. CASE a = 0
    <3>1. cores' = cores
      BY <1>2, <2>2 DEF AppClose
    <3>2. QueuesKept
      BY <3>1 DEF QueuesKept
    <3> QED BY <1>1, <2>1, <3>1, <3>2, QuietStep
  <2>3. CASE a # 0
    <3>1. a \in Attempts /\ cores[a] \in Clients
      BY <1>1, <2>3
    <3> DEFINE d == Close(cores[a])
               e == DrainSend(client, d)
    <3>2. d \in Clients /\ DatagramsGrow(cores[a], d)
      BY <3>1, CloseFacts DEF Evolves
    <3>3. cores' = [cores EXCEPT ![a] = e]
      BY <1>2, <2>3 DEF AppClose
    <3> HIDE DEF d
    <3>4. Calm(d, e)
      BY <3>2, DrainFacts
    <3> HIDE DEF a, e
    <3>5. \A b \in Attempts : Calm(IF b = a THEN d ELSE cores[b], cores'[b])
      BY <3>1, <3>3, <3>4 DEF Calm
    <3> QED BY <1>1, <2>1, <3>1, <3>2, <3>5, EvolutionStep
  <2> QED BY <2>2, <2>3
<1>3. CASE SendOversized
  <2>1. a \in Attempts /\ cores[a] \in Clients /\ client' = client
    BY <1>1, <1>3 DEF SendOversized
  <2>2. PICK r \in py_send_datagram(cores[a], TRUE) : cores' = [cores EXCEPT ![a] = r.c]
    BY <1>3 DEF SendOversized
  <2>3. Calm(cores[a], r.c)
    BY <2>1, <2>2, SendDatagramKeeps DEF PyKeeps
  <2> HIDE DEF a
  <2>4. \A b \in Attempts : Calm(cores[b], cores'[b])
    BY <2>1, <2>2, <2>3 DEF Calm
  <2>5. QueuesKept
    BY <2>4, CalmQueues
  <2> QED BY <1>1, <2>1, <2>5, StutterStep
<1> QED BY <1>2, <1>3

\* The end of a socket closes the client or changes nothing the tasks see.
LEMMA SocketStep ==
    ASSUME Inv, Inv', Inv2, NEW k \in Attempts, TransportFails(k) \/ OnConnectionLost(k)
    PROVE  Kept
<1> USE InvFacts
<1>1. cores' = cores /\ task' = task /\ got' = got
  BY DEF TransportFails, OnConnectionLost
<1>2. QueuesKept
  BY <1>1 DEF QueuesKept
<1>3. client.closed => client'.closed
  <2>1. CASE TransportFails(k)
    BY <2>1 DEF TransportFails, ClientStates
  <2>2. CASE OnConnectionLost(k)
    <3> DEFINE x == [client EXCEPT !.sock[k] = "closed"]
    <3>1. x \in ClientStates /\ client' = Teardown(x, "connection lost")
      BY <2>2, ObjectUpdate DEF OnConnectionLost
    <3> HIDE DEF x
    <3> QED BY <3>1, TeardownKeeps
  <2> QED BY <2>1, <2>2
<1> QED BY <1>1, <1>2, <1>3, QuietStep

\* A timeout or a cancellation of a task that sleeps.
LEMMA InterruptStep ==
    ASSUME Inv, Inv', Inv2, NEW p \in Tasks, NEW e \in {"TimeoutError", "CancelledError"}, Interrupt(p, e)
    PROVE  Kept
<1> USE InvFacts
<1> DEFINE x == [client EXCEPT !.waiters = @ \ {p}]
<1>1. /\ task' = Finished(p, e) /\ cores' = cores /\ got' = got
      /\ client' = IF task[p].op = IsConnectedOp THEN Teardown(x, "connect failed") ELSE x
  BY DEF Interrupt
<1>2. x \in ClientStates /\ x.closed = client.closed
  BY MaxAttemptsAssumption DEF ClientStates
<1> HIDE DEF x
<1>3. client'.closed = client.closed \/ client'.closed
  BY <1>1, <1>2, TeardownKeeps
<1>4. QueuesKept
  BY <1>1 DEF QueuesKept
<1>5. task \in [Tasks -> TaskStates] /\ e \notin {"none", "value"}
  BY DEF Inv, TypeOK
<1> QED BY <1>1, <1>3, <1>4, <1>5, FailStep

\* The stages of connect() before its core is started.
LEMMA ConnectStageStep ==
    ASSUME Inv, Inv', Inv2, NEW p \in Tasks, NEW e \in {"OSError", "RuntimeError", "CancelledError"},
           ConnectCall(p) \/ Resolved(p) \/ ConnectAborted(p, e) \/ EndpointMade(p) \/ EndpointCancelled(p)
    PROVE  Kept
<1> USE InvFacts
<1>1. task \in [Tasks -> TaskStates] /\ got' = got /\ client'.closed = client.closed
  <2>1. task \in [Tasks -> TaskStates] /\ got' = got
    BY DEF Inv, TypeOK, ConnectCall, Resolved, ConnectAborted, EndpointMade, EndpointCancelled
  <2>2. client'.closed = client.closed
    BY DEF ClientStates, ConnectCall, Resolved, ConnectAborted, EndpointMade, EndpointCancelled
  <2> QED BY <2>1, <2>2
<1>2. QueuesKept
  <2>1. CASE Resolved(p)
    <3> DEFINE n == client.core + 1
    <3>1. n \in Attempts /\ n > client.core
      BY <2>1, MaxAttemptsAssumption DEF Resolved, ClientStates, Attempts
    <3>2. cores[n].received_datagrams = <<>>
      BY <3>1 DEF Inv2, Order, StagesApart, NoneIsBlank, NothingYet
    <3>3. FreshClient.received_datagrams = <<>>
      BY DEF FreshClient
    <3>4. cores' = [cores EXCEPT ![n] = FreshClient]
      BY <2>1 DEF Resolved
    <3> HIDE DEF n
    <3> QED BY <3>1, <3>2, <3>3, <3>4 DEF QueuesKept
  <2>2. CASE ~Resolved(p)
    BY <2>2 DEF QueuesKept, ConnectCall, ConnectAborted, EndpointMade, EndpointCancelled
  <2> QED BY <2>1, <2>2
<1>3. Avail(cores') = Avail(cores)
  BY <1>2, SameAvail
<1>4. ASSUME NEW pc \in {"resolve", "endpoint", "opened"}, NEW a, Stage(p, pc, a),
             Seen(task[p]) # "busy"
      PROVE  Kept
  <2> DEFINE t == [pc |-> pc, op |-> IsConnectedOp, core |-> a, res |-> "none"]
  <2>1. Seen(t) \in {"none", "busy"} /\ Moves(p, t)
    BY <1>4 DEF Seen, Stage, Moves
  <2> HIDE DEF t
  <2> QED BY <1>1, <1>3, <1>4, <2>1, BusyStep
<1>5. CASE ConnectCall(p) \/ Resolved(p) \/ EndpointMade(p)
  <2>1. Seen(task[p]) # "busy"
    BY <1>5 DEF Seen, ConnectCall, Resolved, EndpointMade
  <2> QED BY <1>4, <1>5, <2>1 DEF ConnectCall, Resolved, EndpointMade
<1>6. CASE ConnectAborted(p, e) \/ EndpointCancelled(p)
  <2>1. PICK res \in {"OSError", "RuntimeError", "CancelledError"} : task' = Finished(p, res)
    BY <1>6 DEF ConnectAborted, EndpointCancelled
  <2> QED BY <1>1, <1>2, <2>1, FailStep
<1> QED BY <1>5, <1>6

\* connect() has its socket and starts the core, which has no datagrams yet.
LEMMA ConnectStartStep ==
    ASSUME Inv, Inv', Inv2, NEW p \in Tasks, ConnectStart(p)
    PROVE  Kept
<1> USE InvFacts
<1> DEFINE a == task[p].core
           x == [client EXCEPT !.transport = a]
           cs(r) == [cores EXCEPT ![a] = r.c]
           t == [pc |-> "wait", op |-> IsConnectedOp, core |-> a, res |-> "none"]
<1>1. /\ StagesApart /\ NoneIsBlank /\ task \in [Tasks -> TaskStates] /\ StageHasCore
      /\ client.core \in {0} \cup Attempts /\ client'.closed \in BOOLEAN /\ client.closed \in BOOLEAN
  BY DEF Inv2, Order, Inv, TypeOK, ClientStates
<1>2. a \in Attempts /\ task[p].pc = "opened" /\ cores[a] \in Clients /\ cores[a].conn = "none"
  <2>1. task[p].pc = "opened" /\ a \in Attempts /\ a # 0
    BY <1>1 DEF ConnectStart, StageHasCore, TaskStates
  <2> QED BY <1>1, <2>1 DEF StagesApart, Stages
<1>3. x \in ClientStates /\ x.core = client.core /\ x.closed = client.closed
  BY <1>2, ObjectUpdate
<1>4. PICK r \in py_start(cores[a]) :
        /\ cores' = Process(x, cs(r)).cs
        /\ IF Process(x, cs(r)).x.closed
             THEN /\ client' = Teardown(Process(x, cs(r)).x, "connect failed")
                  /\ task' = Finished(p, "ConnectionError")
             ELSE /\ client' = [Process(x, cs(r)).x EXCEPT !.waiters = @ \cup {p}]
                  /\ task' = [task EXCEPT ![p] = t]
  BY DEF ConnectStart, Stage
<1>5. r.c \in Clients /\ r.c.received_datagrams = <<>> /\ r.c.conn # "closed"
  BY <1>2, StartFacts DEF Blank
<1>6. cs(r) \in [Attempts -> Clients] /\ \A b \in Attempts : cs(r)[b] = IF b = a THEN r.c ELSE cores[b]
  BY <1>2, <1>5
<1>7. cores[a].received_datagrams = <<>> /\ got' = got
  BY <1>1, <1>2 DEF NoneIsBlank, NothingYet, ConnectStart
<1>8. Seen(t) = "busy" /\ Seen(task[p]) = "busy"
  BY <1>2 DEF Seen
<1> HIDE DEF x, cs, t
<1>9. QueuesKept
  <2>1. \A b \in Attempts : Calm(cs(r)[b], cores'[b])
    BY <1>3, <1>4, <1>6, ProcessWakes
  <2> QED BY <1>5, <1>6, <1>7, <2>1 DEF QueuesKept, Calm
<1> DEFINE y == Process(x, cs(r)).x
<1>10. IF y.closed THEN client' = Teardown(y, "connect failed") /\ task' = Finished(p, "ConnectionError")
                  ELSE client' = [y EXCEPT !.waiters = @ \cup {p}] /\ task' = [task EXCEPT ![p] = t]
  BY <1>4
<1>11. y \in ClientStates
  <2>1. Explained(x, cs(r))
    <3>1. x.core = a => cs(r)[x.core].conn # "closed"
      BY <1>2, <1>5, <1>6
    <3>2. x.core # 0 /\ x.core # a => cs(r)[x.core] = cores[x.core]
      BY <1>1, <1>3, <1>6
    <3>3. Explained(client, cores) /\ x.timer = client.timer
      BY <1>2, ObjectUpdate DEF x
    <3> QED BY <1>3, <3>1, <3>2, <3>3 DEF Explained, Silent
  <2> QED BY <1>3, <1>6, <2>1, ProcessFacts
<1>12. client.closed => y.closed
  BY <1>3 DEF Process
<1> HIDE DEF y
<1>13. CASE y.closed
  <2>1. client'.closed /\ task' = Finished(p, "ConnectionError")
    BY <1>10, <1>11, <1>13, TeardownKeeps
  <2> QED BY <1>1, <1>7, <1>9, <2>1, FailStep
<1>14. CASE ~y.closed
  <2>1. Moves(p, t) /\ client'.closed = client.closed
    BY <1>1, <1>10, <1>11, <1>12, <1>14 DEF Moves, ClientStates
  <2>2. Avail(cores') = Avail(cores)
    BY <1>9, SameAvail
  <2> QED BY <1>1, <1>7, <1>8, <2>1, <2>2, BusyStep
<1> QED BY <1>13, <1>14

\* Every step of AsyncQuic is a step of AsyncPromise, or shows nothing there.
LEMMA StepKeepsPromise ==
    Inv /\ Inv' /\ Inv2 /\ OneStarted /\ Inv3 /\ [Next]_vars => [Promise!Next]_Promise!vars
<1> SUFFICES ASSUME Inv, Inv', Inv2, OneStarted, Inv3, [Next]_vars PROVE Kept
  BY DEF Kept
<1>1. ASSUME NEW p \in Tasks, NEW o \in Attempted, Call(p, o) PROVE Kept
  BY <1>1, TurnStep
<1>2. 1 \in Attempts /\ TRUE \in BOOLEAN /\ IsConnectedOp \in Attempted
  BY MaxAttemptsAssumption DEF Attempts, IsConnectedOp, Attempted
<1>3. ASSUME NEW p \in Tasks, Wake(p) PROVE Kept
  BY <1>2, <1>3, TurnStep
<1>4. ASSUME NEW p \in Tasks, NEW e \in {"TimeoutError", "CancelledError"}, Interrupt(p, e) PROVE Kept
  BY <1>4, InterruptStep
<1>5. ASSUME NEW p \in Tasks, ConnectCall(p) \/ Resolved(p) \/ EndpointMade(p) \/ EndpointCancelled(p)
      PROVE  Kept
  BY <1>5, ConnectStageStep
<1>6. ASSUME NEW p \in Tasks, NEW e \in {"OSError", "RuntimeError", "CancelledError"}, ConnectAborted(p, e)
      PROVE  Kept
  BY <1>6, ConnectStageStep
<1>7. ASSUME NEW p \in Tasks, ConnectStart(p) PROVE Kept
  BY <1>7, ConnectStartStep
<1>8. ASSUME NEW k \in Attempts, NEW empty \in BOOLEAN, OnReceive(k, empty) PROVE Kept
  BY <1>8, CallbackStep
<1>9. OnTimeout => Kept
  BY <1>2, CallbackStep
<1>10. ASSUME NEW k \in Attempts, TransportFails(k) \/ OnConnectionLost(k) PROVE Kept
  BY <1>10, SocketStep
<1>11. AppClose \/ SendOversized => Kept
  BY AppCallStep
<1>12. ASSUME NEW a \in Attempts, NEW id \in StreamIds, StreamReset(a, id) \/ StreamStopSending(a, id)
       PROVE  Kept
  BY <1>12, StreamControlStep
<1>13. UNCHANGED vars => Kept
  <2> SUFFICES ASSUME UNCHANGED vars PROVE Kept
    OBVIOUS
  <2>1. client' = client /\ cores' = cores /\ task' = task /\ got' = got
    BY DEF vars
  <2>2. QueuesKept
    BY <2>1 DEF QueuesKept
  <2> QED BY <2>1, <2>2, StutterStep
<1> QED BY <1>1, <1>3, <1>4, <1>5, <1>6, <1>7, <1>8, <1>9, <1>10, <1>11, <1>12, <1>13 DEF Next

\* A client that was just made is an initial state of AsyncPromise.
LEMMA InitKeepsPromise == Init => Promise!Init
<1> SUFFICES ASSUME Init PROVE Promise!Init
  OBVIOUS
<1>1. client.closed = FALSE /\ task = [p \in Tasks |-> IdleTask("none")] /\ Len(<<>>) = 0
  BY DEF Init
<1>2. \A a \in Attempts : cores[a].received_datagrams = <<>> /\ got[a] = <<>>
  BY DEF Init, FreshClient
<1>3. \A a \in Attempts : Members(cores[a].received_datagrams) = {} /\ Members(got[a]) = {}
  BY <1>1, <1>2 DEF Members
<1>4. Avail(cores) = {}
  BY <1>3, AvailElements
<1>5. Taken(got) = {}
  BY <1>3, TakenElements
<1>6. Seen(IdleTask("none")) = "none"
  BY DEF Seen, IdleTask
<1>7. [p \in Tasks |-> Seen(task[p])] = [p \in Tasks |-> "none"]
  BY <1>1, <1>6
<1> QED BY <1>1, <1>4, <1>5, <1>7 DEF Promise!Init, Avail, Taken

\* While one core at a time is started, AsyncQuicClient implements the safety
\* part of AsyncPromise, for any number of tasks: a call of aio.py returns only
\* on a client that is not torn down, and every datagram is handed to one call.
THEOREM QuicKeepsPromise == Spec /\ []OneStarted => Promise!Spec
<1> QED BY StepKeepsPromise, InitKeepsPromise, InvInductive, InitInv, Inv2Inductive, InitInv2,
           Inv3Inductive, InitInv3, PTL DEF Spec, Promise!Spec

\* A client that calls connect() once, for any number of tasks, streams and
\* datagrams: no CONNECTION_CLOSE is stranded, a ConnectionError of an
\* established client is explained by its close_reason, and the promise is kept.
THEOREM OneConnectIsSound ==
    ASSUME MaxAttempts = 1
    PROVE  Spec => []NoCloseStranded /\ ConnectionErrorMeansClosed /\ Promise!Spec
<1>1. Spec => []OneStarted
  BY OneConnectIsOneStarted
<1> QED BY <1>1, CloseNeverStranded, ErrorsAreExplained, QuicKeepsPromise, PTL
=============================================================================
