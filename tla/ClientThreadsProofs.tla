------------------------- MODULE ClientThreadsProofs -------------------------
(***************************************************************************)
(* Proofs about ClientThreads, for any number of threads, of streams and   *)
(* of datagrams: threads that share a WebTransportClient lose no datagram, *)
(* as long as the server does not end the session.  (When it does, freed   *)
(* memory answers the second call of receive_datagram.)                    *)
(***************************************************************************)
EXTENDS ClientThreads, WtGlueProofs

\* A method is called on an object that has it, and the property last_error
\* does not go to the glue.
MethodOf(s) ==
    /\ s.call \in OnClient => s.obj = Client
    /\ s.call \in OnStreamObject => s.obj \in StreamIds
    /\ s.pc \in {"entered", "inside"} => s.call # "last_error"

\* nb::lock_self: no two threads are inside methods of one object.
ObjectLocks ==
    \A s, t \in Threads :
        s # t /\ thread[s].pc # "idle" /\ thread[t].pc # "idle" => thread[s].obj # thread[t].obj

\* Between its two calls of the glue a thread knows the size of the head.
PeekedIsHead(s, c) ==
    s.call = "receive_datagram" /\ s.pc \in {"entered", "inside"} /\ s.peeked # -1 =>
        c.received_datagrams # <<>> /\ Q!SizeOf(Head(c.received_datagrams)) = s.peeked

\* The inductive invariant.
Inv ==
    /\ TypeOK /\ ReadyIsLive(core) /\ Unended(core) /\ Ledger(got, core)
    /\ \A t \in Threads : MethodOf(thread[t]) /\ PeekedIsHead(thread[t], core)
    /\ ObjectLocks

-----------------------------------------------------------------------------
\* The session that the threads start with.
LEMMA EstablishedFacts ==
    /\ Established \in WtClients /\ ReadyIsLive(Established) /\ Unended(Established)
    /\ Established.arrived = 0 /\ Established.received_datagrams = <<>>
<1> DEFINE f == [id \in StreamIds |-> [FreshClient.streams[id] EXCEPT !.phase = "open"]]
<1>1. FreshClient \in WtClients /\ Blank(FreshClient) /\ ~FreshClient.close_sent /\ ~FreshClient.dangling
  BY FreshClientFacts DEF FreshClient
<1>2. f \in [StreamIds -> Q!StreamStates]
  <2>1. \A id \in StreamIds : FreshClient.streams[id] \in Q!StreamStates
    BY <1>1, StreamOf
  <2> HIDE DEF FreshClient
  <2> QED BY <2>1 DEF Q!StreamStates
<1>3. Established = [FreshClient EXCEPT !.conn = "open", !.settings = "wt", !.wt = "live",
                                        !.session_ready = TRUE, !.streams = f]
  BY DEF Established
<1> HIDE DEF f
<1> QED BY <1>1, <1>2, <1>3 DEF WtClients, ReadyIsLive, Unended, Blank

\* What a call of the glue other than receive_datagram's may do to the client.
LEMMA GlueCallFacts ==
    ASSUME ~ServerEndsSession, core \in WtClients, ReadyIsLive(core), Unended(core),
           NEW s \in ThreadStates, MethodOf(s), s.pc = "inside", s.call # "receive_datagram",
           NEW out \in GlueCall(s)
    PROVE  /\ out.c \in WtClients /\ ReadyIsLive(out.c) /\ Unended(out.c) /\ DatagramsGrow(core, out.c)
<1> DEFINE Good(d) == d \in WtClients /\ ReadyIsLive(d) /\ Unended(d) /\ DatagramsGrow(core, d)
<1> SUFFICES Good(out.c)
  OBVIOUS
<1>1. ASSUME Evolves(core, out.c) PROVE Good(out.c)
  BY <1>1 DEF Evolves, Unended
<1>2. ASSUME Keeps(core, out) PROVE Good(out.c)
  BY <1>2 DEF Keeps, SameSession, ReadyIsLive, Unended, DatagramsGrow
<1>3. ASSUME NEW d \in WtClients, Calm(core, d) PROVE Good(d)
  BY <1>3 DEF Calm, ReadyIsLive, Unended, DatagramsGrow, QueueKept
<1> HIDE DEF Good
<1>4. CASE s.call = "receive_packet"
  <2>1. out \in ReceivePacket(core, FALSE)
    BY <1>4 DEF GlueCall
  <2> QED BY <1>1, <2>1, ReceivePacketGlue
<1>5. CASE s.call = "handle_timeout"
  <2>1. out \in HandleTimeout(core)
    BY <1>5 DEF GlueCall
  <2> QED BY <1>1, <2>1, HandleTimeoutGlue
<1>6. CASE s.call = "next_send"
  <2>1. out = NextSend(core)
    BY <1>6 DEF GlueCall
  <2> QED BY <1>3, <2>1, NextSendFacts
<1>7. CASE s.call = "next_timeout_ms"
  <2>1. out = NextTimeoutMs(core)
    BY <1>7 DEF GlueCall
  <2> QED BY <1>3, <2>1, NextTimeoutFacts
<1>8. CASE s.call = "is_session_ready"
  <2>1. out \in IsSessionReady(core)
    BY <1>8 DEF GlueCall
  <2> QED BY <1>3, <2>1, IsSessionReadyFacts
<1>9. CASE s.call \in {"send_datagram", "send_oversized"}
  <2>1. out \in SendDatagram(core, FALSE) \/ out \in SendDatagram(core, TRUE)
    BY <1>9 DEF GlueCall
  <2> QED BY <1>2, <2>1, SendDatagramFacts
<1>10. CASE s.call = "open"
  <2>1. \E u \in BOOLEAN : out \in OpenStream(core, u)
    BY <1>10 DEF GlueCall
  <2> QED BY <1>2, <2>1, OpenStreamFacts
<1>11. CASE s.call = "accept"
  <2>1. \E u \in BOOLEAN : out \in AcceptStream(core, u)
    BY <1>11 DEF GlueCall
  <2> QED BY <1>2, <2>1, AcceptStreamFacts
<1>12. s.call \in OnStreamObject => s.obj \in StreamIds
  BY DEF MethodOf
<1>13. CASE s.call = "read"
  <2>1. out \in ReadStream(core, s.obj) /\ s.obj \in StreamIds
    BY <1>12, <1>13 DEF GlueCall, OnStreamObject
  <2> QED BY <1>2, <2>1, ReadStreamFacts
<1>14. CASE s.call \in {"write", "write_fin"}
  <2>1. out \in WriteStream(core, s.obj, FALSE) \/ out \in WriteStream(core, s.obj, TRUE)
    BY <1>14 DEF GlueCall
  <2>2. s.obj \in StreamIds
    BY <1>12, <1>14 DEF OnStreamObject
  <2> QED BY <1>2, <2>1, <2>2, WriteStreamFacts
<1>15. CASE s.call \in {"reset", "stop_sending"}
  <2>1. out \in ResetStream(core, s.obj) \cup StopSending(core, s.obj)
    BY <1>15 DEF GlueCall
  <2>2. s.obj \in StreamIds
    BY <1>12, <1>15 DEF OnStreamObject
  <2> QED BY <1>2, <2>1, <2>2, ControlFacts
<1>16. CASE s.call = "is_open"
  <2>1. out = Out(Deref(core), "OK", 0)
    BY <1>16 DEF GlueCall, Inspect
  <2>2. out.c = Deref(core)
    BY <2>1 DEF Out
  <2> QED BY <1>3, <2>2, DerefFacts
<1>17. s.call \in (OnClient \cup OnStreamObject) \ {"receive_datagram", "last_error"}
  BY DEF ThreadStates, MethodOf
<1> QED BY <1>4, <1>5, <1>6, <1>7, <1>8, <1>9, <1>10, <1>11, <1>13, <1>14, <1>15, <1>16, <1>17
        DEF OnClient, OnStreamObject

\* A datagram that comes does not change the head of a queue that has one.
LEMMA PeekedKept ==
    ASSUME NEW c \in WtClients, NEW d, DatagramsGrow(c, d), NEW s, PeekedIsHead(s, c)
    PROVE  PeekedIsHead(s, d)
<1>1. CASE QueueKept(c, d)
  BY <1>1 DEF QueueKept, PeekedIsHead
<1>2. CASE d.received_datagrams = Append(c.received_datagrams, c.arrived + 1)
  <2> DEFINE q == c.received_datagrams
             x == c.arrived + 1
  <2>1. q \in Seq(1..MaxDatagrams)
    BY DEF WtClients
  <2> HIDE DEF q, x
  <2>2. q # <<>> => Append(q, x) # <<>> /\ Head(Append(q, x)) = Head(q)
    BY <2>1
  <2> QED BY <1>2, <2>2 DEF PeekedIsHead, q, x
<1> QED BY <1>1, <1>2 DEF DatagramsGrow

\* A thread that changes its state keeps the locks it holds, or gives them up.
LEMMA ThreadMoves ==
    ASSUME Inv, NEW t \in Threads, NEW s \in ThreadStates, Set(t, s), MethodOf(s)
    PROVE  /\ thread' \in [Threads -> ThreadStates] /\ thread'[t] = s
           /\ \A u \in Threads : u # t => thread'[u] = thread[u]
           /\ \A u \in Threads : MethodOf(thread'[u])
           /\ s.pc = "idle" \/ (thread[t].pc # "idle" /\ s.obj = thread[t].obj) => ObjectLocks'
<1>1. /\ thread' \in [Threads -> ThreadStates] /\ thread'[t] = s
      /\ \A u \in Threads : u # t => thread'[u] = thread[u]
  BY DEF Inv, TypeOK, Set
<1>2. \A u \in Threads : MethodOf(thread'[u])
  BY <1>1 DEF Inv
<1>3. s.pc = "idle" \/ (thread[t].pc # "idle" /\ s.obj = thread[t].obj) => ObjectLocks'
  BY <1>1 DEF Inv, ObjectLocks
<1> QED BY <1>1, <1>2, <1>3

\* The state of a thread that does nothing.
LEMMA IdleFacts == IdleThread \in ThreadStates /\ MethodOf(IdleThread) /\ IdleThread.pc = "idle"
<1>1. -1 \in -1..MaxDatagrams
  BY BoundsAssumption
<1> QED BY <1>1 DEF IdleThread, ThreadStates, MethodOf, OnClient, OnStreamObject, Objects

\* A step of a thread that leaves the client alone.
LEMMA QuietStep ==
    ASSUME Inv, NEW t \in Threads, NEW s \in ThreadStates, Set(t, s), MethodOf(s), PeekedIsHead(s, core),
           UNCHANGED <<core, got>>, ObjectLocks'
    PROVE  Inv'
<1>1. /\ thread' \in [Threads -> ThreadStates] /\ thread'[t] = s
      /\ \A u \in Threads : u # t => thread'[u] = thread[u]
      /\ \A u \in Threads : MethodOf(thread'[u])
  BY ThreadMoves
<1>2. \A u \in Threads : PeekedIsHead(thread'[u], core')
  BY <1>1 DEF Inv
<1>3. /\ core' \in WtClients /\ got' \in Seq(1..MaxDatagrams) /\ ReadyIsLive(core') /\ Unended(core')
      /\ Ledger(got', core')
  BY DEF Inv, TypeOK
<1> QED BY <1>1, <1>2, <1>3 DEF Inv, TypeOK

\* A method is entered.
LEMMA EnterStep ==
    ASSUME Inv, NEW t \in Threads, NEW call \in OnClient \cup OnStreamObject, NEW obj \in Objects,
           call \in OnClient => obj = Client, call \in OnStreamObject => obj \in StreamIds,
           Enter(t, call, obj)
    PROVE  Inv'
<1> DEFINE s == [pc |-> IF call = "last_error" THEN "throw" ELSE "entered", call |-> call,
                 obj |-> obj, peeked |-> -1]
<1>1. -1 \in -1..MaxDatagrams
  BY BoundsAssumption
<1>2. s \in ThreadStates /\ MethodOf(s) /\ PeekedIsHead(s, core) /\ s.obj = obj
  BY <1>1 DEF ThreadStates, MethodOf, PeekedIsHead
<1>3. Set(t, s) /\ UNCHANGED <<core, got>> /\ \A u \in Threads : thread[u].pc = "idle" \/ thread[u].obj # obj
  BY DEF Enter
<1> HIDE DEF s
<1>4. thread'[t] = s /\ \A u \in Threads : u # t => thread'[u] = thread[u]
  BY <1>2, <1>3, ThreadMoves
<1>5. ObjectLocks'
  BY <1>2, <1>3, <1>4 DEF Inv, ObjectLocks
<1> QED BY <1>2, <1>3, <1>5, QuietStep

\* mutex_ is taken.
LEMMA LockStep ==
    ASSUME Inv, NEW t \in Threads, Lock(t)
    PROVE  Inv'
<1> DEFINE s == [thread[t] EXCEPT !.pc = "inside"]
<1>1. thread[t] \in ThreadStates /\ thread[t].pc = "entered" /\ MethodOf(thread[t]) /\ PeekedIsHead(thread[t], core)
  BY DEF Inv, TypeOK, Lock
<1>2. s \in ThreadStates /\ s.obj = thread[t].obj /\ s.call = thread[t].call /\ s.peeked = thread[t].peeked
      /\ s.pc = "inside"
  BY <1>1 DEF ThreadStates
<1>3. Set(t, s) /\ UNCHANGED <<core, got>>
  BY DEF Lock
<1> HIDE DEF s
<1>4. MethodOf(s) /\ PeekedIsHead(s, core)
  BY <1>1, <1>2 DEF MethodOf, PeekedIsHead
<1>5. ObjectLocks'
  BY <1>1, <1>2, <1>3, <1>4, ThreadMoves
<1> QED BY <1>2, <1>3, <1>4, <1>5, QuietStep

\* A method returns after it has read last_error_.
LEMMA LeaveStep ==
    ASSUME Inv, NEW t \in Threads, Leave(t)
    PROVE  Inv'
<1>1. Set(t, IdleThread) /\ UNCHANGED <<core, got>>
  BY DEF Leave
<1>2. PeekedIsHead(IdleThread, core)
  BY DEF PeekedIsHead, IdleThread
<1>3. ObjectLocks'
  BY <1>1, IdleFacts, ThreadMoves
<1> QED BY <1>1, <1>2, <1>3, IdleFacts, QuietStep

\* The states that a thread may be in after its call of the glue.
LEMMA AfterCall ==
    ASSUME NEW s \in ThreadStates, MethodOf(s), s.pc = "inside", NEW n, NEW val \in -1..MaxDatagrams,
           n \in {[s EXCEPT !.pc = "throw"], [s EXCEPT !.pc = "entered", !.peeked = val], IdleThread}
    PROVE  /\ n \in ThreadStates /\ MethodOf(n) /\ (n.pc = "idle" \/ n.obj = s.obj)
<1>1. CASE n = IdleThread
  BY <1>1, IdleFacts
<1>2. CASE n \in {[s EXCEPT !.pc = "throw"], [s EXCEPT !.pc = "entered", !.peeked = val]}
  <2>1. n \in ThreadStates /\ n.call = s.call /\ n.obj = s.obj /\ n.pc \in {"throw", "entered"}
    BY <1>2 DEF ThreadStates
  <2> QED BY <2>1 DEF MethodOf
<1> QED BY <1>1, <1>2

\* A step that releases mutex_ keeps the invariant, if what it does to the
\* client is consistent with what the threads know.
LEMMA WorkDone ==
    ASSUME Inv, NEW t \in Threads, thread[t].pc = "inside", NEW n \in ThreadStates, Set(t, n), MethodOf(n),
           n.pc = "idle" \/ n.obj = thread[t].obj,
           core' \in WtClients, ReadyIsLive(core'), Unended(core'),
           got' \in Seq(1..MaxDatagrams), Ledger(got', core'), PeekedIsHead(n, core'),
           \A u \in Threads : u # t => PeekedIsHead(thread[u], core')
    PROVE  Inv'
<1>1. /\ thread' \in [Threads -> ThreadStates] /\ thread'[t] = n
      /\ \A u \in Threads : u # t => thread'[u] = thread[u]
      /\ \A u \in Threads : MethodOf(thread'[u])
      /\ ObjectLocks'
  BY ThreadMoves
<1>2. \A u \in Threads : PeekedIsHead(thread'[u], core')
  BY <1>1
<1> QED BY <1>1, <1>2 DEF Inv, TypeOK

\* The glue does its work.
LEMMA UnlockStep ==
    ASSUME ~ServerEndsSession, Inv, NEW t \in Threads, Unlock(t)
    PROVE  Inv'
<1> DEFINE s == thread[t]
           peeking == s.call = "receive_datagram" /\ s.peeked = -1
<1>1. /\ core \in WtClients /\ ReadyIsLive(core) /\ Unended(core) /\ Ledger(got, core)
      /\ got \in Seq(1..MaxDatagrams) /\ core.wt # "freed"
      /\ s \in ThreadStates /\ s.pc = "inside" /\ MethodOf(s) /\ PeekedIsHead(s, core)
      /\ \A u \in Threads : MethodOf(thread[u]) /\ PeekedIsHead(thread[u], core)
  BY DEF Inv, TypeOK, Unlock, Unended
<1>2. PICK out \in GlueCall(s) :
        /\ core' = out.c
        /\ got' = IF s.call = "receive_datagram" /\ ~peeking /\ out.st = "OK" THEN Append(got, out.val) ELSE got
        /\ Set(t, IF Raises(s, out.st) THEN [s EXCEPT !.pc = "throw"]
                  ELSE IF peeking /\ out.st = "OK" THEN [s EXCEPT !.pc = "entered", !.peeked = out.val]
                  ELSE IdleThread)
  BY DEF Unlock
<1> DEFINE n == IF Raises(s, out.st) THEN [s EXCEPT !.pc = "throw"]
                ELSE IF peeking /\ out.st = "OK" THEN [s EXCEPT !.pc = "entered", !.peeked = out.val]
                ELSE IdleThread
<1>3. ~peeking \/ out.st # "OK" =>
        /\ n \in ThreadStates /\ MethodOf(n) /\ (n.pc = "idle" \/ n.obj = s.obj)
        /\ \A c : PeekedIsHead(n, c)
  <2>1. SUFFICES ASSUME ~peeking \/ out.st # "OK"
                 PROVE  /\ n \in ThreadStates /\ MethodOf(n) /\ (n.pc = "idle" \/ n.obj = s.obj)
                        /\ \A c : PeekedIsHead(n, c)
    OBVIOUS
  <2>2. n \in {[s EXCEPT !.pc = "throw"], IdleThread}
    BY <2>1
  <2>3. -1 \in -1..MaxDatagrams
    BY BoundsAssumption
  <2>4. n \in ThreadStates /\ MethodOf(n) /\ (n.pc = "idle" \/ n.obj = s.obj)
    BY <1>1, <2>2, <2>3, AfterCall
  <2>5. n.pc \in {"throw", "idle"}
    BY <1>1, <2>2 DEF ThreadStates, IdleThread
  <2> QED BY <2>4, <2>5 DEF PeekedIsHead
<1>4. Set(t, n)
  BY <1>2
<1> HIDE DEF n
<1>5. CASE s.call # "receive_datagram"
  <2>1. /\ out.c \in WtClients /\ ReadyIsLive(out.c) /\ Unended(out.c) /\ DatagramsGrow(core, out.c)
    BY <1>1, <1>2, <1>5, GlueCallFacts
  <2>2. Ledger(got, out.c)
    BY <1>1, <2>1, LedgerGrows
  <2>3. \A u \in Threads : PeekedIsHead(thread[u], out.c)
    BY <1>1, <2>1, PeekedKept
  <2>4. core' = out.c /\ got' = got
    BY <1>2, <1>5
  <2> QED BY <1>1, <1>3, <1>4, <1>5, <2>1, <2>2, <2>3, <2>4, WorkDone
<1>6. CASE peeking
  <2>1. out \in PeekDatagramSize(core)
    BY <1>2, <1>6 DEF GlueCall
  <2>2. /\ Keeps(core, out) /\ Calm(core, out.c) /\ Answers(core, out, core.received_datagrams # <<>>)
        /\ out.st = "OK" => out.val = Q!SizeOf(Head(core.received_datagrams))
    BY <1>1, <2>1, PeekFacts
  <2>3. /\ out.c \in WtClients /\ ReadyIsLive(out.c) /\ Unended(out.c) /\ Ledger(got, out.c)
        /\ out.c.received_datagrams = core.received_datagrams
    BY <1>1, <2>2, LedgerKept DEF Keeps, Calm, ReadyIsLive, Unended
  <2>4. core' = out.c /\ got' = got
    BY <1>2, <1>6
  <2>5. \A u \in Threads : PeekedIsHead(thread[u], out.c)
    BY <1>1, <2>3 DEF PeekedIsHead
  <2>6. CASE out.st # "OK"
    BY <1>1, <1>3, <1>4, <2>3, <2>4, <2>5, <2>6, WorkDone
  <2>7. CASE out.st = "OK"
    <3> DEFINE q == core.received_datagrams
    <3>1. q # <<>> /\ out.val = Q!SizeOf(Head(q)) /\ q \in Seq(1..MaxDatagrams)
      BY <1>1, <2>2, <2>7 DEF Answers, WtClients
    <3>2. Head(q) \in 1..MaxDatagrams
      BY <3>1, HeadAndTail
    <3>3. out.val \in -1..MaxDatagrams
      BY <3>1, <3>2, BoundsAssumption DEF Q!SizeOf
    <3>4. n = [s EXCEPT !.pc = "entered", !.peeked = out.val]
      BY <1>6, <2>7 DEF n, Raises
    <3>5. n \in ThreadStates /\ MethodOf(n) /\ (n.pc = "idle" \/ n.obj = s.obj)
      BY <1>1, <3>3, <3>4, AfterCall
    <3>6. n.peeked = out.val
      BY <1>1, <3>4 DEF ThreadStates
    <3>7. PeekedIsHead(n, out.c)
      BY <2>3, <3>1, <3>6 DEF PeekedIsHead
    <3> QED BY <1>1, <1>4, <2>3, <2>4, <2>5, <3>5, <3>7, WorkDone
  <2> QED BY <2>6, <2>7
<1>7. CASE s.call = "receive_datagram" /\ s.peeked # -1
  <2> DEFINE q == core.received_datagrams
  <2>1. out \in ReceiveDatagram(core, s.peeked)
    BY <1>2, <1>7 DEF GlueCall
  <2>2. q # <<>> /\ s.peeked = Q!SizeOf(Head(q)) /\ s.peeked \in -1..MaxDatagrams
    BY <1>1, <1>7 DEF PeekedIsHead, ThreadStates
  <2>3. ~(s.peeked < Q!SizeOf(Head(q)))
    <3>1. s.peeked \in Int
      BY <2>2, BoundsAssumption
    <3> QED BY <2>2, <3>1
  <2>4. Takes(core, out)
    BY <1>1, <2>1, <2>3, ReceiveDatagramFacts
  <2>5. out.c \in WtClients /\ SameSession(core, out.c)
    BY <2>4 DEF Takes
  <2>6. ReadyIsLive(out.c) /\ Unended(out.c)
    BY <1>1, <2>5 DEF SameSession, ReadyIsLive, Unended
  <2>7. \A u \in Threads : u # t => \A c : PeekedIsHead(thread[u], c)
    <3>1. SUFFICES ASSUME NEW u \in Threads, u # t, thread[u].call = "receive_datagram",
                          thread[u].pc \in {"entered", "inside"}
                   PROVE  FALSE
      BY DEF PeekedIsHead
    <3>2. thread[u].obj = Client /\ s.obj = Client
      BY <1>1, <1>7, <3>1 DEF MethodOf, OnClient
    <3> QED BY <1>1, <3>1, <3>2 DEF Inv, ObjectLocks
  <2>8. CASE out.st = "OK"
    <3>1. /\ out.val = Head(q) /\ out.c.received_datagrams = Tail(q) /\ out.c.arrived = core.arrived
      BY <1>1, <2>4, <2>5, <2>8 DEF Takes, SameSession
    <3>2. Append(got, out.val) \in Seq(1..MaxDatagrams) /\ Ledger(Append(got, out.val), out.c)
      BY <1>1, <2>2, <3>1, LedgerTaken
    <3>3. core' = out.c /\ got' = Append(got, out.val)
      BY <1>2, <1>7, <2>8
    <3> QED BY <1>1, <1>3, <1>4, <1>7, <2>5, <2>6, <2>7, <3>2, <3>3, WorkDone
  <2>9. CASE out.st # "OK"
    <3>1. Calm(core, out.c)
      BY <2>4, <2>9 DEF Takes
    <3>2. Ledger(got, out.c)
      BY <1>1, <3>1, LedgerKept
    <3>3. core' = out.c /\ got' = got
      BY <1>2, <2>9
    <3> QED BY <1>1, <1>3, <1>4, <1>7, <2>5, <2>6, <2>7, <3>2, <3>3, WorkDone
  <2> QED BY <2>8, <2>9
<1> QED BY <1>5, <1>6, <1>7

-----------------------------------------------------------------------------
\* The threads start with the invariant.
LEMMA InitInv == Init => Inv
<1> SUFFICES ASSUME Init PROVE Inv
  OBVIOUS
<1>1. core = Established /\ got = <<>> /\ thread = [t \in Threads |-> IdleThread]
  BY DEF Init
<1>2. /\ core \in WtClients /\ ReadyIsLive(core) /\ Unended(core) /\ Ledger(got, core)
  BY <1>1, EstablishedFacts, LedgerBlank
<1>3. got \in Seq(1..MaxDatagrams) /\ thread \in [Threads -> ThreadStates]
  BY <1>1, IdleFacts
<1>4. \A t \in Threads : thread[t] = IdleThread
  BY <1>1
<1>5. \A t \in Threads : MethodOf(thread[t]) /\ PeekedIsHead(thread[t], core) /\ thread[t].pc = "idle"
  BY <1>4, IdleFacts DEF PeekedIsHead
<1> QED BY <1>2, <1>3, <1>5 DEF Inv, TypeOK, ObjectLocks

\* Every step keeps it.
LEMMA NextInv ==
    ASSUME ~ServerEndsSession, Inv, [Next]_vars
    PROVE  Inv'
<1>1. ASSUME NEW t \in Threads, NEW call \in OnClient, Enter(t, call, Client) PROVE Inv'
  <2>1. Client \in Objects /\ call \notin OnStreamObject
    BY DEF Objects, OnClient, OnStreamObject
  <2> QED BY <1>1, <2>1, EnterStep
<1>2. ASSUME NEW t \in Threads, NEW call \in OnStreamObject, NEW id \in StreamIds, Enter(t, call, id)
      PROVE  Inv'
  <2>1. id \in Objects /\ call \notin OnClient
    BY DEF Objects, OnClient, OnStreamObject
  <2> QED BY <1>2, <2>1, EnterStep
<1>3. CASE UNCHANGED vars
  BY <1>3 DEF vars, Inv, TypeOK, ObjectLocks
<1> QED BY <1>1, <1>2, <1>3, LockStep, UnlockStep, LeaveStep DEF Next

\* Whatever the threads do, the shared client and their own states stay in
\* their domains: no method answers with a datagram that does not exist.
THEOREM ThreadsTypeCorrect ==
    ASSUME ~ServerEndsSession
    PROVE  Spec => []TypeOK
<1>1. Inv => TypeOK
  BY DEF Inv
<1> QED BY <1>1, InitInv, NextInv, PTL DEF Spec

\* The lock of the client object makes the two calls of receive_datagram one:
\* however many threads receive at the same time, no datagram is lost, none is
\* delivered twice and their order is kept, though the glue drops a datagram
\* that does not fit into the buffer.
THEOREM ThreadsShareDatagrams ==
    ASSUME ~ServerEndsSession
    PROVE  Spec => []DatagramsExactlyOnce
<1>1. Inv => DatagramsExactlyOnce
  BY DEF Inv, DatagramsExactlyOnce, Ledger, Numbers
<1> QED BY <1>1, InitInv, NextInv, PTL DEF Spec
=============================================================================
