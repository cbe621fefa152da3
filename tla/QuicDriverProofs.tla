-------------------------- MODULE QuicDriverProofs --------------------------
(***************************************************************************)
(* Proofs about QuicDriver: a QuicClient called in any order and started   *)
(* any number of times, for all bounds of the glue.                        *)
(***************************************************************************)
EXTENDS QuicDriver, QuicGlueProofs

\* The inductive invariant.  That last_error is true needs that the visitor's
\* session_closed_ is: PopulateClosedErrorIfNeeded turns one into the other.
Inv ==
    /\ TypeOK
    /\ ClosedIsClosed(core) /\ ErrorIsTrue(core)
    /\ Ledger(got, core)

\* What a step of the program may do to the client without a new connection:
\* the errors stay true and a silent end is a call of close().
Sound(d) ==
    /\ d \in Clients /\ ClosedIsClosed(d) /\ ErrorIsTrue(d)
    /\ core.conn = "open" /\ d.conn = "closed" => d.last_error # NoError

\* The invariant, taken apart.
LEMMA InvFacts ==
    ASSUME Inv
    PROVE  /\ core \in Clients /\ ClosedIsClosed(core) /\ ErrorIsTrue(core) /\ Ledger(got, core)
           /\ starts \in 0..MaxStarts /\ handles \in SUBSET StreamIds
           /\ got \in Seq(1..MaxDatagrams)
BY DEF Inv, TypeOK

\* A call of a stream or datagram method is sound and keeps the ledger.
LEMMA CallSound ==
    ASSUME Inv, NEW r, PyKeeps(core, r)
    PROVE  Sound(r.c)
<1>1. r.c.conn = core.conn /\ r.c.session_closed = core.session_closed
  BY DEF PyKeeps, SameSession
<1> QED BY <1>1, InvFacts DEF PyKeeps, Sound, ClosedIsClosed

\* A step that changes the client and leaves what was delivered alone.
LEMMA StepKeepsInv ==
    ASSUME Inv, Sound(core'), Ledger(got, core'), got' = got, starts' = starts,
           handles' \in SUBSET StreamIds
    PROVE  Inv' /\ (core.conn = "open" /\ core'.conn = "closed" => core'.last_error # NoError)
<1>1. Ledger(got', core')
  OBVIOUS
<1>2. TypeOK'
  BY InvFacts DEF TypeOK, Sound
<1>3. ClosedIsClosed(core') /\ ErrorIsTrue(core')
  BY DEF Sound
<1>4. Inv'
  BY <1>1, <1>2, <1>3 DEF Inv
<1> QED BY <1>4 DEF Sound

\* What every step keeps.
Kept ==
    /\ Inv'
    /\ core.conn = "open" /\ core'.conn = "closed" => DoClose \/ core'.last_error # NoError

\* start(): the datagrams and the errors of the old connection are gone.
LEMMA StartKept == ASSUME Inv, DoStart PROVE Kept
<1>1. PICK r \in py_start(core) : core' = r.c
  BY DEF DoStart
<1>2. /\ core' \in Clients /\ ClosedIsClosed(core') /\ ErrorIsTrue(core')
      /\ core.conn = "open" => Calm(core, core')
      /\ core.conn # "open" => Blank(core')
  BY <1>1, InvFacts, StartFacts
<1>3. handles' = handles /\ starts' \in 0..MaxStarts
  <2>1. CASE core.conn = "open"
    BY <2>1, InvFacts DEF DoStart
  <2>2. CASE core.conn # "open"
    BY <2>2, InvFacts, MaxStartsAssumption DEF DoStart
  <2> QED BY <2>1, <2>2
<1>4. got' \in Seq(1..MaxDatagrams) /\ Ledger(got', core')
  <2>1. CASE core.conn = "open"
    <3>1. got' = got
      BY <2>1 DEF DoStart
    <3> QED BY <1>2, <2>1, <3>1, InvFacts, LedgerKept
  <2>2. CASE core.conn # "open"
    <3>1. got' = <<>>
      BY <2>2 DEF DoStart
    <3>2. <<>> \in Seq(1..MaxDatagrams)
      OBVIOUS
    <3> QED BY <1>2, <2>2, <3>1, <3>2, LedgerBlank
  <2> QED BY <2>1, <2>2
<1>5. Inv'
  BY <1>2, <1>3, <1>4, InvFacts DEF Inv, TypeOK
<1>6. core.conn = "open" => core'.conn # "closed"
  BY <1>2 DEF Calm
<1> QED BY <1>5, <1>6 DEF Kept

\* receive_packet and handle_timeout: QUICHE runs.
LEMMA EventKept ==
    ASSUME Inv, NEW empty \in BOOLEAN, DoReceivePacket(empty) \/ DoHandleTimeout
    PROVE  Kept
<1>1. UNCHANGED <<starts, handles, got>>
  BY DEF DoReceivePacket, DoHandleTimeout, Call
<1>2. PICK r \in py_receive_packet(core, empty) \cup py_handle_timeout(core) : core' = r.c
  BY DEF DoReceivePacket, DoHandleTimeout, Call
<1>3. /\ r.c \in Clients /\ Evolves(core, r.c) /\ ErrorIsTrue(r.c)
      /\ core.conn = "open" /\ r.c.conn = "closed" => r.c.last_error # NoError
  <2>1. CASE r \in py_receive_packet(core, empty)
    <3>1. /\ r.c \in Clients /\ Evolves(core, r.c) /\ ErrorIsTrue(r.c)
          /\ r.ret = "value" /\ core.conn # "closed" => (r.c.conn = "closed" => r.c.last_error # NoError)
          /\ r.ret # "value" => Calm(core, r.c)
      BY <2>1, InvFacts, ReceivePacketFacts
    <3> QED BY <3>1 DEF Calm
  <2>2. CASE r \in py_handle_timeout(core)
    BY <2>2, InvFacts, HandleTimeoutFacts
  <2> QED BY <1>2, <2>1, <2>2
<1>4. Sound(core')
  BY <1>2, <1>3, InvFacts DEF Sound, Evolves
<1>5. Ledger(got, core')
  BY <1>2, <1>3, InvFacts, LedgerGrows DEF Evolves
<1> QED BY <1>1, <1>4, <1>5, InvFacts, StepKeepsInv DEF Kept

\* next_send, next_timeout_ms and close().
LEMMA PollKept == ASSUME Inv, DoNextSend \/ DoNextTimeoutMs \/ DoClose PROVE Kept
<1>1. UNCHANGED <<starts, handles, got>>
  BY DEF DoNextSend, DoNextTimeoutMs, DoClose, Call
<1>2. CASE DoNextSend
  <2>1. core' = NextSend(core).c
    BY <1>2 DEF DoNextSend, Call, Returned
  <2>2. core' \in Clients /\ Calm(core, core') /\ core'.last_error = core.last_error
    <3>1. core.send_queue \in Seq({"packet", "close"})
      BY InvFacts DEF Clients
    <3>2. CASE core.send_queue = <<>>
      BY <2>1, <3>2, InvFacts DEF NextSend, Out, Calm
    <3>3. CASE core.send_queue # <<>>
      <4>1. Tail(core.send_queue) \in Seq({"packet", "close"})
        BY <3>1, <3>3, HeadAndTail
      <4> DEFINE q == Tail(core.send_queue)
      <4>2. core' = [core EXCEPT !.send_queue = q]
        BY <2>1, <3>3 DEF NextSend, Out
      <4> HIDE DEF q
      <4> QED BY <4>1, <4>2, InvFacts DEF Clients, Calm, q
    <3> QED BY <3>2, <3>3
  <2>3. Sound(core')
    BY <2>2, InvFacts DEF Sound, Calm, ClosedIsClosed, ErrorIsTrue
  <2> QED BY <1>1, <2>2, <2>3, InvFacts, LedgerKept, StepKeepsInv DEF Kept
<1>3. CASE DoNextTimeoutMs
  <2>1. core' = ResetRuntimeError(core)
    BY <1>3 DEF DoNextTimeoutMs, Call, Returned, NextTimeoutMs, Out
  <2>2. core' \in Clients /\ Calm(core, core') /\ ErrorIsTrue(core')
    BY <2>1, InvFacts, ResetFacts
  <2>3. Sound(core')
    BY <2>2, InvFacts DEF Sound, Calm, ClosedIsClosed
  <2> QED BY <1>1, <2>2, <2>3, InvFacts, LedgerKept, StepKeepsInv DEF Kept
<1>4. CASE DoClose
  <2>1. core' = Close(core)
    BY <1>4 DEF DoClose, Call, Returned, Out
  <2>2. core' \in Clients /\ Evolves(core, core') /\ ErrorIsTrue(core')
    BY <2>1, InvFacts, CloseFacts
  <2>3. Ledger(got', core') /\ ClosedIsClosed(core')
    BY <1>1, <2>2, InvFacts, LedgerGrows DEF Evolves
  <2>4. Inv'
    BY <1>1, <2>2, <2>3, InvFacts DEF Inv, TypeOK
  <2> QED BY <1>4, <2>4 DEF Kept
<1> QED BY <1>2, <1>3, <1>4

\* receive_datagram: the head of the queue is delivered.
LEMMA DeliveryKept == ASSUME Inv, DoReceiveDatagram PROVE Kept
<1>1. PICK r \in py_receive_datagram(core) :
        /\ core' = r.c
        /\ got' = IF r.ret = "value" THEN Append(got, r.val) ELSE got
        /\ UNCHANGED <<starts, handles>>
  BY DEF DoReceiveDatagram
<1>2. PyKeeps(core, r)
  BY InvFacts, ReceiveDatagramKeeps
<1>3. Sound(core')
  BY <1>1, <1>2, CallSound
<1>4. got' \in Seq(1..MaxDatagrams) /\ Ledger(got', core')
  <2>1. CASE r.ret = "value"
    BY <1>1, <2>1, InvFacts, LedgerTaken
  <2>2. CASE r.ret # "value"
    <3>1. got' = got /\ Calm(core, core')
      BY <1>1, <1>2, <2>2 DEF PyKeeps
    <3> QED BY <3>1, InvFacts, LedgerKept
  <2> QED BY <2>1, <2>2
<1>5. Inv'
  BY <1>1, <1>3, <1>4, InvFacts DEF Inv, TypeOK, Sound
<1> QED BY <1>3, <1>5 DEF Kept, Sound

\* A method that only changes the client.
LEMMA CallKept ==
    ASSUME Inv, NEW r, PyKeeps(core, r), QueueKept(core, r.c), core' = r.c, starts' = starts,
           got' = got, handles' \in SUBSET StreamIds
    PROVE  Kept
<1>1. Sound(core')
  BY CallSound
<1>2. Ledger(got, core')
  BY InvFacts, LedgerKept DEF PyKeeps
<1> QED BY <1>1, <1>2, StepKeepsInv DEF Kept

\* send_datagram.
LEMMA SendDatagramKept == ASSUME Inv, NEW oversized \in BOOLEAN, DoSendDatagram(oversized) PROVE Kept
<1>1. PICK r \in py_send_datagram(core, oversized) : core' = r.c
  BY DEF DoSendDatagram, Call
<1>2. PyKeeps(core, r) /\ QueueKept(core, r.c)
  BY InvFacts, SendDatagramKeeps
<1> QED BY <1>1, <1>2, InvFacts, CallKept DEF DoSendDatagram, Call

\* The methods of a stream object, of this connection or of an earlier one.
LEMMA UseStreamKept == ASSUME Inv, NEW id \in StreamIds, UseStream(id) PROVE Kept
<1>1. PICK r \in py_read(core, id) \cup py_write(core, id, FALSE) \cup py_write(core, id, TRUE)
                   \cup py_reset(core, id) \cup py_stop_sending(core, id) : core' = r.c
  BY DEF UseStream, Call
<1>2. PyKeeps(core, r) /\ QueueKept(core, r.c)
  BY <1>1, InvFacts, ReadKeeps, WriteKeeps, ResetStreamKeeps, StopSendingKeeps
<1> QED BY <1>1, <1>2, InvFacts, CallKept DEF UseStream, Call

\* Opening or accepting a stream.
LEMMA GetStreamKept ==
    ASSUME Inv, NEW uni \in BOOLEAN, DoOpenStream(uni) \/ DoAcceptStream(uni)
    PROVE  Kept
<1>1. PICK r \in py_open_stream(core, uni) \cup py_accept_stream(core, uni) :
        /\ core' = r.c
        /\ handles' = IF r.ret = "value" THEN handles \cup {r.val} ELSE handles
        /\ UNCHANGED <<starts, got>>
  BY DEF DoOpenStream, DoAcceptStream, GetStream
<1>2. PyKeeps(core, r) /\ QueueKept(core, r.c) /\ (r.ret = "value" => r.val \in StreamIds)
  BY <1>1, InvFacts, OpenStreamKeeps, AcceptStreamKeeps DEF NextOutgoing, Incoming
<1>3. handles' \in SUBSET StreamIds
  BY <1>1, <1>2, InvFacts
<1> QED BY <1>1, <1>2, <1>3, CallKept

-----------------------------------------------------------------------------
\* Every step keeps the invariant and explains the end of the connection.
LEMMA NextKept == ASSUME Inv, Next PROVE Kept
<1>1. ASSUME NEW empty \in BOOLEAN, DoReceivePacket(empty) PROVE Kept
  BY <1>1, EventKept
<1>2. ASSUME DoHandleTimeout PROVE Kept
  BY <1>2, EventKept
<1> QED
  BY <1>1, <1>2, StartKept, PollKept, DeliveryKept, SendDatagramKept, GetStreamKept, UseStreamKept
  DEF Next

\* The invariant is inductive.
LEMMA InvInductive == Inv /\ [Next]_vars => Inv'
<1> SUFFICES ASSUME Inv, [Next]_vars PROVE Inv'
  OBVIOUS
<1>1. CASE Next
  BY <1>1, NextKept DEF Kept
<1>2. CASE UNCHANGED vars
  BY <1>2 DEF vars, Inv, TypeOK
<1> QED BY <1>1, <1>2

\* A constructed client satisfies it.
LEMMA InitInv == Init => Inv
<1> SUFFICES ASSUME Init PROVE Inv
  OBVIOUS
<1>1. core = FreshClient /\ starts = 0 /\ handles = {} /\ got = <<>>
  BY DEF Init
<1>2. /\ FreshClient.session_closed = FALSE /\ FreshClient.last_error = NoError /\ FreshClient.arrived = 0
      /\ FreshClient.received_datagrams = <<>> /\ ~FreshClient.session_ready
      /\ FreshClient.conn = "none"
  BY DEF FreshClient
<1>3. \A id \in StreamIds : FreshClient.streams[id].phase = "unused"
  BY DEF FreshClient, UnusedStream
<1>4. ClosedIsClosed(core) /\ ErrorIsTrue(core)
  BY <1>1, <1>2 DEF ClosedIsClosed, ErrorIsTrue
<1>5. Ledger(got, core)
  BY <1>1, <1>2, <1>3, LedgerBlank DEF Blank
<1>6. TypeOK
  <2>1. <<>> \in Seq(1..MaxDatagrams) /\ 0 \in 0..MaxStarts
    BY MaxStartsAssumption
  <2> QED BY <1>1, <2>1, FreshClientFacts DEF TypeOK
<1> QED BY <1>4, <1>5, <1>6 DEF Inv

\* The types hold on every connection of a client, for all bounds.
THEOREM DriverTypeCorrect == Spec => []TypeOK
<1>1. Inv => TypeOK
  BY DEF Inv
<1> QED BY <1>1, InitInv, InvInductive, PTL DEF Spec

\* A restarted client delivers the datagrams of its new connection, in order and
\* without those that the program left unread on the old one.
THEOREM RestartSeparatesDatagrams == Spec => []DatagramsOfThisConnection
<1>1. Inv => DatagramsOfThisConnection
  BY DEF Inv, Ledger, Numbers, DatagramsOfThisConnection
<1> QED BY <1>1, InitInv, InvInductive, PTL DEF Spec

\* last_error never speaks of the end of an earlier connection.
THEOREM ErrorsAreOfThisConnection == Spec => []ClosedErrorIsTrue
<1>1. Inv => ClosedErrorIsTrue
  BY DEF Inv, ErrorIsTrue, ClosedErrorIsTrue
<1> QED BY <1>1, InitInv, InvInductive, PTL DEF Spec

\* No connection ends silently, unless by close().
THEOREM NoSilentEnd == Spec => EndIsExplained
<1> DEFINE Explains ==
      core.conn = "open" /\ core'.conn = "closed" => DoClose \/ core'.last_error # NoError
<1>1. Inv /\ [Next]_vars => [Explains]_vars
  BY NextKept DEF Kept
<1> QED BY <1>1, InitInv, InvInductive, PTL DEF Spec, EndIsExplained
=============================================================================
