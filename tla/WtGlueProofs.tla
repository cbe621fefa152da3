---------------------------- MODULE WtGlueProofs ----------------------------
(***************************************************************************)
(* Facts about the methods of WtGlue that the proofs about its users rest  *)
(* on: what each call may do to the connection, to the session and its     *)
(* pointers, to the datagrams and to the streams.  Those that WtGlue takes *)
(* from QuicGlue (Q!...) are looked at on a client that has a session.     *)
(***************************************************************************)
EXTENDS WtGlue, TLAPS

\* d is the client c but for its error, its queue of packets and, if the
\* pointers of c are freed, the record that they were used.
Calm(c, d) ==
    /\ d.conn = c.conn /\ d.settings = c.settings /\ d.wt = c.wt /\ d.close_sent = c.close_sent
    /\ d.session_ready = c.session_ready /\ d.session_closed = c.session_closed
    /\ d.received_datagrams = c.received_datagrams /\ d.arrived = c.arrived
    /\ d.credit = c.credit /\ d.dgroom = c.dgroom /\ d.streams = c.streams
    /\ d.dangling => c.dangling \/ c.wt = "freed"

\* The connection, the session and the count of datagrams are those of c.
SameSession(c, d) ==
    /\ d.conn = c.conn /\ d.settings = c.settings /\ d.wt = c.wt /\ d.close_sent = c.close_sent
    /\ d.session_ready = c.session_ready /\ d.session_closed = c.session_closed
    /\ d.arrived = c.arrived /\ (d.dangling => c.dangling \/ c.wt = "freed")

\* The queue of received datagrams is that of c.
QueueKept(c, d) == d.received_datagrams = c.received_datagrams

\* What waits to be sent is what waited in c, or a packet more.
Sends(c, d) == d.send_queue \in {c.send_queue, Append(c.send_queue, "packet")}

\* A stream that was opened or accepted is never forgotten.
HandlesKept(c, d) ==
    \A id \in StreamIds :
        c.streams[id].phase \in {"open", "gone"} => d.streams[id].phase \in {"open", "gone"}

\* At most one datagram has come, and it is at the end of the queue.
DatagramsGrow(c, d) ==
    \/ d.arrived = c.arrived /\ QueueKept(c, d)
    \/ /\ d.arrived = c.arrived + 1
       /\ d.received_datagrams = Append(c.received_datagrams, c.arrived + 1)

\* A session that is ready is there, on a connection that is open.
ReadyIsLive(c) == c.session_ready => c.conn = "open" /\ c.wt = "live"

\* Neither side has closed the session, and the pointers to it are good.
Unended(c) == c.wt \in {"null", "live"} /\ ~c.close_sent /\ ~c.dangling

\* Nothing has come and no stream was used.
Blank(c) ==
    /\ c.arrived = 0 /\ c.received_datagrams = <<>> /\ c.wt = "null" /\ ~c.session_ready
    /\ \A id \in StreamIds : c.streams[id].phase = "unused"

\* What QUICHE may do to a client in one call: it leaves one without a connection
\* alone, drops the datagrams only with the session and uses no freed pointer
\* but the ones it freed.
Evolves(c, d) ==
    /\ d \in WtClients /\ ReadyIsLive(d) /\ HandlesKept(c, d)
    /\ c.wt = "freed" => d.wt = "freed"
    /\ d.wt # "freed" => DatagramsGrow(c, d)
    /\ c.conn \in {"none", "failed"} => Calm(c, d) /\ d.send_queue = c.send_queue
    /\ d.conn = "none" => c.conn = "none"
    /\ c.conn = "failed" <=> d.conn = "failed"
    /\ d.close_sent = c.close_sent /\ (d.dangling => c.dangling \/ d.wt = "freed")
    /\ ~ServerEndsSession /\ Unended(c) => Unended(d)

-----------------------------------------------------------------------------
\* Calm is transitive, and reflexive.
LEMMA CalmTransitive ==
    ASSUME NEW c, NEW d, NEW e, Calm(c, d), Calm(d, e)
    PROVE  Calm(c, e)
BY DEF Calm

\* SetError touches nothing but last_error.
LEMMA SetErrorFacts ==
    ASSUME NEW c \in WtClients, NEW e \in Errors
    PROVE  /\ Q!SetError(c, e) \in WtClients /\ Q!SetError(c, e).send_queue = c.send_queue
           /\ Q!SetError(c, e).last_error = e /\ Calm(c, Q!SetError(c, e))
BY DEF Q!SetError, WtClients, Calm

\* ResetRuntimeError leaves a client without an error.
LEMMA ResetFacts ==
    ASSUME NEW c \in WtClients
    PROVE  /\ Q!ResetRuntimeError(c) \in WtClients
           /\ Q!ResetRuntimeError(c).send_queue = c.send_queue
           /\ Q!ResetRuntimeError(c).last_error = Q!NoError /\ Calm(c, Q!ResetRuntimeError(c))
<1>1. Q!NoError \in Errors
  BY DEF Errors
<1> QED BY <1>1, SetErrorFacts DEF Q!ResetRuntimeError

\* SetErrorIfEmpty leaves an error behind.
LEMMA SetErrorIfEmptyFacts ==
    ASSUME NEW c \in WtClients, NEW e \in Errors, e # Q!NoError
    PROVE  /\ Q!SetErrorIfEmpty(c, e) \in WtClients
           /\ Q!SetErrorIfEmpty(c, e).send_queue = c.send_queue
           /\ Q!SetErrorIfEmpty(c, e).last_error # Q!NoError /\ Calm(c, Q!SetErrorIfEmpty(c, e))
BY SetErrorFacts DEF Q!SetErrorIfEmpty, Calm

\* PopulateClosedErrorIfNeeded changes at most last_error.
LEMMA PopulateFacts ==
    ASSUME NEW c \in WtClients
    PROVE  /\ Q!PopulateClosedErrorIfNeeded(c) \in WtClients
           /\ Q!PopulateClosedErrorIfNeeded(c).send_queue = c.send_queue
           /\ Calm(c, Q!PopulateClosedErrorIfNeeded(c))
<1>1. "session closed" \in Errors /\ "session closed" # Q!NoError
  BY DEF Errors, Q!NoError
<1>2. CASE c.session_closed
  BY <1>1, <1>2, SetErrorIfEmptyFacts DEF Q!PopulateClosedErrorIfNeeded
<1>3. CASE ~c.session_closed
  BY <1>3 DEF Q!PopulateClosedErrorIfNeeded, Calm
<1> QED BY <1>2, <1>3

\* Using the pointers changes nothing but the record of it.
LEMMA DerefFacts ==
    ASSUME NEW c \in WtClients
    PROVE  /\ Deref(c) \in WtClients /\ Deref(c).send_queue = c.send_queue
           /\ Deref(c).last_error = c.last_error /\ Calm(c, Deref(c))
<1> DEFINE b == c.dangling \/ c.wt = "freed"
<1>1. b \in BOOLEAN
  BY DEF WtClients
<1>2. Deref(c) = [c EXCEPT !.dangling = b]
  BY DEF Deref
<1>3. b => c.dangling \/ c.wt = "freed"
  OBVIOUS
<1> HIDE DEF b
<1>4. [c EXCEPT !.dangling = b].dangling = b
  BY DEF WtClients
<1> QED BY <1>1, <1>2, <1>3, <1>4 DEF WtClients, Calm

\* What follows QUICHE's work records an error, if the connection has ended.
LEMMA AfterQuicheFacts ==
    ASSUME NEW c \in WtClients
    PROVE  /\ AfterQuiche(c).c \in WtClients /\ AfterQuiche(c).c.send_queue = c.send_queue
           /\ Calm(c, AfterQuiche(c).c) /\ AfterQuiche(c).st \in {"OK", "CLOSED"}
           /\ c.conn # "open" => AfterQuiche(c).c.last_error # Q!NoError
           /\ AfterQuiche(c) = Out(AfterQuiche(c).c, AfterQuiche(c).st, AfterQuiche(c).val)
<1>1. "connection closed" \in Errors /\ "connection closed" # Q!NoError
  BY DEF Errors, Q!NoError
<1>2. CASE c.conn = "open"
  BY <1>2 DEF AfterQuiche, IsConnected, Q!AfterQuiche, Q!Out, Out, Calm
<1>3. CASE c.conn # "open"
  <2> DEFINE b == Deref(c)
             d == Q!PopulateClosedErrorIfNeeded(b)
             e == Q!SetErrorIfEmpty(d, "connection closed")
  <2>1. b \in WtClients /\ Calm(c, b) /\ b.send_queue = c.send_queue
    BY DerefFacts
  <2> HIDE DEF b
  <2>2. d \in WtClients /\ Calm(b, d) /\ d.send_queue = b.send_queue
    BY <2>1, PopulateFacts
  <2> HIDE DEF d
  <2>3. e \in WtClients /\ Calm(d, e) /\ e.send_queue = d.send_queue /\ e.last_error # Q!NoError
    BY <1>1, <2>2, SetErrorIfEmptyFacts
  <2> HIDE DEF e
  <2>4. AfterQuiche(c) = Q!Out(e, "CLOSED", 0)
    <3>1. b.conn # "open"
      BY <1>3, <2>1 DEF Calm
    <3> QED BY <1>3, <3>1 DEF AfterQuiche, IsConnected, Q!AfterQuiche, e, d, b
  <2>5. Calm(c, e)
    BY <2>1, <2>2, <2>3, CalmTransitive
  <2> QED BY <2>1, <2>2, <2>3, <2>4, <2>5 DEF Q!Out, Out
<1> QED BY <1>2, <1>3

-----------------------------------------------------------------------------
(* What QUICHE does.                                                       *)

\* Queueing a packet touches nothing but the send queue.
LEMMA WritePacketFacts ==
    ASSUME NEW c \in WtClients, NEW k \in {"packet", "close"}
    PROVE  /\ Q!WritePacket(c, k) \in WtClients /\ Calm(c, Q!WritePacket(c, k))
           /\ Q!WritePacket(c, k).last_error = c.last_error
           /\ Q!WritePacket(c, k).send_queue = Append(c.send_queue, k)
<1> DEFINE q == Append(c.send_queue, k)
<1>1. q \in Seq({"packet", "close"})
  BY DEF WtClients
<1> HIDE DEF q
<1>2. /\ [c EXCEPT !.send_queue = q] \in WtClients /\ Calm(c, [c EXCEPT !.send_queue = q])
      /\ [c EXCEPT !.send_queue = q].last_error = c.last_error
      /\ [c EXCEPT !.send_queue = q].send_queue = q
  BY <1>1 DEF WtClients, Calm
<1> QED BY <1>2 DEF Q!WritePacket, q

\* So does QUICHE's choice to send or not.
LEMMA MaySendFacts ==
    ASSUME NEW c \in WtClients, NEW d \in Q!MaySend(c)
    PROVE  d \in WtClients /\ d.last_error = c.last_error /\ Calm(c, d) /\ Sends(c, d)
<1>1. CASE d = c
  BY <1>1 DEF Calm, Sends
<1>2. CASE d = Q!WritePacket(c, "packet")
  BY <1>2, WritePacketFacts DEF Sends
<1> QED BY <1>1, <1>2 DEF Q!MaySend

\* Settling a stream forgets no handle.
LEMMA SettleFacts ==
    ASSUME NEW s \in Q!StreamStates
    PROVE  /\ Q!Settle(s) \in Q!StreamStates /\ Q!Settle(s).phase \in {s.phase, "gone"}
           /\ Q!Settle(s).phase # "gone" => Q!Settle(s) = s
<1>1. 0 \in 0..MaxChunks
  BY BoundsAssumption
<1> QED BY <1>1 DEF Q!Settle, Q!StreamStates

\* Changing one stream keeps the client a client of the same session.
LEMMA SetStreamFacts ==
    ASSUME NEW c \in WtClients, NEW id \in StreamIds, NEW s \in Q!StreamStates
    PROVE  /\ Q!SetStream(c, id, s) \in WtClients /\ Q!SetStream(c, id, s).last_error = c.last_error
           /\ Q!SetStream(c, id, s).send_queue = c.send_queue
           /\ SameSession(c, Q!SetStream(c, id, s)) /\ QueueKept(c, Q!SetStream(c, id, s))
           /\ Q!SetStream(c, id, s).credit = c.credit /\ Q!SetStream(c, id, s).dgroom = c.dgroom
           /\ Q!SetStream(c, id, s).streams = [c.streams EXCEPT ![id] = Q!Settle(s)]
           /\ (c.streams[id].phase \in {"open", "gone"} => s.phase \in {"open", "gone"})
                => HandlesKept(c, Q!SetStream(c, id, s))
<1> DEFINE f == [c.streams EXCEPT ![id] = Q!Settle(s)]
           d == [c EXCEPT !.streams = f]
<1>1. f \in [StreamIds -> Q!StreamStates] /\ f[id] = Q!Settle(s)
      /\ \A i \in StreamIds : i # id => f[i] = c.streams[i]
  BY SettleFacts DEF WtClients
<1>2. Q!SetStream(c, id, s) = d
  BY DEF Q!SetStream
<1> HIDE DEF f
<1>3. /\ d \in WtClients /\ d.last_error = c.last_error /\ d.streams = f /\ d.send_queue = c.send_queue
      /\ SameSession(c, d) /\ QueueKept(c, d) /\ d.credit = c.credit /\ d.dgroom = c.dgroom
  BY <1>1 DEF WtClients, SameSession, QueueKept
<1> HIDE DEF d
<1>4. (c.streams[id].phase \in {"open", "gone"} => s.phase \in {"open", "gone"}) => HandlesKept(c, d)
  BY <1>1, <1>3, SettleFacts DEF HandlesKept
<1> QED BY <1>2, <1>3, <1>4 DEF f

\* The stream of an id, in a client.
LEMMA StreamOf ==
    ASSUME NEW c \in WtClients, NEW id \in StreamIds
    PROVE  c.streams[id] \in Q!StreamStates
BY DEF WtClients

\* What a frame of a packet does, or the clean-up of closed streams: the
\* connection goes on.
Frame(c, d) ==
    /\ d \in WtClients /\ d.conn = c.conn /\ d.last_error = c.last_error /\ HandlesKept(c, d)
    /\ ReadyIsLive(c) => ReadyIsLive(d)
    /\ c.wt = "freed" => d.wt = "freed"
    /\ d.wt # "freed" => DatagramsGrow(c, d)
    /\ d.close_sent = c.close_sent /\ (d.dangling => c.dangling \/ d.wt = "freed")
    /\ ~ServerEndsSession /\ Unended(c) => Unended(d)

\* A frame that leaves the session alone.
LEMMA OtherFrame ==
    ASSUME NEW c, NEW d \in WtClients, SameSession(c, d), d.last_error = c.last_error,
           QueueKept(c, d), HandlesKept(c, d)
    PROVE  Frame(c, d)
BY DEF Frame, SameSession, ReadyIsLive, DatagramsGrow, Unended

\* No frame at all.
LEMMA SelfFrame ==
    ASSUME NEW c \in WtClients
    PROVE  Frame(c, c)
BY DEF Frame, HandlesKept, DatagramsGrow, QueueKept

\* The SETTINGS come.
LEMMA SettingsFacts ==
    ASSUME NEW c \in WtClients, NEW d \in SettingsReceived(c)
    PROVE  Frame(c, d)
<1> DEFINE S(w, f) == [c EXCEPT !.settings = w, !.credit = f]
           T(w) == {S(w, f) : f \in [BOOLEAN -> 0..MaxCredit]}
<1>1. c.settings = "none" /\ d \in UNION {T(w) : w \in {"wt", "nowt"}}
  BY DEF SettingsReceived
<1> HIDE DEF T
<1>2. PICK w \in {"wt", "nowt"} : d \in T(w)
  BY <1>1
<1> HIDE DEF S
<1>3. PICK f \in [BOOLEAN -> 0..MaxCredit] : d = S(w, f)
  BY <1>2 DEF T
<1>4. d = [c EXCEPT !.settings = w, !.credit = f]
  BY <1>3 DEF S
<1>5. /\ d \in WtClients /\ d.conn = c.conn /\ d.last_error = c.last_error /\ d.streams = c.streams
      /\ d.arrived = c.arrived /\ d.received_datagrams = c.received_datagrams /\ d.wt = c.wt
      /\ d.close_sent = c.close_sent /\ d.dangling = c.dangling /\ d.session_ready = c.session_ready
  BY <1>4 DEF WtClients
<1> QED BY <1>5 DEF Frame, HandlesKept, ReadyIsLive, DatagramsGrow, QueueKept, Unended

\* The session is ready.
LEMMA OnSessionReadyFacts ==
    ASSUME NEW c \in WtClients, c.conn = "open", NEW d \in OnSessionReady(c)
    PROVE  Frame(c, d)
<1>1. c.wt = "live" /\ d = [c EXCEPT !.session_ready = TRUE]
  BY DEF OnSessionReady
<1>2. /\ d \in WtClients /\ d.conn = c.conn /\ d.last_error = c.last_error /\ d.streams = c.streams
      /\ d.arrived = c.arrived /\ d.received_datagrams = c.received_datagrams /\ d.wt = c.wt
      /\ d.close_sent = c.close_sent /\ d.dangling = c.dangling
  BY <1>1 DEF WtClients
<1> QED BY <1>1, <1>2 DEF Frame, HandlesKept, ReadyIsLive, DatagramsGrow, QueueKept, Unended

\* The session is closed: only a server that ends sessions does it to a client
\* that has not closed it.
LEMMA OnSessionClosedFacts ==
    ASSUME NEW c \in WtClients, NEW d \in OnSessionClosed(c)
    PROVE  Frame(c, d)
<1> DEFINE closed == [c EXCEPT !.session_ready = FALSE, !.session_closed = TRUE]
<1>1. /\ ServerEndsSession \/ c.close_sent
      /\ c.wt = "live" /\ (d = closed \/ d = [closed EXCEPT !.wt = "ended"])
  BY DEF OnSessionClosed
<1>2. /\ d \in WtClients /\ d.conn = c.conn /\ d.last_error = c.last_error /\ d.streams = c.streams
      /\ d.arrived = c.arrived /\ d.received_datagrams = c.received_datagrams /\ d.session_ready = FALSE
      /\ d.close_sent = c.close_sent /\ d.dangling = c.dangling
  BY <1>1 DEF WtClients
<1> HIDE DEF closed
<1>3. c.wt # "freed" /\ ~(~ServerEndsSession /\ Unended(c))
  BY <1>1 DEF Unended
<1> QED BY <1>2, <1>3 DEF Frame, HandlesKept, ReadyIsLive, DatagramsGrow, QueueKept

\* A datagram is appended to the queue of received ones.
LEMMA OnDatagramReceivedFacts ==
    ASSUME NEW c \in WtClients, NEW d \in OnDatagramReceived(c)
    PROVE  Frame(c, d)
<1>1. c.arrived \in Nat /\ c.arrived < MaxDatagrams
      /\ d = [c EXCEPT !.received_datagrams = Append(@, c.arrived + 1), !.arrived = @ + 1]
  BY BoundsAssumption DEF OnDatagramReceived, WtClients
<1> DEFINE q == Append(c.received_datagrams, c.arrived + 1)
<1>2. c.arrived + 1 \in 0..MaxDatagrams /\ c.arrived + 1 \in 1..MaxDatagrams
  BY <1>1, BoundsAssumption
<1>3. q \in Seq(1..MaxDatagrams)
  BY <1>2 DEF WtClients
<1>4. d = [c EXCEPT !.received_datagrams = q, !.arrived = c.arrived + 1]
  BY <1>1
<1> HIDE DEF q
<1>5. /\ d \in WtClients /\ d.conn = c.conn /\ d.last_error = c.last_error /\ d.streams = c.streams
      /\ d.received_datagrams = q /\ d.arrived = c.arrived + 1 /\ d.wt = c.wt
      /\ d.close_sent = c.close_sent /\ d.dangling = c.dangling /\ d.session_ready = c.session_ready
  BY <1>2, <1>3, <1>4 DEF WtClients
<1> QED BY <1>5 DEF Frame, HandlesKept, ReadyIsLive, DatagramsGrow, Unended, q

\* What the peer does to a stream.
LEMMA PeerStreamFacts ==
    ASSUME NEW c \in WtClients, NEW d \in Q!PeerStreamFrames(c)
    PROVE  Frame(c, d)
<1>1. PICK id \in StreamIds :
        \/ /\ c.streams[id].phase = "unused"
           /\ d = Q!SetStream(c, id, [c.streams[id] EXCEPT !.phase = "pending"])
        \/ c.streams[id].buf < MaxChunks /\ d = Q!SetStream(c, id, [c.streams[id] EXCEPT !.buf = @ + 1])
        \/ d = Q!SetStream(c, id, [c.streams[id] EXCEPT !.fin = TRUE])
        \/ d = Q!SetStream(c, id, [c.streams[id] EXCEPT !.rclosed = TRUE, !.buf = 0])
        \/ d = Q!SetStream(c, id, [c.streams[id] EXCEPT !.wclosed = TRUE])
  BY DEF Q!PeerStreamFrames, Q!Active
<1> DEFINE s == c.streams[id]
<1>2. s \in Q!StreamStates
  BY StreamOf
<1> HIDE DEF s
<1>3. 0 \in 0..MaxChunks
  BY BoundsAssumption
<1>4. s.buf < MaxChunks => s.buf + 1 \in 0..MaxChunks
  BY <1>2, BoundsAssumption DEF Q!StreamStates
<1>5. PICK t \in Q!StreamStates : d = Q!SetStream(c, id, t) /\ (s.phase # "unused" => t.phase = s.phase)
  <2>1. /\ [s EXCEPT !.phase = "pending"] \in Q!StreamStates
        /\ s.buf < MaxChunks => [s EXCEPT !.buf = @ + 1] \in Q!StreamStates
        /\ [s EXCEPT !.fin = TRUE] \in Q!StreamStates
        /\ [s EXCEPT !.rclosed = TRUE, !.buf = 0] \in Q!StreamStates
        /\ [s EXCEPT !.wclosed = TRUE] \in Q!StreamStates
    BY <1>2, <1>3, <1>4 DEF Q!StreamStates
  <2>2. /\ [s EXCEPT !.buf = @ + 1].phase = s.phase /\ [s EXCEPT !.fin = TRUE].phase = s.phase
        /\ [s EXCEPT !.rclosed = TRUE, !.buf = 0].phase = s.phase
        /\ [s EXCEPT !.wclosed = TRUE].phase = s.phase
    BY <1>2 DEF Q!StreamStates
  <2> QED BY <1>1, <2>1, <2>2 DEF s
<1>6. s.phase \in {"open", "gone"} => t.phase \in {"open", "gone"}
  BY <1>5
<1>7. d \in WtClients /\ d.last_error = c.last_error /\ SameSession(c, d) /\ QueueKept(c, d) /\ HandlesKept(c, d)
  BY <1>5, <1>6, SetStreamFacts DEF s
<1> QED BY <1>7, OtherFrame

\* What the peer gives: credit and room.
LEMMA PeerCreditFacts ==
    ASSUME NEW c \in WtClients, NEW d \in PeerCreditFrames(c)
    PROVE  Frame(c, d)
<1>1. \/ \E u \in BOOLEAN : c.credit[u] < MaxCredit /\ d = [c EXCEPT !.credit[u] = @ + 1]
      \/ d = [c EXCEPT !.dgroom = MaxRoom]
      \/ \E id \in StreamIds : d = [c EXCEPT !.streams[id].room = MaxRoom]
  BY DEF PeerCreditFrames, Q!PeerCreditFrames, Q!Active
<1>2. MaxRoom \in 0..MaxRoom
  BY BoundsAssumption
<1> DEFINE Rest(e) == /\ e \in WtClients /\ SameSession(c, e) /\ QueueKept(c, e)
                      /\ e.last_error = c.last_error
<1>3. ASSUME NEW u \in BOOLEAN, c.credit[u] < MaxCredit, d = [c EXCEPT !.credit[u] = @ + 1]
      PROVE  Rest(d) /\ d.streams = c.streams
  <2> DEFINE f == [c.credit EXCEPT ![u] = @ + 1]
  <2>1. c.credit \in [BOOLEAN -> 0..MaxCredit] /\ c.credit[u] \in 0..MaxCredit
    BY DEF WtClients
  <2>2. c.credit[u] + 1 \in 0..MaxCredit
    BY <1>3, <2>1, BoundsAssumption
  <2>3. f \in [BOOLEAN -> 0..MaxCredit]
    BY <2>1, <2>2
  <2>4. d = [c EXCEPT !.credit = f]
    BY <1>3
  <2> HIDE DEF f
  <2> QED BY <2>3, <2>4 DEF WtClients, SameSession, QueueKept
<1>4. ASSUME d = [c EXCEPT !.dgroom = MaxRoom]
      PROVE  Rest(d) /\ d.streams = c.streams
  BY <1>2, <1>4 DEF WtClients, SameSession, QueueKept
<1>5. ASSUME NEW id \in StreamIds, d = [c EXCEPT !.streams[id].room = MaxRoom]
      PROVE  Rest(d) /\ \A i \in StreamIds : d.streams[i].phase = c.streams[i].phase
  <2> DEFINE f == [c.streams EXCEPT ![id] = [c.streams[id] EXCEPT !.room = MaxRoom]]
  <2>1. c.streams[id] \in Q!StreamStates /\ c.streams \in [StreamIds -> Q!StreamStates]
    BY DEF WtClients
  <2>2. [c.streams[id] EXCEPT !.room = MaxRoom] \in Q!StreamStates
        /\ [c.streams[id] EXCEPT !.room = MaxRoom].phase = c.streams[id].phase
    BY <1>2, <2>1 DEF Q!StreamStates
  <2>3. f \in [StreamIds -> Q!StreamStates] /\ \A i \in StreamIds : f[i].phase = c.streams[i].phase
    BY <2>1, <2>2
  <2>4. d = [c EXCEPT !.streams = f]
    BY <1>5, <2>1 DEF WtClients
  <2> HIDE DEF f
  <2> QED BY <2>3, <2>4 DEF WtClients, SameSession, QueueKept
<1>6. Rest(d) /\ HandlesKept(c, d)
  BY <1>1, <1>3, <1>4, <1>5 DEF HandlesKept
<1> QED BY <1>6, OtherFrame

\* The clean-up frees a closed CONNECT stream and what it owns.
LEMMA CleanUpFacts ==
    ASSUME NEW c \in WtClients
    PROVE  Frame(c, CleanUpClosedStreams(c))
<1>1. CASE c.wt # "ended"
  BY <1>1, SelfFrame DEF CleanUpClosedStreams
<1>2. CASE c.wt = "ended"
  <2> DEFINE d == CleanUpClosedStreams(c)
  <2>1. /\ d \in WtClients /\ d.conn = c.conn /\ d.last_error = c.last_error /\ d.streams = c.streams
        /\ d.wt = "freed" /\ d.session_ready = c.session_ready /\ d.close_sent = c.close_sent
    <3>1. d = [c EXCEPT !.wt = "freed", !.received_datagrams = <<>>]
      BY <1>2 DEF CleanUpClosedStreams
    <3>2. <<>> \in Seq(1..MaxDatagrams)
      OBVIOUS
    <3> DEFINE q == <<>>
    <3>3. d = [c EXCEPT !.wt = "freed", !.received_datagrams = q] /\ q \in Seq(1..MaxDatagrams)
      BY <3>1, <3>2
    <3> HIDE DEF q, d
    <3> QED BY <3>3 DEF WtClients
  <2> QED BY <1>2, <2>1 DEF Frame, HandlesKept, ReadyIsLive, Unended
<1> QED BY <1>1, <1>2

\* A client whose connection ended keeps its pointers, its streams and its
\* datagrams.
LEMMA ConnectionEndsFacts ==
    ASSUME NEW c \in WtClients, NEW d \in ConnectionEnds(c)
    PROVE  /\ d \in WtClients /\ d.conn = "closed" /\ d.last_error = c.last_error /\ ~d.session_ready
           /\ d.wt = c.wt /\ d.close_sent = c.close_sent /\ (d.dangling => c.dangling \/ c.wt = "freed")
           /\ d.arrived = c.arrived /\ QueueKept(c, d) /\ d.streams = c.streams
<1> DEFINE b == c.session_closed \/ c.wt = "live"
           e == [c EXCEPT !.conn = "closed", !.session_ready = FALSE, !.session_closed = b]
<1>1. b \in BOOLEAN
  BY DEF WtClients
<1>2. d \in {e, Q!WritePacket(e, "close")}
  BY DEF ConnectionEnds
<1> HIDE DEF b
<1>3. /\ e \in WtClients /\ e.conn = "closed" /\ e.last_error = c.last_error /\ ~e.session_ready
      /\ e.wt = c.wt /\ e.close_sent = c.close_sent /\ e.dangling = c.dangling
      /\ e.arrived = c.arrived /\ QueueKept(c, e) /\ e.streams = c.streams
  BY <1>1 DEF WtClients, QueueKept
<1> HIDE DEF e
<1>4. Q!WritePacket(e, "close") \in WtClients /\ Calm(e, Q!WritePacket(e, "close"))
      /\ Q!WritePacket(e, "close").last_error = e.last_error
  BY <1>3, WritePacketFacts
<1> QED BY <1>2, <1>3, <1>4 DEF Calm, QueueKept

\* QUICHE may send, or end the connection, after a frame.
LEMMA FrameEvolves ==
    ASSUME NEW c \in WtClients, c.conn = "open", ReadyIsLive(c), NEW d, Frame(c, d),
           NEW e \in Q!MaySend(d) \cup ConnectionEnds(d)
    PROVE  Evolves(c, e) /\ e.last_error = c.last_error
<1>1. d \in WtClients
  BY DEF Frame
<1>2. CASE e \in Q!MaySend(d)
  <2>1. e \in WtClients /\ Calm(d, e) /\ e.last_error = d.last_error
    BY <1>1, <1>2, MaySendFacts
  <2> QED BY <2>1 DEF Evolves, Frame, Calm, HandlesKept, DatagramsGrow, QueueKept, ReadyIsLive, Unended
<1>3. CASE e \in ConnectionEnds(d)
  <2>1. /\ e \in WtClients /\ e.conn = "closed" /\ e.last_error = d.last_error /\ ~e.session_ready
        /\ e.wt = d.wt /\ e.close_sent = d.close_sent /\ (e.dangling => d.dangling \/ d.wt = "freed")
        /\ e.arrived = d.arrived /\ QueueKept(d, e) /\ e.streams = d.streams
    BY <1>1, <1>3, ConnectionEndsFacts
  <2> QED BY <2>1 DEF Evolves, Frame, HandlesKept, DatagramsGrow, QueueKept, ReadyIsLive, Unended
<1> QED BY <1>2, <1>3

\* A client that nothing happened to.
LEMMA SelfEvolves ==
    ASSUME NEW c \in WtClients, ReadyIsLive(c)
    PROVE  Evolves(c, c)
BY DEF Evolves, Calm, HandlesKept, DatagramsGrow, QueueKept

\* A packet; on a connection that is not open it does nothing.
LEMMA ProcessUdpPacketFacts ==
    ASSUME NEW c \in WtClients, ReadyIsLive(c), NEW d \in ProcessUdpPacket(c)
    PROVE  Evolves(c, d) /\ d.last_error = c.last_error
<1>1. CASE c.conn # "open"
  BY <1>1, SelfEvolves DEF ProcessUdpPacket
<1>2. CASE c.conn = "open"
  <2>1. PICK e \in {c} \cup SettingsReceived(c) \cup PeerCreditFrames(c) \cup OnSessionReady(c)
                     \cup OnSessionClosed(c) \cup OnDatagramReceived(c) \cup Q!PeerStreamFrames(c) :
          d \in Q!MaySend(e) \cup ConnectionEnds(e)
    BY <1>2 DEF ProcessUdpPacket
  <2>2. Frame(c, e)
    BY <1>2, SelfFrame, SettingsFacts, PeerCreditFacts, OnSessionReadyFacts, OnSessionClosedFacts,
       OnDatagramReceivedFacts, PeerStreamFacts
  <2> QED BY <1>2, <2>1, <2>2, FrameEvolves
<1> QED BY <1>1, <1>2

\* Running the alarms.
LEMMA ProcessAlarmsFacts ==
    ASSUME NEW c \in WtClients, ReadyIsLive(c), NEW d \in ProcessAlarms(c)
    PROVE  Evolves(c, d) /\ d.last_error = c.last_error
<1>1. CASE c.conn # "open"
  BY <1>1, SelfEvolves DEF ProcessAlarms, Q!HasAlarm
<1>2. CASE c.conn = "open"
  <2> DEFINE e == CleanUpClosedStreams(c)
  <2>1. Frame(c, e)
    BY CleanUpFacts
  <2>2. d \in Q!MaySend(e) \cup ConnectionEnds(e)
    BY <1>2 DEF ProcessAlarms, Q!HasAlarm
  <2> HIDE DEF e
  <2> QED BY <1>2, <2>1, <2>2, FrameEvolves
<1> QED BY <1>1, <1>2

-----------------------------------------------------------------------------
(* The methods that drive the connection.                                  *)

\* What precedes and what follows QUICHE's work touches the error only.
LEMMA CalmEvolves ==
    ASSUME NEW c, NEW b, NEW d, NEW e \in WtClients, Calm(c, b), b.send_queue = c.send_queue,
           Evolves(b, d), Calm(d, e), e.send_queue = d.send_queue
    PROVE  Evolves(c, e)
BY DEF Evolves, Calm, HandlesKept, DatagramsGrow, QueueKept, ReadyIsLive, Unended

\* The same without any work.
LEMMA CalmIsEvolution ==
    ASSUME NEW c, ReadyIsLive(c), NEW d \in WtClients, Calm(c, d), d.send_queue = c.send_queue
    PROVE  Evolves(c, d)
BY DEF Evolves, Calm, HandlesKept, DatagramsGrow, QueueKept, ReadyIsLive, Unended

\* A stream that nobody has used is a stream.
LEMMA UnusedStreamFacts ==
    ASSUME NEW id \in StreamIds
    PROVE  Q!UnusedStream(id) \in Q!StreamStates
<1>1. 0 \in 0..MaxChunks /\ MaxRoom \in 0..MaxRoom
  BY BoundsAssumption
<1>2. /\ (Q!Unidirectional(id) /\ Q!Outgoing(id)) \in BOOLEAN
      /\ (Q!Unidirectional(id) /\ ~Q!Outgoing(id)) \in BOOLEAN
  BY DEF Q!Unidirectional, Q!Outgoing
<1> QED BY <1>1, <1>2 DEF Q!UnusedStream, Q!StreamStates

\* A constructed client is a client to which nothing has happened.
LEMMA FreshClientFacts ==
    /\ FreshClient \in WtClients /\ Blank(FreshClient) /\ FreshClient.conn = "none"
    /\ FreshClient.last_error = Q!NoError /\ FreshClient.close_sent = FALSE
    /\ FreshClient.dangling = FALSE /\ FreshClient.send_queue = <<>>
<1> DEFINE f == [id \in StreamIds |-> Q!UnusedStream(id)]
           g == [u \in BOOLEAN |-> 0]
           q == <<>>
<1>1. f \in [StreamIds -> Q!StreamStates] /\ \A id \in StreamIds : f[id].phase = "unused"
  <2>1. \A id \in StreamIds : Q!UnusedStream(id).phase = "unused"
    BY DEF Q!UnusedStream
  <2> QED BY <2>1, UnusedStreamFacts
<1>2. 0 \in 0..MaxDatagrams /\ 0 \in 0..MaxCredit /\ MaxRoom \in 0..MaxRoom
  BY BoundsAssumption
<1>3. g \in [BOOLEAN -> 0..MaxCredit]
  BY <1>2
<1>4. q \in Seq(1..MaxDatagrams) /\ q \in Seq({"packet", "close"}) /\ Q!NoError \in Errors
  BY DEF Errors
<1>5. FreshClient =
        [conn |-> "none", settings |-> "none", wt |-> "null", close_sent |-> FALSE, dangling |-> FALSE,
         session_ready |-> FALSE, session_closed |-> FALSE, received_datagrams |-> q,
         arrived |-> 0, last_error |-> Q!NoError, send_queue |-> q,
         credit |-> g, dgroom |-> MaxRoom, streams |-> f]
  BY DEF FreshClient
<1> HIDE DEF f, g, q
<1>6. FreshClient \in WtClients
  BY <1>1, <1>2, <1>3, <1>4, <1>5 DEF WtClients
<1>7. /\ FreshClient.arrived = 0 /\ FreshClient.received_datagrams = q /\ FreshClient.wt = "null"
      /\ FreshClient.session_ready = FALSE /\ FreshClient.streams = f /\ FreshClient.conn = "none"
      /\ FreshClient.last_error = Q!NoError /\ FreshClient.close_sent = FALSE
      /\ FreshClient.dangling = FALSE /\ FreshClient.send_queue = q
  BY <1>5
<1> QED BY <1>1, <1>6, <1>7 DEF Blank, q

\* What StartConnect makes: a new connection without a past, open or already over.
LEMMA StartConnectFacts ==
    ASSUME NEW c \in WtClients, NEW d \in StartConnect(c)
    PROVE  /\ d \in WtClients /\ d.conn \in {"open", "failed"} /\ Blank(d) /\ d.last_error = Q!NoError
           /\ ~d.close_sent /\ (d.dangling => c.dangling)
<1> DEFINE f == [FreshClient EXCEPT !.conn = "open", !.send_queue = c.send_queue, !.dangling = c.dangling]
<1>1. /\ f \in WtClients /\ f.conn = "open" /\ f.last_error = Q!NoError /\ f.close_sent = FALSE
      /\ f.dangling = c.dangling /\ Blank(f)
  <2>1. c.send_queue \in Seq({"packet", "close"}) /\ c.dangling \in BOOLEAN
    BY DEF WtClients
  <2>2. /\ f \in WtClients /\ f.conn = "open" /\ f.last_error = FreshClient.last_error
        /\ f.close_sent = FreshClient.close_sent /\ f.dangling = c.dangling
        /\ f.arrived = FreshClient.arrived /\ f.wt = FreshClient.wt
        /\ f.received_datagrams = FreshClient.received_datagrams
        /\ f.session_ready = FreshClient.session_ready /\ f.streams = FreshClient.streams
    BY <2>1, FreshClientFacts DEF WtClients
  <2> HIDE DEF f
  <2> QED BY <2>2, FreshClientFacts DEF Blank
<1> HIDE DEF f
<1>2. d = Q!WritePacket(f, "packet") \/ \E e \in ConnectionEnds(f) : d = [e EXCEPT !.conn = "failed"]
  BY DEF StartConnect, f
<1>3. CASE d = Q!WritePacket(f, "packet")
  <2>1. d \in WtClients /\ Calm(f, d) /\ d.last_error = f.last_error
    BY <1>1, <1>3, WritePacketFacts
  <2> QED BY <1>1, <2>1 DEF Calm, Blank
<1>4. ASSUME NEW e \in ConnectionEnds(f), d = [e EXCEPT !.conn = "failed"]
      PROVE  /\ d \in WtClients /\ d.conn \in {"open", "failed"} /\ Blank(d) /\ d.last_error = Q!NoError
             /\ ~d.close_sent /\ (d.dangling => c.dangling)
  <2>1. /\ e \in WtClients /\ e.conn = "closed" /\ e.last_error = f.last_error /\ ~e.session_ready
        /\ e.wt = f.wt /\ e.close_sent = f.close_sent /\ (e.dangling => f.dangling \/ f.wt = "freed")
        /\ e.arrived = f.arrived /\ QueueKept(f, e) /\ e.streams = f.streams
    BY <1>1, ConnectionEndsFacts
  <2>2. /\ d \in WtClients /\ d.conn = "failed" /\ d.last_error = e.last_error
        /\ d.session_ready = e.session_ready /\ d.wt = e.wt /\ d.close_sent = e.close_sent
        /\ d.dangling = e.dangling /\ d.arrived = e.arrived
        /\ d.received_datagrams = e.received_datagrams /\ d.streams = e.streams
    BY <1>4, <2>1 DEF WtClients
  <2> QED BY <1>1, <2>1, <2>2 DEF Blank, QueueKept
<1> QED BY <1>2, <1>3, <1>4

\* start() of a client that was not started returns normally, with an open
\* connection or with one that has ended without a word.
LEMMA StartFacts ==
    ASSUME NEW c \in WtClients, c.conn = "none", NEW r \in py_start(c)
    PROVE  /\ r.c \in WtClients /\ r.c.conn \in {"open", "failed"} /\ r.c.last_error = Q!NoError
           /\ Blank(r.c) /\ ~r.c.close_sent /\ (r.c.dangling => c.dangling \/ c.wt = "freed")
<1>1. PICK out \in Start(c) : r = Q!Returned(out)
  BY DEF py_start, Returned
<1> DEFINE b == Q!ResetRuntimeError(c)
<1>2. b \in WtClients /\ Calm(c, b)
  BY ResetFacts
<1> HIDE DEF b
<1>3. b.conn = "none" /\ (b.dangling => c.dangling \/ c.wt = "freed")
  BY <1>2 DEF Calm
<1>4. PICK d \in StartConnect(b) : out = Out(d, "OK", 0)
  BY <1>1, <1>3 DEF Start, ResetRuntimeError, IsConnected, b
<1>5. /\ d \in WtClients /\ d.conn \in {"open", "failed"} /\ Blank(d) /\ d.last_error = Q!NoError
      /\ ~d.close_sent /\ (d.dangling => b.dangling)
  BY <1>2, <1>4, StartConnectFacts
<1>6. r.c = d
  BY <1>1, <1>4 DEF Out, Q!Returned
<1> QED BY <1>3, <1>5, <1>6

\* The glue's receive_packet.
LEMMA ReceivePacketGlue ==
    ASSUME NEW c \in WtClients, ReadyIsLive(c), NEW empty \in BOOLEAN, NEW out \in ReceivePacket(c, empty)
    PROVE  /\ Evolves(c, out.c) /\ out.st \in {"OK", "CLOSED", "ERROR"}
           /\ out.st = "ERROR" => Calm(c, out.c) /\ out.c.send_queue = c.send_queue
           /\ out.st # "ERROR" /\ c.conn # "closed" => (out.c.conn = "closed" => out.c.last_error # Q!NoError)
           /\ c.conn = "none" /\ out.st # "ERROR" => out.c.last_error = Q!NoError
           /\ out = Out(out.c, out.st, out.val)
<1> DEFINE b == Q!ResetRuntimeError(c)
<1>1. b \in WtClients /\ Calm(c, b) /\ b.send_queue = c.send_queue /\ b.last_error = Q!NoError
  BY ResetFacts
<1>2. \/ out = Out(b, "OK", 0)
      \/ b.conn = "none" /\ out = Out(Q!SetError(b, "not started"), "ERROR", 0)
      \/ b.conn # "none" /\ \E d \in ProcessUdpPacket(b) : out = AfterQuiche(d)
  BY DEF ReceivePacket, ResetRuntimeError, SetError
<1> HIDE DEF b
<1>3. CASE out = Out(b, "OK", 0)
  <2>1. out.c = b /\ out.st = "OK" /\ out = Out(out.c, out.st, out.val)
    BY <1>3 DEF Out
  <2>2. Evolves(c, b)
    BY <1>1, CalmIsEvolution
  <2> QED BY <1>1, <2>1, <2>2 DEF Calm
<1>4. CASE b.conn = "none" /\ out = Out(Q!SetError(b, "not started"), "ERROR", 0)
  <2> DEFINE d == Q!SetError(b, "not started")
  <2>1. "not started" \in Errors
    BY DEF Errors
  <2>2. d \in WtClients /\ Calm(b, d) /\ d.send_queue = b.send_queue
    BY <1>1, <2>1, SetErrorFacts
  <2> HIDE DEF d
  <2>3. Calm(c, d) /\ d.send_queue = c.send_queue
    BY <1>1, <2>2, CalmTransitive
  <2>4. Evolves(c, d)
    BY <2>2, <2>3, CalmIsEvolution
  <2>5. out.c = d /\ out.st = "ERROR" /\ out = Out(out.c, out.st, out.val)
    BY <1>4 DEF Out, d
  <2> QED BY <2>3, <2>4, <2>5
<1>5. CASE b.conn # "none" /\ \E d \in ProcessUdpPacket(b) : out = AfterQuiche(d)
  <2>1. PICK d \in ProcessUdpPacket(b) : out = AfterQuiche(d)
    BY <1>5
  <2>2. Evolves(b, d)
    <3>1. ReadyIsLive(b)
      BY <1>1 DEF ReadyIsLive, Calm
    <3> QED BY <1>1, <2>1, <3>1, ProcessUdpPacketFacts
  <2>3. d \in WtClients
    BY <2>2 DEF Evolves
  <2>4. /\ out.c \in WtClients /\ Calm(d, out.c) /\ out.c.send_queue = d.send_queue
        /\ out.st \in {"OK", "CLOSED"} /\ (d.conn # "open" => out.c.last_error # Q!NoError)
        /\ out = Out(out.c, out.st, out.val)
    BY <2>1, <2>3, AfterQuicheFacts
  <2>5. Evolves(c, out.c)
    BY <1>1, <2>2, <2>4, CalmEvolves
  <2>6. out.c.conn = d.conn /\ c.conn # "none"
    BY <1>1, <1>5, <2>4 DEF Calm
  <2> QED BY <2>4, <2>5, <2>6
<1> QED BY <1>2, <1>3, <1>4, <1>5

\* The glue's handle_timeout never leaves a closed connection unexplained.
LEMMA HandleTimeoutGlue ==
    ASSUME NEW c \in WtClients, ReadyIsLive(c), NEW out \in HandleTimeout(c)
    PROVE  /\ Evolves(c, out.c) /\ out.st \in {"OK", "CLOSED"}
           /\ out.c.conn = "closed" => out.c.last_error # Q!NoError
           /\ out = Out(out.c, out.st, out.val)
<1> DEFINE b == Q!ResetRuntimeError(c)
<1>1. b \in WtClients /\ Calm(c, b) /\ b.send_queue = c.send_queue
  BY ResetFacts
<1>2. PICK d \in ProcessAlarms(b) : out = AfterQuiche(d)
  BY DEF HandleTimeout, ResetRuntimeError
<1> HIDE DEF b
<1>3. Evolves(b, d)
  <2>1. ReadyIsLive(b)
    BY <1>1 DEF ReadyIsLive, Calm
  <2> QED BY <1>1, <1>2, <2>1, ProcessAlarmsFacts
<1>4. d \in WtClients
  BY <1>3 DEF Evolves
<1>5. /\ out.c \in WtClients /\ Calm(d, out.c) /\ out.c.send_queue = d.send_queue
      /\ out.st \in {"OK", "CLOSED"} /\ (d.conn # "open" => out.c.last_error # Q!NoError)
      /\ out = Out(out.c, out.st, out.val)
  BY <1>2, <1>4, AfterQuicheFacts
<1>6. Evolves(c, out.c)
  BY <1>1, <1>3, <1>5, CalmEvolves
<1>7. out.c.conn = d.conn
  BY <1>5 DEF Calm
<1> QED BY <1>5, <1>6, <1>7

\* Their Python faces do not raise when the connection has closed.
LEMMA SilentFacts ==
    ASSUME NEW d, NEW val, NEW st \in {"OK", "CLOSED", "ERROR"}
    PROVE  LET r == Q!ClosedIsSilent(Out(d, st, val))
           IN r.c = d /\ r.ret = IF st = "ERROR" THEN "RuntimeError" ELSE "value"
BY DEF Q!ClosedIsSilent, Q!Returned, Q!Exception, Out

\* receive_packet either raises because the core is not started, or leaves a
\* connection that has ended only with an error recorded.
LEMMA ReceivePacketFacts ==
    ASSUME NEW c \in WtClients, ReadyIsLive(c), NEW empty \in BOOLEAN, NEW r \in py_receive_packet(c, empty)
    PROVE  /\ Evolves(c, r.c)
           /\ r.ret # "value" => Calm(c, r.c) /\ r.c.send_queue = c.send_queue
           /\ r.ret = "value" /\ c.conn # "closed" => (r.c.conn = "closed" => r.c.last_error # Q!NoError)
           /\ r.ret = "value" /\ c.conn = "none" => r.c.last_error = Q!NoError
<1>1. PICK out \in ReceivePacket(c, empty) : r = Q!ClosedIsSilent(out)
  BY DEF py_receive_packet
<1>2. /\ Evolves(c, out.c) /\ out.st \in {"OK", "CLOSED", "ERROR"}
      /\ out.st = "ERROR" => Calm(c, out.c) /\ out.c.send_queue = c.send_queue
      /\ out.st # "ERROR" /\ c.conn # "closed" => (out.c.conn = "closed" => out.c.last_error # Q!NoError)
      /\ c.conn = "none" /\ out.st # "ERROR" => out.c.last_error = Q!NoError
      /\ out = Out(out.c, out.st, out.val)
  BY <1>1, ReceivePacketGlue
<1>3. r.c = out.c /\ r.ret = IF out.st = "ERROR" THEN "RuntimeError" ELSE "value"
  BY <1>1, <1>2, SilentFacts
<1> QED BY <1>2, <1>3

\* handle_timeout never raises.
LEMMA HandleTimeoutFacts ==
    ASSUME NEW c \in WtClients, ReadyIsLive(c), NEW r \in py_handle_timeout(c)
    PROVE  /\ Evolves(c, r.c) /\ r.ret = "value"
           /\ r.c.conn = "closed" => r.c.last_error # Q!NoError
<1>1. PICK out \in HandleTimeout(c) : r = Q!ClosedIsSilent(out)
  BY DEF py_handle_timeout
<1>2. /\ Evolves(c, out.c) /\ out.st \in {"OK", "CLOSED"}
      /\ out.c.conn = "closed" => out.c.last_error # Q!NoError
      /\ out = Out(out.c, out.st, out.val)
  BY <1>1, HandleTimeoutGlue
<1>3. r.c = out.c /\ r.ret = "value"
  BY <1>1, <1>2, SilentFacts
<1> QED BY <1>2, <1>3

\* NextTimeoutMs clears the error, and says whether a connection is open.
LEMMA NextTimeoutFacts ==
    ASSUME NEW c \in WtClients
    PROVE  /\ NextTimeoutMs(c).c \in WtClients /\ Calm(c, NextTimeoutMs(c).c)
           /\ NextTimeoutMs(c).c.send_queue = c.send_queue
           /\ NextTimeoutMs(c).val \in BOOLEAN /\ (NextTimeoutMs(c).val <=> c.conn = "open")
BY ResetFacts DEF NextTimeoutMs, Q!NextTimeoutMs, Q!Out, Q!HasAlarm, Calm

\* NextSend takes a packet from the queue.
LEMMA NextSendFacts ==
    ASSUME NEW c \in WtClients
    PROVE  NextSend(c).c \in WtClients /\ Calm(c, NextSend(c).c)
<1>1. CASE c.send_queue = <<>>
  BY <1>1 DEF NextSend, Q!NextSend, Q!Out, Calm
<1>2. CASE c.send_queue # <<>>
  <2> DEFINE q == Tail(c.send_queue)
  <2>1. q \in Seq({"packet", "close"})
    BY <1>2 DEF WtClients
  <2>2. NextSend(c).c = [c EXCEPT !.send_queue = q]
    BY <1>2 DEF NextSend, Q!NextSend, Q!Out
  <2> HIDE DEF q
  <2> QED BY <2>1, <2>2 DEF WtClients, Calm
<1> QED BY <1>1, <1>2

\* close() closes the session, or the connection if there is none.
LEMMA CloseFacts ==
    ASSUME NEW c \in WtClients, ReadyIsLive(c)
    PROVE  /\ Close(c) \in WtClients /\ ReadyIsLive(Close(c)) /\ Close(c).wt = c.wt
           /\ Close(c).streams = c.streams /\ Close(c).arrived = c.arrived /\ QueueKept(c, Close(c))
           /\ Close(c).session_ready = c.session_ready
           /\ Close(c).dangling => c.dangling \/ c.wt = "freed"
           /\ c.conn = "none" => /\ Close(c).conn = "none"
                                 /\ c.wt = "null" => Close(c).send_queue = c.send_queue
           /\ Close(c).conn = "none" => c.conn = "none"
           /\ Close(c).conn = "failed" <=> c.conn = "failed"
           /\ Close(c).close_sent => c.close_sent \/ c.wt = "live"
<1> DEFINE b == Q!ResetRuntimeError(c)
<1>1. b \in WtClients /\ Calm(c, b) /\ b.send_queue = c.send_queue
  BY ResetFacts
<1>2. \/ b.wt = "live" /\ b.conn = "open" /\ Close(c) = Q!WritePacket([b EXCEPT !.close_sent = TRUE], "close")
      \/ b.wt # "null" /\ Close(c) = Deref(b)
      \/ b.wt = "null" /\ b.conn = "open" /\ Close(c) = Q!WritePacket([b EXCEPT !.conn = "closed"], "close")
      \/ b.wt = "null" /\ Close(c) = b
  BY DEF Close, ResetRuntimeError, IsConnected
<1> HIDE DEF b
<1>3. CASE b.wt = "live" /\ b.conn = "open" /\ Close(c) = Q!WritePacket([b EXCEPT !.close_sent = TRUE], "close")
  <2> DEFINE d == [b EXCEPT !.close_sent = TRUE]
  <2>1. /\ d \in WtClients /\ d.conn = b.conn /\ d.wt = b.wt /\ d.streams = b.streams /\ d.arrived = b.arrived
        /\ d.received_datagrams = b.received_datagrams /\ d.session_ready = b.session_ready
        /\ d.dangling = b.dangling
    BY <1>1 DEF WtClients
  <2> HIDE DEF d
  <2>2. Close(c) \in WtClients /\ Calm(d, Close(c))
    BY <1>3, <2>1, WritePacketFacts DEF d
  <2> QED BY <1>1, <1>3, <2>1, <2>2 DEF Calm, ReadyIsLive, QueueKept
<1>4. CASE b.wt # "null" /\ Close(c) = Deref(b)
  <2>1. Close(c) \in WtClients /\ Calm(b, Close(c)) /\ Close(c).send_queue = b.send_queue
    BY <1>1, <1>4, DerefFacts
  <2> QED BY <1>1, <2>1 DEF Calm, ReadyIsLive, QueueKept
<1>5. CASE b.wt = "null" /\ b.conn = "open" /\ Close(c) = Q!WritePacket([b EXCEPT !.conn = "closed"], "close")
  <2> DEFINE d == [b EXCEPT !.conn = "closed"]
  <2>1. /\ d \in WtClients /\ d.conn = "closed" /\ d.wt = b.wt /\ d.streams = b.streams /\ d.arrived = b.arrived
        /\ d.received_datagrams = b.received_datagrams /\ d.session_ready = b.session_ready
        /\ d.dangling = b.dangling /\ d.close_sent = b.close_sent
    BY <1>1 DEF WtClients
  <2> HIDE DEF d
  <2>2. Close(c) \in WtClients /\ Calm(d, Close(c))
    BY <1>5, <2>1, WritePacketFacts DEF d
  <2> QED BY <1>1, <1>5, <2>1, <2>2 DEF Calm, ReadyIsLive, QueueKept
<1>6. CASE b.wt = "null" /\ Close(c) = b
  BY <1>1, <1>6 DEF Calm, ReadyIsLive, QueueKept
<1> QED BY <1>2, <1>3, <1>4, <1>5, <1>6

-----------------------------------------------------------------------------
(* Setting up the session.                                                 *)

\* is_session_ready reads good memory as long as there is some.
LEMMA IsSessionReadyFacts ==
    ASSUME NEW c \in WtClients, ReadyIsLive(c), NEW r \in IsSessionReady(c)
    PROVE  /\ r.c \in WtClients /\ Calm(c, r.c) /\ r.c.send_queue = c.send_queue /\ r.val \in BOOLEAN
           /\ c.wt # "freed" => (r.val <=> c.session_ready)
<1>1. PICK b \in SessionReadyReads(c) : r = Out(Deref(c), "OK", b)
  BY DEF IsSessionReady
<1>2. b \in BOOLEAN /\ (c.wt # "freed" => (b <=> c.session_ready))
  <2>1. CASE c.wt = "freed"
    BY <1>1, <2>1 DEF SessionReadyReads
  <2>2. CASE c.wt # "freed"
    BY <1>1, <2>2 DEF SessionReadyReads, ReadyIsLive
  <2> QED BY <2>1, <2>2
<1>3. r.c = Deref(c) /\ r.val = b
  BY <1>1 DEF Out
<1> QED BY <1>2, <1>3, DerefFacts

\* The CONNECT request cannot be sent yet.
MustWait(c) ==
    /\ c.wt = "null"
    /\ c.conn # "open" \/ c.settings = "none" \/ (c.settings = "wt" /\ c.credit[FALSE] = 0)

\* connect_session: a request that is sent has a session, one that is refused
\* may have used up a stream, and one that has to wait sends a packet at most.
LEMMA ConnectSessionFacts ==
    ASSUME NEW c \in WtClients, NEW named \in BOOLEAN, NEW r \in py_connect_session(c, named)
    PROVE  /\ r.c \in WtClients /\ r.ret \in {"value", "None"} \cup Exceptions
           /\ r.c.conn = c.conn /\ r.c.session_ready = c.session_ready /\ r.c.close_sent = c.close_sent
           /\ r.c.streams = c.streams /\ r.c.arrived = c.arrived /\ QueueKept(c, r.c) /\ Sends(c, r.c)
           /\ r.c.dangling => c.dangling \/ c.wt = "freed"
           /\ c.wt # "null" => r.c.wt = c.wt
           /\ r.c.wt \in {c.wt, "live"}
           /\ r.ret = "value" => r.c.wt # "null"
           /\ r.ret # "value" => r.c.wt = c.wt
           /\ c.conn # "open" => r.c.send_queue = c.send_queue
           /\ r.ret = "None" => Calm(c, r.c)
           /\ r.ret = "None" <=> MustWait(c)
<1> DEFINE b == Q!ResetRuntimeError(c)
           created == [b EXCEPT !.credit[FALSE] = @ - 1]
<1>1. PICK out \in ConnectSession(c, named) : r = Q!Returned(out)
  BY DEF py_connect_session, Returned
<1>2. b \in WtClients /\ Calm(c, b) /\ b.send_queue = c.send_queue
  BY ResetFacts
<1>3. MustWait(b) = MustWait(c)
  BY <1>2 DEF Calm, MustWait
<1>4. \/ b.wt # "null" /\ out = Out(b, "OK", 0)
      \/ MustWait(b) /\ b.conn # "open" /\ out = Out(b, "WOULD_BLOCK", 0)
      \/ MustWait(b) /\ b.conn = "open" /\ \E d \in Q!MaySend(b) : out = Out(d, "WOULD_BLOCK", 0)
      \/ b.settings = "nowt" /\ b.conn = "open" /\ out = Out(Q!SetError(b, "no webtransport"), "ERROR", 0)
      \/ /\ b.wt = "null" /\ ~MustWait(b) /\ b.credit[FALSE] # 0
         /\ \/ out = Out(Q!SetError(created, "empty header name"), "INVALID_ARGUMENT", 0)
            \/ \E d \in Q!MaySend([created EXCEPT !.wt = "live"]) : out = Out(d, "OK", 0)
  <2>1. b.settings \in {"none", "wt", "nowt"}
    BY <1>2 DEF WtClients
  <2> HIDE DEF b
  <2>2. out \in (IF b.wt # "null" THEN {Out(b, "OK", 0)}
                ELSE IF b.conn # "open" \/ b.settings = "none" THEN {Out(b, "WOULD_BLOCK", 0)}
                ELSE IF b.settings = "nowt" THEN {Out(Q!SetError(b, "no webtransport"), "ERROR", 0)}
                ELSE IF b.credit[FALSE] = 0 THEN {Out(d, "WOULD_BLOCK", 0) : d \in Q!MaySend(b)}
                ELSE IF ~named THEN {Out(Q!SetError(created, "empty header name"), "INVALID_ARGUMENT", 0)}
                ELSE {Out(d, "OK", 0) : d \in Q!MaySend([created EXCEPT !.wt = "live"])})
    BY <1>1 DEF ConnectSession, ResetRuntimeError, SetError, IsConnected, b
  <2>3. b \in Q!MaySend(b)
    BY DEF Q!MaySend
  <2> HIDE DEF created
  <2> QED BY <2>1, <2>2, <2>3 DEF MustWait
<1> HIDE DEF b
<1>5. CASE b.wt # "null" /\ out = Out(b, "OK", 0)
  <2>1. r.c = b /\ r.ret = "value"
    BY <1>1, <1>5 DEF Q!Returned, Out
  <2> QED BY <1>2, <1>3, <1>5, <2>1 DEF Calm, QueueKept, Sends, MustWait
<1>6. CASE MustWait(b) /\ b.conn # "open" /\ out = Out(b, "WOULD_BLOCK", 0)
  <2>1. r.c = b /\ r.ret = "None"
    BY <1>1, <1>6 DEF Q!Returned, Out
  <2> QED BY <1>2, <1>3, <1>6, <2>1 DEF Calm, QueueKept, Sends
<1>9. CASE MustWait(b) /\ b.conn = "open" /\ \E d \in Q!MaySend(b) : out = Out(d, "WOULD_BLOCK", 0)
  <2>1. PICK d \in Q!MaySend(b) : out = Out(d, "WOULD_BLOCK", 0)
    BY <1>9
  <2>2. r.c = d /\ r.ret = "None"
    BY <1>1, <2>1 DEF Q!Returned, Out
  <2>3. d \in WtClients /\ Calm(b, d) /\ Sends(b, d)
    BY <1>2, MaySendFacts
  <2>4. Calm(c, d) /\ Sends(c, d) /\ c.conn = "open"
    BY <1>2, <1>9, <2>3, CalmTransitive DEF Sends, Calm
  <2>5. MustWait(c)
    BY <1>3, <1>9
  <2> QED BY <2>2, <2>3, <2>4, <2>5 DEF Calm, QueueKept
<1>7. CASE /\ b.settings = "nowt" /\ b.conn = "open"
           /\ out = Out(Q!SetError(b, "no webtransport"), "ERROR", 0)
  <2> DEFINE d == Q!SetError(b, "no webtransport")
  <2>1. "no webtransport" \in Errors
    BY DEF Errors
  <2>2. d \in WtClients /\ Calm(b, d) /\ d.send_queue = b.send_queue
    BY <1>2, <2>1, SetErrorFacts
  <2> HIDE DEF d
  <2>3. r.c = d /\ r.ret = "RuntimeError"
    BY <1>1, <1>7 DEF Q!Returned, Out, Q!Exception, d
  <2>4. ~MustWait(c)
    BY <1>3, <1>7 DEF MustWait
  <2> QED BY <1>2, <2>2, <2>3, <2>4 DEF Calm, QueueKept, Sends, Exceptions, Q!Exceptions
<1>8. CASE /\ b.wt = "null" /\ ~MustWait(b) /\ b.credit[FALSE] # 0
           /\ \/ out = Out(Q!SetError(created, "empty header name"), "INVALID_ARGUMENT", 0)
              \/ \E d \in Q!MaySend([created EXCEPT !.wt = "live"]) : out = Out(d, "OK", 0)
  <2> DEFINE f == [b.credit EXCEPT ![FALSE] = @ - 1]
             Rest(d) == /\ d \in WtClients /\ d.conn = b.conn /\ d.session_ready = b.session_ready
                        /\ d.close_sent = b.close_sent /\ d.streams = b.streams /\ d.arrived = b.arrived
                        /\ d.received_datagrams = b.received_datagrams /\ d.dangling = b.dangling
                        /\ d.send_queue = b.send_queue
  <2>1. f \in [BOOLEAN -> 0..MaxCredit]
    <3> DEFINE n == b.credit[FALSE]
    <3>1. b.credit \in [BOOLEAN -> 0..MaxCredit] /\ n \in 0..MaxCredit
      BY <1>2 DEF WtClients
    <3>2. n # 0
      BY <1>8, Zenon
    <3>3. f = [b.credit EXCEPT ![FALSE] = n - 1]
      OBVIOUS
    <3> HIDE DEF n, f
    <3>4. n - 1 \in 0..MaxCredit
      BY <3>1, <3>2, BoundsAssumption
    <3> QED BY <3>1, <3>3, <3>4
  <2>2. created = [b EXCEPT !.credit = f]
    OBVIOUS
  <2> HIDE DEF f
  <2>3. Rest(created) /\ created.wt = b.wt
    BY <1>2, <2>1, <2>2 DEF WtClients
  <2> HIDE DEF created
  <2>4. c.conn = "open"
    BY <1>2, <1>8 DEF MustWait, Calm
  <2>5. CASE out = Out(Q!SetError(created, "empty header name"), "INVALID_ARGUMENT", 0)
    <3> DEFINE d == Q!SetError(created, "empty header name")
    <3>1. "empty header name" \in Errors
      BY DEF Errors
    <3>2. d \in WtClients /\ Calm(created, d) /\ d.send_queue = created.send_queue
      BY <2>3, <3>1, SetErrorFacts
    <3> HIDE DEF d
    <3>3. r.c = d /\ r.ret = "ValueError"
      BY <1>1, <2>5 DEF Q!Returned, Out, Q!Exception, d
    <3> QED BY <1>2, <1>3, <1>8, <2>3, <3>2, <3>3 DEF Calm, QueueKept, Sends, Exceptions, Q!Exceptions
  <2>6. CASE \E d \in Q!MaySend([created EXCEPT !.wt = "live"]) : out = Out(d, "OK", 0)
    <3> DEFINE g == [created EXCEPT !.wt = "live"]
    <3>1. Rest(g) /\ g.wt = "live"
      BY <2>3 DEF WtClients
    <3> HIDE DEF g
    <3>2. PICK d \in Q!MaySend(g) : out = Out(d, "OK", 0)
      BY <2>6 DEF g
    <3>3. d \in WtClients /\ Calm(g, d) /\ Sends(g, d)
      BY <3>1, <3>2, MaySendFacts
    <3>4. r.c = d /\ r.ret = "value"
      BY <1>1, <3>2 DEF Q!Returned, Out
    <3> QED BY <1>2, <1>3, <1>8, <2>4, <3>1, <3>3, <3>4 DEF Calm, QueueKept, Sends
  <2> QED BY <1>8, <2>5, <2>6
<1> QED BY <1>4, <1>5, <1>6, <1>7, <1>8, <1>9

-----------------------------------------------------------------------------
(* The methods of the session: none of them opens or ends anything.        *)

\* An outcome that leaves the session and its datagrams as they were, and
\* everything but the error and the packets if the call did not succeed.
Keeps(c, out) ==
    /\ out.c \in WtClients /\ SameSession(c, out.c) /\ QueueKept(c, out.c) /\ HandlesKept(c, out.c)
    /\ Sends(c, out.c) /\ out.st \in {"OK", "WOULD_BLOCK", "ERROR", "NOT_FOUND", "TOO_BIG"}
    /\ out.st # "OK" \/ ~c.session_ready => Calm(c, out.c)
    /\ ~c.session_ready => out.c.send_queue = c.send_queue

\* A method that succeeds only if `can' holds and has to wait only if it does
\* not, with a session that is ready; freed memory answers anything.
Answers(c, out, can) ==
    c.wt # "freed" => /\ out.st = "OK" => c.session_ready /\ can
                      /\ out.st = "WOULD_BLOCK" => c.session_ready /\ ~can

\* Only the error differs.
Refused(c, out) ==
    /\ out.c \in WtClients /\ Calm(c, out.c) /\ out.c.send_queue = c.send_queue
    /\ out.st \in {"OK", "WOULD_BLOCK", "ERROR", "NOT_FOUND", "TOO_BIG"}

\* What is refused keeps everything.
LEMMA RefusedKeeps ==
    ASSUME NEW c, NEW out, Refused(c, out)
    PROVE  Keeps(c, out)
BY DEF Refused, Keeps, Calm, SameSession, QueueKept, HandlesKept, Sends

\* EnsureSessionReady refuses, or runs the body on a session that is ready.
LEMMA OnSessionFacts ==
    ASSUME NEW c \in WtClients, ReadyIsLive(c), NEW body, NEW out \in OnSession(c, body)
    PROVE  \/ Refused(c, out) /\ ~c.session_ready /\ (c.wt = "freed" \/ out.st = "ERROR")
              /\ (c.wt = "freed" => out.val = 0)
           \/ out \in body /\ c.session_ready /\ c.wt = "live" /\ c.conn = "open"
<1> DEFINE a == Q!ResetRuntimeError(c)
           b == Deref(a)
<1>1. a \in WtClients /\ Calm(c, a) /\ a.send_queue = c.send_queue
  BY ResetFacts
<1>2. b \in WtClients /\ Calm(a, b) /\ b.send_queue = a.send_queue
  BY <1>1, DerefFacts
<1>3. out \in (IF b.wt = "freed" THEN {Out(b, st, 0) : st \in {"OK", "WOULD_BLOCK", "ERROR"}}
              ELSE IF TRUE \notin SessionReadyReads(b) THEN {Out(Q!SetError(b, "not ready"), "ERROR", 0)}
              ELSE body)
  BY DEF OnSession, ResetRuntimeError, SetError
<1> HIDE DEF a, b
<1>4. Calm(c, b) /\ b.send_queue = c.send_queue
  BY <1>1, <1>2, CalmTransitive
<1>5. CASE b.wt = "freed"
  <2>1. PICK st \in {"OK", "WOULD_BLOCK", "ERROR"} : out = Out(b, st, 0)
    BY <1>3, <1>5
  <2>2. out.c = b /\ out.st = st /\ out.val = 0
    BY <2>1 DEF Out
  <2> QED BY <1>2, <1>4, <1>5, <2>1, <2>2 DEF Refused, Calm, ReadyIsLive
<1>6. CASE b.wt # "freed" /\ TRUE \notin SessionReadyReads(b)
  <2> DEFINE d == Q!SetError(b, "not ready")
  <2>1. "not ready" \in Errors
    BY DEF Errors
  <2>2. d \in WtClients /\ Calm(b, d) /\ d.send_queue = b.send_queue
    BY <1>2, <2>1, SetErrorFacts
  <2>3. out = Out(d, "ERROR", 0)
    BY <1>3, <1>6
  <2> HIDE DEF d
  <2>4. out.c = d /\ out.st = "ERROR"
    BY <2>3 DEF Out
  <2>5. Calm(c, d)
    BY <1>4, <2>2, CalmTransitive
  <2>6. ~(b.wt # "null" /\ b.session_ready)
    BY <1>6 DEF SessionReadyReads
  <2>7. ~c.session_ready /\ c.wt # "freed"
    BY <1>4, <1>6, <2>6 DEF ReadyIsLive, Calm
  <2> QED BY <1>4, <2>2, <2>4, <2>5, <2>7 DEF Refused
<1>7. CASE b.wt # "freed" /\ TRUE \in SessionReadyReads(b)
  <2>1. b.session_ready
    BY <1>7 DEF SessionReadyReads
  <2>2. out \in body
    BY <1>3, <1>7
  <2> QED BY <1>4, <2>1, <2>2 DEF Calm, ReadyIsLive
<1> QED BY <1>5, <1>6, <1>7

\* What OnSessionFacts gives for a method: it is enough to look at the body.
LEMMA OnSessionKeeps ==
    ASSUME NEW c \in WtClients, ReadyIsLive(c), NEW body, NEW out \in OnSession(c, body), NEW can,
           out \in body /\ c.session_ready /\ c.wt = "live" /\ c.conn = "open"
             => Keeps(c, out) /\ Answers(c, out, can)
    PROVE  Keeps(c, out) /\ Answers(c, out, can)
<1>1. CASE Refused(c, out) /\ ~c.session_ready /\ (c.wt = "freed" \/ out.st = "ERROR")
  <2>1. Answers(c, out, can)
    BY <1>1 DEF Answers
  <2> QED BY <1>1, <2>1, RefusedKeeps
<1>2. CASE out \in body /\ c.session_ready /\ c.wt = "live" /\ c.conn = "open"
  BY <1>2
<1> QED BY <1>1, <1>2, OnSessionFacts

\* A call that succeeds on a session that is ready: QUICHE may send.
LEMMA SuccessKeeps ==
    ASSUME NEW c, c.session_ready, NEW g \in WtClients, SameSession(c, g), QueueKept(c, g),
           HandlesKept(c, g), g.send_queue = c.send_queue, NEW d \in Q!MaySend(g), NEW val
    PROVE  Keeps(c, Out(d, "OK", val))
<1>1. d \in WtClients /\ Calm(g, d) /\ Sends(g, d)
  BY MaySendFacts
<1>2. SameSession(c, d) /\ QueueKept(c, d) /\ HandlesKept(c, d) /\ Sends(c, d)
  BY <1>1 DEF Calm, SameSession, QueueKept, HandlesKept, Sends
<1> QED BY <1>1, <1>2 DEF Keeps, Out

\* QUICHE may choose to send nothing.
LEMMA MaySendNothing ==
    ASSUME NEW c
    PROVE  c \in Q!MaySend(c)
BY DEF Q!MaySend

\* A call that has to wait, or is refused, on a session that is ready.
LEMMA FailureKeeps ==
    ASSUME NEW c \in WtClients, NEW b \in WtClients, Calm(c, b), b.send_queue = c.send_queue, NEW val
    PROVE  /\ Keeps(c, Out(b, "WOULD_BLOCK", val))
           /\ Keeps(c, Out(Q!SetError(b, "too big"), "TOO_BIG", val))
           /\ Keeps(c, Out(Q!SetError(b, "stream missing"), "NOT_FOUND", val))
           /\ Keeps(c, Out(Q!SetError(b, "datagram failed"), "ERROR", val))
<1>1. "too big" \in Errors /\ "stream missing" \in Errors /\ "datagram failed" \in Errors
  BY DEF Errors
<1>2. ASSUME NEW d \in WtClients, Calm(b, d), d.send_queue = b.send_queue,
             NEW st \in {"WOULD_BLOCK", "TOO_BIG", "NOT_FOUND", "ERROR"}
      PROVE  Keeps(c, Out(d, st, val))
  <2>1. Calm(c, d)
    BY <1>2, CalmTransitive
  <2>2. Refused(c, Out(d, st, val))
    BY <1>2, <2>1 DEF Refused, Out
  <2> QED BY <2>2, RefusedKeeps
<1>3. \A e \in Errors : /\ Q!SetError(b, e) \in WtClients /\ Calm(b, Q!SetError(b, e))
                        /\ Q!SetError(b, e).send_queue = b.send_queue
  BY SetErrorFacts
<1>4. Calm(b, b)
  BY DEF Calm
<1> QED BY <1>1, <1>2, <1>3, <1>4

\* The same when QUICHE sends while it says no.
LEMMA BlockedKeeps ==
    ASSUME NEW c \in WtClients, c.session_ready, NEW b \in WtClients, Calm(c, b),
           b.send_queue = c.send_queue, NEW d \in Q!MaySend(b), NEW val
    PROVE  Keeps(c, Out(d, "WOULD_BLOCK", val)) /\ Calm(c, d)
<1>1. d \in WtClients /\ Calm(b, d) /\ Sends(b, d)
  BY MaySendFacts
<1>2. Calm(c, d) /\ Sends(c, d)
  BY <1>1, CalmTransitive DEF Sends
<1>3. SameSession(c, d) /\ QueueKept(c, d) /\ HandlesKept(c, d)
  BY <1>2 DEF Calm, SameSession, QueueKept, HandlesKept
<1> QED BY <1>1, <1>2, <1>3 DEF Keeps, Out

\* The status of an outcome decides what it answers.
LEMMA OutAnswers ==
    ASSUME NEW c, c.session_ready, NEW d, NEW val, NEW can
    PROVE  /\ can => Answers(c, Out(d, "OK", val), can)
           /\ ~can => Answers(c, Out(d, "WOULD_BLOCK", val), can)
           /\ Answers(c, Out(d, "NOT_FOUND", val), can) /\ Answers(c, Out(d, "TOO_BIG", val), can)
           /\ Answers(c, Out(d, "ERROR", val), can)
BY DEF Answers, Out

\* The client that a method of the session begins with.
LEMMA BodyStart ==
    ASSUME NEW c \in WtClients, c.session_ready, c.conn = "open"
    PROVE  LET b == Q!ResetRuntimeError(c)
           IN /\ b \in WtClients /\ Calm(c, b) /\ b.send_queue = c.send_queue /\ Q!IsConnected(b)
              /\ b.session_ready
BY ResetFacts DEF Calm, Q!IsConnected

\* send_datagram.
LEMMA SendDatagramFacts ==
    ASSUME NEW c \in WtClients, ReadyIsLive(c), NEW oversized \in BOOLEAN, NEW out \in SendDatagram(c, oversized)
    PROVE  Keeps(c, out) /\ Answers(c, out, c.dgroom # 0)
<1> DEFINE b == Q!ResetRuntimeError(c)
           g == [b EXCEPT !.dgroom = @ - 1]
<1>1. SUFFICES ASSUME out \in Q!SendDatagram(c, oversized), c.session_ready, c.conn = "open"
               PROVE  Keeps(c, out) /\ Answers(c, out, c.dgroom # 0)
  BY OnSessionKeeps DEF SendDatagram
<1>2. b \in WtClients /\ Calm(c, b) /\ b.send_queue = c.send_queue /\ Q!IsConnected(b)
  BY <1>1, BodyStart
<1>3. \/ out = Out(Q!SetError(b, "too big"), "TOO_BIG", 0)
      \/ b.dgroom = 0 /\ out = Out(b, "WOULD_BLOCK", 0)
      \/ b.dgroom # 0 /\ \E d \in Q!MaySend(g) : out = Out(d, "OK", 0)
      \/ out = Out(Q!SetError(b, "datagram failed"), "ERROR", 0)
  BY <1>1, <1>2 DEF Q!SendDatagram, Q!Out, Out
<1> HIDE DEF b
<1>4. b.dgroom = c.dgroom
  BY <1>2 DEF Calm
<1>5. CASE out = Out(Q!SetError(b, "too big"), "TOO_BIG", 0)
  <2> DEFINE d == Q!SetError(b, "too big")
  <2>1. out = Out(d, "TOO_BIG", 0) /\ Keeps(c, out)
    BY <1>2, <1>5, FailureKeeps
  <2> HIDE DEF d
  <2> QED BY <1>1, <2>1, OutAnswers
<1>8. CASE out = Out(Q!SetError(b, "datagram failed"), "ERROR", 0)
  <2> DEFINE d == Q!SetError(b, "datagram failed")
  <2>1. out = Out(d, "ERROR", 0) /\ Keeps(c, out)
    BY <1>2, <1>8, FailureKeeps
  <2> HIDE DEF d
  <2> QED BY <1>1, <2>1, OutAnswers
<1>6. CASE b.dgroom = 0 /\ out = Out(b, "WOULD_BLOCK", 0)
  BY <1>1, <1>2, <1>4, <1>6, FailureKeeps, OutAnswers
<1>7. CASE b.dgroom # 0 /\ \E d \in Q!MaySend(g) : out = Out(d, "OK", 0)
  <2>1. b.dgroom - 1 \in 0..MaxRoom
    <3>1. b.dgroom \in 0..MaxRoom
      BY <1>2 DEF WtClients
    <3>2. b.dgroom # 0
      BY <1>7, Zenon
    <3> QED BY <3>1, <3>2, BoundsAssumption
  <2>2. /\ g \in WtClients /\ SameSession(b, g) /\ QueueKept(b, g) /\ g.streams = b.streams
        /\ g.send_queue = b.send_queue
    BY <1>2, <2>1 DEF WtClients, SameSession, QueueKept
  <2> HIDE DEF g
  <2>3. PICK d \in Q!MaySend(g) : out = Out(d, "OK", 0)
    BY <1>7
  <2>4. /\ SameSession(c, g) /\ QueueKept(c, g) /\ HandlesKept(c, g) /\ g.send_queue = c.send_queue
    BY <1>2, <2>2 DEF Calm, SameSession, QueueKept, HandlesKept
  <2>5. Keeps(c, out)
    BY <1>1, <2>2, <2>3, <2>4, SuccessKeeps
  <2> QED BY <1>1, <1>4, <1>7, <2>3, <2>5, OutAnswers
<1> QED BY <1>3, <1>5, <1>6, <1>7, <1>8

CanOpen(c, uni) == c.credit[uni] # 0 /\ Q!NextOutgoing(c, uni) # {}
CanAccept(c, uni) == Q!Incoming(c, uni) # {}
CanRead(c, id) == id \in Q!Active(c) /\ (c.streams[id].buf # 0 \/ c.streams[id].fin)
CanWriteTo(c, id) == id \in Q!Active(c) /\ Q!CanWrite(c.streams[id])

\* In d nothing is possible that was not possible in c, for a program that
\* holds stream objects of c.
NothingNew(c, d) ==
    /\ d.dgroom # 0 => c.dgroom # 0
    /\ d.received_datagrams # <<>> => c.received_datagrams # <<>>
    /\ \A uni \in BOOLEAN : (CanOpen(d, uni) => CanOpen(c, uni)) /\ (CanAccept(d, uni) => CanAccept(c, uni))
    /\ \A id \in StreamIds :
         c.streams[id].phase \in {"open", "gone"} =>
           (CanRead(d, id) => CanRead(c, id)) /\ (CanWriteTo(d, id) => CanWriteTo(c, id))

\* What can be done depends on the streams and the credit.
LEMMA SameStreamsCan ==
    ASSUME NEW c, NEW d, d.streams = c.streams, d.credit = c.credit
    PROVE  /\ \A uni \in BOOLEAN : CanOpen(d, uni) = CanOpen(c, uni) /\ CanAccept(d, uni) = CanAccept(c, uni)
           /\ \A id \in StreamIds : CanRead(d, id) = CanRead(c, id) /\ CanWriteTo(d, id) = CanWriteTo(c, id)
           /\ \A uni \in BOOLEAN : Q!NextOutgoing(d, uni) = Q!NextOutgoing(c, uni)
           /\ \A uni \in BOOLEAN : Q!Incoming(d, uni) = Q!Incoming(c, uni)
           /\ Q!Active(d) = Q!Active(c)
<1>1. Q!Active(d) = Q!Active(c)
  BY DEF Q!Active
<1>2. \A uni \in BOOLEAN : Q!NextOutgoing(d, uni) = Q!NextOutgoing(c, uni)
  BY DEF Q!NextOutgoing
<1>3. \A uni \in BOOLEAN : Q!Incoming(d, uni) = Q!Incoming(c, uni)
  BY DEF Q!Incoming
<1> QED BY <1>1, <1>2, <1>3 DEF CanOpen, CanAccept, CanRead, CanWriteTo

\* An error or a packet more.
LEMMA CalmNothingNew ==
    ASSUME NEW c, NEW d, Calm(c, d)
    PROVE  NothingNew(c, d)
<1>1. d.streams = c.streams /\ d.credit = c.credit /\ d.dgroom = c.dgroom
      /\ d.received_datagrams = c.received_datagrams
  BY DEF Calm
<1> QED BY <1>1, SameStreamsCan DEF NothingNew

\* A stream that was in use stays in use: nothing is opened or accepted that
\* could not be before.
LEMMA UsedStreamNothingNew ==
    ASSUME NEW c \in WtClients, NEW d \in WtClients, NEW id \in StreamIds,
           QueueKept(c, d), d.credit = c.credit, d.dgroom = c.dgroom,
           \A i \in StreamIds : i # id => d.streams[i] = c.streams[i],
           c.streams[id].phase # "unused", d.streams[id].phase # "unused",
           d.streams[id].phase = "pending" => c.streams[id].phase = "pending",
           c.streams[id].phase \in {"open", "gone"} =>
             (CanRead(d, id) => CanRead(c, id)) /\ (CanWriteTo(d, id) => CanWriteTo(c, id))
    PROVE  NothingNew(c, d)
<1>1. \A i \in StreamIds : d.streams[i].phase = "unused" <=> c.streams[i].phase = "unused"
  OBVIOUS
<1>2. \A u \in BOOLEAN : Q!NextOutgoing(d, u) = Q!NextOutgoing(c, u)
  BY <1>1 DEF Q!NextOutgoing
<1>3. \A u \in BOOLEAN : Q!Incoming(d, u) \subseteq Q!Incoming(c, u)
  BY DEF Q!Incoming
<1>4. \A u \in BOOLEAN : (CanOpen(d, u) => CanOpen(c, u)) /\ (CanAccept(d, u) => CanAccept(c, u))
  BY <1>2, <1>3 DEF CanOpen, CanAccept
<1>5. ASSUME NEW i \in StreamIds, c.streams[i].phase \in {"open", "gone"}
      PROVE  (CanRead(d, i) => CanRead(c, i)) /\ (CanWriteTo(d, i) => CanWriteTo(c, i))
  <2>1. CASE i = id
    BY <1>5, <2>1
  <2>2. CASE i # id
    BY <2>2 DEF CanRead, CanWriteTo, Q!Active
  <2> QED BY <2>1, <2>2
<1> QED BY <1>4, <1>5 DEF NothingNew, QueueKept

\* open_*_stream uses up credit and an id: of the other direction nothing
\* changes, and no stream object of this id exists yet.
LEMMA OpenStreamFacts ==
    ASSUME NEW c \in WtClients, ReadyIsLive(c), NEW uni \in BOOLEAN, NEW out \in OpenStream(c, uni)
    PROVE  Keeps(c, out) /\ Answers(c, out, CanOpen(c, uni)) /\ NothingNew(c, out.c)
<1> DEFINE b == Q!ResetRuntimeError(c)
           opened(id) == [Q!SetStream(b, id, [b.streams[id] EXCEPT !.phase = "open"])
                            EXCEPT !.credit[uni] = @ - 1]
<1>1. ASSUME out \in Q!OpenStream(c, uni), c.session_ready, c.conn = "open"
      PROVE  Keeps(c, out) /\ Answers(c, out, CanOpen(c, uni)) /\ NothingNew(c, out.c)
  <2>1. b \in WtClients /\ Calm(c, b) /\ b.send_queue = c.send_queue /\ Q!IsConnected(b)
    BY <1>1, BodyStart
  <2>2. b.streams = c.streams /\ b.credit = c.credit /\ b.dgroom = c.dgroom
        /\ b.received_datagrams = c.received_datagrams
    BY <2>1 DEF Calm
  <2>3. CanOpen(b, uni) = CanOpen(c, uni)
    BY <2>2, SameStreamsCan
  <2>4. \/ ~CanOpen(b, uni) /\ \E d \in Q!MaySend(b) : out = Out(d, "WOULD_BLOCK", 0)
        \/ CanOpen(b, uni) /\ \E id \in Q!NextOutgoing(b, uni) : out = Out(opened(id), "OK", id)
    BY <1>1, <2>1 DEF Q!OpenStream, CanOpen, Q!Out, Out
  <2> HIDE DEF b
  <2>5. CASE ~CanOpen(b, uni) /\ \E d \in Q!MaySend(b) : out = Out(d, "WOULD_BLOCK", 0)
    <3>1. PICK d \in Q!MaySend(b) : out = Out(d, "WOULD_BLOCK", 0)
      BY <2>5
    <3>2. Keeps(c, out) /\ Calm(c, d)
      BY <1>1, <2>1, <3>1, BlockedKeeps
    <3>3. Answers(c, out, CanOpen(c, uni))
      BY <1>1, <2>3, <2>5, <3>1, OutAnswers
    <3>4. out.c = d
      BY <3>1 DEF Out
    <3> QED BY <3>2, <3>3, <3>4, CalmNothingNew
  <2>6. CASE CanOpen(b, uni) /\ \E id \in Q!NextOutgoing(b, uni) : out = Out(opened(id), "OK", id)
    <3>1. PICK id \in Q!NextOutgoing(b, uni) : out = Out(opened(id), "OK", id)
      BY <2>6
    <3> DEFINE s == [b.streams[id] EXCEPT !.phase = "open"]
               d == Q!SetStream(b, id, s)
               n == d.credit[uni]
               f == [d.credit EXCEPT ![uni] = n - 1]
               g == [d EXCEPT !.credit = f]
    <3>2. /\ id \in StreamIds /\ b.streams[id].phase = "unused" /\ (Q!Unidirectional(id) <=> uni)
          /\ Q!Outgoing(id)
      BY DEF Q!NextOutgoing
    <3>3. s \in Q!StreamStates /\ s.phase = "open"
      BY <2>1, <3>2, StreamOf DEF Q!StreamStates
    <3>4. out = Out(g, "OK", id)
      BY <3>1
    <3> HIDE DEF s
    <3>5. /\ d \in WtClients /\ SameSession(b, d) /\ QueueKept(b, d) /\ HandlesKept(b, d)
          /\ d.send_queue = b.send_queue /\ d.credit = b.credit /\ d.dgroom = b.dgroom
          /\ d.streams = [b.streams EXCEPT ![id] = Q!Settle(s)]
      BY <2>1, <3>2, <3>3, SetStreamFacts
    <3> HIDE DEF d
    <3>6. d.credit \in [BOOLEAN -> 0..MaxCredit] /\ n \in 0..MaxCredit /\ n # 0
      BY <2>6, <3>5 DEF WtClients, CanOpen
    <3> HIDE DEF n
    <3>7. n - 1 \in 0..MaxCredit
      BY <3>6, BoundsAssumption
    <3>8. f \in [BOOLEAN -> 0..MaxCredit] /\ \A u \in BOOLEAN : u # uni => f[u] = d.credit[u]
      BY <3>6, <3>7
    <3> HIDE DEF f
    <3>9. /\ g \in WtClients /\ SameSession(d, g) /\ QueueKept(d, g) /\ g.streams = d.streams
          /\ g.send_queue = d.send_queue /\ g.credit = f /\ g.dgroom = d.dgroom
      BY <3>5, <3>8 DEF WtClients, SameSession, QueueKept
    <3> HIDE DEF g
    <3>10. /\ SameSession(c, g) /\ QueueKept(c, g) /\ HandlesKept(c, g) /\ g.send_queue = c.send_queue
      BY <2>1, <3>5, <3>9 DEF Calm, SameSession, QueueKept, HandlesKept
    <3>11. Keeps(c, out)
      BY <1>1, <3>4, <3>9, <3>10, MaySendNothing, SuccessKeeps
    <3>12. Answers(c, out, CanOpen(c, uni))
      BY <1>1, <2>3, <2>6, <3>4, OutAnswers
    <3>13. g.streams[id].phase \in {"open", "gone"}
      <4>1. g.streams[id] = Q!Settle(s)
        BY <2>1, <3>2, <3>5, <3>9 DEF WtClients
      <4> QED BY <3>3, <4>1, SettleFacts
    <3>14. \A i \in StreamIds : i # id => g.streams[i] = c.streams[i]
      BY <2>1, <2>2, <3>5, <3>9 DEF WtClients
    <3>15. ASSUME NEW u \in BOOLEAN, CanOpen(g, u) PROVE CanOpen(c, u)
      <4>1. CASE u = uni
        BY <2>3, <2>6, <4>1
      <4>2. CASE u # uni
        <5>1. PICK j \in Q!NextOutgoing(g, u) : TRUE
          BY <3>15 DEF CanOpen
        <5>2. j \in StreamIds /\ j % 4 # id % 4
          BY <3>2, <4>2, <5>1 DEF Q!NextOutgoing, Q!Unidirectional
        <5>3. \A i \in StreamIds : i % 4 = j % 4 => g.streams[i] = c.streams[i]
          BY <3>14, <5>2
        <5>4. j \in Q!NextOutgoing(c, u)
          BY <5>1, <5>2, <5>3 DEF Q!NextOutgoing
        <5>5. g.credit[u] = c.credit[u]
          BY <2>2, <3>5, <3>8, <3>9, <4>2
        <5> QED BY <3>15, <5>4, <5>5 DEF CanOpen
      <4> QED BY <4>1, <4>2
    <3>16. ASSUME NEW u \in BOOLEAN, CanAccept(g, u) PROVE CanAccept(c, u)
      <4>1. PICK j \in Q!Incoming(g, u) : TRUE
        BY <3>16 DEF CanAccept
      <4>2. j \in StreamIds /\ j # id
        BY <3>13, <4>1 DEF Q!Incoming
      <4>3. j \in Q!Incoming(c, u)
        BY <3>14, <4>1, <4>2 DEF Q!Incoming
      <4> QED BY <4>3 DEF CanAccept
    <3>17. ASSUME NEW i \in StreamIds, c.streams[i].phase \in {"open", "gone"}
           PROVE  (CanRead(g, i) => CanRead(c, i)) /\ (CanWriteTo(g, i) => CanWriteTo(c, i))
      <4>1. g.streams[i] = c.streams[i]
        BY <2>2, <3>2, <3>14, <3>17
      <4> QED BY <4>1 DEF CanRead, CanWriteTo, Q!Active
    <3>18. NothingNew(c, g)
      <4>1. g.dgroom = c.dgroom /\ g.received_datagrams = c.received_datagrams
        BY <2>2, <3>5, <3>9, <3>10 DEF QueueKept
      <4> QED BY <3>15, <3>16, <3>17, <4>1 DEF NothingNew
    <3>19. out.c = g
      BY <3>4 DEF Out
    <3> QED BY <3>11, <3>12, <3>18, <3>19
  <2> QED BY <2>4, <2>5, <2>6
<1>2. CASE Refused(c, out) /\ ~c.session_ready /\ (c.wt = "freed" \/ out.st = "ERROR")
  <2>1. Answers(c, out, CanOpen(c, uni))
    BY <1>2 DEF Answers
  <2>2. NothingNew(c, out.c)
    BY <1>2, CalmNothingNew DEF Refused
  <2> QED BY <1>2, <2>1, <2>2, RefusedKeeps
<1> QED BY <1>1, <1>2, OnSessionFacts DEF OpenStream

\* accept_*_stream: no stream object of this id exists yet.
LEMMA AcceptStreamFacts ==
    ASSUME NEW c \in WtClients, ReadyIsLive(c), NEW uni \in BOOLEAN, NEW out \in AcceptStream(c, uni)
    PROVE  Keeps(c, out) /\ Answers(c, out, CanAccept(c, uni)) /\ NothingNew(c, out.c)
<1> DEFINE b == Q!ResetRuntimeError(c)
<1>1. ASSUME out \in Q!AcceptStream(c, uni), c.session_ready, c.conn = "open"
      PROVE  Keeps(c, out) /\ Answers(c, out, CanAccept(c, uni)) /\ NothingNew(c, out.c)
  <2>1. b \in WtClients /\ Calm(c, b) /\ b.send_queue = c.send_queue /\ Q!IsConnected(b)
    BY <1>1, BodyStart
  <2>2. b.streams = c.streams /\ b.credit = c.credit /\ b.dgroom = c.dgroom
        /\ b.received_datagrams = c.received_datagrams
    BY <2>1 DEF Calm
  <2>3. CanAccept(b, uni) = CanAccept(c, uni)
    BY <2>2, SameStreamsCan
  <2>4. \/ ~CanAccept(b, uni) /\ out = Out(b, "WOULD_BLOCK", 0)
        \/ \E id \in Q!Incoming(b, uni) :
             out = Out(Q!SetStream(b, id, [b.streams[id] EXCEPT !.phase = "open"]), "OK", id)
    BY <1>1, <2>1 DEF Q!AcceptStream, CanAccept, Q!Out, Out
  <2> HIDE DEF b
  <2>5. CASE ~CanAccept(b, uni) /\ out = Out(b, "WOULD_BLOCK", 0)
    <3>1. Keeps(c, out) /\ Answers(c, out, CanAccept(c, uni))
      BY <1>1, <2>1, <2>3, <2>5, FailureKeeps, OutAnswers
    <3>2. out.c = b
      BY <2>5 DEF Out
    <3> QED BY <2>1, <3>1, <3>2, CalmNothingNew
  <2>6. CASE \E id \in Q!Incoming(b, uni) :
               out = Out(Q!SetStream(b, id, [b.streams[id] EXCEPT !.phase = "open"]), "OK", id)
    <3>1. PICK id \in Q!Incoming(b, uni) :
               out = Out(Q!SetStream(b, id, [b.streams[id] EXCEPT !.phase = "open"]), "OK", id)
      BY <2>6
    <3> DEFINE s == [b.streams[id] EXCEPT !.phase = "open"]
               d == Q!SetStream(b, id, s)
    <3>2. id \in StreamIds /\ b.streams[id].phase = "pending"
      BY DEF Q!Incoming
    <3>3. s \in Q!StreamStates /\ s.phase = "open"
      BY <2>1, <3>2, StreamOf DEF Q!StreamStates
    <3>4. out = Out(d, "OK", id)
      BY <3>1
    <3> HIDE DEF s
    <3>5. /\ d \in WtClients /\ SameSession(b, d) /\ QueueKept(b, d) /\ HandlesKept(b, d)
          /\ d.send_queue = b.send_queue /\ d.credit = b.credit /\ d.dgroom = b.dgroom
          /\ d.streams = [b.streams EXCEPT ![id] = Q!Settle(s)]
      BY <2>1, <3>2, <3>3, SetStreamFacts
    <3> HIDE DEF d
    <3>6. /\ SameSession(c, d) /\ QueueKept(c, d) /\ HandlesKept(c, d) /\ d.send_queue = c.send_queue
      BY <2>1, <3>5 DEF Calm, SameSession, QueueKept, HandlesKept
    <3>7. Keeps(c, out)
      BY <1>1, <3>4, <3>5, <3>6, MaySendNothing, SuccessKeeps
    <3>8. CanAccept(c, uni)
      BY <2>3 DEF CanAccept
    <3>9. d.streams[id].phase \in {"open", "gone"}
      <4>1. d.streams[id] = Q!Settle(s)
        BY <2>1, <3>2, <3>5 DEF WtClients
      <4> QED BY <3>3, <4>1, SettleFacts
    <3>10. \A i \in StreamIds : i # id => d.streams[i] = c.streams[i]
      BY <2>1, <2>2, <3>5 DEF WtClients
    <3>11. d.credit = c.credit /\ d.dgroom = c.dgroom /\ c.streams[id].phase = "pending"
      BY <2>2, <3>2, <3>5
    <3>12. NothingNew(c, d)
      BY <3>2, <3>5, <3>6, <3>9, <3>10, <3>11, UsedStreamNothingNew
    <3>13. out.c = d
      BY <3>4 DEF Out
    <3> QED BY <1>1, <3>4, <3>7, <3>8, <3>12, <3>13, OutAnswers
  <2> QED BY <2>4, <2>5, <2>6
<1>2. CASE Refused(c, out) /\ ~c.session_ready /\ (c.wt = "freed" \/ out.st = "ERROR")
  <2>1. Answers(c, out, CanAccept(c, uni))
    BY <1>2 DEF Answers
  <2>2. NothingNew(c, out.c)
    BY <1>2, CalmNothingNew DEF Refused
  <2> QED BY <1>2, <2>1, <2>2, RefusedKeeps
<1> QED BY <1>1, <1>2, OnSessionFacts DEF AcceptStream

\* RequireStream: the stream is missing, or the body runs.
LEMMA OnStreamFacts ==
    ASSUME NEW b, Q!IsConnected(b), NEW id \in StreamIds, NEW body, NEW out \in Q!OnStream(b, id, body)
    PROVE  \/ id \notin Q!Active(b) /\ out = Out(Q!SetError(b, "stream missing"), "NOT_FOUND", 0)
           \/ id \in Q!Active(b) /\ out \in body
BY DEF Q!OnStream, Q!Out, Out

\* A method of a stream changes that stream only, and makes nothing possible
\* that was not.
LEMMA StreamUpdateFacts ==
    ASSUME NEW c \in WtClients, c.session_ready, NEW b \in WtClients, Calm(c, b),
           b.send_queue = c.send_queue, NEW id \in Q!Active(b), NEW s \in Q!StreamStates,
           s.phase = b.streams[id].phase,
           s.buf # 0 \/ s.fin => b.streams[id].buf # 0 \/ b.streams[id].fin,
           Q!CanWrite(s) => Q!CanWrite(b.streams[id]),
           NEW d \in Q!MaySend(Q!SetStream(b, id, s)), NEW val
    PROVE  Keeps(c, Out(d, "OK", val)) /\ NothingNew(c, d)
<1> DEFINE g == Q!SetStream(b, id, s)
<1>1. id \in StreamIds /\ b.streams[id].phase \in {"pending", "open"}
  BY DEF Q!Active
<1>2. b.streams = c.streams /\ b.credit = c.credit /\ b.dgroom = c.dgroom
      /\ b.received_datagrams = c.received_datagrams
  BY DEF Calm
<1>3. /\ g \in WtClients /\ SameSession(b, g) /\ QueueKept(b, g) /\ HandlesKept(b, g)
      /\ g.send_queue = b.send_queue /\ g.credit = b.credit /\ g.dgroom = b.dgroom
      /\ g.streams = [b.streams EXCEPT ![id] = Q!Settle(s)]
  BY <1>1, SetStreamFacts
<1>4. d \in Q!MaySend(g)
  OBVIOUS
<1> HIDE DEF g
<1>5. SameSession(c, g) /\ QueueKept(c, g) /\ HandlesKept(c, g) /\ g.send_queue = c.send_queue
  BY <1>2, <1>3 DEF Calm, SameSession, QueueKept, HandlesKept
<1>6. Keeps(c, Out(d, "OK", val))
  BY <1>3, <1>4, <1>5, SuccessKeeps
<1>7. d \in WtClients /\ Calm(g, d)
  BY <1>3, <1>4, MaySendFacts
<1>8. QueueKept(c, d) /\ d.credit = c.credit /\ d.dgroom = c.dgroom
      /\ d.streams = [c.streams EXCEPT ![id] = Q!Settle(s)]
  BY <1>2, <1>3, <1>5, <1>7 DEF Calm, QueueKept
<1>9. c.streams \in [StreamIds -> Q!StreamStates]
  BY DEF WtClients
<1>10. d.streams[id] = Q!Settle(s) /\ \A i \in StreamIds : i # id => d.streams[i] = c.streams[i]
  BY <1>1, <1>8, <1>9
<1>11. Q!Settle(s).phase \in {s.phase, "gone"} /\ (Q!Settle(s).phase # "gone" => Q!Settle(s) = s)
  BY SettleFacts
<1>12. (CanRead(d, id) => CanRead(c, id)) /\ (CanWriteTo(d, id) => CanWriteTo(c, id))
  <2>1. id \in Q!Active(d) => d.streams[id] = s
    BY <1>10, <1>11 DEF Q!Active
  <2>2. id \in Q!Active(c)
    BY <1>1, <1>2 DEF Q!Active
  <2> QED BY <1>2, <2>1, <2>2 DEF CanRead, CanWriteTo
<1>13. /\ c.streams[id].phase # "unused" /\ d.streams[id].phase # "unused"
       /\ d.streams[id].phase = "pending" => c.streams[id].phase = "pending"
  BY <1>1, <1>2, <1>10, <1>11
<1>14. NothingNew(c, d)
  BY <1>1, <1>7, <1>8, <1>10, <1>12, <1>13, UsedStreamNothingNew
<1> QED BY <1>6, <1>14

\* A method of a stream that is refused, or has to wait.
LEMMA StreamFailure ==
    ASSUME NEW c \in WtClients, c.session_ready, NEW b \in WtClients, Calm(c, b),
           b.send_queue = c.send_queue, NEW out, NEW can,
           out = Out(Q!SetError(b, "stream missing"), "NOT_FOUND", 0)
             \/ (~can /\ out = Out(b, "WOULD_BLOCK", 0))
    PROVE  Keeps(c, out) /\ Answers(c, out, can) /\ NothingNew(c, out.c)
<1> DEFINE e == Q!SetError(b, "stream missing")
<1>1. Keeps(c, out)
  BY FailureKeeps
<1>2. e \in WtClients /\ Calm(b, e)
  <2>1. "stream missing" \in Errors
    BY DEF Errors
  <2> QED BY <2>1, SetErrorFacts
<1> HIDE DEF e
<1>3. Answers(c, out, can) /\ out.c \in {b, e}
  <2>1. CASE out = Out(e, "NOT_FOUND", 0)
    BY <2>1, OutAnswers DEF Out
  <2>2. CASE ~can /\ out = Out(b, "WOULD_BLOCK", 0)
    BY <2>2, OutAnswers DEF Out
  <2> QED BY <2>1, <2>2 DEF e
<1>4. Calm(c, b) /\ Calm(c, e)
  BY <1>2, CalmTransitive
<1>5. Calm(c, out.c)
  BY <1>3, <1>4
<1> QED BY <1>1, <1>3, <1>5, CalmNothingNew

\* The same for a method that EnsureSessionReady refused.
LEMMA RefusedFacts ==
    ASSUME NEW c, NEW out, NEW can, Refused(c, out), c.wt = "freed" \/ out.st = "ERROR"
    PROVE  Keeps(c, out) /\ Answers(c, out, can) /\ NothingNew(c, out.c)
<1>1. Answers(c, out, can)
  BY DEF Answers
<1>2. NothingNew(c, out.c)
  BY CalmNothingNew DEF Refused
<1> QED BY <1>1, <1>2, RefusedKeeps

\* read().
LEMMA ReadStreamFacts ==
    ASSUME NEW c \in WtClients, ReadyIsLive(c), NEW id \in StreamIds, NEW out \in ReadStream(c, id)
    PROVE  Keeps(c, out) /\ Answers(c, out, CanRead(c, id)) /\ NothingNew(c, out.c)
<1> DEFINE b == Q!ResetRuntimeError(c)
           s == b.streams[id]
           lens == IF s.buf = 0 THEN {0} ELSE 1..s.buf
           body == IF s.buf = 0 /\ ~s.fin THEN {Out(b, "WOULD_BLOCK", 0)}
                   ELSE UNION {{Out(d, "OK", n) : d \in Q!MaySend(Q!SetStream(b, id, Q!Consume(s, n)))} :
                               n \in lens}
<1>1. ASSUME out \in Q!ReadStream(c, id), c.session_ready, c.conn = "open"
      PROVE  Keeps(c, out) /\ Answers(c, out, CanRead(c, id)) /\ NothingNew(c, out.c)
  <2>1. b \in WtClients /\ Calm(c, b) /\ b.send_queue = c.send_queue /\ Q!IsConnected(b)
    BY <1>1, BodyStart
  <2>2. b.streams = c.streams
    BY <2>1 DEF Calm
  <2>3. CanRead(c, id) <=> id \in Q!Active(b) /\ (s.buf # 0 \/ s.fin)
    BY <2>2 DEF CanRead, Q!Active
  <2>4. \/ out = Out(Q!SetError(b, "stream missing"), "NOT_FOUND", 0)
        \/ id \in Q!Active(b) /\ out \in body
    <3>1. out \in Q!OnStream(b, id, body)
      BY <1>1 DEF Q!ReadStream, Q!Out, Out
    <3> HIDE DEF b, body
    <3> QED BY <2>1, <3>1, OnStreamFacts
  <2>5. s \in Q!StreamStates
    BY <2>1, StreamOf
  <2> HIDE DEF b, s
  <2>6. CASE \/ out = Out(Q!SetError(b, "stream missing"), "NOT_FOUND", 0)
             \/ s.buf = 0 /\ ~s.fin /\ out = Out(b, "WOULD_BLOCK", 0)
    BY <1>1, <2>1, <2>3, <2>6, StreamFailure
  <2>7. CASE /\ id \in Q!Active(b) /\ (s.buf # 0 \/ s.fin)
             /\ \E n \in lens : \E d \in Q!MaySend(Q!SetStream(b, id, Q!Consume(s, n))) : out = Out(d, "OK", n)
    <3>1. PICK n \in lens : \E d \in Q!MaySend(Q!SetStream(b, id, Q!Consume(s, n))) : out = Out(d, "OK", n)
      BY <2>7
    <3>2. PICK d \in Q!MaySend(Q!SetStream(b, id, Q!Consume(s, n))) : out = Out(d, "OK", n)
      BY <3>1
    <3> DEFINE t == Q!Consume(s, n)
    <3>3. s.buf \in 0..MaxChunks
      BY <2>5 DEF Q!StreamStates
    <3>4. s.buf - n \in 0..MaxChunks /\ 0 \in 0..MaxChunks
      BY <3>1, <3>3, BoundsAssumption
    <3>5. t \in Q!StreamStates /\ t.phase = s.phase /\ t.room = s.room /\ t.wclosed = s.wclosed
      BY <2>5, <3>4 DEF Q!Consume, Q!StreamStates
    <3> HIDE DEF t
    <3>6. (s.buf # 0 \/ s.fin) /\ (Q!CanWrite(t) => Q!CanWrite(s))
      BY <2>7, <3>5 DEF Q!CanWrite
    <3>7. Keeps(c, out) /\ NothingNew(c, d)
      BY <1>1, <2>1, <2>7, <3>2, <3>5, <3>6, StreamUpdateFacts DEF s, t
    <3>8. out.c = d
      BY <3>2 DEF Out
    <3> QED BY <1>1, <2>3, <2>7, <3>2, <3>7, <3>8, OutAnswers
  <2> QED BY <2>4, <2>6, <2>7
<1> QED BY <1>1, RefusedFacts, OnSessionFacts DEF ReadStream

\* write().
LEMMA WriteStreamFacts ==
    ASSUME NEW c \in WtClients, ReadyIsLive(c), NEW id \in StreamIds, NEW fin \in BOOLEAN,
           NEW out \in WriteStream(c, id, fin)
    PROVE  Keeps(c, out) /\ Answers(c, out, CanWriteTo(c, id)) /\ NothingNew(c, out.c)
<1> DEFINE b == Q!ResetRuntimeError(c)
           s == b.streams[id]
           t == [s EXCEPT !.room = @ - 1, !.wclosed = fin]
           body == IF ~Q!CanWrite(s) THEN {Out(b, "WOULD_BLOCK", 0)}
                   ELSE {Out(d, "OK", 0) : d \in Q!MaySend(Q!SetStream(b, id, t))}
<1>1. ASSUME out \in Q!WriteStream(c, id, fin), c.session_ready, c.conn = "open"
      PROVE  Keeps(c, out) /\ Answers(c, out, CanWriteTo(c, id)) /\ NothingNew(c, out.c)
  <2>1. b \in WtClients /\ Calm(c, b) /\ b.send_queue = c.send_queue /\ Q!IsConnected(b)
    BY <1>1, BodyStart
  <2>2. b.streams = c.streams
    BY <2>1 DEF Calm
  <2>3. CanWriteTo(c, id) <=> id \in Q!Active(b) /\ Q!CanWrite(s)
    BY <2>2 DEF CanWriteTo, Q!Active
  <2>4. \/ out = Out(Q!SetError(b, "stream missing"), "NOT_FOUND", 0)
        \/ id \in Q!Active(b) /\ out \in body
    <3>1. out \in Q!OnStream(b, id, body)
      BY <1>1 DEF Q!WriteStream, Q!Out, Out
    <3> HIDE DEF b, body
    <3> QED BY <2>1, <3>1, OnStreamFacts
  <2>5. s \in Q!StreamStates
    BY <2>1, StreamOf
  <2> HIDE DEF b, s
  <2>6. CASE \/ out = Out(Q!SetError(b, "stream missing"), "NOT_FOUND", 0)
             \/ ~Q!CanWrite(s) /\ out = Out(b, "WOULD_BLOCK", 0)
    BY <1>1, <2>1, <2>3, <2>6, StreamFailure
  <2>7. CASE /\ id \in Q!Active(b) /\ Q!CanWrite(s)
             /\ \E d \in Q!MaySend(Q!SetStream(b, id, t)) : out = Out(d, "OK", 0)
    <3>1. PICK d \in Q!MaySend(Q!SetStream(b, id, t)) : out = Out(d, "OK", 0)
      BY <2>7
    <3>2. s.room \in 0..MaxRoom /\ s.room > 0
      BY <2>5, <2>7 DEF Q!StreamStates, Q!CanWrite
    <3>3. s.room - 1 \in 0..MaxRoom
      BY <3>2, BoundsAssumption
    <3>4. t \in Q!StreamStates /\ t.phase = s.phase /\ t.buf = s.buf /\ t.fin = s.fin
      BY <2>5, <3>3 DEF Q!StreamStates
    <3> HIDE DEF t
    <3>5. Keeps(c, out) /\ NothingNew(c, d)
      BY <1>1, <2>1, <2>7, <3>1, <3>4, StreamUpdateFacts DEF s
    <3>6. out.c = d
      BY <3>1 DEF Out
    <3> QED BY <1>1, <2>3, <2>7, <3>1, <3>5, <3>6, OutAnswers
  <2> QED BY <2>4, <2>6, <2>7
<1> QED BY <1>1, RefusedFacts, OnSessionFacts DEF WriteStream

\* reset() and stop_sending().
LEMMA ControlFacts ==
    ASSUME NEW c \in WtClients, ReadyIsLive(c), NEW id \in StreamIds,
           NEW out \in ResetStream(c, id) \cup StopSending(c, id)
    PROVE  Keeps(c, out) /\ NothingNew(c, out.c)
<1> DEFINE b == Q!ResetRuntimeError(c)
           s == b.streams[id]
           t == [s EXCEPT !.wclosed = TRUE]
           u == [s EXCEPT !.rclosed = TRUE, !.buf = 0, !.fin = FALSE]
           Done(v) == {Out(d, "OK", 0) : d \in Q!MaySend(Q!SetStream(b, id, v))}
<1>1. ASSUME out \in Q!ResetStream(c, id) \cup Q!StopSending(c, id), c.session_ready, c.conn = "open"
      PROVE  Keeps(c, out) /\ NothingNew(c, out.c)
  <2>1. b \in WtClients /\ Calm(c, b) /\ b.send_queue = c.send_queue /\ Q!IsConnected(b)
    BY <1>1, BodyStart
  <2>2. \/ out = Out(Q!SetError(b, "stream missing"), "NOT_FOUND", 0)
        \/ id \in Q!Active(b) /\ out \in Done(t) \cup Done(u)
    <3>1. out \in Q!OnStream(b, id, Done(t)) \/ out \in Q!OnStream(b, id, Done(u))
      BY <1>1 DEF Q!ResetStream, Q!StopSending, Q!Out, Out
    <3> HIDE DEF b, Done
    <3> QED BY <2>1, <3>1, OnStreamFacts
  <2>3. s \in Q!StreamStates
    BY <2>1, StreamOf
  <2> HIDE DEF b, s
  <2>4. CASE out = Out(Q!SetError(b, "stream missing"), "NOT_FOUND", 0)
    BY <1>1, <2>1, <2>4, StreamFailure
  <2>5. CASE id \in Q!Active(b) /\ out \in Done(t) \cup Done(u)
    <3>1. PICK v \in {t, u} : out \in Done(v)
      BY <2>5
    <3>2. 0 \in 0..MaxChunks
      BY BoundsAssumption
    <3>3. /\ t \in Q!StreamStates /\ t.phase = s.phase /\ t.buf = s.buf /\ t.fin = s.fin /\ t.wclosed
          /\ u \in Q!StreamStates /\ u.phase = s.phase /\ u.buf = 0 /\ u.fin = FALSE
          /\ u.room = s.room /\ u.wclosed = s.wclosed
      BY <2>3, <3>2 DEF Q!StreamStates
    <3> HIDE DEF t, u
    <3>4. /\ v \in Q!StreamStates /\ v.phase = s.phase /\ (v.buf # 0 \/ v.fin => s.buf # 0 \/ s.fin)
          /\ Q!CanWrite(v) => Q!CanWrite(s)
      BY <3>1, <3>3 DEF Q!CanWrite
    <3>5. PICK d \in Q!MaySend(Q!SetStream(b, id, v)) : out = Out(d, "OK", 0)
      BY <3>1
    <3>6. Keeps(c, out) /\ NothingNew(c, d)
      BY <1>1, <2>1, <2>5, <3>4, <3>5, StreamUpdateFacts DEF s
    <3>7. out.c = d
      BY <3>5 DEF Out
    <3> QED BY <3>6, <3>7
  <2> QED BY <2>2, <2>4, <2>5
<1> QED BY <1>1, RefusedFacts, OnSessionFacts DEF ResetStream, StopSending

-----------------------------------------------------------------------------
(* The datagrams.                                                          *)

\* The head and the tail of a queue that is not empty.
LEMMA HeadAndTail ==
    ASSUME NEW S, NEW q \in Seq(S), q # <<>>
    PROVE  Head(q) \in S /\ Tail(q) \in Seq(S)
OBVIOUS

\* Without a session there is nothing to peek at, and freed memory answers 0;
\* otherwise the size is that of the head, which stays in the queue.
LEMMA PeekFacts ==
    ASSUME NEW c \in WtClients, ReadyIsLive(c), NEW out \in PeekDatagramSize(c)
    PROVE  /\ Keeps(c, out) /\ Calm(c, out.c) /\ out.c.send_queue = c.send_queue
           /\ Answers(c, out, c.received_datagrams # <<>>)
           /\ out.st \in {"OK", "WOULD_BLOCK", "ERROR"}
           /\ out.st = "OK" /\ c.wt # "freed" => out.val = Q!SizeOf(Head(c.received_datagrams))
           /\ out.st = "OK" /\ c.wt = "freed" => out.val = 0
<1> DEFINE b == Q!ResetRuntimeError(c)
<1>1. ASSUME out \in {Q!PeekDatagramSize(c)}, c.session_ready, c.wt = "live", c.conn = "open"
      PROVE  /\ Keeps(c, out) /\ Calm(c, out.c) /\ out.c.send_queue = c.send_queue
             /\ Answers(c, out, c.received_datagrams # <<>>)
             /\ out.st \in {"OK", "WOULD_BLOCK"}
             /\ out.st = "OK" => out.val = Q!SizeOf(Head(c.received_datagrams))
  <2>1. b \in WtClients /\ Calm(c, b) /\ b.send_queue = c.send_queue
    BY ResetFacts
  <2>2. b.received_datagrams = c.received_datagrams
    BY <2>1 DEF Calm
  <2>3. \/ b.received_datagrams = <<>> /\ out = Out(b, "WOULD_BLOCK", 0)
        \/ b.received_datagrams # <<>> /\ out = Out(b, "OK", Q!SizeOf(Head(b.received_datagrams)))
    BY <1>1 DEF Q!PeekDatagramSize, Q!Out, Out
  <2> HIDE DEF b
  <2>4. CASE b.received_datagrams = <<>> /\ out = Out(b, "WOULD_BLOCK", 0)
    <3>1. Keeps(c, out)
      BY <2>1, <2>4, FailureKeeps
    <3>2. out.c = b /\ out.st = "WOULD_BLOCK"
      BY <2>4 DEF Out
    <3> QED BY <1>1, <2>1, <2>2, <2>4, <3>1, <3>2 DEF Answers
  <2>5. CASE b.received_datagrams # <<>> /\ out = Out(b, "OK", Q!SizeOf(Head(b.received_datagrams)))
    <3>1. out.c = b /\ out.st = "OK" /\ out.val = Q!SizeOf(Head(b.received_datagrams))
      BY <2>5 DEF Out
    <3>2. Refused(c, out)
      BY <2>1, <3>1 DEF Refused
    <3> QED BY <1>1, <2>1, <2>2, <2>5, <3>1, <3>2, RefusedKeeps DEF Answers
  <2> QED BY <2>3, <2>4, <2>5
<1>2. CASE Refused(c, out) /\ (c.wt = "freed" \/ out.st = "ERROR") /\ (c.wt = "freed" => out.val = 0)
  <2>1. Answers(c, out, c.received_datagrams # <<>>)
    BY <1>2 DEF Answers
  <2>2. out.st = "ERROR" => out.st # "OK"
    OBVIOUS
  <2>3. c.wt = "freed" => out.st \in {"OK", "WOULD_BLOCK", "ERROR"}
    <3>1. SUFFICES ASSUME c.wt = "freed" PROVE out.st \in {"OK", "WOULD_BLOCK", "ERROR"}
      OBVIOUS
    <3> DEFINE d == Deref(Q!ResetRuntimeError(c))
    <3>2. d.wt = "freed"
      <4>1. Q!ResetRuntimeError(c) \in WtClients /\ Calm(c, Q!ResetRuntimeError(c))
        BY ResetFacts
      <4> HIDE DEF Q!ResetRuntimeError
      <4>2. Calm(Q!ResetRuntimeError(c), d)
        BY <4>1, DerefFacts
      <4> QED BY <3>1, <4>1, <4>2 DEF Calm
    <3>3. PICK st \in {"OK", "WOULD_BLOCK", "ERROR"} : out = Out(d, st, 0)
      BY <3>2 DEF PeekDatagramSize, OnSession, ResetRuntimeError
    <3> QED BY <3>3 DEF Out
  <2> QED BY <1>2, <2>1, <2>2, <2>3, RefusedKeeps DEF Refused
<1> QED BY <1>1, <1>2, OnSessionFacts DEF PeekDatagramSize

\* What a call that takes the head of the queue leaves alone.
Takes(c, out) ==
    /\ out.c \in WtClients /\ SameSession(c, out.c) /\ HandlesKept(c, out.c)
    /\ out.c.send_queue = c.send_queue /\ out.st \in {"OK", "WOULD_BLOCK", "ERROR"}
    /\ out.st # "OK" \/ c.wt = "freed" => Calm(c, out.c)
    /\ out.st = "OK" /\ c.wt # "freed" =>
         /\ c.session_ready /\ c.received_datagrams # <<>>
         /\ out.val = Head(c.received_datagrams) /\ out.c.received_datagrams = Tail(c.received_datagrams)
         /\ out.c.credit = c.credit /\ out.c.dgroom = c.dgroom /\ out.c.streams = c.streams
    /\ out.st = "WOULD_BLOCK" /\ c.wt # "freed" => c.session_ready /\ c.received_datagrams = <<>>

\* With a buffer that holds the head, the head is taken and nothing is lost.
LEMMA ReceiveDatagramFacts ==
    ASSUME NEW c \in WtClients, ReadyIsLive(c), NEW n, NEW out \in ReceiveDatagram(c, n),
           c.wt # "freed" => c.received_datagrams = <<>> \/ ~(n < Q!SizeOf(Head(c.received_datagrams)))
    PROVE  Takes(c, out)
<1> DEFINE b == Q!ResetRuntimeError(c)
           q == b.received_datagrams
           taken == [b EXCEPT !.received_datagrams = Tail(q)]
           body == IF q = <<>> THEN {Out(b, "WOULD_BLOCK", 0)}
                   ELSE IF n < Q!SizeOf(Head(q)) THEN {Out(Q!SetError(taken, "too big"), "TOO_BIG", 0)}
                   ELSE {Out(taken, "OK", Head(q))}
<1>1. out \in OnSession(c, body)
  BY DEF ReceiveDatagram, ResetRuntimeError, SetError
<1>2. b \in WtClients /\ Calm(c, b) /\ b.send_queue = c.send_queue
  BY ResetFacts
<1>3. q = c.received_datagrams
  BY <1>2 DEF Calm
<1> HIDE DEF b
<1>4. CASE out \in body /\ c.session_ready /\ c.wt = "live"
  <2>1. CASE q = <<>>
    <3>1. out.c = b /\ out.st = "WOULD_BLOCK"
      BY <1>4, <2>1 DEF Out
    <3> QED BY <1>2, <1>3, <1>4, <2>1, <3>1 DEF Takes, Calm, SameSession, HandlesKept
  <2>2. CASE q # <<>>
    <3>1. ~(n < Q!SizeOf(Head(q)))
      BY <1>3, <1>4, <2>2
    <3>2. out = Out(taken, "OK", Head(q))
      BY <1>4, <2>2, <3>1
    <3>3. out.c = taken /\ out.st = "OK" /\ out.val = Head(q)
      BY <3>2 DEF Out
    <3> DEFINE t == Tail(q)
    <3>4. t \in Seq(1..MaxDatagrams)
      BY <1>2, <2>2, HeadAndTail DEF WtClients
    <3>5. taken = [b EXCEPT !.received_datagrams = t]
      OBVIOUS
    <3> HIDE DEF taken, t
    <3>6. /\ taken \in WtClients /\ SameSession(b, taken) /\ taken.received_datagrams = t
          /\ taken.credit = b.credit /\ taken.dgroom = b.dgroom /\ taken.streams = b.streams
          /\ taken.send_queue = b.send_queue
      BY <1>2, <3>4, <3>5 DEF WtClients, SameSession
    <3> QED BY <1>2, <1>3, <1>4, <2>2, <3>3, <3>6 DEF Takes, Calm, SameSession, HandlesKept, t
  <2> QED BY <2>1, <2>2
<1>5. CASE Refused(c, out) /\ ~c.session_ready /\ (c.wt = "freed" \/ out.st = "ERROR")
  <2>1. out.st \in {"OK", "WOULD_BLOCK", "ERROR"}
    <3>1. SUFFICES ASSUME c.wt = "freed" PROVE out.st \in {"OK", "WOULD_BLOCK", "ERROR"}
      BY <1>5
    <3> DEFINE d == Deref(b)
    <3>2. Calm(b, d)
      BY <1>2, DerefFacts
    <3>3. d.wt = "freed"
      BY <1>2, <3>1, <3>2 DEF Calm
    <3>4. d = Deref(ResetRuntimeError(c))
      BY DEF b, ResetRuntimeError
    <3> HIDE DEF d, body
    <3>5. PICK st \in {"OK", "WOULD_BLOCK", "ERROR"} : out = Out(d, st, 0)
      BY <1>1, <3>3, <3>4 DEF OnSession
    <3> QED BY <3>5 DEF Out
  <2>2. Calm(c, out.c) /\ out.c \in WtClients /\ out.c.send_queue = c.send_queue
    BY <1>5 DEF Refused
  <2>3. SameSession(c, out.c) /\ HandlesKept(c, out.c)
    BY <2>2 DEF Calm, SameSession, HandlesKept
  <2> QED BY <1>5, <2>1, <2>2, <2>3 DEF Takes
<1> HIDE DEF body
<1> QED BY <1>1, <1>4, <1>5, OnSessionFacts

-----------------------------------------------------------------------------
(* The ledger of the datagrams of a session.                               *)

\* What was delivered, followed by what is queued, is everything that came.
Numbers(n) == [i \in 1..n |-> i]
Ledger(g, c) == g \o c.received_datagrams = Numbers(c.arrived)

\* An element appended to the second of two sequences comes last.
LEMMA JoinedAppend ==
    ASSUME NEW S, NEW g \in Seq(S), NEW q \in Seq(S), NEW x \in S
    PROVE  /\ g \o q \in Seq(S) /\ g \o Append(q, x) \in Seq(S)
           /\ Len(g \o Append(q, x)) = Len(g \o q) + 1
           /\ \A i \in 1..Len(g \o q) : (g \o Append(q, x))[i] = (g \o q)[i]
           /\ (g \o Append(q, x))[Len(g \o q) + 1] = x
<1>1. /\ g \o q \in Seq(S) /\ g \o Append(q, x) \in Seq(S) /\ Len(g \o q) = Len(g) + Len(q)
      /\ Len(g \o Append(q, x)) = Len(g) + Len(q) + 1 /\ Len(g) \in Nat /\ Len(q) \in Nat
  OBVIOUS
<1>2. \A i \in 1..(Len(g) + Len(q)) : (g \o Append(q, x))[i] = (g \o q)[i]
  OBVIOUS
<1>3. (g \o Append(q, x))[Len(g) + Len(q) + 1] = x
  OBVIOUS
<1> QED BY <1>1, <1>2, <1>3

\* A numbering is continued by the next number at the end of the queue.
LEMMA NumberedGrows ==
    ASSUME NEW S, NEW g \in Seq(S), NEW q \in Seq(S), NEW n \in Nat, n + 1 \in S
    PROVE  g \o q = Numbers(n) => g \o Append(q, n + 1) = Numbers(n + 1)
<1> DEFINE h == g \o q
           e == g \o Append(q, n + 1)
<1>1. /\ h \in Seq(S) /\ e \in Seq(S) /\ Len(e) = Len(h) + 1
      /\ \A i \in 1..Len(h) : e[i] = h[i]
      /\ e[Len(h) + 1] = n + 1
  BY JoinedAppend
<1> HIDE DEF h, e
<1>2. SUFFICES ASSUME h = [i \in 1..n |-> i] PROVE e = [i \in 1..(n + 1) |-> i]
  BY DEF h, e, Numbers
<1>3. Len(h) = n /\ \A i \in 1..n : h[i] = i
  BY <1>1, <1>2
<1>4. DOMAIN e = 1..(n + 1) /\ \A i \in 1..(n + 1) : e[i] = i
  BY <1>1, <1>3
<1>5. e = [i \in DOMAIN e |-> e[i]]
  BY <1>1
<1> QED BY <1>4, <1>5, Zenon

\* Moving the head of the queue to the end of what was delivered keeps the order.
LEMMA TakingKeepsOrder ==
    ASSUME NEW S, NEW g \in Seq(S), NEW q \in Seq(S), q # <<>>
    PROVE  Append(g, Head(q)) \in Seq(S) /\ Append(g, Head(q)) \o Tail(q) = g \o q
<1> DEFINE x == Append(g, Head(q)) \o Tail(q)
           y == g \o q
<1>1. /\ Append(g, Head(q)) \in Seq(S) /\ x \in Seq(S) /\ y \in Seq(S)
      /\ Len(x) = Len(g) + Len(q) /\ Len(y) = Len(g) + Len(q)
  OBVIOUS
<1>2. \A i \in 1..(Len(g) + Len(q)) : x[i] = y[i]
  OBVIOUS
<1> HIDE DEF x, y
<1>3. x = [i \in 1..(Len(g) + Len(q)) |-> x[i]] /\ y = [i \in 1..(Len(g) + Len(q)) |-> y[i]]
  BY <1>1
<1>4. x = y
  BY <1>2, <1>3, Zenon
<1> QED BY <1>1, <1>4 DEF x, y

\* A packet adds at most one datagram to the ledger, at its end.
LEMMA LedgerGrows ==
    ASSUME NEW c \in WtClients, NEW d \in WtClients, NEW g \in Seq(1..MaxDatagrams),
           Ledger(g, c), DatagramsGrow(c, d)
    PROVE  Ledger(g, d)
<1>1. CASE d.arrived = c.arrived /\ QueueKept(c, d)
  BY <1>1 DEF Ledger, QueueKept
<1>2. CASE /\ d.arrived = c.arrived + 1
           /\ d.received_datagrams = Append(c.received_datagrams, c.arrived + 1)
  <2> DEFINE q == c.received_datagrams
             n == c.arrived
  <2>1. q \in Seq(1..MaxDatagrams) /\ n \in 0..MaxDatagrams /\ d.arrived \in 0..MaxDatagrams
    BY DEF WtClients
  <2>2. n \in Nat /\ n + 1 \in 1..MaxDatagrams
    BY <1>2, <2>1, BoundsAssumption
  <2> HIDE DEF q, n
  <2>3. g \o q = Numbers(n) => g \o Append(q, n + 1) = Numbers(n + 1)
    BY <2>1, <2>2, NumberedGrows
  <2> QED BY <1>2, <2>3 DEF Ledger, q, n
<1> QED BY <1>1, <1>2 DEF DatagramsGrow

\* Taking the head of the queue moves it to what was delivered.
LEMMA LedgerTaken ==
    ASSUME NEW c \in WtClients, NEW d, NEW g \in Seq(1..MaxDatagrams), Ledger(g, c),
           c.received_datagrams # <<>>, d.received_datagrams = Tail(c.received_datagrams),
           d.arrived = c.arrived, NEW x, x = Head(c.received_datagrams)
    PROVE  Append(g, x) \in Seq(1..MaxDatagrams) /\ Ledger(Append(g, x), d)
<1> DEFINE q == c.received_datagrams
<1>1. q \in Seq(1..MaxDatagrams) /\ q # <<>> /\ d.received_datagrams = Tail(q) /\ x = Head(q)
  BY DEF WtClients
<1>2. g \o q = Numbers(c.arrived)
  BY DEF Ledger
<1> HIDE DEF q
<1>3. Append(g, Head(q)) \in Seq(1..MaxDatagrams) /\ Append(g, Head(q)) \o Tail(q) = g \o q
  BY <1>1, TakingKeepsOrder
<1> QED BY <1>1, <1>2, <1>3 DEF Ledger

\* Every other call keeps the ledger.
LEMMA LedgerKept ==
    ASSUME NEW c, NEW d, NEW g, Ledger(g, c), (SameSession(c, d) /\ QueueKept(c, d)) \/ Calm(c, d)
    PROVE  Ledger(g, d)
BY DEF Ledger, SameSession, QueueKept, Calm

\* The ledger of a client to which nothing has come.
LEMMA LedgerBlank ==
    ASSUME NEW c, c.arrived = 0, c.received_datagrams = <<>>
    PROVE  Ledger(<<>>, c)
<1>1. <<>> \o <<>> = <<>> /\ [i \in 1..0 |-> i] = <<>>
  OBVIOUS
<1> QED BY <1>1 DEF Ledger, Numbers
=============================================================================
