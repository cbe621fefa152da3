--------------------------- MODULE QuicGlueProofs ---------------------------
(***************************************************************************)
(* Facts about the methods of QuicGlue and QuicBinding that the proofs     *)
(* about the drivers of a client rest on: what each call may do to the     *)
(* connection, to last_error, to the datagrams and to the streams.         *)
(***************************************************************************)
EXTENDS QuicBinding, TLAPS

\* d is the client c but for its error and its queue of packets.
Calm(c, d) ==
    /\ d.conn = c.conn /\ d.session_ready = c.session_ready /\ d.session_closed = c.session_closed
    /\ d.received_datagrams = c.received_datagrams /\ d.arrived = c.arrived
    /\ d.credit = c.credit /\ d.dgroom = c.dgroom /\ d.streams = c.streams

\* The connection, the session and the count of datagrams are those of c.
SameSession(c, d) ==
    /\ d.conn = c.conn /\ d.session_ready = c.session_ready
    /\ d.session_closed = c.session_closed /\ d.arrived = c.arrived

\* The queue of received datagrams is that of c.
QueueKept(c, d) == d.received_datagrams = c.received_datagrams

\* A stream that was opened or accepted is never forgotten.
HandlesKept(c, d) ==
    \A id \in StreamIds :
        c.streams[id].phase \in {"open", "gone"} => d.streams[id].phase \in {"open", "gone"}

\* At most one datagram has come, and it is at the end of the queue.
DatagramsGrow(c, d) ==
    \/ d.arrived = c.arrived /\ QueueKept(c, d)
    \/ /\ d.arrived = c.arrived + 1
       /\ d.received_datagrams = Append(c.received_datagrams, c.arrived + 1)

\* The visitor was told of the end of this connection, not of an earlier one.
ClosedIsClosed(c) == c.session_closed => c.conn # "open"

\* Nor does last_error speak of a connection that has not ended.
ErrorIsTrue(c) == c.last_error \in {"session closed", "connection closed"} => c.conn # "open"

\* What QUICHE may do to a client in one call: it leaves one that was never
\* started alone.
Evolves(c, d) ==
    /\ d \in Clients /\ HandlesKept(c, d) /\ DatagramsGrow(c, d)
    /\ c.conn = "none" => Calm(c, d)
    /\ d.conn = "none" => c.conn = "none"
    /\ d.conn = "failed" => c.conn = "failed"
    /\ ClosedIsClosed(c) => ClosedIsClosed(d)

-----------------------------------------------------------------------------
\* SetError touches nothing but last_error.
LEMMA SetErrorFacts ==
    ASSUME NEW c \in Clients, NEW e \in Errors
    PROVE  /\ SetError(c, e) \in Clients /\ SetError(c, e).conn = c.conn
           /\ SetError(c, e).last_error = e /\ Calm(c, SetError(c, e))
BY DEF SetError, Clients, Calm

\* ResetRuntimeError leaves a client without an error.
LEMMA ResetFacts ==
    ASSUME NEW c \in Clients
    PROVE  /\ ResetRuntimeError(c) \in Clients /\ ResetRuntimeError(c).conn = c.conn
           /\ ResetRuntimeError(c).last_error = NoError /\ Calm(c, ResetRuntimeError(c))
           /\ ErrorIsTrue(ResetRuntimeError(c))
BY SetErrorFacts DEF ResetRuntimeError, Errors, NoError, ErrorIsTrue

\* SetErrorIfEmpty leaves an error behind, the new one or the old one.
LEMMA SetErrorIfEmptyFacts ==
    ASSUME NEW c \in Clients, NEW e \in Errors, e # NoError
    PROVE  /\ SetErrorIfEmpty(c, e) \in Clients /\ SetErrorIfEmpty(c, e).conn = c.conn
           /\ SetErrorIfEmpty(c, e).last_error # NoError /\ Calm(c, SetErrorIfEmpty(c, e))
           /\ SetErrorIfEmpty(c, e).last_error \in {c.last_error, e}
BY SetErrorFacts DEF SetErrorIfEmpty, Calm

\* PopulateClosedErrorIfNeeded changes at most last_error.
LEMMA PopulateFacts ==
    ASSUME NEW c \in Clients
    PROVE  /\ PopulateClosedErrorIfNeeded(c) \in Clients
           /\ PopulateClosedErrorIfNeeded(c).conn = c.conn /\ Calm(c, PopulateClosedErrorIfNeeded(c))
           /\ ErrorIsTrue(c) /\ ClosedIsClosed(c) => ErrorIsTrue(PopulateClosedErrorIfNeeded(c))
<1>1. "session closed" \in Errors /\ "session closed" # NoError
  BY DEF Errors, NoError
<1>2. CASE c.session_closed
  BY <1>1, <1>2, SetErrorIfEmptyFacts DEF PopulateClosedErrorIfNeeded, ErrorIsTrue, ClosedIsClosed
<1>3. CASE ~c.session_closed
  BY <1>3 DEF PopulateClosedErrorIfNeeded, Calm
<1> QED BY <1>2, <1>3

\* Whatever was recorded, an error is there after the two steps that close a
\* failing call, and it is true.
LEMMA ExplainedFacts ==
    ASSUME NEW c \in Clients, NEW e \in Errors, e # NoError
    PROVE  LET d == SetErrorIfEmpty(PopulateClosedErrorIfNeeded(c), e)
           IN /\ d \in Clients /\ d.conn = c.conn /\ d.last_error # NoError /\ Calm(c, d)
              /\ ErrorIsTrue(c) /\ ClosedIsClosed(c) /\ (e = "connection closed" => c.conn # "open")
                   /\ e # "session closed" => ErrorIsTrue(d)
<1> DEFINE b == PopulateClosedErrorIfNeeded(c)
<1>1. /\ b \in Clients /\ b.conn = c.conn /\ Calm(c, b)
      /\ ErrorIsTrue(c) /\ ClosedIsClosed(c) => ErrorIsTrue(b)
  BY PopulateFacts
<1> HIDE DEF b
<1> DEFINE d == SetErrorIfEmpty(b, e)
<1>2. /\ d \in Clients /\ d.conn = b.conn /\ d.last_error # NoError /\ Calm(b, d)
      /\ d.last_error \in {b.last_error, e}
  BY <1>1, SetErrorIfEmptyFacts
<1> HIDE DEF d
<1>3. Calm(c, d) /\ d.conn = c.conn
  BY <1>1, <1>2 DEF Calm
<1>4. ErrorIsTrue(b) /\ (e = "connection closed" => c.conn # "open") /\ e # "session closed" => ErrorIsTrue(d)
  BY <1>1, <1>2, <1>3 DEF ErrorIsTrue
<1> QED BY <1>1, <1>2, <1>3, <1>4 DEF d, b

\* ReceivePacket and HandleTimeout never leave a closed connection unexplained.
LEMMA AfterQuicheFacts ==
    ASSUME NEW c \in Clients
    PROVE  /\ AfterQuiche(c).c \in Clients /\ AfterQuiche(c).c.conn = c.conn
           /\ AfterQuiche(c).st \in {"OK", "CLOSED"} /\ Calm(c, AfterQuiche(c).c)
           /\ c.conn # "open" => AfterQuiche(c).c.last_error # NoError
           /\ ErrorIsTrue(c) /\ ClosedIsClosed(c) => ErrorIsTrue(AfterQuiche(c).c)
<1>1. "connection closed" \in Errors /\ "connection closed" # NoError
  BY DEF Errors, NoError
<1>2. CASE c.conn = "open"
  BY <1>2 DEF AfterQuiche, Out, Calm
<1>3. CASE c.conn # "open"
  BY <1>1, <1>3, ExplainedFacts DEF AfterQuiche, Out
<1> QED BY <1>2, <1>3

-----------------------------------------------------------------------------
\* Queueing a packet touches nothing but the send queue.
LEMMA WritePacketFacts ==
    ASSUME NEW c \in Clients, NEW k \in {"packet", "close"}
    PROVE  /\ WritePacket(c, k) \in Clients /\ WritePacket(c, k).conn = c.conn
           /\ WritePacket(c, k).last_error = c.last_error /\ Calm(c, WritePacket(c, k))
<1> DEFINE q == Append(c.send_queue, k)
<1>1. q \in Seq({"packet", "close"})
  BY DEF Clients
<1> HIDE DEF q
<1>2. /\ [c EXCEPT !.send_queue = q] \in Clients /\ [c EXCEPT !.send_queue = q].conn = c.conn
      /\ [c EXCEPT !.send_queue = q].last_error = c.last_error
      /\ Calm(c, [c EXCEPT !.send_queue = q])
  BY <1>1 DEF Clients, Calm
<1> QED BY <1>2 DEF WritePacket, q

\* So does QUICHE's choice to send or not.
LEMMA MaySendFacts ==
    ASSUME NEW c \in Clients, NEW d \in MaySend(c)
    PROVE  d \in Clients /\ d.conn = c.conn /\ d.last_error = c.last_error /\ Calm(c, d)
<1>1. CASE d = c
  BY <1>1 DEF Calm
<1>2. CASE d = WritePacket(c, "packet")
  BY <1>2, WritePacketFacts
<1> QED BY <1>1, <1>2 DEF MaySend

\* Calm is transitive.
LEMMA CalmTransitive ==
    ASSUME NEW c, NEW d, NEW e, Calm(c, d), Calm(d, e)
    PROVE  Calm(c, e)
BY DEF Calm

\* A client whose connection ended is a client, with the streams and the
\* datagrams that it had.
LEMMA ConnectionEndsFacts ==
    ASSUME NEW c \in Clients, NEW d \in ConnectionEnds(c)
    PROVE  /\ d \in Clients /\ d.conn = "closed" /\ d.last_error = c.last_error
           /\ d.arrived = c.arrived /\ QueueKept(c, d) /\ d.streams = c.streams
<1> DEFINE e == [c EXCEPT !.conn = "closed", !.session_ready = FALSE]
           f == [e EXCEPT !.session_closed = TRUE]
           Ended(g) == /\ g \in Clients /\ g.conn = "closed" /\ g.last_error = c.last_error
                       /\ g.arrived = c.arrived /\ QueueKept(c, g) /\ g.streams = c.streams
<1>1. Ended(e) /\ Ended(f)
  BY DEF Clients, QueueKept
<1>2. ASSUME NEW g, Ended(g) PROVE Ended(WritePacket(g, "close"))
  BY <1>2, WritePacketFacts DEF Calm, QueueKept
<1>3. d \in {e, f} \cup {WritePacket(g, "close") : g \in {e, f}}
  BY DEF ConnectionEnds
<1> HIDE DEF e, f, Ended
<1>4. Ended(d)
  BY <1>1, <1>2, <1>3
<1> QED BY <1>4 DEF Ended

\* Settling a stream forgets no handle.
LEMMA SettleFacts ==
    ASSUME NEW s \in StreamStates
    PROVE  /\ Settle(s) \in StreamStates /\ Settle(s).phase \in {s.phase, "gone"}
           /\ Settle(s).room = s.room /\ Settle(s).wclosed = s.wclosed
           /\ Settle(s).phase # "gone" => Settle(s) = s
<1>1. 0 \in 0..MaxChunks
  BY BoundsAssumption
<1> QED BY <1>1 DEF Settle, StreamStates

\* Changing one stream keeps the client a client of the same connection.
LEMMA SetStreamFacts ==
    ASSUME NEW c \in Clients, NEW id \in StreamIds, NEW s \in StreamStates
    PROVE  /\ SetStream(c, id, s) \in Clients /\ SetStream(c, id, s).conn = c.conn
           /\ SetStream(c, id, s).last_error = c.last_error
           /\ SameSession(c, SetStream(c, id, s)) /\ QueueKept(c, SetStream(c, id, s))
           /\ SetStream(c, id, s).credit = c.credit /\ SetStream(c, id, s).dgroom = c.dgroom
           /\ SetStream(c, id, s).streams = [c.streams EXCEPT ![id] = Settle(s)]
           /\ (c.streams[id].phase \in {"open", "gone"} => s.phase \in {"open", "gone"})
                => HandlesKept(c, SetStream(c, id, s))
<1> DEFINE f == [c.streams EXCEPT ![id] = Settle(s)]
           d == [c EXCEPT !.streams = f]
<1>1. f \in [StreamIds -> StreamStates] /\ f[id] = Settle(s)
      /\ \A i \in StreamIds : i # id => f[i] = c.streams[i]
  BY SettleFacts DEF Clients
<1>2. SetStream(c, id, s) = d
  BY DEF SetStream
<1> HIDE DEF f
<1>3. /\ d \in Clients /\ d.conn = c.conn /\ d.last_error = c.last_error /\ d.streams = f
      /\ SameSession(c, d) /\ QueueKept(c, d) /\ d.credit = c.credit /\ d.dgroom = c.dgroom
  BY <1>1 DEF Clients, SameSession, QueueKept
<1> HIDE DEF d
<1>4. (c.streams[id].phase \in {"open", "gone"} => s.phase \in {"open", "gone"}) => HandlesKept(c, d)
  BY <1>1, <1>3, SettleFacts DEF HandlesKept
<1> QED BY <1>2, <1>3, <1>4 DEF f

\* A stream that nobody has used is a stream.
LEMMA UnusedStreamFacts ==
    ASSUME NEW id \in StreamIds
    PROVE  UnusedStream(id) \in StreamStates
<1>1. 0 \in 0..MaxChunks /\ MaxRoom \in 0..MaxRoom
  BY BoundsAssumption
<1>2. (Unidirectional(id) /\ Outgoing(id)) \in BOOLEAN /\ (Unidirectional(id) /\ ~Outgoing(id)) \in BOOLEAN
  BY DEF Unidirectional, Outgoing
<1> QED BY <1>1, <1>2 DEF UnusedStream, StreamStates

\* A constructed client is a client.
LEMMA FreshClientFacts == FreshClient \in Clients
<1>1. [id \in StreamIds |-> UnusedStream(id)] \in [StreamIds -> StreamStates]
  BY UnusedStreamFacts
<1>2. 0 \in 0..MaxDatagrams /\ 0 \in 0..MaxCredit /\ MaxRoom \in 0..MaxRoom
  BY BoundsAssumption
<1>3. [u \in BOOLEAN |-> 0] \in [BOOLEAN -> 0..MaxCredit]
  BY <1>2
<1>4. <<>> \in Seq(1..MaxDatagrams) /\ <<>> \in Seq({"packet", "close"}) /\ NoError \in Errors
  BY DEF Errors
<1> QED BY <1>1, <1>2, <1>3, <1>4 DEF FreshClient, Clients

\* What a frame of a packet does: the connection goes on.
Frame(c, d) ==
    /\ d \in Clients /\ d.conn = c.conn /\ d.session_closed = c.session_closed
    /\ d.last_error = c.last_error /\ HandlesKept(c, d) /\ DatagramsGrow(c, d)

\* A frame that leaves the datagrams and the streams alone.
LEMMA OtherFrame ==
    ASSUME NEW c \in Clients, NEW d \in Clients, d.conn = c.conn, d.session_closed = c.session_closed,
           d.last_error = c.last_error, d.arrived = c.arrived, QueueKept(c, d), HandlesKept(c, d)
    PROVE  Frame(c, d)
BY DEF Frame, DatagramsGrow

\* The handshake completes.
LEMMA HandshakeDoneFacts ==
    ASSUME NEW c \in Clients, NEW d \in HandshakeDone(c)
    PROVE  Frame(c, d)
<1>1. PICK f \in [BOOLEAN -> 0..MaxCredit] : d = [c EXCEPT !.session_ready = TRUE, !.credit = f]
  BY DEF HandshakeDone
<1>2. /\ d \in Clients /\ d.conn = c.conn /\ d.session_closed = c.session_closed
      /\ d.last_error = c.last_error /\ d.arrived = c.arrived
      /\ d.received_datagrams = c.received_datagrams /\ d.streams = c.streams
  BY <1>1 DEF Clients
<1> QED BY <1>2, OtherFrame DEF QueueKept, HandlesKept

\* A datagram is appended to the queue of received ones.
LEMMA OnDatagramReceivedFacts ==
    ASSUME NEW c \in Clients, NEW d \in OnDatagramReceived(c)
    PROVE  Frame(c, d)
<1>1. c.arrived \in Nat /\ c.arrived < MaxDatagrams
      /\ d = [c EXCEPT !.received_datagrams = Append(@, c.arrived + 1), !.arrived = @ + 1]
  BY BoundsAssumption DEF OnDatagramReceived, Clients
<1> DEFINE q == Append(c.received_datagrams, c.arrived + 1)
<1>2. c.arrived + 1 \in 0..MaxDatagrams /\ c.arrived + 1 \in 1..MaxDatagrams
  BY <1>1, BoundsAssumption
<1>3. q \in Seq(1..MaxDatagrams)
  BY <1>2 DEF Clients
<1>4. d = [c EXCEPT !.received_datagrams = q, !.arrived = c.arrived + 1]
  BY <1>1
<1> HIDE DEF q
<1>5. /\ d \in Clients /\ d.conn = c.conn /\ d.session_closed = c.session_closed
      /\ d.last_error = c.last_error /\ d.streams = c.streams
      /\ d.received_datagrams = q /\ d.arrived = c.arrived + 1
  BY <1>2, <1>3, <1>4 DEF Clients
<1> QED BY <1>5 DEF Frame, HandlesKept, DatagramsGrow, q

\* What the peer does to a stream.
LEMMA PeerStreamFacts ==
    ASSUME NEW c \in Clients, NEW d \in PeerStreamFrames(c)
    PROVE  Frame(c, d)
<1>1. PICK id \in StreamIds :
        \/ /\ c.streams[id].phase = "unused"
           /\ d = SetStream(c, id, [c.streams[id] EXCEPT !.phase = "pending"])
        \/ c.streams[id].buf < MaxChunks /\ d = SetStream(c, id, [c.streams[id] EXCEPT !.buf = @ + 1])
        \/ d = SetStream(c, id, [c.streams[id] EXCEPT !.fin = TRUE])
        \/ d = SetStream(c, id, [c.streams[id] EXCEPT !.rclosed = TRUE, !.buf = 0])
        \/ d = SetStream(c, id, [c.streams[id] EXCEPT !.wclosed = TRUE])
  BY DEF PeerStreamFrames, Active
<1> DEFINE s == c.streams[id]
<1>2. s \in StreamStates
  BY DEF Clients
<1> HIDE DEF s
<1>3. 0 \in 0..MaxChunks
  BY BoundsAssumption
<1>4. s.buf < MaxChunks => s.buf + 1 \in 0..MaxChunks
  BY <1>2, BoundsAssumption DEF StreamStates
<1>5. PICK t \in StreamStates : d = SetStream(c, id, t) /\ (s.phase # "unused" => t.phase = s.phase)
  <2>1. /\ [s EXCEPT !.phase = "pending"] \in StreamStates
        /\ s.buf < MaxChunks => [s EXCEPT !.buf = @ + 1] \in StreamStates
        /\ [s EXCEPT !.fin = TRUE] \in StreamStates
        /\ [s EXCEPT !.rclosed = TRUE, !.buf = 0] \in StreamStates
        /\ [s EXCEPT !.wclosed = TRUE] \in StreamStates
    BY <1>2, <1>3, <1>4 DEF StreamStates
  <2>2. /\ [s EXCEPT !.buf = @ + 1].phase = s.phase /\ [s EXCEPT !.fin = TRUE].phase = s.phase
        /\ [s EXCEPT !.rclosed = TRUE, !.buf = 0].phase = s.phase
        /\ [s EXCEPT !.wclosed = TRUE].phase = s.phase
    BY <1>2 DEF StreamStates
  <2> QED BY <1>1, <2>1, <2>2 DEF s
<1>6. s.phase \in {"open", "gone"} => t.phase \in {"open", "gone"}
  BY <1>5
<1>7. d \in Clients /\ d.conn = c.conn /\ d.last_error = c.last_error /\ SameSession(c, d)
      /\ QueueKept(c, d) /\ HandlesKept(c, d)
  BY <1>5, <1>6, SetStreamFacts DEF s
<1> QED BY <1>7, OtherFrame DEF SameSession

\* What the peer gives: credit and room.
LEMMA PeerCreditFacts ==
    ASSUME NEW c \in Clients, NEW d \in PeerCreditFrames(c)
    PROVE  Frame(c, d)
<1>1. \/ \E u \in BOOLEAN : c.credit[u] < MaxCredit /\ d = [c EXCEPT !.credit[u] = @ + 1]
      \/ d = [c EXCEPT !.dgroom = MaxRoom]
      \/ \E id \in StreamIds : d = [c EXCEPT !.streams[id].room = MaxRoom]
  BY DEF PeerCreditFrames, Active
<1>2. MaxRoom \in 0..MaxRoom
  BY BoundsAssumption
<1> DEFINE Rest(e) == /\ e \in Clients /\ e.conn = c.conn /\ e.session_closed = c.session_closed
                      /\ e.last_error = c.last_error /\ e.arrived = c.arrived
                      /\ e.received_datagrams = c.received_datagrams
<1>3. ASSUME NEW u \in BOOLEAN, c.credit[u] < MaxCredit, d = [c EXCEPT !.credit[u] = @ + 1]
      PROVE  Rest(d) /\ d.streams = c.streams
  <2>1. c.credit \in [BOOLEAN -> 0..MaxCredit] /\ c.credit[u] \in 0..MaxCredit
    BY DEF Clients
  <2>2. c.credit[u] + 1 \in 0..MaxCredit
    BY <1>3, <2>1, BoundsAssumption
  <2>3. [c.credit EXCEPT ![u] = @ + 1] \in [BOOLEAN -> 0..MaxCredit]
    BY <2>1, <2>2
  <2> QED BY <1>3, <2>3 DEF Clients
<1>4. ASSUME d = [c EXCEPT !.dgroom = MaxRoom]
      PROVE  Rest(d) /\ d.streams = c.streams
  BY <1>2, <1>4 DEF Clients
<1>5. ASSUME NEW id \in StreamIds, d = [c EXCEPT !.streams[id].room = MaxRoom]
      PROVE  Rest(d) /\ \A i \in StreamIds : d.streams[i].phase = c.streams[i].phase
  <2> DEFINE f == [c.streams EXCEPT ![id] = [c.streams[id] EXCEPT !.room = MaxRoom]]
  <2>1. c.streams[id] \in StreamStates /\ c.streams \in [StreamIds -> StreamStates]
    BY DEF Clients
  <2>2. [c.streams[id] EXCEPT !.room = MaxRoom] \in StreamStates
        /\ [c.streams[id] EXCEPT !.room = MaxRoom].phase = c.streams[id].phase
    BY <1>2, <2>1 DEF StreamStates
  <2>3. f \in [StreamIds -> StreamStates] /\ \A i \in StreamIds : f[i].phase = c.streams[i].phase
    BY <2>1, <2>2
  <2>4. d = [c EXCEPT !.streams = f]
    BY <1>5, <2>1 DEF Clients
  <2> HIDE DEF f
  <2> QED BY <2>3, <2>4 DEF Clients
<1>6. Rest(d) /\ HandlesKept(c, d)
  BY <1>1, <1>3, <1>4, <1>5 DEF HandlesKept
<1> QED BY <1>6, OtherFrame DEF QueueKept

\* QUICHE may send, or end the connection, after a frame.
LEMMA FrameEvolves ==
    ASSUME NEW c \in Clients, c.conn = "open", NEW d, Frame(c, d), NEW e \in MaySend(d) \cup ConnectionEnds(d)
    PROVE  Evolves(c, e) /\ e.last_error = c.last_error
<1>1. d \in Clients
  BY DEF Frame
<1>2. CASE e \in MaySend(d)
  <2>1. e \in Clients /\ Calm(d, e) /\ e.last_error = d.last_error
    BY <1>1, <1>2, MaySendFacts
  <2> QED BY <2>1 DEF Evolves, Frame, Calm, HandlesKept, DatagramsGrow, QueueKept, ClosedIsClosed
<1>3. CASE e \in ConnectionEnds(d)
  <2>1. /\ e \in Clients /\ e.conn = "closed" /\ e.last_error = d.last_error /\ e.arrived = d.arrived
        /\ QueueKept(d, e) /\ e.streams = d.streams
    BY <1>1, <1>3, ConnectionEndsFacts
  <2> QED BY <2>1 DEF Evolves, Frame, HandlesKept, DatagramsGrow, QueueKept, ClosedIsClosed
<1> QED BY <1>2, <1>3

\* A client that nothing happened to.
LEMMA SelfEvolves ==
    ASSUME NEW c \in Clients
    PROVE  Evolves(c, c) /\ Frame(c, c)
BY DEF Evolves, Frame, Calm, HandlesKept, DatagramsGrow, QueueKept, ClosedIsClosed

\* A packet leaves a client; on a connection that is not open it does nothing.
LEMMA ProcessUdpPacketFacts ==
    ASSUME NEW c \in Clients, NEW d \in ProcessUdpPacket(c)
    PROVE  d \in Clients /\ Evolves(c, d) /\ d.last_error = c.last_error
<1>1. CASE c.conn # "open"
  BY <1>1, SelfEvolves DEF ProcessUdpPacket
<1>2. CASE c.conn = "open"
  <2>1. PICK e \in {c} \cup HandshakeDone(c) \cup OnDatagramReceived(c)
                     \cup PeerStreamFrames(c) \cup PeerCreditFrames(c) :
          d \in MaySend(e) \cup ConnectionEnds(e)
    BY <1>2 DEF ProcessUdpPacket
  <2>2. Frame(c, e)
    BY SelfEvolves, HandshakeDoneFacts, OnDatagramReceivedFacts, PeerStreamFacts, PeerCreditFacts
  <2>3. Evolves(c, d) /\ d.last_error = c.last_error
    BY <1>2, <2>1, <2>2, FrameEvolves
  <2> QED BY <2>3 DEF Evolves
<1> QED BY <1>1, <1>2

\* Running the alarms leaves a client.
LEMMA ProcessAlarmsFacts ==
    ASSUME NEW c \in Clients, NEW d \in ProcessAlarms(c)
    PROVE  d \in Clients /\ Evolves(c, d) /\ d.last_error = c.last_error
<1>1. Evolves(c, d) /\ d.last_error = c.last_error
  BY SelfEvolves, FrameEvolves DEF ProcessAlarms, HasAlarm
<1> QED BY <1>1 DEF Evolves

-----------------------------------------------------------------------------
(* The methods.                                                            *)

\* Nothing has come and no stream was used.
Blank(c) ==
    /\ c.arrived = 0 /\ c.received_datagrams = <<>> /\ ~c.session_ready
    /\ \A id \in StreamIds : c.streams[id].phase = "unused"

\* What precedes and what follows QUICHE's work touches the error only.
LEMMA CalmEvolves ==
    ASSUME NEW c, NEW b, NEW d, NEW e \in Clients, Calm(c, b), Evolves(b, d), Calm(d, e)
    PROVE  Evolves(c, e)
BY DEF Evolves, Calm, HandlesKept, DatagramsGrow, QueueKept, ClosedIsClosed

\* The same without any work.
LEMMA CalmIsEvolution ==
    ASSUME NEW c, NEW d \in Clients, Calm(c, d)
    PROVE  Evolves(c, d)
BY DEF Evolves, Calm, HandlesKept, DatagramsGrow, QueueKept, ClosedIsClosed

\* What StartConnect makes: a new session without a past.
LEMMA StartConnectFacts ==
    ASSUME NEW c \in Clients, NEW d \in StartConnect(c)
    PROVE  /\ d \in Clients /\ d.conn \in {"open", "failed"} /\ Blank(d) /\ d.last_error = NoError
           /\ ClosedIsClosed(d)
<1> DEFINE f == [FreshClient EXCEPT !.conn = "open", !.send_queue = c.send_queue]
<1>1. /\ f \in Clients /\ f.conn = "open" /\ f.last_error = NoError /\ f.session_closed = FALSE
      /\ f.session_ready = FALSE /\ f.arrived = 0 /\ f.received_datagrams = <<>>
      /\ f.streams = FreshClient.streams
  <2>1. c.send_queue \in Seq({"packet", "close"})
    BY DEF Clients
  <2>2. /\ FreshClient.last_error = NoError /\ FreshClient.session_closed = FALSE
        /\ FreshClient.session_ready = FALSE /\ FreshClient.arrived = 0
        /\ FreshClient.received_datagrams = <<>>
    BY DEF FreshClient
  <2> QED BY <2>1, <2>2, FreshClientFacts DEF Clients
<1>2. \A id \in StreamIds : f.streams[id].phase = "unused"
  <2>1. \A id \in StreamIds : FreshClient.streams[id].phase = "unused"
    BY DEF FreshClient, UnusedStream
  <2> QED BY <1>1, <2>1
<1> HIDE DEF f
<1>3. \/ d = WritePacket(f, "packet")
      \/ \E e \in ConnectionEnds(f) : d = [e EXCEPT !.conn = "failed"]
  BY DEF StartConnect, f
<1>4. CASE d = WritePacket(f, "packet")
  <2>1. d \in Clients /\ Calm(f, d) /\ d.last_error = f.last_error
    BY <1>1, <1>4, WritePacketFacts
  <2> QED BY <1>1, <1>2, <2>1 DEF Calm, Blank, ClosedIsClosed
<1>5. CASE \E e \in ConnectionEnds(f) : d = [e EXCEPT !.conn = "failed"]
  <2>0. PICK e \in ConnectionEnds(f) : d = [e EXCEPT !.conn = "failed"]
    BY <1>5
  <2>1. /\ e \in Clients /\ e.last_error = f.last_error /\ e.arrived = f.arrived
        /\ QueueKept(f, e) /\ e.streams = f.streams
    BY <1>1, <2>0, ConnectionEndsFacts
  <2>2. e.session_ready = FALSE
    <3>1. PICK g \in {[f EXCEPT !.conn = "closed", !.session_ready = FALSE],
                      [[f EXCEPT !.conn = "closed", !.session_ready = FALSE] EXCEPT !.session_closed = TRUE]} :
            e = g \/ e = WritePacket(g, "close")
      BY <2>0 DEF ConnectionEnds
    <3>2. g \in Clients /\ g.session_ready = FALSE
      BY <1>1 DEF Clients
    <3> QED BY <3>1, <3>2, WritePacketFacts DEF Calm
  <2>3. /\ d \in Clients /\ d.conn = "failed" /\ d.last_error = e.last_error /\ d.arrived = e.arrived
        /\ QueueKept(e, d) /\ d.streams = e.streams /\ d.session_ready = FALSE
    BY <2>0, <2>1, <2>2 DEF Clients, QueueKept
  <2> QED BY <1>1, <1>2, <2>1, <2>3 DEF Blank, QueueKept, ClosedIsClosed
<1> QED BY <1>3, <1>4, <1>5

\* start() never raises, and leaves a connection that is open or that ended
\* inside it.  On one that is open it does nothing; otherwise nothing of an
\* earlier connection is left.
LEMMA StartFacts ==
    ASSUME NEW c \in Clients, NEW r \in py_start(c)
    PROVE  /\ r.c \in Clients /\ r.ret = "value" /\ r.c.conn \in {"open", "failed"}
           /\ c.conn = "open" => Calm(c, r.c)
           /\ c.conn # "open" => Blank(r.c)
           /\ ClosedIsClosed(c) => ClosedIsClosed(r.c) /\ ErrorIsTrue(r.c)
<1>1. PICK out \in Start(c) : r = Returned(out)
  BY DEF py_start
<1>2. CASE c.conn = "open"
  <2>1. r.c = ResetRuntimeError(c) /\ r.ret = "value"
    BY <1>1, <1>2 DEF Start, Out, Returned
  <2> QED BY <1>2, <2>1, ResetFacts DEF Calm, ClosedIsClosed
<1>3. CASE c.conn # "open"
  <2> DEFINE b == ResetRuntimeError(c)
  <2>1. b \in Clients
    BY ResetFacts
  <2>2. PICK d \in StartConnect(b) : out = Out(d, "OK", 0)
    BY <1>1, <1>3 DEF Start
  <2>3. /\ d \in Clients /\ d.conn \in {"open", "failed"} /\ Blank(d) /\ d.last_error = NoError
        /\ ClosedIsClosed(d)
    BY <2>1, <2>2, StartConnectFacts
  <2>4. ErrorIsTrue(d)
    BY <2>3 DEF ErrorIsTrue, NoError
  <2>5. r.c = d /\ r.ret = "value"
    BY <1>1, <2>2 DEF Out, Returned
  <2> QED BY <1>3, <2>3, <2>4, <2>5
<1> QED BY <1>2, <1>3

\* receive_packet either raises because the core is not started, or leaves a
\* connection that has ended only with an error recorded.
LEMMA ReceivePacketFacts ==
    ASSUME NEW c \in Clients, NEW empty \in BOOLEAN, NEW r \in py_receive_packet(c, empty)
    PROVE  /\ r.c \in Clients /\ Evolves(c, r.c)
           /\ r.ret = "value" /\ c.conn # "closed" => (r.c.conn = "closed" => r.c.last_error # NoError)
           /\ r.ret # "value" => Calm(c, r.c)
           /\ ClosedIsClosed(c) => ErrorIsTrue(r.c)
<1>1. PICK out \in ReceivePacket(c, empty) : r = ClosedIsSilent(out)
  BY DEF py_receive_packet
<1> DEFINE b == ResetRuntimeError(c)
<1>2. b \in Clients /\ Calm(c, b) /\ ErrorIsTrue(b) /\ (ClosedIsClosed(c) => ClosedIsClosed(b))
  BY ResetFacts DEF Calm, ClosedIsClosed
<1> HIDE DEF b
<1>3. CASE out = Out(b, "OK", 0)
  <2>1. r.c = b /\ r.ret = "value"
    BY <1>1, <1>3 DEF Out, ClosedIsSilent, Returned
  <2> QED BY <1>2, <2>1, CalmIsEvolution DEF Calm
<1>4. CASE c.conn = "none" /\ out = Out(SetError(b, "not started"), "ERROR", 0)
  <2> DEFINE d == SetError(b, "not started")
  <2>1. d \in Clients /\ Calm(b, d) /\ ErrorIsTrue(d)
    <3>1. d \in Clients /\ Calm(b, d) /\ d.last_error = "not started"
      BY <1>2, SetErrorFacts DEF Errors
    <3> QED BY <3>1 DEF ErrorIsTrue
  <2>2. r.c = d
    BY <1>1, <1>4 DEF Out, ClosedIsSilent, Returned
  <2> HIDE DEF d
  <2>3. Calm(c, d) /\ d.conn = "none"
    BY <1>2, <1>4, <2>1 DEF Calm
  <2> QED BY <2>1, <2>2, <2>3, CalmIsEvolution
<1>5. CASE \E d \in ProcessUdpPacket(b) : out = AfterQuiche(d)
  <2>1. PICK d \in ProcessUdpPacket(b) : out = AfterQuiche(d)
    BY <1>5
  <2>2. d \in Clients /\ Evolves(b, d) /\ d.last_error = b.last_error
    BY <1>2, <2>1, ProcessUdpPacketFacts
  <2>3. ErrorIsTrue(d)
    BY <2>2, ResetFacts DEF ErrorIsTrue, b, NoError
  <2>4. /\ out.c \in Clients /\ out.c.conn = d.conn /\ out.st \in {"OK", "CLOSED"} /\ Calm(d, out.c)
        /\ d.conn # "open" => out.c.last_error # NoError
        /\ ErrorIsTrue(d) /\ ClosedIsClosed(d) => ErrorIsTrue(out.c)
    BY <2>1, <2>2, AfterQuicheFacts
  <2>5. r.c = out.c
    BY <1>1 DEF ClosedIsSilent, Returned
  <2>6. r.ret = "value"
    BY <1>1, <2>1, <2>4 DEF ClosedIsSilent, Returned, AfterQuiche, Out
  <2>7. Evolves(c, out.c)
    BY <1>2, <2>2, <2>4, CalmEvolves
  <2> QED BY <1>2, <2>2, <2>3, <2>4, <2>5, <2>6, <2>7 DEF Evolves
<1> QED BY <1>1, <1>3, <1>4, <1>5 DEF ReceivePacket, b

\* handle_timeout never raises, and never leaves a closed connection
\* unexplained.
LEMMA HandleTimeoutFacts ==
    ASSUME NEW c \in Clients, NEW r \in py_handle_timeout(c)
    PROVE  /\ r.c \in Clients /\ Evolves(c, r.c)
           /\ r.c.conn = "closed" => r.c.last_error # NoError
           /\ ClosedIsClosed(c) => ErrorIsTrue(r.c)
<1> DEFINE b == ResetRuntimeError(c)
<1>1. PICK d \in ProcessAlarms(b) : r = ClosedIsSilent(AfterQuiche(d))
  BY DEF py_handle_timeout, HandleTimeout
<1>2. b \in Clients /\ Calm(c, b) /\ (ClosedIsClosed(c) => ClosedIsClosed(b))
  BY ResetFacts DEF Calm, ClosedIsClosed
<1>3. d \in Clients /\ Evolves(b, d) /\ d.last_error = NoError
  BY <1>1, <1>2, ResetFacts, ProcessAlarmsFacts
<1> HIDE DEF b
<1>4. ErrorIsTrue(d)
  BY <1>3 DEF ErrorIsTrue, NoError
<1>5. r.c = AfterQuiche(d).c
  BY <1>1 DEF ClosedIsSilent, Returned, AfterQuiche, Out
<1>6. /\ r.c \in Clients /\ r.c.conn = d.conn /\ Calm(d, r.c)
      /\ d.conn # "open" => r.c.last_error # NoError
      /\ ErrorIsTrue(d) /\ ClosedIsClosed(d) => ErrorIsTrue(r.c)
  BY <1>3, <1>5, AfterQuicheFacts
<1>7. Evolves(c, r.c)
  BY <1>2, <1>3, <1>6, CalmEvolves
<1> QED BY <1>2, <1>3, <1>4, <1>6, <1>7 DEF Evolves

\* close() leaves a client without an error, and keeps what has come.
LEMMA CloseFacts ==
    ASSUME NEW c \in Clients
    PROVE  /\ Close(c) \in Clients /\ Evolves(c, Close(c)) /\ ErrorIsTrue(Close(c))
<1> DEFINE b == ResetRuntimeError(c)
<1>1. b \in Clients /\ Calm(c, b) /\ ErrorIsTrue(b)
  BY ResetFacts
<1> HIDE DEF b
<1>2. CASE c.conn # "open"
  <2>1. Close(c) = b
    BY <1>2 DEF Close, b
  <2> QED BY <1>1, <2>1, CalmIsEvolution
<1>3. CASE c.conn = "open"
  <2> DEFINE d == [b EXCEPT !.conn = "closed", !.session_ready = FALSE, !.session_closed = TRUE]
  <2>1. /\ d \in Clients /\ d.conn = "closed" /\ d.streams = b.streams /\ d.arrived = b.arrived
        /\ d.received_datagrams = b.received_datagrams
    BY <1>1 DEF Clients
  <2>2. Close(c) = WritePacket(d, "close")
    BY <1>3 DEF Close, b
  <2> HIDE DEF d
  <2>3. Close(c) \in Clients /\ Calm(d, Close(c))
    BY <2>1, <2>2, WritePacketFacts
  <2>4. Close(c).conn = "closed"
    BY <2>1, <2>3 DEF Calm
  <2>5. Evolves(c, Close(c))
    BY <1>1, <1>3, <2>1, <2>3, <2>4 DEF Evolves, Calm, HandlesKept, DatagramsGrow, QueueKept, ClosedIsClosed
  <2>6. ErrorIsTrue(Close(c))
    BY <2>4 DEF ErrorIsTrue
  <2> QED BY <2>3, <2>5, <2>6
<1> QED BY <1>2, <1>3

-----------------------------------------------------------------------------
(* The calls that the tasks make: none of them opens or ends a connection. *)

\* An outcome that leaves the connection of c and its datagrams as they were,
\* and everything but the error if the call did not succeed.
Keeps(c, out) ==
    /\ out.c \in Clients /\ SameSession(c, out.c) /\ QueueKept(c, out.c) /\ HandlesKept(c, out.c)
    /\ out.st \in {"OK", "WOULD_BLOCK", "NOT_FOUND", "CLOSED", "TOO_BIG", "ERROR"}
    /\ out.st # "OK" => Calm(c, out.c)
    /\ ErrorIsTrue(c) /\ ClosedIsClosed(c) => ErrorIsTrue(out.c)

\* The same, seen from Python.  receive_datagram takes from the queue.
PyKeeps(c, r) ==
    /\ r.c \in Clients /\ SameSession(c, r.c) /\ HandlesKept(c, r.c)
    /\ r.ret \in {"value", "None"} \cup Exceptions
    /\ r.ret # "value" => Calm(c, r.c)
    /\ ClosedIsClosed(c) /\ ErrorIsTrue(c) => ErrorIsTrue(r.c)

\* Returned translates the status and passes the client on.  Every method
\* begins by clearing the error.
LEMMA ReturnedKeeps ==
    ASSUME NEW c \in Clients, NEW out, Keeps(ResetRuntimeError(c), out)
    PROVE  PyKeeps(c, Returned(out)) /\ QueueKept(c, Returned(out).c)
<1> DEFINE b == ResetRuntimeError(c)
<1>1. b \in Clients /\ Calm(c, b) /\ ErrorIsTrue(b)
  BY ResetFacts
<1> HIDE DEF b
<1>2. Keeps(b, out)
  BY DEF b
<1> DEFINE r == Returned(out)
<1>3. r.c = out.c /\ r.ret \in {"value", "None"} \cup Exceptions /\ (r.ret # "value" => out.st # "OK")
  BY <1>2 DEF Keeps, Returned, Exception, Exceptions
<1> HIDE DEF r
<1>4. out.st # "OK" => Calm(c, out.c)
  BY <1>1, <1>2, CalmTransitive DEF Keeps
<1>5. SameSession(c, out.c) /\ QueueKept(c, out.c) /\ HandlesKept(c, out.c)
  BY <1>1, <1>2 DEF Keeps, Calm, SameSession, QueueKept, HandlesKept
<1>6. ClosedIsClosed(c) => ErrorIsTrue(out.c)
  BY <1>1, <1>2 DEF Keeps, Calm, ClosedIsClosed
<1>7. PyKeeps(c, r) /\ QueueKept(c, r.c)
  BY <1>2, <1>3, <1>4, <1>5, <1>6 DEF Keeps, PyKeeps
<1> QED BY <1>7 DEF r

\* A status that comes with a client that differs in its error only.
LEMMA CalmOutKeeps ==
    ASSUME NEW c \in Clients, NEW d \in Clients, Calm(c, d), NEW val,
           NEW st \in {"OK", "WOULD_BLOCK", "NOT_FOUND", "CLOSED", "TOO_BIG", "ERROR"},
           ErrorIsTrue(c) /\ ClosedIsClosed(c) => ErrorIsTrue(d)
    PROVE  Keeps(c, Out(d, st, val))
<1>1. SameSession(c, d) /\ QueueKept(c, d) /\ HandlesKept(c, d)
  BY DEF Calm, SameSession, QueueKept, HandlesKept
<1> QED BY <1>1 DEF Keeps, Out

\* A call that cannot proceed yet answers WOULD_BLOCK and changes nothing.
LEMMA BlockedKeeps ==
    ASSUME NEW c \in Clients
    PROVE  Keeps(c, Out(c, "WOULD_BLOCK", 0))
BY CalmOutKeeps DEF Calm

\* EnsureConnected's refusal only records an error.
LEMMA NotConnectedKeeps ==
    ASSUME NEW c \in Clients, NEW out \in NotConnected(c)
    PROVE  Keeps(c, out) /\ out.st = "CLOSED"
<1> DEFINE d == SetErrorIfEmpty(PopulateClosedErrorIfNeeded(c), "not open")
<1>1. "not open" \in Errors /\ "not open" # NoError /\ "not open" # "connection closed"
      /\ "not open" # "session closed"
  BY DEF Errors, NoError
<1>2. d \in Clients /\ Calm(c, d) /\ (ErrorIsTrue(c) /\ ClosedIsClosed(c) => ErrorIsTrue(d))
  BY <1>1, ExplainedFacts
<1>3. out = Out(d, "CLOSED", 0)
  BY DEF NotConnected
<1> HIDE DEF d
<1>4. Keeps(c, out)
  BY <1>2, <1>3, CalmOutKeeps
<1> QED BY <1>3, <1>4 DEF Out

\* A call that has to wait may have sent something.
LEMMA WaitingKeeps ==
    ASSUME NEW c \in Clients, NEW d \in MaySend(c)
    PROVE  Keeps(c, Out(d, "WOULD_BLOCK", 0))
<1>1. d \in Clients /\ Calm(c, d) /\ d.conn = c.conn /\ d.last_error = c.last_error
  BY MaySendFacts
<1>2. ErrorIsTrue(c) => ErrorIsTrue(d)
  BY <1>1 DEF ErrorIsTrue
<1> QED BY <1>1, <1>2, CalmOutKeeps

\* A refusal for another reason.
LEMMA RefusedKeeps ==
    ASSUME NEW c \in Clients, NEW e \in {"stream missing", "too big", "datagram failed"},
           NEW st \in {"NOT_FOUND", "TOO_BIG", "ERROR"}
    PROVE  Keeps(c, Out(SetError(c, e), st, 0))
<1>1. e \in Errors /\ e \notin {"session closed", "connection closed"}
  BY DEF Errors
<1>2. SetError(c, e) \in Clients /\ Calm(c, SetError(c, e)) /\ SetError(c, e).last_error = e
  BY <1>1, SetErrorFacts
<1>3. ErrorIsTrue(SetError(c, e))
  BY <1>1, <1>2 DEF ErrorIsTrue
<1> QED BY <1>2, <1>3, CalmOutKeeps

\* RequireStream refuses or runs the body.
LEMMA OnStreamKeeps ==
    ASSUME NEW c \in Clients, NEW id \in StreamIds, NEW body, NEW out \in OnStream(c, id, body),
           \A o \in body : Keeps(c, o)
    PROVE  Keeps(c, out)
<1>1. CASE ~IsConnected(c)
  BY <1>1, NotConnectedKeeps DEF OnStream
<1>2. CASE IsConnected(c) /\ id \notin Active(c)
  <2>1. out = Out(SetError(c, "stream missing"), "NOT_FOUND", 0)
    BY <1>2 DEF OnStream
  <2> QED BY <2>1, RefusedKeeps
<1>3. CASE IsConnected(c) /\ id \in Active(c)
  BY <1>3 DEF OnStream
<1> QED BY <1>1, <1>2, <1>3

\* A call that succeeds: QUICHE may send.
LEMMA SuccessKeeps ==
    ASSUME NEW c \in Clients, NEW g \in Clients, SameSession(c, g), QueueKept(c, g), HandlesKept(c, g),
           g.last_error = c.last_error, NEW d \in MaySend(g), NEW val
    PROVE  Keeps(c, Out(d, "OK", val))
<1>1. d \in Clients /\ Calm(g, d) /\ d.last_error = g.last_error
  BY MaySendFacts
<1>2. SameSession(c, d) /\ QueueKept(c, d) /\ HandlesKept(c, d)
  BY <1>1 DEF Calm, SameSession, QueueKept, HandlesKept
<1>3. d.last_error = c.last_error /\ d.conn = c.conn
  BY <1>1, <1>2 DEF SameSession
<1>4. ErrorIsTrue(c) => ErrorIsTrue(d)
  BY <1>3 DEF ErrorIsTrue
<1> QED BY <1>1, <1>2, <1>4 DEF Keeps, Out

\* send_datagram.
LEMMA SendDatagramKeeps ==
    ASSUME NEW c \in Clients, NEW oversized \in BOOLEAN, NEW r \in py_send_datagram(c, oversized)
    PROVE  /\ PyKeeps(c, r) /\ QueueKept(c, r.c)
           /\ oversized => r.ret # "value"
<1>1. PICK out \in SendDatagram(c, oversized) : r = Returned(out)
  BY DEF py_send_datagram
<1> DEFINE b == ResetRuntimeError(c)
<1>2. b \in Clients
  BY ResetFacts
<1> HIDE DEF b
<1>3. CASE ~IsConnected(b)
  <2>1. out \in NotConnected(b)
    BY <1>1, <1>3 DEF SendDatagram, b
  <2>2. Keeps(b, out) /\ out.st = "CLOSED"
    BY <1>2, <2>1, NotConnectedKeeps
  <2> QED BY <1>1, <2>2, ReturnedKeeps DEF b, Returned, Exception
<1>4. CASE IsConnected(b) /\ oversized
  <2>1. out = Out(SetError(b, "too big"), "TOO_BIG", 0)
    BY <1>1, <1>4 DEF SendDatagram, b
  <2>2. Keeps(b, out) /\ out.st = "TOO_BIG"
    <3>1. Keeps(b, out)
      BY <1>2, <2>1, RefusedKeeps
    <3> QED BY <2>1, <3>1 DEF Out
  <2> QED BY <1>1, <2>2, ReturnedKeeps DEF b, Returned, Exception
<1>5. CASE IsConnected(b) /\ ~oversized /\ b.dgroom = 0
  <2>1. out = Out(b, "WOULD_BLOCK", 0)
    BY <1>1, <1>5 DEF SendDatagram, b
  <2>2. Keeps(b, out)
    BY <1>2, <2>1, BlockedKeeps
  <2> QED BY <1>1, <1>5, <2>2, ReturnedKeeps DEF b
<1>6. CASE out = Out(SetError(b, "datagram failed"), "ERROR", 0)
  <2>1. Keeps(b, out) /\ out.st = "ERROR"
    <3>1. Keeps(b, out)
      BY <1>2, <1>6, RefusedKeeps
    <3> QED BY <1>6, <3>1 DEF Out
  <2> QED BY <1>1, <2>1, ReturnedKeeps DEF b, Returned, Exception
<1>7. CASE /\ IsConnected(b) /\ ~oversized /\ b.dgroom # 0
           /\ out # Out(SetError(b, "datagram failed"), "ERROR", 0)
  <2> DEFINE g == [b EXCEPT !.dgroom = @ - 1]
  <2>1. PICK d \in MaySend(g) : out = Out(d, "OK", 0)
    BY <1>1, <1>7 DEF SendDatagram, b
  <2>2. b.dgroom - 1 \in 0..MaxRoom
    <3>1. b.dgroom \in 0..MaxRoom
      BY <1>2 DEF Clients
    <3>2. b.dgroom # 0
      BY <1>7, Zenon
    <3> QED BY <3>1, <3>2, BoundsAssumption
  <2>3. /\ g \in Clients /\ SameSession(b, g) /\ QueueKept(b, g) /\ g.streams = b.streams
        /\ g.last_error = b.last_error
    BY <1>2, <2>2 DEF Clients, SameSession, QueueKept
  <2> HIDE DEF g
  <2>4. Keeps(b, out)
    <3>1. HandlesKept(b, g)
      BY <2>3 DEF HandlesKept
    <3> QED BY <1>2, <2>1, <2>3, <3>1, SuccessKeeps
  <2> QED BY <1>1, <1>7, <2>4, ReturnedKeeps DEF b
<1> QED BY <1>3, <1>4, <1>5, <1>6, <1>7

\* The head and the tail of a queue that is not empty.
LEMMA HeadAndTail ==
    ASSUME NEW S, NEW q \in Seq(S), q # <<>>
    PROVE  Head(q) \in S /\ Tail(q) \in Seq(S)
OBVIOUS

\* receive_datagram: what it delivers is the head of the queue.
LEMMA ReceiveDatagramKeeps ==
    ASSUME NEW c \in Clients, NEW r \in py_receive_datagram(c)
    PROVE  /\ PyKeeps(c, r)
           /\ r.ret = "value" => /\ c.received_datagrams # <<>>
                                 /\ r.val = Head(c.received_datagrams)
                                 /\ r.c.received_datagrams = Tail(c.received_datagrams)
                                 /\ r.c.streams = c.streams /\ r.c.credit = c.credit
                                 /\ r.c.dgroom = c.dgroom
           /\ r.ret # "value" => r.ret = "None" /\ c.received_datagrams = <<>>
<1> DEFINE b == ResetRuntimeError(c)
           q == c.received_datagrams
           t == [b EXCEPT !.received_datagrams = Tail(@)]
<1>1. /\ b \in Clients /\ Calm(c, b) /\ ErrorIsTrue(b) /\ b.last_error = NoError
      /\ b.received_datagrams = q /\ q \in Seq(1..MaxDatagrams)
  BY ResetFacts DEF Calm, Clients
<1>2. ResetRuntimeError(b) = b
  BY DEF ResetRuntimeError, SetError, Clients
<1>3. CASE q = <<>>
  <2>1. r = Returned(Out(b, "WOULD_BLOCK", 0))
    BY <1>1, <1>3 DEF py_receive_datagram, PeekDatagramSize, Out
  <2>2. PyKeeps(c, r)
    BY <1>1, <2>1, BlockedKeeps, ReturnedKeeps
  <2>3. r.ret = "None"
    BY <2>1 DEF Returned, Out
  <2> QED BY <1>3, <2>2, <2>3
<1>4. CASE q # <<>>
  <2>1. Head(q) \in 1..MaxDatagrams /\ Tail(q) \in Seq(1..MaxDatagrams)
    BY <1>1, <1>4, HeadAndTail
  <2>2. ~(SizeOf(Head(q)) < SizeOf(Head(q)))
    BY <2>1 DEF SizeOf
  <2>3. r = Returned(Out(t, "OK", Head(q)))
    <3>1. PeekDatagramSize(c) = Out(b, "OK", SizeOf(Head(q)))
      BY <1>1, <1>4 DEF PeekDatagramSize
    <3>2. ReceiveDatagram(b, SizeOf(Head(q))) = Out(t, "OK", Head(q))
      BY <1>1, <1>2, <1>4, <2>2 DEF ReceiveDatagram
    <3>3. PeekDatagramSize(c).st = "OK" /\ PeekDatagramSize(c).c = b
          /\ PeekDatagramSize(c).val = SizeOf(Head(q))
      BY <3>1 DEF Out
    <3> QED BY <3>2, <3>3 DEF py_receive_datagram
  <2>4. /\ t \in Clients /\ SameSession(b, t) /\ t.received_datagrams = Tail(q)
        /\ t.streams = b.streams /\ t.credit = b.credit /\ t.dgroom = b.dgroom
        /\ t.last_error = b.last_error
    BY <1>1, <2>1 DEF Clients, SameSession
  <2> HIDE DEF t, b
  <2>5. r.ret = "value" /\ r.c = t /\ r.val = Head(q)
    BY <2>3 DEF Returned, Out
  <2>6. /\ SameSession(c, t) /\ HandlesKept(c, t) /\ t.streams = c.streams
        /\ t.credit = c.credit /\ t.dgroom = c.dgroom
    BY <1>1, <2>4 DEF Calm, SameSession, HandlesKept
  <2>7. ErrorIsTrue(t)
    BY <1>1, <2>4 DEF ErrorIsTrue, NoError
  <2> QED BY <1>4, <2>4, <2>5, <2>6, <2>7 DEF PyKeeps
<1> QED BY <1>3, <1>4

\* The stream of an id, in a client.
LEMMA StreamOf ==
    ASSUME NEW c \in Clients, NEW id \in StreamIds
    PROVE  c.streams[id] \in StreamStates
BY DEF Clients

\* open_*_stream: what it yields is the id of a stream that is open now.
LEMMA OpenStreamKeeps ==
    ASSUME NEW c \in Clients, NEW uni \in BOOLEAN, NEW r \in py_open_stream(c, uni)
    PROVE  /\ PyKeeps(c, r) /\ QueueKept(c, r.c)
           /\ r.ret = "value" => /\ IsConnected(c) /\ c.credit[uni] # 0
                                 /\ r.val \in NextOutgoing(c, uni)
                                 /\ r.c.credit = [c.credit EXCEPT ![uni] = @ - 1]
                                 /\ r.c.dgroom = c.dgroom
                                 /\ r.c.streams = [c.streams EXCEPT ![r.val] =
                                       Settle([c.streams[r.val] EXCEPT !.phase = "open"])]
<1>1. PICK out \in OpenStream(c, uni) : r = Returned(out)
  BY DEF py_open_stream
<1> DEFINE b == ResetRuntimeError(c)
<1>2. b \in Clients /\ Calm(c, b)
  BY ResetFacts
<1> HIDE DEF b
<1>3. CASE ~IsConnected(b)
  <2>1. out \in NotConnected(b)
    BY <1>1, <1>3 DEF OpenStream, b
  <2>2. Keeps(b, out) /\ out.st = "CLOSED"
    BY <1>2, <2>1, NotConnectedKeeps
  <2> QED BY <1>1, <2>2, ReturnedKeeps DEF b, Returned, Exception
<1>4. CASE \E d \in MaySend(b) : out = Out(d, "WOULD_BLOCK", 0)
  <2>1. PICK d \in MaySend(b) : out = Out(d, "WOULD_BLOCK", 0)
    BY <1>4
  <2>2. Keeps(b, out)
    BY <1>2, <2>1, WaitingKeeps
  <2>3. r.ret = "None"
    BY <1>1, <2>1 DEF Returned, Out
  <2> QED BY <1>1, <2>2, <2>3, ReturnedKeeps DEF b
<1>5. CASE /\ IsConnected(b) /\ b.credit[uni] # 0
           /\ \E id \in NextOutgoing(b, uni) :
                out = Out([SetStream(b, id, [b.streams[id] EXCEPT !.phase = "open"])
                             EXCEPT !.credit[uni] = @ - 1], "OK", id)
  <2>1. PICK id \in NextOutgoing(b, uni) :
          out = Out([SetStream(b, id, [b.streams[id] EXCEPT !.phase = "open"])
                       EXCEPT !.credit[uni] = @ - 1], "OK", id)
    BY <1>5
  <2> DEFINE s == [b.streams[id] EXCEPT !.phase = "open"]
             d == SetStream(b, id, s)
             f == [d.credit EXCEPT ![uni] = @ - 1]
             g == [d EXCEPT !.credit = f]
  <2>2. id \in StreamIds
    BY DEF NextOutgoing
  <2>3. s \in StreamStates /\ s.phase = "open"
    BY <1>2, <2>2, StreamOf DEF StreamStates
  <2> HIDE DEF s
  <2>4. /\ d \in Clients /\ SameSession(b, d) /\ QueueKept(b, d) /\ HandlesKept(b, d)
        /\ d.last_error = b.last_error /\ d.credit = b.credit /\ d.dgroom = b.dgroom
        /\ d.streams = [b.streams EXCEPT ![id] = Settle(s)]
    BY <1>2, <2>2, <2>3, SetStreamFacts
  <2>5. out = Out(g, "OK", id)
    BY <2>1 DEF s
  <2> HIDE DEF d
  <2>6. d.credit[uni] \in 0..MaxCredit
    BY <2>4 DEF Clients
  <2>7. d.credit[uni] - 1 \in 0..MaxCredit
    BY <1>5, <2>4, <2>6, BoundsAssumption
  <2>8. f \in [BOOLEAN -> 0..MaxCredit]
    BY <2>4, <2>7 DEF Clients
  <2> HIDE DEF f
  <2>9. /\ g \in Clients /\ SameSession(d, g) /\ QueueKept(d, g) /\ g.streams = d.streams
        /\ g.last_error = d.last_error /\ g.credit = f /\ g.dgroom = d.dgroom
    BY <2>4, <2>8 DEF Clients, SameSession, QueueKept
  <2> HIDE DEF g
  <2>10. /\ SameSession(b, g) /\ QueueKept(b, g) /\ HandlesKept(b, g) /\ g.last_error = b.last_error
    BY <2>4, <2>9 DEF SameSession, QueueKept, HandlesKept
  <2>11. Keeps(b, out)
    <3>1. ErrorIsTrue(b) => ErrorIsTrue(g)
      BY <2>10 DEF ErrorIsTrue, SameSession
    <3> QED BY <2>5, <2>9, <2>10, <3>1 DEF Keeps, Out
  <2>12. r.ret = "value" /\ r.val = id /\ r.c = g
    BY <1>1, <2>5 DEF Returned, Out
  <2>13. IsConnected(c) /\ c.credit = b.credit /\ c.dgroom = b.dgroom /\ c.streams = b.streams
    BY <1>2, <1>5 DEF Calm, IsConnected
  <2>14. NextOutgoing(c, uni) = NextOutgoing(b, uni)
    BY <2>13 DEF NextOutgoing
  <2>15. PyKeeps(c, r) /\ QueueKept(c, r.c)
    BY <1>1, <2>11, ReturnedKeeps DEF b
  <2>16. g.credit = [c.credit EXCEPT ![uni] = @ - 1] /\ g.dgroom = c.dgroom
         /\ g.streams = [c.streams EXCEPT ![id] = Settle(s)]
    BY <2>4, <2>9, <2>13 DEF f
  <2> QED BY <1>5, <2>1, <2>12, <2>13, <2>14, <2>15, <2>16 DEF s
<1> QED BY <1>1, <1>3, <1>4, <1>5 DEF OpenStream, b

\* accept_*_stream: what it yields is the id of a stream that was pending.
LEMMA AcceptStreamKeeps ==
    ASSUME NEW c \in Clients, NEW uni \in BOOLEAN, NEW r \in py_accept_stream(c, uni)
    PROVE  /\ PyKeeps(c, r) /\ QueueKept(c, r.c)
           /\ r.ret = "value" => /\ IsConnected(c) /\ r.val \in Incoming(c, uni)
                                 /\ r.c.credit = c.credit /\ r.c.dgroom = c.dgroom
                                 /\ r.c.streams = [c.streams EXCEPT ![r.val] =
                                       Settle([c.streams[r.val] EXCEPT !.phase = "open"])]
<1>1. PICK out \in AcceptStream(c, uni) : r = Returned(out)
  BY DEF py_accept_stream
<1> DEFINE b == ResetRuntimeError(c)
<1>2. b \in Clients /\ Calm(c, b)
  BY ResetFacts
<1> HIDE DEF b
<1>3. CASE ~IsConnected(b)
  <2>1. out \in NotConnected(b)
    BY <1>1, <1>3 DEF AcceptStream, b
  <2>2. Keeps(b, out) /\ out.st = "CLOSED"
    BY <1>2, <2>1, NotConnectedKeeps
  <2> QED BY <1>1, <2>2, ReturnedKeeps DEF b, Returned, Exception
<1>4. CASE out = Out(b, "WOULD_BLOCK", 0)
  <2>1. Keeps(b, out)
    BY <1>2, <1>4, BlockedKeeps
  <2>2. r.ret = "None"
    BY <1>1, <1>4 DEF Returned, Out
  <2> QED BY <1>1, <2>1, <2>2, ReturnedKeeps DEF b
<1>5. CASE /\ IsConnected(b)
           /\ \E id \in Incoming(b, uni) :
                out = Out(SetStream(b, id, [b.streams[id] EXCEPT !.phase = "open"]), "OK", id)
  <2>1. PICK id \in Incoming(b, uni) :
          out = Out(SetStream(b, id, [b.streams[id] EXCEPT !.phase = "open"]), "OK", id)
    BY <1>5
  <2> DEFINE s == [b.streams[id] EXCEPT !.phase = "open"]
             d == SetStream(b, id, s)
  <2>2. id \in StreamIds
    BY DEF Incoming
  <2>3. s \in StreamStates /\ s.phase = "open"
    BY <1>2, <2>2, StreamOf DEF StreamStates
  <2>4. out = Out(d, "OK", id)
    BY <2>1
  <2> HIDE DEF s
  <2>5. /\ d \in Clients /\ SameSession(b, d) /\ QueueKept(b, d) /\ HandlesKept(b, d)
        /\ d.last_error = b.last_error /\ d.credit = b.credit /\ d.dgroom = b.dgroom
        /\ d.streams = [b.streams EXCEPT ![id] = Settle(s)]
    BY <1>2, <2>2, <2>3, SetStreamFacts
  <2> HIDE DEF d
  <2>6. Keeps(b, out)
    <3>1. ErrorIsTrue(b) => ErrorIsTrue(d)
      BY <2>5 DEF ErrorIsTrue, SameSession
    <3> QED BY <2>4, <2>5, <3>1 DEF Keeps, Out
  <2>7. r.ret = "value" /\ r.val = id /\ r.c = d
    BY <1>1, <2>4 DEF Returned, Out
  <2>8. IsConnected(c) /\ c.credit = b.credit /\ c.dgroom = b.dgroom /\ c.streams = b.streams
    BY <1>2, <1>5 DEF Calm, IsConnected
  <2>9. Incoming(c, uni) = Incoming(b, uni)
    BY <2>8 DEF Incoming
  <2>10. PyKeeps(c, r) /\ QueueKept(c, r.c)
    BY <1>1, <2>6, ReturnedKeeps DEF b
  <2> QED BY <2>1, <2>5, <2>7, <2>8, <2>9, <2>10 DEF s
<1> QED BY <1>1, <1>3, <1>4, <1>5 DEF AcceptStream, b

\* A stream operation that succeeds: one stream is changed and QUICHE may
\* send.
LEMMA StreamUpdateKeeps ==
    ASSUME NEW c \in Clients, NEW id \in StreamIds, NEW s \in StreamStates, NEW val,
           s.phase = c.streams[id].phase, NEW d \in MaySend(SetStream(c, id, s))
    PROVE  Keeps(c, Out(d, "OK", val))
BY SetStreamFacts, SuccessKeeps

\* read(): what it succeeds with was waiting.
LEMMA ReadKeeps ==
    ASSUME NEW c \in Clients, NEW id \in StreamIds, NEW r \in py_read(c, id)
    PROVE  /\ PyKeeps(c, r) /\ QueueKept(c, r.c)
           /\ r.ret = "value" =>
                /\ IsConnected(c) /\ id \in Active(c)
                /\ c.streams[id].buf # 0 \/ c.streams[id].fin
                /\ r.c.credit = c.credit /\ r.c.dgroom = c.dgroom
                /\ \E t \in StreamStates :
                     /\ t.phase = c.streams[id].phase /\ t.room = c.streams[id].room
                     /\ t.wclosed = c.streams[id].wclosed
                     /\ r.c.streams = [c.streams EXCEPT ![id] = Settle(t)]
<1> DEFINE b == ResetRuntimeError(c)
           s == b.streams[id]
           lens == IF s.buf = 0 THEN {0} ELSE 1..s.buf
           body == IF s.buf = 0 /\ ~s.fin THEN {Out(b, "WOULD_BLOCK", 0)}
                   ELSE UNION {{Out(d, "OK", n) : d \in MaySend(SetStream(b, id, Consume(s, n)))} :
                               n \in lens}
<1>1. PICK out \in OnStream(b, id, body) : r = Returned(out)
  BY DEF py_read, ReadStream
<1>2. b \in Clients /\ Calm(c, b)
  BY ResetFacts
<1>3. s \in StreamStates
  BY <1>2, StreamOf
<1>4. ASSUME NEW n \in lens
      PROVE  /\ Consume(s, n) \in StreamStates /\ Consume(s, n).phase = s.phase
             /\ Consume(s, n).room = s.room /\ Consume(s, n).wclosed = s.wclosed
  <2>1. s.buf \in 0..MaxChunks
    BY <1>3 DEF StreamStates
  <2>2. s.buf - n \in 0..MaxChunks /\ 0 \in 0..MaxChunks
    BY <1>4, <2>1, BoundsAssumption
  <2> HIDE DEF s
  <2> QED BY <1>3, <2>2 DEF Consume, StreamStates
<1> HIDE DEF b, s, lens
<1>5. ASSUME NEW o \in body PROVE Keeps(b, o)
  <2>1. CASE o = Out(b, "WOULD_BLOCK", 0)
    BY <1>2, <2>1, BlockedKeeps
  <2>2. CASE \E n \in lens : \E d \in MaySend(SetStream(b, id, Consume(s, n))) : o = Out(d, "OK", n)
    BY <1>2, <1>4, <2>2, StreamUpdateKeeps DEF s
  <2> QED BY <1>5, <2>1, <2>2
<1>6. Keeps(b, out)
  BY <1>1, <1>2, <1>5, OnStreamKeeps
<1>7. PyKeeps(c, r) /\ QueueKept(c, r.c)
  BY <1>1, <1>6, ReturnedKeeps DEF b
<1>8. ASSUME r.ret = "value"
      PROVE  /\ IsConnected(c) /\ id \in Active(c)
             /\ c.streams[id].buf # 0 \/ c.streams[id].fin
             /\ r.c.credit = c.credit /\ r.c.dgroom = c.dgroom
             /\ \E t \in StreamStates :
                  /\ t.phase = c.streams[id].phase /\ t.room = c.streams[id].room
                  /\ t.wclosed = c.streams[id].wclosed
                  /\ r.c.streams = [c.streams EXCEPT ![id] = Settle(t)]
  <2>1. out.st = "OK" /\ r.c = out.c
    BY <1>1, <1>6, <1>8 DEF Keeps, Returned, Exception
  <2>2. IsConnected(b) /\ id \in Active(b) /\ out \in body
    <3>1. out \notin NotConnected(b)
      BY <1>2, <2>1, NotConnectedKeeps
    <3>2. out \notin {Out(SetError(b, "stream missing"), "NOT_FOUND", 0)}
      <4>1. \A d : Out(d, "NOT_FOUND", 0).st # "OK"
        BY DEF Out
      <4> HIDE DEF body
      <4> QED BY <2>1, <4>1
    <3> QED BY <1>1, <3>1, <3>2 DEF OnStream
  <2>3. s.buf # 0 \/ s.fin
    BY <2>1, <2>2 DEF Out
  <2>4. PICK n \in lens : \E d \in MaySend(SetStream(b, id, Consume(s, n))) : out = Out(d, "OK", n)
    BY <2>2, <2>3
  <2>5. PICK d \in MaySend(SetStream(b, id, Consume(s, n))) : out = Out(d, "OK", n)
    BY <2>4
  <2>6. r.c = d
    BY <2>1, <2>5 DEF Out
  <2> DEFINE t == Consume(s, n)
             g == SetStream(b, id, t)
  <2>7. t \in StreamStates /\ t.phase = s.phase /\ t.room = s.room /\ t.wclosed = s.wclosed
    BY <1>4
  <2>8. d \in MaySend(g)
    BY <2>5
  <2> HIDE DEF t
  <2>9. g \in Clients /\ g.credit = b.credit /\ g.dgroom = b.dgroom
        /\ g.streams = [b.streams EXCEPT ![id] = Settle(t)]
    BY <1>2, <2>7, SetStreamFacts
  <2> HIDE DEF g
  <2>10. Calm(g, d)
    BY <2>8, <2>9, MaySendFacts
  <2>11. IsConnected(c) /\ id \in Active(c) /\ c.streams = b.streams
    BY <1>2, <2>2 DEF Calm, IsConnected, Active
  <2>12. d.credit = c.credit /\ d.dgroom = c.dgroom /\ d.streams = [c.streams EXCEPT ![id] = Settle(t)]
    BY <1>2, <2>9, <2>10, <2>11 DEF Calm
  <2> QED BY <2>3, <2>6, <2>7, <2>11, <2>12 DEF s
<1> QED BY <1>7, <1>8

\* write().
LEMMA WriteKeeps ==
    ASSUME NEW c \in Clients, NEW id \in StreamIds, NEW fin \in BOOLEAN, NEW r \in py_write(c, id, fin)
    PROVE  PyKeeps(c, r) /\ QueueKept(c, r.c)
<1> DEFINE b == ResetRuntimeError(c)
           s == b.streams[id]
           t == [s EXCEPT !.room = @ - 1, !.wclosed = fin]
           body == IF ~CanWrite(s) THEN {Out(b, "WOULD_BLOCK", 0)}
                   ELSE {Out(d, "OK", 0) : d \in MaySend(SetStream(b, id, t))}
<1>1. PICK out \in OnStream(b, id, body) : r = Returned(out)
  BY DEF py_write, WriteStream
<1>2. b \in Clients
  BY ResetFacts
<1>3. s \in StreamStates
  BY <1>2, StreamOf
<1> HIDE DEF b, s
<1>4. CanWrite(s) => t \in StreamStates /\ t.phase = s.phase
  <2>1. s.room \in 0..MaxRoom
    BY <1>3 DEF StreamStates
  <2>2. CanWrite(s) => s.room - 1 \in 0..MaxRoom
    BY <2>1, BoundsAssumption DEF CanWrite
  <2> QED BY <1>3, <2>2 DEF StreamStates
<1> HIDE DEF t
<1>5. ASSUME NEW o \in body PROVE Keeps(b, o)
  <2>1. CASE o = Out(b, "WOULD_BLOCK", 0)
    BY <1>2, <2>1, BlockedKeeps
  <2>2. CASE CanWrite(s) /\ \E d \in MaySend(SetStream(b, id, t)) : o = Out(d, "OK", 0)
    BY <1>2, <1>4, <2>2, StreamUpdateKeeps DEF s
  <2> QED BY <1>5, <2>1, <2>2
<1>6. Keeps(b, out)
  BY <1>1, <1>2, <1>5, OnStreamKeeps
<1> QED BY <1>1, <1>6, ReturnedKeeps DEF b

\* reset().
LEMMA ResetStreamKeeps ==
    ASSUME NEW c \in Clients, NEW id \in StreamIds, NEW r \in py_reset(c, id)
    PROVE  PyKeeps(c, r) /\ QueueKept(c, r.c)
<1> DEFINE b == ResetRuntimeError(c)
           s == [b.streams[id] EXCEPT !.wclosed = TRUE]
           body == {Out(d, "OK", 0) : d \in MaySend(SetStream(b, id, s))}
<1>1. PICK out \in OnStream(b, id, body) : r = Returned(out)
  BY DEF py_reset, ResetStream
<1>2. b \in Clients
  BY ResetFacts
<1>3. s \in StreamStates /\ s.phase = b.streams[id].phase
  BY <1>2, StreamOf DEF StreamStates
<1> HIDE DEF b, s
<1>4. ASSUME NEW o \in body PROVE Keeps(b, o)
  BY <1>2, <1>3, <1>4, StreamUpdateKeeps
<1>5. Keeps(b, out)
  BY <1>1, <1>2, <1>4, OnStreamKeeps
<1> QED BY <1>1, <1>5, ReturnedKeeps DEF b

\* stop_sending().
LEMMA StopSendingKeeps ==
    ASSUME NEW c \in Clients, NEW id \in StreamIds, NEW r \in py_stop_sending(c, id)
    PROVE  PyKeeps(c, r) /\ QueueKept(c, r.c)
<1> DEFINE b == ResetRuntimeError(c)
           s == [b.streams[id] EXCEPT !.rclosed = TRUE, !.buf = 0, !.fin = FALSE]
           body == {Out(d, "OK", 0) : d \in MaySend(SetStream(b, id, s))}
<1>1. PICK out \in OnStream(b, id, body) : r = Returned(out)
  BY DEF py_stop_sending, StopSending
<1>2. b \in Clients
  BY ResetFacts
<1>3. s \in StreamStates /\ s.phase = b.streams[id].phase
  <2>1. 0 \in 0..MaxChunks
    BY BoundsAssumption
  <2> QED BY <1>2, <2>1, StreamOf DEF StreamStates
<1> HIDE DEF b, s
<1>4. ASSUME NEW o \in body PROVE Keeps(b, o)
  BY <1>2, <1>3, <1>4, StreamUpdateKeeps
<1>5. Keeps(b, out)
  BY <1>1, <1>2, <1>4, OnStreamKeeps
<1> QED BY <1>1, <1>5, ReturnedKeeps DEF b

-----------------------------------------------------------------------------
(* The ledger of the datagrams of a connection.                            *)

\* What was delivered, followed by what is queued, is everything that came.
Numbers(n) == [i \in 1..n |-> i]
Ledger(g, c) == g \o c.received_datagrams = Numbers(c.arrived)

\* An element appended to the second of two sequences comes last.
LEMMA JoinedAppend ==
    ASSUME NEW S, NEW g \in Seq(S), NEW q \in Seq(S), NEW x \in S
    PROVE  /\ g \o q \in Seq(S) /\ g \o Append(q, x) \in Seq(S)
           /\ Len(g \o Append(q, x)) = Len(g \o q) + 1
           /\ \A i \in 1..Len(g \o q) : (g \o Append(q, x))[i] = (g \o q)[i]
           /\ (g \o Append(q, x))[Len(g \o q) + 1] = x
<1>1. /\ g \o q \in Seq(S) /\ g \o Append(q, x) \in Seq(S) /\ Len(g \o q) = Len(g) + Len(q)
      /\ Len(g \o Append(q, x)) = Len(g) + Len(q) + 1 /\ Len(g) \in Nat /\ Len(q) \in Nat
  OBVIOUS
<1>2. \A i \in 1..(Len(g) + Len(q)) : (g \o Append(q, x))[i] = (g \o q)[i]
  OBVIOUS
<1>3. (g \o Append(q, x))[Len(g) + Len(q) + 1] = x
  OBVIOUS
<1> QED BY <1>1, <1>2, <1>3

\* A numbering is continued by the next number at the end of the queue.
LEMMA NumberedGrows ==
    ASSUME NEW S, NEW g \in Seq(S), NEW q \in Seq(S), NEW n \in Nat, n + 1 \in S
    PROVE  g \o q = Numbers(n) => g \o Append(q, n + 1) = Numbers(n + 1)
<1> DEFINE h == g \o q
           e == g \o Append(q, n + 1)
<1>1. /\ h \in Seq(S) /\ e \in Seq(S) /\ Len(e) = Len(h) + 1
      /\ \A i \in 1..Len(h) : e[i] = h[i]
      /\ e[Len(h) + 1] = n + 1
  BY JoinedAppend
<1> HIDE DEF h, e
<1>2. SUFFICES ASSUME h = [i \in 1..n |-> i] PROVE e = [i \in 1..(n + 1) |-> i]
  BY DEF h, e, Numbers
<1>3. Len(h) = n /\ \A i \in 1..n : h[i] = i
  BY <1>1, <1>2
<1>4. DOMAIN e = 1..(n + 1) /\ \A i \in 1..(n + 1) : e[i] = i
  BY <1>1, <1>3
<1>5. e = [i \in DOMAIN e |-> e[i]]
  BY <1>1
<1> QED BY <1>4, <1>5, Zenon

\* Moving the head of the queue to the end of what was delivered keeps the order.
LEMMA TakingKeepsOrder ==
    ASSUME NEW S, NEW g \in Seq(S), NEW q \in Seq(S), q # <<>>
    PROVE  Append(g, Head(q)) \in Seq(S) /\ Append(g, Head(q)) \o Tail(q) = g \o q
<1> DEFINE x == Append(g, Head(q)) \o Tail(q)
           y == g \o q
<1>1. /\ Append(g, Head(q)) \in Seq(S) /\ x \in Seq(S) /\ y \in Seq(S)
      /\ Len(x) = Len(g) + Len(q) /\ Len(y) = Len(g) + Len(q)
  OBVIOUS
<1>2. \A i \in 1..(Len(g) + Len(q)) : x[i] = y[i]
  OBVIOUS
<1> HIDE DEF x, y
<1>3. x = [i \in 1..(Len(g) + Len(q)) |-> x[i]] /\ y = [i \in 1..(Len(g) + Len(q)) |-> y[i]]
  BY <1>1
<1>4. x = y
  BY <1>2, <1>3, Zenon
<1> QED BY <1>1, <1>4 DEF x, y

\* A packet adds at most one datagram to the ledger, at its end.
LEMMA LedgerGrows ==
    ASSUME NEW c \in Clients, NEW d \in Clients, NEW g \in Seq(1..MaxDatagrams),
           Ledger(g, c), DatagramsGrow(c, d)
    PROVE  Ledger(g, d)
<1>1. CASE d.arrived = c.arrived /\ QueueKept(c, d)
  BY <1>1 DEF Ledger, QueueKept
<1>2. CASE /\ d.arrived = c.arrived + 1
           /\ d.received_datagrams = Append(c.received_datagrams, c.arrived + 1)
  <2> DEFINE q == c.received_datagrams
             n == c.arrived
  <2>1. q \in Seq(1..MaxDatagrams) /\ n \in 0..MaxDatagrams /\ d.arrived \in 0..MaxDatagrams
    BY DEF Clients
  <2>2. n \in Nat /\ n + 1 \in 1..MaxDatagrams
    BY <1>2, <2>1, BoundsAssumption
  <2> HIDE DEF q, n
  <2>3. g \o q = Numbers(n) => g \o Append(q, n + 1) = Numbers(n + 1)
    BY <2>1, <2>2, NumberedGrows
  <2> QED BY <1>2, <2>3 DEF Ledger, q, n
<1> QED BY <1>1, <1>2 DEF DatagramsGrow

\* receive_datagram moves a datagram from the queue to the application.
LEMMA LedgerTaken ==
    ASSUME NEW c \in Clients, NEW r \in py_receive_datagram(c), NEW g \in Seq(1..MaxDatagrams),
           Ledger(g, c), r.ret = "value"
    PROVE  Append(g, r.val) \in Seq(1..MaxDatagrams) /\ Ledger(Append(g, r.val), r.c)
<1> DEFINE q == c.received_datagrams
<1>1. /\ q # <<>> /\ r.val = Head(q) /\ r.c.received_datagrams = Tail(q) /\ r.c.arrived = c.arrived
  BY ReceiveDatagramKeeps DEF PyKeeps, SameSession
<1>2. q \in Seq(1..MaxDatagrams)
  BY DEF Clients
<1>3. g \o q = Numbers(c.arrived)
  BY DEF Ledger
<1> HIDE DEF q
<1>4. Append(g, Head(q)) \in Seq(1..MaxDatagrams) /\ Append(g, Head(q)) \o Tail(q) = g \o q
  BY <1>1, <1>2, TakingKeepsOrder
<1> QED BY <1>1, <1>3, <1>4 DEF Ledger

\* Every other call keeps the ledger.
LEMMA LedgerKept ==
    ASSUME NEW c, NEW d, NEW g, Ledger(g, c), (SameSession(c, d) /\ QueueKept(c, d)) \/ Calm(c, d)
    PROVE  Ledger(g, d)
BY DEF Ledger, SameSession, QueueKept, Calm

\* The ledger of a client to which nothing has come.
LEMMA LedgerBlank ==
    ASSUME NEW c, Blank(c)
    PROVE  Ledger(<<>>, c)
<1>1. <<>> \o <<>> = <<>> /\ [i \in 1..0 |-> i] = <<>>
  OBVIOUS
<1> QED BY <1>1 DEF Ledger, Blank, Numbers

-----------------------------------------------------------------------------
(* When a call succeeds and when it has to wait.                           *)

CanSend(c) == IsConnected(c) /\ c.dgroom # 0
CanReceive(c) == c.received_datagrams # <<>>
CanOpen(c, uni) == IsConnected(c) /\ c.credit[uni] # 0 /\ NextOutgoing(c, uni) # {}
CanAccept(c, uni) == IsConnected(c) /\ Incoming(c, uni) # {}
CanRead(c, id) == IsConnected(c) /\ id \in Active(c) /\ (c.streams[id].buf # 0 \/ c.streams[id].fin)
CanWriteTo(c, id) == IsConnected(c) /\ id \in Active(c) /\ CanWrite(c.streams[id])

\* An answer r that is a value only if `can' holds and None only if it does not.
Answers(r, can) == (r.ret = "value" => can) /\ (r.ret = "None" => ~can)

\* An error or a packet more in the queue changes none of them.
LEMMA CalmCan ==
    ASSUME NEW c, NEW d, Calm(c, d)
    PROVE  /\ IsConnected(d) = IsConnected(c) /\ CanSend(d) = CanSend(c) /\ CanReceive(d) = CanReceive(c)
           /\ \A uni \in BOOLEAN : CanOpen(d, uni) = CanOpen(c, uni) /\ CanAccept(d, uni) = CanAccept(c, uni)
           /\ \A id \in StreamIds : CanRead(d, id) = CanRead(c, id) /\ CanWriteTo(d, id) = CanWriteTo(c, id)
<1>1. IsConnected(d) = IsConnected(c) /\ Active(d) = Active(c)
  BY DEF Calm, IsConnected, Active
<1>2. \A uni \in BOOLEAN : NextOutgoing(d, uni) = NextOutgoing(c, uni) /\ Incoming(d, uni) = Incoming(c, uni)
  BY DEF Calm, NextOutgoing, Incoming
<1>3. /\ d.dgroom = c.dgroom /\ d.received_datagrams = c.received_datagrams
      /\ d.credit = c.credit /\ d.streams = c.streams
  BY DEF Calm
<1> QED BY <1>1, <1>2, <1>3 DEF CanSend, CanReceive, CanOpen, CanAccept, CanRead, CanWriteTo

\* The status behind a value and behind None.
LEMMA ReturnedAnswers ==
    ASSUME NEW out, out.st \in {"OK", "WOULD_BLOCK", "NOT_FOUND", "CLOSED", "TOO_BIG", "ERROR"}
    PROVE  /\ Returned(out).ret = "value" => out.st = "OK"
           /\ Returned(out).ret = "None" => out.st = "WOULD_BLOCK"
BY DEF Returned, Exception

\* A method that is not connected raises.
LEMMA NotConnectedRaises ==
    ASSUME NEW c \in Clients, NEW out \in NotConnected(c), NEW can
    PROVE  Answers(Returned(out), can) /\ Returned(out).ret # "value"
<1>1. out.st = "CLOSED"
  BY NotConnectedKeeps
<1> QED BY <1>1, ReturnedAnswers DEF Answers

\* An outcome with a status of its own.
LEMMA OutAnswers ==
    ASSUME NEW d, NEW val, NEW can
    PROVE  /\ can => Answers(Returned(Out(d, "OK", val)), can)
           /\ ~can => Answers(Returned(Out(d, "WOULD_BLOCK", val)), can)
           /\ Answers(Returned(Out(d, "NOT_FOUND", val)), can) /\ Answers(Returned(Out(d, "TOO_BIG", val)), can)
           /\ Answers(Returned(Out(d, "ERROR", val)), can)
           /\ Returned(Out(d, "NOT_FOUND", val)).ret # "value"
BY DEF Answers, Returned, Out, Exception

\* send_datagram.
LEMMA SendDatagramAnswers ==
    ASSUME NEW c \in Clients, NEW r \in py_send_datagram(c, FALSE)
    PROVE  Answers(r, CanSend(c))
<1> DEFINE b == ResetRuntimeError(c)
<1>1. PICK out \in SendDatagram(c, FALSE) : r = Returned(out)
  BY DEF py_send_datagram
<1>2. b \in Clients /\ CanSend(b) = CanSend(c)
  BY ResetFacts, CalmCan
<1>3. \/ out \in NotConnected(b)
      \/ ~CanSend(b) /\ out = Out(b, "WOULD_BLOCK", 0)
      \/ CanSend(b) /\ \E d : out = Out(d, "OK", 0)
      \/ out = Out(SetError(b, "datagram failed"), "ERROR", 0)
  BY <1>1 DEF SendDatagram, CanSend
<1> HIDE DEF b
<1> QED BY <1>1, <1>2, <1>3, NotConnectedRaises, OutAnswers

\* open_*_stream.
LEMMA OpenStreamAnswers ==
    ASSUME NEW c \in Clients, NEW uni \in BOOLEAN, NEW r \in py_open_stream(c, uni)
    PROVE  Answers(r, CanOpen(c, uni))
<1> DEFINE b == ResetRuntimeError(c)
<1>1. PICK out \in OpenStream(c, uni) : r = Returned(out)
  BY DEF py_open_stream
<1>2. b \in Clients /\ CanOpen(b, uni) = CanOpen(c, uni)
  BY ResetFacts, CalmCan
<1>3. \/ out \in NotConnected(b)
      \/ ~CanOpen(b, uni) /\ \E d : out = Out(d, "WOULD_BLOCK", 0)
      \/ CanOpen(b, uni) /\ \E d, id : out = Out(d, "OK", id)
  BY <1>1 DEF OpenStream, CanOpen
<1> HIDE DEF b
<1> QED BY <1>1, <1>2, <1>3, NotConnectedRaises, OutAnswers

\* accept_*_stream.
LEMMA AcceptStreamAnswers ==
    ASSUME NEW c \in Clients, NEW uni \in BOOLEAN, NEW r \in py_accept_stream(c, uni)
    PROVE  Answers(r, CanAccept(c, uni))
<1> DEFINE b == ResetRuntimeError(c)
<1>1. PICK out \in AcceptStream(c, uni) : r = Returned(out)
  BY DEF py_accept_stream
<1>2. b \in Clients /\ CanAccept(b, uni) = CanAccept(c, uni)
  BY ResetFacts, CalmCan
<1>3. \/ out \in NotConnected(b)
      \/ ~CanAccept(b, uni) /\ out = Out(b, "WOULD_BLOCK", 0)
      \/ CanAccept(b, uni) /\ \E d, id : out = Out(d, "OK", id)
  BY <1>1 DEF AcceptStream, CanAccept
<1> HIDE DEF b
<1> QED BY <1>1, <1>2, <1>3, NotConnectedRaises, OutAnswers

\* A stream method answers what its body says, once the stream is found.
LEMMA OnStreamAnswers ==
    ASSUME NEW c \in Clients, NEW id \in StreamIds, NEW body, NEW can,
           NEW out \in OnStream(ResetRuntimeError(c), id, body),
           IsConnected(c) /\ id \in Active(c) /\ out \in body => Answers(Returned(out), can)
    PROVE  /\ Answers(Returned(out), can)
           /\ Returned(out).ret = "value" => IsConnected(c)
<1> DEFINE b == ResetRuntimeError(c)
<1>1. b \in Clients /\ Calm(c, b)
  BY ResetFacts
<1>2. IsConnected(c) = IsConnected(b) /\ Active(c) = Active(b)
  BY <1>1 DEF Calm, IsConnected, Active
<1> HIDE DEF b
<1>3. CASE ~IsConnected(b)
  <2>1. out \in NotConnected(b)
    BY <1>3 DEF OnStream, b
  <2> QED BY <1>1, <2>1, NotConnectedRaises
<1>4. CASE IsConnected(b) /\ id \notin Active(b)
  <2>1. out = Out(SetError(b, "stream missing"), "NOT_FOUND", 0)
    BY <1>4 DEF OnStream, b
  <2> DEFINE d == SetError(b, "stream missing")
  <2>2. out = Out(d, "NOT_FOUND", 0)
    BY <2>1
  <2> HIDE DEF d
  <2> QED BY <2>2, OutAnswers
<1>5. CASE IsConnected(b) /\ id \in Active(b)
  BY <1>2, <1>5 DEF OnStream, b
<1> QED BY <1>3, <1>4, <1>5

\* read().
LEMMA ReadAnswers ==
    ASSUME NEW c \in Clients, NEW id \in StreamIds, NEW r \in py_read(c, id)
    PROVE  Answers(r, CanRead(c, id))
<1> DEFINE b == ResetRuntimeError(c)
           s == b.streams[id]
           lens == IF s.buf = 0 THEN {0} ELSE 1..s.buf
           body == IF s.buf = 0 /\ ~s.fin THEN {Out(b, "WOULD_BLOCK", 0)}
                   ELSE UNION {{Out(d, "OK", n) : d \in MaySend(SetStream(b, id, Consume(s, n)))} :
                               n \in lens}
<1>1. PICK out \in OnStream(b, id, body) : r = Returned(out)
  BY DEF py_read, ReadStream
<1>2. b.streams = c.streams
  BY ResetFacts DEF Calm
<1>3. ASSUME IsConnected(c), id \in Active(c), out \in body PROVE Answers(Returned(out), CanRead(c, id))
  <2>1. \/ ~(s.buf # 0 \/ s.fin) /\ out = Out(b, "WOULD_BLOCK", 0)
        \/ (s.buf # 0 \/ s.fin) /\ \E d, n : out = Out(d, "OK", n)
    BY <1>3
  <2>2. CanRead(c, id) = (s.buf # 0 \/ s.fin)
    BY <1>2, <1>3 DEF CanRead
  <2> HIDE DEF b, s
  <2> QED BY <2>1, <2>2, OutAnswers
<1> HIDE DEF body
<1> QED BY <1>1, <1>3, OnStreamAnswers

\* write().
LEMMA WriteAnswers ==
    ASSUME NEW c \in Clients, NEW id \in StreamIds, NEW fin \in BOOLEAN, NEW r \in py_write(c, id, fin)
    PROVE  Answers(r, CanWriteTo(c, id))
<1> DEFINE b == ResetRuntimeError(c)
           s == b.streams[id]
           body == IF ~CanWrite(s) THEN {Out(b, "WOULD_BLOCK", 0)}
                   ELSE {Out(d, "OK", 0) :
                           d \in MaySend(SetStream(b, id, [s EXCEPT !.room = @ - 1, !.wclosed = fin]))}
<1>1. PICK out \in OnStream(b, id, body) : r = Returned(out)
  BY DEF py_write, WriteStream
<1>2. b.streams = c.streams
  BY ResetFacts DEF Calm
<1>3. ASSUME IsConnected(c), id \in Active(c), out \in body PROVE Answers(Returned(out), CanWriteTo(c, id))
  <2>1. \/ ~CanWrite(s) /\ out = Out(b, "WOULD_BLOCK", 0)
        \/ CanWrite(s) /\ \E d : out = Out(d, "OK", 0)
    BY <1>3
  <2>2. CanWriteTo(c, id) = CanWrite(s)
    BY <1>2, <1>3 DEF CanWriteTo, CanWrite
  <2> HIDE DEF b, s
  <2> QED BY <2>1, <2>2, OutAnswers
<1> HIDE DEF body
<1> QED BY <1>1, <1>3, OnStreamAnswers

\* reset() and stop_sending() need a connection.
LEMMA ControlAnswers ==
    ASSUME NEW c \in Clients, NEW id \in StreamIds, NEW r \in py_reset(c, id) \cup py_stop_sending(c, id)
    PROVE  r.ret = "value" => IsConnected(c)
<1> DEFINE b == ResetRuntimeError(c)
           body(s) == {Out(d, "OK", 0) : d \in MaySend(SetStream(b, id, s))}
<1>1. PICK s : \E out \in OnStream(b, id, body(s)) : r = Returned(out)
  BY DEF py_reset, ResetStream, py_stop_sending, StopSending
<1>2. PICK out \in OnStream(b, id, body(s)) : r = Returned(out)
  BY <1>1
<1>3. out \in body(s) => Answers(Returned(out), TRUE)
  BY OutAnswers
<1> HIDE DEF body
<1> QED BY <1>2, <1>3, OnStreamAnswers

\* In d nothing is possible that was not possible in c, for a program that
\* holds stream objects of c.
NothingNew(c, d) ==
    /\ IsConnected(d) => IsConnected(c)
    /\ CanSend(d) => CanSend(c)
    /\ CanReceive(d) => CanReceive(c)
    /\ \A uni \in BOOLEAN : (CanOpen(d, uni) => CanOpen(c, uni)) /\ (CanAccept(d, uni) => CanAccept(c, uni))
    /\ \A id \in StreamIds :
         c.streams[id].phase \in {"open", "gone"} =>
           (CanRead(d, id) => CanRead(c, id)) /\ (CanWriteTo(d, id) => CanWriteTo(c, id))

\* An error or a packet more.
LEMMA CalmNothingNew ==
    ASSUME NEW c, NEW d, Calm(c, d)
    PROVE  NothingNew(c, d)
BY CalmCan DEF NothingNew

\* receive_datagram takes something away.
LEMMA ReceiveNothingNew ==
    ASSUME NEW c \in Clients, NEW r \in py_receive_datagram(c)
    PROVE  NothingNew(c, r.c)
<1>1. CASE r.ret = "value"
  <2>1. /\ SameSession(c, r.c) /\ r.c.streams = c.streams /\ r.c.credit = c.credit
        /\ r.c.dgroom = c.dgroom /\ CanReceive(c)
    BY <1>1, ReceiveDatagramKeeps DEF PyKeeps, CanReceive
  <2>2. IsConnected(r.c) = IsConnected(c) /\ Active(r.c) = Active(c)
    BY <2>1 DEF SameSession, IsConnected, Active
  <2>3. \A uni \in BOOLEAN : NextOutgoing(r.c, uni) = NextOutgoing(c, uni) /\ Incoming(r.c, uni) = Incoming(c, uni)
    BY <2>1 DEF NextOutgoing, Incoming
  <2> QED BY <2>1, <2>2, <2>3 DEF NothingNew, CanSend, CanOpen, CanAccept, CanRead, CanWriteTo
<1>2. CASE r.ret # "value"
  BY <1>2, ReceiveDatagramKeeps, CalmNothingNew DEF PyKeeps
<1> QED BY <1>1, <1>2

\* The phase of a stream that settles.
LEMMA SettlePhase ==
    ASSUME NEW s \in StreamStates
    PROVE  Settle(s).phase \in {s.phase, "gone"} /\ (Settle(s).phase # "gone" => Settle(s) = s)
BY DEF Settle, StreamStates

\* Opening a stream uses up credit and an id: of the other direction nothing
\* changes, and no stream object of this id exists yet.
LEMMA OpenNothingNew ==
    ASSUME NEW c \in Clients, NEW uni \in BOOLEAN, NEW r \in py_open_stream(c, uni)
    PROVE  NothingNew(c, r.c)
<1>1. CASE r.ret = "value"
  <2> DEFINE id == r.val
             d == r.c
             s == [c.streams[id] EXCEPT !.phase = "open"]
  <2>1. /\ SameSession(c, d) /\ QueueKept(c, d) /\ IsConnected(c) /\ c.credit[uni] # 0
        /\ id \in NextOutgoing(c, uni) /\ d.credit = [c.credit EXCEPT ![uni] = @ - 1]
        /\ d.dgroom = c.dgroom /\ d.streams = [c.streams EXCEPT ![id] = Settle(s)]
    BY <1>1, OpenStreamKeeps DEF PyKeeps
  <2>2. id \in StreamIds /\ c.streams[id].phase = "unused" /\ (Unidirectional(id) <=> uni) /\ Outgoing(id)
    BY <2>1 DEF NextOutgoing
  <2>3. d.streams[id].phase \in {"open", "gone"}
    <3>1. s \in StreamStates /\ s.phase = "open"
      BY <2>2, StreamOf DEF StreamStates
    <3>2. d.streams[id] = Settle(s)
      BY <2>1, <2>2 DEF Clients
    <3> HIDE DEF s
    <3> QED BY <3>1, <3>2, SettlePhase
  <2>4. \A i \in StreamIds : i # id => d.streams[i] = c.streams[i]
    BY <2>1 DEF Clients
  <2>5. \A u \in BOOLEAN : u # uni => d.credit[u] = c.credit[u]
    BY <2>1 DEF Clients
  <2> HIDE DEF id, d, s
  <2>6. IsConnected(d) = IsConnected(c) /\ CanReceive(d) = CanReceive(c) /\ CanSend(d) = CanSend(c)
    BY <2>1 DEF SameSession, IsConnected, QueueKept, CanReceive, CanSend
  <2>7. ASSUME NEW u \in BOOLEAN, CanOpen(d, u) PROVE CanOpen(c, u)
    <3>1. CASE u = uni
      BY <2>1, <3>1 DEF CanOpen
    <3>2. CASE u # uni
      <4>1. PICK j \in NextOutgoing(d, u) : TRUE
        BY <2>7 DEF CanOpen
      <4>2. j \in StreamIds /\ j % 4 # id % 4
        BY <2>2, <3>2, <4>1 DEF NextOutgoing, Unidirectional
      <4>3. \A i \in StreamIds : i % 4 = j % 4 => d.streams[i] = c.streams[i]
        BY <2>4, <4>2
      <4>4. j \in NextOutgoing(c, u)
        BY <4>1, <4>2, <4>3 DEF NextOutgoing
      <4> QED BY <2>1, <2>5, <2>7, <3>2, <4>4 DEF CanOpen
    <3> QED BY <3>1, <3>2
  <2>8. ASSUME NEW u \in BOOLEAN, CanAccept(d, u) PROVE CanAccept(c, u)
    <3>1. PICK j \in Incoming(d, u) : TRUE
      BY <2>8 DEF CanAccept
    <3>2. j \in StreamIds /\ j # id
      BY <2>3, <3>1 DEF Incoming
    <3>3. j \in Incoming(c, u)
      BY <2>4, <3>1, <3>2 DEF Incoming
    <3> QED BY <2>1, <3>3 DEF CanAccept
  <2>9. ASSUME NEW i \in StreamIds, c.streams[i].phase \in {"open", "gone"}
        PROVE  (CanRead(d, i) => CanRead(c, i)) /\ (CanWriteTo(d, i) => CanWriteTo(c, i))
    <3>1. d.streams[i] = c.streams[i]
      BY <2>2, <2>4, <2>9
    <3> QED BY <2>1, <3>1 DEF CanRead, CanWriteTo, Active
  <2>10. NothingNew(c, d)
    BY <2>6, <2>7, <2>8, <2>9 DEF NothingNew
  <2> QED BY <2>10 DEF d
<1>2. CASE r.ret # "value"
  BY <1>2, OpenStreamKeeps, CalmNothingNew DEF PyKeeps
<1> QED BY <1>1, <1>2

\* A stream that was in use stays in use: nothing is opened or accepted that
\* could not be before.
LEMMA UsedStreamNothingNew ==
    ASSUME NEW c \in Clients, NEW d \in Clients, NEW id \in StreamIds,
           SameSession(c, d), QueueKept(c, d), IsConnected(c), d.credit = c.credit, d.dgroom = c.dgroom,
           \A i \in StreamIds : i # id => d.streams[i] = c.streams[i],
           c.streams[id].phase # "unused", d.streams[id].phase # "unused",
           d.streams[id].phase = "pending" => c.streams[id].phase = "pending",
           c.streams[id].phase \in {"open", "gone"} =>
             (CanRead(d, id) => CanRead(c, id)) /\ (CanWriteTo(d, id) => CanWriteTo(c, id))
    PROVE  NothingNew(c, d)
<1>1. IsConnected(d) = IsConnected(c) /\ CanReceive(d) = CanReceive(c) /\ CanSend(d) = CanSend(c)
  BY DEF SameSession, IsConnected, QueueKept, CanReceive, CanSend
<1>2. \A i \in StreamIds : d.streams[i].phase = "unused" <=> c.streams[i].phase = "unused"
  OBVIOUS
<1>3. \A u \in BOOLEAN : NextOutgoing(d, u) = NextOutgoing(c, u)
  BY <1>2 DEF NextOutgoing
<1>4. \A u \in BOOLEAN : Incoming(d, u) \subseteq Incoming(c, u)
  BY DEF Incoming
<1>5. \A u \in BOOLEAN : (CanOpen(d, u) => CanOpen(c, u)) /\ (CanAccept(d, u) => CanAccept(c, u))
  BY <1>3, <1>4 DEF CanOpen, CanAccept
<1>6. ASSUME NEW i \in StreamIds, c.streams[i].phase \in {"open", "gone"}
      PROVE  (CanRead(d, i) => CanRead(c, i)) /\ (CanWriteTo(d, i) => CanWriteTo(c, i))
  <2>1. CASE i = id
    BY <1>6, <2>1
  <2>2. CASE i # id
    BY <2>2 DEF CanRead, CanWriteTo, Active
  <2> QED BY <2>1, <2>2
<1> QED BY <1>1, <1>5, <1>6 DEF NothingNew

\* Accepting a stream: no stream object of this id exists yet.
LEMMA AcceptNothingNew ==
    ASSUME NEW c \in Clients, NEW uni \in BOOLEAN, NEW r \in py_accept_stream(c, uni)
    PROVE  NothingNew(c, r.c)
<1>1. CASE r.ret = "value"
  <2> DEFINE id == r.val
             d == r.c
             s == [c.streams[id] EXCEPT !.phase = "open"]
  <2>1. /\ d \in Clients /\ SameSession(c, d) /\ QueueKept(c, d) /\ IsConnected(c) /\ id \in Incoming(c, uni)
        /\ d.credit = c.credit /\ d.dgroom = c.dgroom /\ d.streams = [c.streams EXCEPT ![id] = Settle(s)]
    BY <1>1, AcceptStreamKeeps DEF PyKeeps
  <2>2. id \in StreamIds /\ c.streams[id].phase = "pending"
    BY <2>1 DEF Incoming
  <2>3. d.streams[id].phase \in {"open", "gone"}
    <3>1. s \in StreamStates /\ s.phase = "open"
      BY <2>2, StreamOf DEF StreamStates
    <3>2. d.streams[id] = Settle(s)
      BY <2>1, <2>2 DEF Clients
    <3> HIDE DEF s
    <3> QED BY <3>1, <3>2, SettlePhase
  <2>4. \A i \in StreamIds : i # id => d.streams[i] = c.streams[i]
    BY <2>1 DEF Clients
  <2> HIDE DEF id, d, s
  <2>5. NothingNew(c, d)
    BY <2>1, <2>2, <2>3, <2>4, UsedStreamNothingNew
  <2> QED BY <2>5 DEF d
<1>2. CASE r.ret # "value"
  BY <1>2, AcceptStreamKeeps, CalmNothingNew DEF PyKeeps
<1> QED BY <1>1, <1>2

\* Reading takes data away, and leaves the room to write.
LEMMA ReadNothingNew ==
    ASSUME NEW c \in Clients, NEW id \in StreamIds, NEW r \in py_read(c, id)
    PROVE  NothingNew(c, r.c)
<1>1. CASE r.ret = "value"
  <2> DEFINE d == r.c
  <2>1. /\ d \in Clients /\ SameSession(c, d) /\ QueueKept(c, d) /\ IsConnected(c) /\ id \in Active(c)
        /\ c.streams[id].buf # 0 \/ c.streams[id].fin
        /\ d.credit = c.credit /\ d.dgroom = c.dgroom
    BY <1>1, ReadKeeps DEF PyKeeps
  <2>2. PICK t \in StreamStates :
          /\ t.phase = c.streams[id].phase /\ t.room = c.streams[id].room
          /\ t.wclosed = c.streams[id].wclosed
          /\ d.streams = [c.streams EXCEPT ![id] = Settle(t)]
    BY <1>1, ReadKeeps
  <2>3. d.streams[id] = Settle(t) /\ \A i \in StreamIds : i # id => d.streams[i] = c.streams[i]
    BY <2>2 DEF Clients
  <2>4. c.streams[id].phase \in {"pending", "open"} /\ CanRead(c, id)
    BY <2>1 DEF Active, CanRead
  <2> HIDE DEF d
  <2>5. d.streams[id].phase \in {t.phase, "gone"} /\ (d.streams[id].phase # "gone" => d.streams[id] = t)
    BY <2>3, SettlePhase
  <2>6. CanWriteTo(d, id) => CanWriteTo(c, id)
    BY <2>1, <2>2, <2>5 DEF CanWriteTo, Active, CanWrite
  <2>7. /\ c.streams[id].phase # "unused" /\ d.streams[id].phase # "unused"
        /\ d.streams[id].phase = "pending" => c.streams[id].phase = "pending"
    BY <2>2, <2>4, <2>5
  <2>8. \A i \in StreamIds : i # id => d.streams[i] = c.streams[i]
    BY <2>3
  <2>9. NothingNew(c, d)
    BY <2>1, <2>4, <2>6, <2>7, <2>8, UsedStreamNothingNew
  <2> QED BY <2>9 DEF d
<1>2. CASE r.ret # "value"
  BY <1>2, ReadKeeps, CalmNothingNew DEF PyKeeps
<1> QED BY <1>1, <1>2

-----------------------------------------------------------------------------
(* The packets that wait to be sent, and the connection that a refusal     *)
(* speaks of.                                                              *)

\* No CONNECTION_CLOSE waits.
NoClose(c) == \A i \in 1..Len(c.send_queue) : c.send_queue[i] # "close"

\* At most an ordinary packet was queued.
Sends(c, d) == d.send_queue = c.send_queue \/ d.send_queue = Append(c.send_queue, "packet")

\* An ordinary packet is not a CONNECTION_CLOSE.
LEMMA SendsNoClose ==
    ASSUME NEW c \in Clients, NEW d, Sends(c, d), NoClose(c)
    PROVE  NoClose(d)
<1>1. CASE d.send_queue = c.send_queue
  BY <1>1 DEF NoClose
<1>2. CASE d.send_queue = Append(c.send_queue, "packet")
  <2> DEFINE q == c.send_queue
             t == Append(q, "packet")
  <2>1. q \in Seq({"packet", "close"})
    BY DEF Clients
  <2>2. Len(t) = Len(q) + 1 /\ Len(q) \in Nat /\ t[Len(q) + 1] = "packet" /\ \A i \in 1..Len(q) : t[i] = q[i]
    BY <2>1
  <2>3. \A i \in 1..Len(q) : q[i] # "close"
    BY DEF NoClose
  <2> HIDE DEF t, q
  <2>4. ASSUME NEW i \in 1..Len(t) PROVE t[i] # "close"
    <3>1. i = Len(q) + 1 \/ i \in 1..Len(q)
      BY <2>2
    <3> QED BY <2>2, <2>3, <3>1
  <2> QED BY <1>2, <2>4 DEF NoClose, t, q
<1> QED BY <1>1, <1>2 DEF Sends

\* The error is not in the queue.
LEMMA ErrorsSendNothing ==
    ASSUME NEW c \in Clients, NEW e
    PROVE  /\ SetError(c, e).send_queue = c.send_queue
           /\ SetErrorIfEmpty(c, e).send_queue = c.send_queue
           /\ PopulateClosedErrorIfNeeded(c).send_queue = c.send_queue
           /\ ResetRuntimeError(c).send_queue = c.send_queue
<1>1. \A x : SetError(c, x).send_queue = c.send_queue
  BY DEF SetError, Clients
<1>2. \A x : SetErrorIfEmpty(c, x).send_queue = c.send_queue
  BY <1>1 DEF SetErrorIfEmpty
<1> QED BY <1>1, <1>2 DEF PopulateClosedErrorIfNeeded, ResetRuntimeError

\* A packet is queued behind the others.
LEMMA WritePacketQueue ==
    ASSUME NEW c \in Clients, NEW k
    PROVE  WritePacket(c, k).send_queue = Append(c.send_queue, k)
BY DEF WritePacket, Clients

\* QUICHE's choice to send.
LEMMA MaySendSends ==
    ASSUME NEW c \in Clients, NEW d \in MaySend(c)
    PROVE  Sends(c, d)
BY WritePacketQueue DEF MaySend, Sends

\* An update of a stream sends nothing.
LEMMA SetStreamSends ==
    ASSUME NEW c \in Clients, NEW id, NEW s
    PROVE  SetStream(c, id, s).send_queue = c.send_queue
BY DEF SetStream, Clients

\* EnsureConnected's refusal sends nothing.
LEMMA NotConnectedSends ==
    ASSUME NEW c \in Clients, NEW out \in NotConnected(c)
    PROVE  out.c.send_queue = c.send_queue /\ out.st = "CLOSED"
<1> DEFINE b == PopulateClosedErrorIfNeeded(c)
<1>1. b \in Clients /\ b.send_queue = c.send_queue
  BY PopulateFacts, ErrorsSendNothing
<1> HIDE DEF b
<1>2. out = Out(SetErrorIfEmpty(b, "not open"), "CLOSED", 0)
  BY DEF NotConnected, b
<1> QED BY <1>1, <1>2, ErrorsSendNothing DEF Out

\* CLOSED means that there is no connection and WOULD_BLOCK that there is one.
\* No call of a task queues a CONNECTION_CLOSE.
Reports(c, out) ==
    /\ Sends(c, out.c) /\ out.st \in {"OK", "WOULD_BLOCK", "NOT_FOUND", "CLOSED", "TOO_BIG", "ERROR"}
    /\ out.st = "CLOSED" => ~IsConnected(c)
    /\ out.st = "WOULD_BLOCK" => IsConnected(c)

\* The same, seen from Python.
PyReports(c, r) ==
    /\ Sends(c, r.c)
    /\ r.ret = "ConnectionError" => ~IsConnected(c)
    /\ r.ret = "None" => IsConnected(c)

\* Returned translates the status.
LEMMA ReturnedReports ==
    ASSUME NEW c \in Clients, NEW out, Reports(ResetRuntimeError(c), out)
    PROVE  PyReports(c, Returned(out))
<1> DEFINE b == ResetRuntimeError(c)
<1>1. b.send_queue = c.send_queue /\ IsConnected(b) = IsConnected(c)
  BY ErrorsSendNothing, ResetFacts, CalmCan
<1> HIDE DEF b
<1>2. Reports(b, out)
  BY DEF b
<1>3. /\ Returned(out).c = out.c
      /\ Returned(out).ret = "ConnectionError" => out.st = "CLOSED"
      /\ Returned(out).ret = "None" => out.st = "WOULD_BLOCK"
  BY <1>2 DEF Reports, Returned, Exception
<1> QED BY <1>1, <1>2, <1>3 DEF Reports, PyReports, Sends

\* A stream method reports what RequireStream says, or runs its body.
LEMMA OnStreamReports ==
    ASSUME NEW c \in Clients, NEW id, NEW body, NEW out \in OnStream(c, id, body),
           \A o \in body : Sends(c, o.c) /\ o.st \in {"OK", "WOULD_BLOCK"}
    PROVE  Reports(c, out)
<1>1. CASE ~IsConnected(c)
  <2>1. out \in NotConnected(c)
    BY <1>1 DEF OnStream
  <2> QED BY <1>1, <2>1, NotConnectedSends DEF Reports, Sends
<1>2. CASE IsConnected(c) /\ id \notin Active(c)
  <2>1. out = Out(SetError(c, "stream missing"), "NOT_FOUND", 0)
    BY <1>2 DEF OnStream
  <2>2. out.c.send_queue = c.send_queue /\ out.st = "NOT_FOUND"
    BY <2>1, ErrorsSendNothing DEF Out
  <2> QED BY <2>2 DEF Reports, Sends
<1>3. CASE IsConnected(c) /\ id \in Active(c)
  BY <1>3 DEF OnStream, Reports
<1> QED BY <1>1, <1>2, <1>3

\* A stream operation that succeeds.
LEMMA StreamUpdateSends ==
    ASSUME NEW c \in Clients, NEW id \in StreamIds, NEW s \in StreamStates,
           NEW d \in MaySend(SetStream(c, id, s)), NEW val
    PROVE  Sends(c, Out(d, "OK", val).c) /\ Out(d, "OK", val).st = "OK"
<1> DEFINE g == SetStream(c, id, s)
<1>1. g \in Clients
  BY SetStreamFacts
<1>2. g.send_queue = c.send_queue
  BY SetStreamSends
<1> HIDE DEF g
<1>3. Sends(g, d)
  BY <1>1, MaySendSends DEF g
<1> QED BY <1>2, <1>3 DEF Sends, Out

\* A call that cannot proceed yet.
LEMMA BlockedSends ==
    ASSUME NEW c
    PROVE  Sends(c, Out(c, "WOULD_BLOCK", 0).c) /\ Out(c, "WOULD_BLOCK", 0).st = "WOULD_BLOCK"
BY DEF Out, Sends

\* send_datagram.
LEMMA SendDatagramReports ==
    ASSUME NEW c \in Clients, NEW oversized \in BOOLEAN, NEW r \in py_send_datagram(c, oversized)
    PROVE  PyReports(c, r)
<1> DEFINE b == ResetRuntimeError(c)
           g == [b EXCEPT !.dgroom = @ - 1]
<1>1. PICK out \in SendDatagram(c, oversized) : r = Returned(out)
  BY DEF py_send_datagram
<1>2. b \in Clients
  BY ResetFacts
<1>3. \/ ~IsConnected(b) /\ out \in NotConnected(b)
      \/ IsConnected(b) /\ out = Out(SetError(b, "too big"), "TOO_BIG", 0)
      \/ IsConnected(b) /\ out = Out(b, "WOULD_BLOCK", 0)
      \/ IsConnected(b) /\ b.dgroom # 0 /\ \E d \in MaySend(g) : out = Out(d, "OK", 0)
      \/ out = Out(SetError(b, "datagram failed"), "ERROR", 0)
  BY <1>1 DEF SendDatagram
<1> HIDE DEF b
<1>4. Reports(b, out)
  <2>1. CASE ~IsConnected(b) /\ out \in NotConnected(b)
    BY <1>2, <2>1, NotConnectedSends DEF Reports, Sends
  <2>2. CASE out = Out(SetError(b, "too big"), "TOO_BIG", 0)
    <3>1. out.c.send_queue = b.send_queue /\ out.st = "TOO_BIG"
      BY <1>2, <2>2, ErrorsSendNothing DEF Out
    <3> QED BY <3>1 DEF Reports, Sends
  <2>3. CASE IsConnected(b) /\ out = Out(b, "WOULD_BLOCK", 0)
    BY <2>3, BlockedSends DEF Reports
  <2>4. CASE b.dgroom # 0 /\ \E d \in MaySend(g) : out = Out(d, "OK", 0)
    <3>1. PICK d \in MaySend(g) : out = Out(d, "OK", 0)
      BY <2>4
    <3>2. b.dgroom \in 0..MaxRoom
      BY <1>2 DEF Clients
    <3>3. b.dgroom - 1 \in 0..MaxRoom
      BY <2>4, <3>2, BoundsAssumption
    <3>4. g \in Clients /\ g.send_queue = b.send_queue
      BY <1>2, <3>3 DEF Clients
    <3> HIDE DEF g
    <3>5. Sends(g, d)
      BY <3>1, <3>4, MaySendSends
    <3> QED BY <3>1, <3>4, <3>5 DEF Reports, Sends, Out
  <2>5. CASE out = Out(SetError(b, "datagram failed"), "ERROR", 0)
    <3>1. out.c.send_queue = b.send_queue /\ out.st = "ERROR"
      BY <1>2, <2>5, ErrorsSendNothing DEF Out
    <3> QED BY <3>1 DEF Reports, Sends
  <2> QED BY <1>3, <2>1, <2>2, <2>3, <2>4, <2>5
<1> QED BY <1>1, <1>4, ReturnedReports DEF b

\* open_*_stream.
LEMMA OpenStreamReports ==
    ASSUME NEW c \in Clients, NEW uni \in BOOLEAN, NEW r \in py_open_stream(c, uni)
    PROVE  PyReports(c, r)
<1> DEFINE b == ResetRuntimeError(c)
           g(id) == SetStream(b, id, [b.streams[id] EXCEPT !.phase = "open"])
<1>1. PICK out \in OpenStream(c, uni) : r = Returned(out)
  BY DEF py_open_stream
<1>2. b \in Clients
  BY ResetFacts
<1>3. \/ ~IsConnected(b) /\ out \in NotConnected(b)
      \/ IsConnected(b) /\ \E d \in MaySend(b) : out = Out(d, "WOULD_BLOCK", 0)
      \/ \E id \in NextOutgoing(b, uni) : out = Out([g(id) EXCEPT !.credit[uni] = @ - 1], "OK", id)
  BY <1>1 DEF OpenStream
<1> HIDE DEF b
<1>4. Reports(b, out)
  <2>1. CASE ~IsConnected(b) /\ out \in NotConnected(b)
    BY <1>2, <2>1, NotConnectedSends DEF Reports, Sends
  <2>2. CASE IsConnected(b) /\ \E d \in MaySend(b) : out = Out(d, "WOULD_BLOCK", 0)
    <3>1. PICK d \in MaySend(b) : out = Out(d, "WOULD_BLOCK", 0)
      BY <2>2
    <3>2. Sends(b, d)
      BY <1>2, <3>1, MaySendSends
    <3> QED BY <2>2, <3>1, <3>2 DEF Reports, Out
  <2>3. CASE \E id \in NextOutgoing(b, uni) : out = Out([g(id) EXCEPT !.credit[uni] = @ - 1], "OK", id)
    <3>1. PICK id \in NextOutgoing(b, uni) : out = Out([g(id) EXCEPT !.credit[uni] = @ - 1], "OK", id)
      BY <2>3
    <3>2. id \in StreamIds
      BY DEF NextOutgoing
    <3>3. [b.streams[id] EXCEPT !.phase = "open"] \in StreamStates
      BY <1>2, <3>2, StreamOf DEF StreamStates
    <3>4. g(id) \in Clients
      BY <1>2, <3>2, <3>3, SetStreamFacts
    <3>5. g(id).send_queue = b.send_queue
      BY <1>2, SetStreamSends
    <3> HIDE DEF g
    <3>6. [g(id) EXCEPT !.credit[uni] = @ - 1].send_queue = g(id).send_queue
      BY <3>4 DEF Clients
    <3> QED BY <3>1, <3>5, <3>6 DEF Reports, Sends, Out
  <2> QED BY <1>3, <2>1, <2>2, <2>3
<1> QED BY <1>1, <1>4, ReturnedReports DEF b

\* accept_*_stream.
LEMMA AcceptStreamReports ==
    ASSUME NEW c \in Clients, NEW uni \in BOOLEAN, NEW r \in py_accept_stream(c, uni)
    PROVE  PyReports(c, r)
<1> DEFINE b == ResetRuntimeError(c)
           g(id) == SetStream(b, id, [b.streams[id] EXCEPT !.phase = "open"])
<1>1. PICK out \in AcceptStream(c, uni) : r = Returned(out)
  BY DEF py_accept_stream
<1>2. b \in Clients
  BY ResetFacts
<1>3. \/ ~IsConnected(b) /\ out \in NotConnected(b)
      \/ IsConnected(b) /\ out = Out(b, "WOULD_BLOCK", 0)
      \/ \E id \in Incoming(b, uni) : out = Out(g(id), "OK", id)
  BY <1>1 DEF AcceptStream
<1>4. \A id : g(id).send_queue = b.send_queue
  BY <1>2, SetStreamSends
<1> HIDE DEF b, g
<1>5. Reports(b, out)
  <2>1. CASE ~IsConnected(b) /\ out \in NotConnected(b)
    BY <1>2, <2>1, NotConnectedSends DEF Reports, Sends
  <2>2. CASE IsConnected(b) /\ out = Out(b, "WOULD_BLOCK", 0)
    BY <2>2, BlockedSends DEF Reports
  <2>3. CASE \E id \in Incoming(b, uni) : out = Out(g(id), "OK", id)
    BY <1>4, <2>3 DEF Reports, Sends, Out
  <2> QED BY <1>3, <2>1, <2>2, <2>3
<1> QED BY <1>1, <1>5, ReturnedReports DEF b

\* read().
LEMMA ReadReports ==
    ASSUME NEW c \in Clients, NEW id \in StreamIds, NEW r \in py_read(c, id)
    PROVE  PyReports(c, r)
<1> DEFINE b == ResetRuntimeError(c)
           s == b.streams[id]
           lens == IF s.buf = 0 THEN {0} ELSE 1..s.buf
           body == IF s.buf = 0 /\ ~s.fin THEN {Out(b, "WOULD_BLOCK", 0)}
                   ELSE UNION {{Out(d, "OK", n) : d \in MaySend(SetStream(b, id, Consume(s, n)))} :
                               n \in lens}
<1>1. PICK out \in OnStream(b, id, body) : r = Returned(out)
  BY DEF py_read, ReadStream
<1>2. b \in Clients
  BY ResetFacts
<1>3. s \in StreamStates
  BY <1>2, StreamOf
<1> HIDE DEF b, s
<1>4. ASSUME NEW n \in lens PROVE Consume(s, n) \in StreamStates
  <2>1. s.buf \in 0..MaxChunks
    BY <1>3 DEF StreamStates
  <2>2. s.buf - n \in 0..MaxChunks /\ 0 \in 0..MaxChunks
    BY <1>4, <2>1, BoundsAssumption
  <2> QED BY <1>3, <2>2 DEF Consume, StreamStates
<1> HIDE DEF lens
<1>5. ASSUME NEW o \in body PROVE Sends(b, o.c) /\ o.st \in {"OK", "WOULD_BLOCK"}
  <2>1. CASE o = Out(b, "WOULD_BLOCK", 0)
    BY <2>1, BlockedSends
  <2>2. CASE \E n \in lens : \E d \in MaySend(SetStream(b, id, Consume(s, n))) : o = Out(d, "OK", n)
    BY <1>2, <1>4, <2>2, StreamUpdateSends
  <2> QED BY <1>5, <2>1, <2>2
<1> HIDE DEF body
<1>6. Reports(b, out)
  BY <1>1, <1>2, <1>5, OnStreamReports
<1> QED BY <1>1, <1>6, ReturnedReports DEF b

\* write().
LEMMA WriteReports ==
    ASSUME NEW c \in Clients, NEW id \in StreamIds, NEW fin \in BOOLEAN, NEW r \in py_write(c, id, fin)
    PROVE  PyReports(c, r)
<1> DEFINE b == ResetRuntimeError(c)
           s == b.streams[id]
           t == [s EXCEPT !.room = @ - 1, !.wclosed = fin]
           body == IF ~CanWrite(s) THEN {Out(b, "WOULD_BLOCK", 0)}
                   ELSE {Out(d, "OK", 0) : d \in MaySend(SetStream(b, id, t))}
<1>1. PICK out \in OnStream(b, id, body) : r = Returned(out)
  BY DEF py_write, WriteStream
<1>2. b \in Clients
  BY ResetFacts
<1>3. s \in StreamStates
  BY <1>2, StreamOf
<1> HIDE DEF b, s
<1>4. CanWrite(s) => t \in StreamStates
  <2>1. s.room \in 0..MaxRoom
    BY <1>3 DEF StreamStates
  <2>2. CanWrite(s) => s.room - 1 \in 0..MaxRoom
    BY <2>1, BoundsAssumption DEF CanWrite
  <2> QED BY <1>3, <2>2 DEF StreamStates
<1> HIDE DEF t
<1>5. ASSUME NEW o \in body PROVE Sends(b, o.c) /\ o.st \in {"OK", "WOULD_BLOCK"}
  <2>1. CASE o = Out(b, "WOULD_BLOCK", 0)
    BY <2>1, BlockedSends
  <2>2. CASE CanWrite(s) /\ \E d \in MaySend(SetStream(b, id, t)) : o = Out(d, "OK", 0)
    BY <1>2, <1>4, <2>2, StreamUpdateSends
  <2> QED BY <1>5, <2>1, <2>2
<1> HIDE DEF body
<1>6. Reports(b, out)
  BY <1>1, <1>2, <1>5, OnStreamReports
<1> QED BY <1>1, <1>6, ReturnedReports DEF b

\* reset() and stop_sending().
LEMMA ControlReports ==
    ASSUME NEW c \in Clients, NEW id \in StreamIds, NEW r \in py_reset(c, id) \cup py_stop_sending(c, id)
    PROVE  PyReports(c, r)
<1> DEFINE b == ResetRuntimeError(c)
           S == {[b.streams[id] EXCEPT !.wclosed = TRUE],
                 [b.streams[id] EXCEPT !.rclosed = TRUE, !.buf = 0, !.fin = FALSE]}
           body(s) == {Out(d, "OK", 0) : d \in MaySend(SetStream(b, id, s))}
<1>1. PICK s \in S : \E out \in OnStream(b, id, body(s)) : r = Returned(out)
  BY DEF py_reset, ResetStream, py_stop_sending, StopSending
<1>2. b \in Clients
  BY ResetFacts
<1>3. s \in StreamStates
  <2>1. 0 \in 0..MaxChunks /\ b.streams[id] \in StreamStates
    BY <1>2, BoundsAssumption, StreamOf
  <2> QED BY <1>1, <2>1 DEF StreamStates
<1> HIDE DEF b, S
<1>4. PICK out \in OnStream(b, id, body(s)) : r = Returned(out)
  BY <1>1
<1>5. \A o \in body(s) : Sends(b, o.c) /\ o.st \in {"OK", "WOULD_BLOCK"}
  BY <1>2, <1>3, StreamUpdateSends
<1> HIDE DEF body
<1>6. Reports(b, out)
  BY <1>2, <1>4, <1>5, OnStreamReports
<1> QED BY <1>4, <1>6, ReturnedReports DEF b

\* receive_datagram sends nothing.
LEMMA ReceiveDatagramSends ==
    ASSUME NEW c \in Clients, NEW r \in py_receive_datagram(c)
    PROVE  Sends(c, r.c)
<1>1. \A d \in Clients : ResetRuntimeError(d) \in Clients /\ ResetRuntimeError(d).send_queue = d.send_queue
  BY ResetFacts, ErrorsSendNothing
<1>2. \A d \in Clients : PeekDatagramSize(d).c = ResetRuntimeError(d)
  BY DEF PeekDatagramSize, Out
<1>3. ASSUME NEW d \in Clients, NEW n PROVE ReceiveDatagram(d, n).c.send_queue = d.send_queue
  <2> DEFINE b == ResetRuntimeError(d)
  <2>1. b \in Clients /\ b.send_queue = d.send_queue
    BY <1>1
  <2> HIDE DEF b
  <2>2. ReceiveDatagram(d, n).c \in {b, SetError(b, "too big"), [b EXCEPT !.received_datagrams = Tail(@)]}
    BY DEF ReceiveDatagram, Out, b
  <2>3. [b EXCEPT !.received_datagrams = Tail(@)].send_queue = b.send_queue
    BY <2>1 DEF Clients
  <2>4. SetError(b, "too big").send_queue = b.send_queue
    BY <2>1, ErrorsSendNothing
  <2> QED BY <2>1, <2>2, <2>3, <2>4
<1> DEFINE peek == PeekDatagramSize(c)
<1>4. peek.c \in Clients /\ peek.c.send_queue = c.send_queue
  BY <1>1, <1>2
<1>5. r.c = peek.c \/ r.c = ReceiveDatagram(peek.c, peek.val).c
  BY DEF py_receive_datagram, Returned
<1> HIDE DEF peek
<1> QED BY <1>3, <1>4, <1>5 DEF Sends

\* AfterQuiche queues nothing.
LEMMA AfterQuicheSends ==
    ASSUME NEW d \in Clients
    PROVE  AfterQuiche(d).c.send_queue = d.send_queue
<1> DEFINE f == PopulateClosedErrorIfNeeded(d)
<1>1. f \in Clients /\ f.send_queue = d.send_queue
  BY PopulateFacts, ErrorsSendNothing
<1> HIDE DEF f
<1>2. AfterQuiche(d).c \in {d, SetErrorIfEmpty(f, "connection closed")}
  BY DEF AfterQuiche, Out, f
<1>3. SetErrorIfEmpty(f, "connection closed").send_queue = f.send_queue
  BY <1>1, ErrorsSendNothing
<1> QED BY <1>1, <1>2, <1>3

\* receive_packet queues nothing on a connection that was not started, and
\* only then does it raise.
LEMMA ReceiveNotStarted ==
    ASSUME NEW c \in Clients, NEW empty \in BOOLEAN, NEW r \in py_receive_packet(c, empty),
           c.conn = "none" \/ r.ret # "value"
    PROVE  r.c.send_queue = c.send_queue
<1>1. PICK out \in ReceivePacket(c, empty) : r = ClosedIsSilent(out)
  BY DEF py_receive_packet
<1> DEFINE b == ResetRuntimeError(c)
<1>2. b \in Clients /\ b.send_queue = c.send_queue
  BY ResetFacts, ErrorsSendNothing
<1>3. SetError(b, "not started").send_queue = b.send_queue
  BY <1>2, ErrorsSendNothing
<1>4. r.c = out.c
  BY <1>1 DEF ClosedIsSilent, Returned
<1> DEFINE e == SetError(b, "not started")
<1>5. \/ out = Out(b, "OK", 0) \/ out = Out(e, "ERROR", 0)
      \/ c.conn # "none" /\ \E d \in ProcessUdpPacket(b) : out = AfterQuiche(d)
  BY <1>1 DEF ReceivePacket
<1> HIDE DEF b, e
<1>6. ASSUME NEW d, out = AfterQuiche(d) PROVE r.ret = "value"
  <2>1. \E f, st : st \in {"OK", "CLOSED"} /\ out = [c |-> f, st |-> st, val |-> 0]
    BY <1>6 DEF AfterQuiche, Out
  <2>2. PICK f, st : st \in {"OK", "CLOSED"} /\ out = [c |-> f, st |-> st, val |-> 0]
    BY <2>1
  <2> QED BY <1>1, <2>2 DEF ClosedIsSilent, Returned
<1>7. out = Out(b, "OK", 0) => out.c = b
  BY DEF Out
<1>8. out = Out(e, "ERROR", 0) => out.c = e
  BY DEF Out
<1> QED BY <1>2, <1>3, <1>4, <1>5, <1>6, <1>7, <1>8 DEF e

\* Nor does handle_timeout queue anything there.
LEMMA TimeoutNotStarted ==
    ASSUME NEW c \in Clients, NEW r \in py_handle_timeout(c), c.conn = "none"
    PROVE  r.c.send_queue = c.send_queue
<1> DEFINE b == ResetRuntimeError(c)
<1>1. PICK d \in ProcessAlarms(b) : r = ClosedIsSilent(AfterQuiche(d))
  BY DEF py_handle_timeout, HandleTimeout
<1>2. b \in Clients /\ b.conn = "none" /\ b.send_queue = c.send_queue
  BY ResetFacts, ErrorsSendNothing
<1> HIDE DEF b
<1>3. d = b
  BY <1>1, <1>2 DEF ProcessAlarms, HasAlarm
<1>4. r.c = AfterQuiche(d).c
  BY <1>1 DEF ClosedIsSilent, Returned
<1> QED BY <1>2, <1>3, <1>4, AfterQuicheSends

-----------------------------------------------------------------------------
(* The ledger as sets.                                                     *)

\* The members of a sequence.
Members(s) == {s[i] : i \in 1..Len(s)}

\* What was delivered and what is queued are numbered in the order of arrival.
LEMMA LedgerNumbers ==
    ASSUME NEW g \in Seq(1..MaxDatagrams), NEW q \in Seq(1..MaxDatagrams), NEW n \in Nat,
           g \o q = Numbers(n)
    PROVE  /\ n = Len(g) + Len(q)
           /\ \A i \in 1..Len(g) : g[i] = i
           /\ \A i \in 1..Len(q) : q[i] = Len(g) + i
<1>1. /\ Len(g) \in Nat /\ Len(q) \in Nat /\ Len(g \o q) = Len(g) + Len(q)
      /\ \A i \in 1..Len(g) : (g \o q)[i] = g[i]
      /\ \A i \in 1..Len(q) : (g \o q)[Len(g) + i] = q[i]
  OBVIOUS
<1>2. Len(Numbers(n)) = n /\ \A i \in 1..n : Numbers(n)[i] = i
  BY DEF Numbers
<1>3. n = Len(g) + Len(q)
  BY <1>1, <1>2
<1>4. \A i \in 1..Len(g) : i \in 1..n
  BY <1>1, <1>3
<1>5. \A i \in 1..Len(q) : Len(g) + i \in 1..n
  BY <1>1, <1>3
<1> QED BY <1>1, <1>2, <1>3, <1>4, <1>5

\* The next datagram to arrive is neither queued nor delivered.
LEMMA NextIsNew ==
    ASSUME NEW g \in Seq(1..MaxDatagrams), NEW q \in Seq(1..MaxDatagrams), NEW n \in Nat,
           g \o q = Numbers(n)
    PROVE  n + 1 \notin Members(q) \cup Members(g)
<1>0. Len(g) \in Nat /\ Len(q) \in Nat
  OBVIOUS
<1>1. /\ n = Len(g) + Len(q)
      /\ \A i \in 1..Len(g) : g[i] = i
      /\ \A i \in 1..Len(q) : q[i] = Len(g) + i
  BY LedgerNumbers, Zenon
<1>2. \A i \in 1..Len(g) : g[i] # n + 1
  BY <1>0, <1>1
<1>3. \A i \in 1..Len(q) : q[i] # n + 1
  BY <1>0, <1>1
<1> QED BY <1>2, <1>3 DEF Members

\* Taking the head takes it from the set.
LEMMA HeadLeaves ==
    ASSUME NEW g \in Seq(1..MaxDatagrams), NEW q \in Seq(1..MaxDatagrams), NEW n \in Nat,
           g \o q = Numbers(n), q # <<>>
    PROVE  Head(q) \in Members(q) /\ Members(Tail(q)) = Members(q) \ {Head(q)}
<1>0. \A i \in 1..Len(q) : q[i] = Len(g) + i
  BY LedgerNumbers, Zenon
<1>1. /\ Len(g) \in Nat /\ Len(q) \in Nat /\ Len(q) > 0
      /\ \A i \in 1..Len(q) : q[i] = Len(g) + i
  BY <1>0
<1>2. /\ Head(q) = q[1] /\ Len(Tail(q)) = Len(q) - 1
      /\ \A i \in 1..Len(q) - 1 : Tail(q)[i] = q[i + 1]
  BY <1>1
<1>3. 1 \in 1..Len(q)
  BY <1>1
<1>4. ASSUME NEW v \in Members(Tail(q)) PROVE v \in Members(q) /\ v # Head(q)
  <2>1. PICK i \in 1..Len(q) - 1 : v = q[i + 1]
    BY <1>2 DEF Members
  <2>2. i + 1 \in 1..Len(q) /\ i + 1 # 1
    BY <1>1
  <2>3. q[i + 1] = Len(g) + (i + 1) /\ q[1] = Len(g) + 1
    BY <1>1, <1>3, <2>2
  <2>4. q[i + 1] # q[1]
    BY <1>1, <2>2, <2>3
  <2> QED BY <1>2, <2>1, <2>2, <2>4 DEF Members
<1>5. ASSUME NEW v \in Members(q), v # Head(q) PROVE v \in Members(Tail(q))
  <2>1. PICK i \in 1..Len(q) : v = q[i]
    BY DEF Members
  <2>2. i # 1
    BY <1>2, <1>5, <2>1
  <2>3. i - 1 \in 1..Len(q) - 1 /\ (i - 1) + 1 = i
    BY <1>1, <2>2
  <2>4. Tail(q)[i - 1] = v
    BY <1>2, <2>1, <2>3
  <2> QED BY <1>2, <2>3, <2>4 DEF Members
<1>6. Head(q) \in Members(q)
  BY <1>2, <1>3 DEF Members
<1> QED BY <1>4, <1>5, <1>6

\* An element more in the sequence is an element more in the set.
LEMMA AppendAdds ==
    ASSUME NEW S, NEW s \in Seq(S), NEW v
    PROVE  Members(Append(s, v)) = Members(s) \cup {v}
<1> DEFINE t == Append(s, v)
<1>1. Len(t) = Len(s) + 1 /\ Len(s) \in Nat /\ t[Len(s) + 1] = v /\ \A i \in 1..Len(s) : t[i] = s[i]
  OBVIOUS
<1> HIDE DEF t
<1>2. ASSUME NEW w \in Members(t) PROVE w \in Members(s) \cup {v}
  <2>1. PICK i \in 1..Len(t) : w = t[i]
    BY DEF Members
  <2>2. i = Len(s) + 1 \/ i \in 1..Len(s)
    BY <1>1
  <2> QED BY <1>1, <2>1, <2>2 DEF Members
<1>3. ASSUME NEW w \in Members(s) PROVE w \in Members(t)
  <2>1. PICK i \in 1..Len(s) : w = s[i]
    BY DEF Members
  <2>2. i \in 1..Len(t) /\ t[i] = w
    BY <1>1, <2>1
  <2> QED BY <2>2 DEF Members
<1>4. Len(s) + 1 \in 1..Len(t)
  BY <1>1
<1>5. v \in Members(t)
  BY <1>1, <1>4 DEF Members
<1> QED BY <1>2, <1>3, <1>5 DEF t
=============================================================================
