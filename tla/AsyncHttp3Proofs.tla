-------------------------- MODULE AsyncHttp3Proofs --------------------------
(***************************************************************************)
(* Proofs about Http3Glue and AsyncHttp3, for any set of tasks, any set of *)
(* request streams and all bounds.                                         *)
(***************************************************************************)
EXTENDS AsyncHttp3, TLAPS

\* Nothing was ever asked of the server.
Blank(c) ==
    /\ c.completed = {} /\ c.responses = {}
    /\ \A id \in StreamIds : c.streams[id].phase = "unused"

\* A stream is gone when the listener was told so, and no stream outlives its
\* connection.
InStep(c) ==
    /\ \A id \in StreamIds : id \in c.completed <=> c.streams[id].phase = "gone"
    /\ c.conn # "open" => \A id \in StreamIds : c.streams[id].phase \notin {"created", "sent"}

\* d is the client c but for its error and its queue of packets.
Calm(c, d) ==
    /\ d.conn = c.conn /\ d.handshaken = c.handshaken /\ d.credit = c.credit
    /\ d.streams = c.streams /\ d.responses = c.responses /\ d.completed = c.completed

\* d has the responses of c, and one more for every stream of c that was
\* completed meanwhile.
Answered(c, d) ==
    \E new \in SUBSET StreamIds :
        /\ new \cap c.completed = {}
        /\ d.responses = c.responses \cup new /\ d.completed = c.completed \cup new

\* What QUICHE may do to a client in one call.
Evolves(c, d) ==
    /\ d \in Http3Clients /\ InStep(d) /\ Answered(c, d)
    /\ c.conn = "none" <=> d.conn = "none"
    /\ c.conn = "failed" <=> d.conn = "failed"

\* No CONNECTION_CLOSE waits to be sent.
NoClose(c) == \A i \in 1..Len(c.send_queue) : c.send_queue[i] # "close"

-----------------------------------------------------------------------------
(* Facts about the methods of the sans-I/O client.                         *)

\* SetError touches nothing but last_error.
LEMMA SetErrorFacts ==
    ASSUME NEW c \in Http3Clients, NEW e \in Errors
    PROVE  /\ SetError(c, e) \in Http3Clients /\ SetError(c, e).last_error = e
           /\ SetError(c, e).send_queue = c.send_queue /\ Calm(c, SetError(c, e))
BY DEF SetError, Http3Clients, Calm

\* ResetRuntimeError leaves a client without an error.
LEMMA ResetFacts ==
    ASSUME NEW c \in Http3Clients
    PROVE  /\ ResetRuntimeError(c) \in Http3Clients /\ ResetRuntimeError(c).last_error = NoError
           /\ ResetRuntimeError(c).send_queue = c.send_queue /\ Calm(c, ResetRuntimeError(c))
BY SetErrorFacts DEF ResetRuntimeError, Errors, NoError

\* SetErrorIfEmpty leaves an error behind.
LEMMA SetErrorIfEmptyFacts ==
    ASSUME NEW c \in Http3Clients, NEW e \in Errors, e # NoError
    PROVE  /\ SetErrorIfEmpty(c, e) \in Http3Clients /\ SetErrorIfEmpty(c, e).last_error # NoError
           /\ SetErrorIfEmpty(c, e).send_queue = c.send_queue /\ Calm(c, SetErrorIfEmpty(c, e))
BY SetErrorFacts DEF SetErrorIfEmpty, Calm

\* What is calm composes, and keeps a client in step.
LEMMA CalmTransitive ==
    ASSUME NEW b, NEW c, NEW d, Calm(b, c), Calm(c, d)
    PROVE  Calm(b, d)
BY DEF Calm

\* A calm change is one QUICHE may make.
LEMMA CalmEvolves ==
    ASSUME NEW c \in Http3Clients, NEW d \in Http3Clients, InStep(c), Calm(c, d)
    PROVE  Evolves(c, d)
<1>1. Answered(c, d)
  <2>1. {} \cap c.completed = {} /\ d.responses = c.responses \cup {} /\ d.completed = c.completed \cup {}
    BY DEF Calm
  <2> QED BY <2>1 DEF Answered
<1>2. InStep(d)
  BY DEF InStep, Calm
<1> QED BY <1>1, <1>2 DEF Evolves, Calm

\* What QUICHE does in two goes it may do in one.
LEMMA EvolvesTransitive ==
    ASSUME NEW b, NEW c, NEW d, Evolves(b, c), Evolves(c, d)
    PROVE  Evolves(b, d)
<1>1. PICK m \in SUBSET StreamIds :
        /\ m \cap b.completed = {}
        /\ c.responses = b.responses \cup m /\ c.completed = b.completed \cup m
  BY DEF Evolves, Answered
<1>2. PICK n \in SUBSET StreamIds :
        /\ n \cap c.completed = {}
        /\ d.responses = c.responses \cup n /\ d.completed = c.completed \cup n
  BY DEF Evolves, Answered
<1>3. Answered(b, d)
  <2>1. /\ (m \cup n) \in SUBSET StreamIds /\ (m \cup n) \cap b.completed = {}
        /\ d.responses = b.responses \cup (m \cup n) /\ d.completed = b.completed \cup (m \cup n)
    BY <1>1, <1>2
  <2> QED BY <2>1 DEF Answered
<1> QED BY <1>3 DEF Evolves

\* Queueing a packet touches nothing but the send queue.
LEMMA WritePacketFacts ==
    ASSUME NEW c \in Http3Clients, NEW k \in {"packet", "close"}
    PROVE  /\ WritePacket(c, k) \in Http3Clients /\ Calm(c, WritePacket(c, k))
           /\ WritePacket(c, k).last_error = c.last_error
<1> DEFINE q == Append(c.send_queue, k)
<1>1. q \in Seq({"packet", "close"})
  BY DEF Http3Clients
<1> HIDE DEF q
<1>2. /\ [c EXCEPT !.send_queue = q] \in Http3Clients /\ Calm(c, [c EXCEPT !.send_queue = q])
      /\ [c EXCEPT !.send_queue = q].last_error = c.last_error
  BY <1>1 DEF Http3Clients, Calm
<1> QED BY <1>2 DEF WritePacket, q

\* A call that may send does no more than that.
LEMMA MaySendFacts ==
    ASSUME NEW c \in Http3Clients, NEW d \in MaySend(c)
    PROVE  /\ d \in Http3Clients /\ Calm(c, d) /\ d.last_error = c.last_error
           /\ NoClose(c) => NoClose(d)
<1>1. d = c \/ d = WritePacket(c, "packet")
  BY DEF MaySend
<1>2. NoClose(c) => NoClose(WritePacket(c, "packet"))
  <2> SUFFICES ASSUME NoClose(c) PROVE NoClose(WritePacket(c, "packet"))
    OBVIOUS
  <2> DEFINE q == c.send_queue
             k == Append(q, "packet")
  <2>1. q \in Seq({"packet", "close"}) /\ \A i \in 1..Len(q) : q[i] # "close"
    BY DEF Http3Clients, NoClose
  <2> HIDE DEF q
  <2>2. \A i \in 1..Len(k) : k[i] # "close"
    BY <2>1
  <2>3. WritePacket(c, "packet").send_queue = k
    BY DEF WritePacket, Http3Clients, q
  <2> HIDE DEF k
  <2> QED BY <2>2, <2>3 DEF NoClose
<1> QED BY <1>1, <1>2, WritePacketFacts DEF Calm

\* OnCompleteResponse files a response for streams that had none.
LEMMA OnCompleteResponseFacts ==
    ASSUME NEW c \in Http3Clients, NEW ids \in SUBSET StreamIds,
           \A id \in StreamIds : id \in c.completed <=> c.streams[id].phase = "gone",
           \A id \in ids : c.streams[id].phase # "gone"
    PROVE  LET d == OnCompleteResponse(c, ids)
           IN /\ d \in Http3Clients /\ Answered(c, d) /\ d.conn = c.conn /\ d.last_error = c.last_error
              /\ \A id \in StreamIds : id \in d.completed <=> d.streams[id].phase = "gone"
              /\ \A id \in StreamIds : id \notin ids => d.streams[id] = c.streams[id]
<1> DEFINE gone == [phase |-> "gone", rclosed |-> TRUE, wclosed |-> TRUE]
           ss == [id \in StreamIds |-> IF id \in ids THEN gone ELSE c.streams[id]]
           d == OnCompleteResponse(c, ids)
<1>1. gone \in Streams /\ gone.phase = "gone"
  BY DEF Streams
<1> HIDE DEF gone
<1>2. ss \in [StreamIds -> Streams]
  BY <1>1 DEF Http3Clients
<1>3. \A id \in StreamIds : ss[id] = IF id \in ids THEN gone ELSE c.streams[id]
  OBVIOUS
<1>4. d = [c EXCEPT !.responses = c.responses \cup ids, !.completed = c.completed \cup ids, !.streams = ss]
  BY DEF OnCompleteResponse, gone
<1> HIDE DEF d, ss
<1>5. /\ d \in Http3Clients /\ d.conn = c.conn /\ d.last_error = c.last_error /\ d.streams = ss
      /\ d.responses = c.responses \cup ids /\ d.completed = c.completed \cup ids
  BY <1>2, <1>4 DEF Http3Clients
<1>6. ids \cap c.completed = {}
  OBVIOUS
<1>7. Answered(c, d)
  BY <1>5, <1>6 DEF Answered
<1>8. \A id \in StreamIds : id \in d.completed <=> d.streams[id].phase = "gone"
  BY <1>1, <1>3, <1>5
<1>9. \A id \in StreamIds : id \notin ids => d.streams[id] = c.streams[id]
  BY <1>3, <1>5
<1> QED BY <1>5, <1>7, <1>8, <1>9 DEF d

\* The streams that still owe a response.
Left(c) == {id \in StreamIds : c.streams[id].phase \in {"created", "sent"}}

\* The end of the connection completes every stream that was left.
LEMMA EndedFacts ==
    ASSUME NEW c \in Http3Clients, InStep(c), c.conn = "open"
    PROVE  LET d == OnCompleteResponse([c EXCEPT !.conn = "closed"], Left(c))
           IN /\ Evolves(c, d) /\ d.conn = "closed" /\ d.last_error = c.last_error
              /\ Left(c) = {} => d.responses = c.responses /\ d.completed = c.completed
<1> DEFINE b == [c EXCEPT !.conn = "closed"]
           ids == Left(c)
           d == OnCompleteResponse(b, ids)
<1>1. /\ b \in Http3Clients /\ b.conn = "closed" /\ b.streams = c.streams
      /\ b.responses = c.responses /\ b.completed = c.completed /\ b.last_error = c.last_error
  BY DEF Http3Clients
<1>2. ids \in SUBSET StreamIds /\ \A id \in ids : c.streams[id].phase # "gone"
  BY DEF Left
<1>3. \A id \in StreamIds : id \notin ids => c.streams[id].phase \notin {"created", "sent"}
  BY DEF Left
<1>l. ids = {} => d.responses = b.responses \cup ids /\ d.completed = b.completed \cup ids
  BY <1>1 DEF OnCompleteResponse, Http3Clients
<1> HIDE DEF b, ids
<1>4. \A id \in StreamIds : id \in b.completed <=> b.streams[id].phase = "gone"
  BY <1>1 DEF InStep
<1>5. \A id \in ids : b.streams[id].phase # "gone"
  BY <1>1, <1>2
<1>6. /\ d \in Http3Clients /\ Answered(b, d) /\ d.conn = b.conn /\ d.last_error = b.last_error
      /\ \A id \in StreamIds : id \in d.completed <=> d.streams[id].phase = "gone"
      /\ \A id \in StreamIds : id \notin ids => d.streams[id] = b.streams[id]
  BY <1>1, <1>2, <1>4, <1>5, OnCompleteResponseFacts
<1>c. \A id \in ids : id \in d.completed
  BY DEF d, OnCompleteResponse, b, Http3Clients
<1> HIDE DEF d
<1>7. \A id \in StreamIds : d.streams[id].phase \notin {"created", "sent"}
  <2> TAKE id \in StreamIds
  <2>1. CASE id \in ids
    BY <1>6, <1>c, <2>1
  <2>2. CASE id \notin ids
    BY <1>1, <1>3, <1>6, <2>2
  <2> QED BY <2>1, <2>2
<1>8. InStep(d)
  BY <1>6, <1>7 DEF InStep
<1>9. Answered(c, d)
  BY <1>1, <1>6 DEF Answered
<1>10. Evolves(c, d) /\ d.conn = "closed" /\ d.last_error = c.last_error
  BY <1>1, <1>6, <1>8, <1>9 DEF Evolves
<1> QED BY <1>1, <1>10, <1>l DEF d, b, ids

\* ConnectionEnds, with or without a CONNECTION_CLOSE.
LEMMA ConnectionEndsFacts ==
    ASSUME NEW c \in Http3Clients, InStep(c), c.conn = "open", NEW d \in ConnectionEnds(c)
    PROVE  /\ Evolves(c, d) /\ d.conn = "closed" /\ d.last_error = c.last_error
           /\ Left(c) = {} => d.responses = c.responses /\ d.completed = c.completed
<1> DEFINE e == OnCompleteResponse([c EXCEPT !.conn = "closed"], Left(c))
<1>1. d = e \/ d = WritePacket(e, "close")
  BY DEF ConnectionEnds, Left
<1>2. /\ Evolves(c, e) /\ e.conn = "closed" /\ e.last_error = c.last_error
      /\ Left(c) = {} => e.responses = c.responses /\ e.completed = c.completed
  BY EndedFacts
<1> HIDE DEF e
<1>3. CASE d = e
  BY <1>2, <1>3
<1>4. CASE d = WritePacket(e, "close")
  <2>1. d \in Http3Clients /\ Calm(e, d) /\ d.last_error = e.last_error
    BY <1>2, <1>4, WritePacketFacts DEF Evolves
  <2>2. Evolves(e, d)
    BY <1>2, <2>1, CalmEvolves DEF Evolves
  <2>3. Evolves(c, d)
    BY <1>2, <2>2, EvolvesTransitive
  <2> QED BY <1>2, <2>1, <2>3 DEF Calm
<1> QED BY <1>1, <1>3, <1>4

\* A side of a stream that was sent closes.
LEMMA SetStreamFacts ==
    ASSUME NEW c \in Http3Clients, InStep(c), c.conn = "open", NEW id \in StreamIds,
           c.streams[id].phase = "sent", NEW s \in Streams, s.phase = "sent"
    PROVE  Evolves(c, SetStream(c, id, s)) /\ SetStream(c, id, s).conn = "open"
<1> DEFINE d == SetStream(c, id, s)
<1>1. CASE s.rclosed /\ s.wclosed
  <2>1. d = OnCompleteResponse(c, {id})
    BY <1>1 DEF SetStream
  <2>2. \A i \in StreamIds : i \in c.completed <=> c.streams[i].phase = "gone"
    BY DEF InStep
  <2>3. {id} \in SUBSET StreamIds /\ \A i \in {id} : c.streams[i].phase # "gone"
    OBVIOUS
  <2> HIDE DEF d
  <2>4. /\ d \in Http3Clients /\ Answered(c, d) /\ d.conn = c.conn
        /\ \A i \in StreamIds : i \in d.completed <=> d.streams[i].phase = "gone"
    BY <2>1, <2>2, <2>3, OnCompleteResponseFacts
  <2>5. Evolves(c, d) /\ d.conn = "open"
    BY <2>4 DEF Evolves, InStep
  <2> QED BY <2>5 DEF d
<1>2. CASE ~(s.rclosed /\ s.wclosed)
  <2> DEFINE ss == [c.streams EXCEPT ![id] = s]
  <2>1. ss \in [StreamIds -> Streams] /\ \A i \in StreamIds : ss[i] = IF i = id THEN s ELSE c.streams[i]
    BY DEF Http3Clients
  <2>2. d = [c EXCEPT !.streams = ss]
    BY <1>2 DEF SetStream, Http3Clients
  <2> HIDE DEF d, ss
  <2>3. /\ d \in Http3Clients /\ d.conn = c.conn /\ d.streams = ss
        /\ d.responses = c.responses /\ d.completed = c.completed
    BY <2>1, <2>2 DEF Http3Clients
  <2>4. InStep(d)
    BY <2>1, <2>3 DEF InStep
  <2>5. Answered(c, d)
    <3>1. {} \cap c.completed = {} /\ d.responses = c.responses \cup {} /\ d.completed = c.completed \cup {}
      BY <2>3
    <3> QED BY <3>1 DEF Answered
  <2>6. Evolves(c, d) /\ d.conn = "open"
    BY <2>3, <2>4, <2>5 DEF Evolves
  <2> QED BY <2>6 DEF d
<1> QED BY <1>1, <1>2

\* A change of the handshake or of the credit.
LEMMA CreditFacts ==
    ASSUME NEW c \in Http3Clients, InStep(c), NEW d \in Http3Clients, d.conn = c.conn,
           d.streams = c.streams, d.responses = c.responses, d.completed = c.completed
    PROVE  Evolves(c, d)
<1>1. Answered(c, d)
  <2>1. {} \cap c.completed = {} /\ d.responses = c.responses \cup {} /\ d.completed = c.completed \cup {}
    OBVIOUS
  <2> QED BY <2>1 DEF Answered
<1> QED BY <1>1 DEF Evolves, InStep

\* What the peer's frames do.
LEMMA PeerFramesFacts ==
    ASSUME NEW c \in Http3Clients, InStep(c), c.conn = "open", NEW d \in PeerFrames(c)
    PROVE  Evolves(c, d) /\ d.conn = "open"
<1>1. ASSUME NEW id \in StreamIds, c.streams[id].phase = "sent",
             d = SetStream(c, id, [c.streams[id] EXCEPT !.rclosed = TRUE])
             \/ d = SetStream(c, id, [c.streams[id] EXCEPT !.wclosed = TRUE])
      PROVE  Evolves(c, d) /\ d.conn = "open"
  <2>1. c.streams[id] \in Streams
    BY DEF Http3Clients
  <2>2. /\ [c.streams[id] EXCEPT !.rclosed = TRUE] \in Streams
        /\ [c.streams[id] EXCEPT !.rclosed = TRUE].phase = "sent"
        /\ [c.streams[id] EXCEPT !.wclosed = TRUE] \in Streams
        /\ [c.streams[id] EXCEPT !.wclosed = TRUE].phase = "sent"
    BY <1>1, <2>1 DEF Streams
  <2> QED BY <1>1, <2>2, SetStreamFacts
<1>2. ASSUME NEW n \in 0..MaxCredit, d = [c EXCEPT !.credit = n]
      PROVE  Evolves(c, d) /\ d.conn = "open"
  <2>1. /\ d \in Http3Clients /\ d.conn = c.conn /\ d.streams = c.streams
        /\ d.responses = c.responses /\ d.completed = c.completed
    BY <1>2 DEF Http3Clients
  <2> QED BY <2>1, CreditFacts
<1> QED BY <1>1, <1>2 DEF PeerFrames

\* The handshake completes.
LEMMA HandshakeDoneFacts ==
    ASSUME NEW c \in Http3Clients, InStep(c), NEW d \in HandshakeDone(c)
    PROVE  Evolves(c, d) /\ d.conn = c.conn
<1>1. PICK n \in 0..MaxCredit : d = [c EXCEPT !.handshaken = TRUE, !.credit = n]
  BY DEF HandshakeDone
<1>2. /\ d \in Http3Clients /\ d.conn = c.conn /\ d.streams = c.streams
      /\ d.responses = c.responses /\ d.completed = c.completed
  BY <1>1 DEF Http3Clients
<1> QED BY <1>2, CreditFacts

\* A packet that QUICHE takes, an alarm that it serves.
LEMMA QuicheFacts ==
    ASSUME NEW c \in Http3Clients, InStep(c), NEW d \in ProcessUdpPacket(c) \cup ProcessAlarms(c)
    PROVE  Evolves(c, d)
<1>1. Evolves(c, c)
  BY CalmEvolves DEF Calm
<1>2. ASSUME NEW b, Evolves(c, b), b.conn = "open", d \in MaySend(b) \cup ConnectionEnds(b)
      PROVE  Evolves(c, d)
  <2>1. CASE d \in MaySend(b)
    BY <1>2, <2>1, MaySendFacts, CalmEvolves, EvolvesTransitive DEF Evolves
  <2>2. CASE d \in ConnectionEnds(b)
    BY <1>2, <2>2, ConnectionEndsFacts, EvolvesTransitive DEF Evolves
  <2> QED BY <1>2, <2>1, <2>2
<1>3. CASE c.conn # "open"
  BY <1>1, <1>3 DEF ProcessUdpPacket, ProcessAlarms, HasAlarm
<1>4. CASE c.conn = "open" /\ d \in ProcessUdpPacket(c)
  <2>1. PICK b \in {c} \cup HandshakeDone(c) \cup PeerFrames(c) : d \in MaySend(b) \cup ConnectionEnds(b)
    BY <1>4 DEF ProcessUdpPacket
  <2>2. Evolves(c, b) /\ b.conn = "open"
    BY <1>1, <1>4, <2>1, HandshakeDoneFacts, PeerFramesFacts
  <2> QED BY <1>2, <2>1, <2>2
<1>5. CASE c.conn = "open" /\ d \in ProcessAlarms(c)
  <2>1. d \in MaySend(c) \cup ConnectionEnds(c)
    BY <1>5 DEF ProcessAlarms, HasAlarm
  <2> QED BY <1>1, <1>2, <1>5, <2>1
<1> QED BY <1>3, <1>4, <1>5

\* ReceivePacket and HandleTimeout never leave a closed connection unexplained.
LEMMA AfterQuicheFacts ==
    ASSUME NEW c \in Http3Clients
    PROVE  /\ AfterQuiche(c).c \in Http3Clients /\ Calm(c, AfterQuiche(c).c)
           /\ AfterQuiche(c).st \in {"OK", "CLOSED"}
           /\ c.conn # "open" => AfterQuiche(c).c.last_error # NoError
<1>1. "connection closed" \in Errors /\ "connection closed" # NoError
  BY DEF Errors, NoError
<1>2. CASE c.conn = "open"
  BY <1>2 DEF AfterQuiche, IsConnected, Out, Calm
<1>3. CASE c.conn # "open"
  BY <1>1, <1>3, SetErrorIfEmptyFacts DEF AfterQuiche, IsConnected, Out
<1> QED BY <1>2, <1>3

-----------------------------------------------------------------------------
(* Facts about the Python methods.                                         *)

\* start() of a client that was never started: a session, or a client whose
\* session is over and which does not say so.  No request was sent either way.
LEMMA StartFacts ==
    ASSUME NEW c \in Http3Clients, c.conn = "none", Blank(c), NEW r \in py_start(c)
    PROVE  /\ r.c \in Http3Clients /\ InStep(r.c) /\ r.c.responses = {} /\ r.c.completed = {}
           /\ r.c.conn \in {"open", "failed"} /\ r.c.last_error = NoError
<1> DEFINE b == ResetRuntimeError(c)
           ss == [id \in StreamIds |-> [phase |-> "unused", rclosed |-> FALSE, wclosed |-> FALSE]]
           begun == [FreshClient EXCEPT !.conn = "open", !.send_queue = b.send_queue,
                                        !.responses = b.responses, !.completed = b.completed]
<1>1. /\ b \in Http3Clients /\ b.conn = "none" /\ b.responses = {} /\ b.completed = {}
  BY ResetFacts DEF Calm, Blank
<1>2. PICK out \in Start(c) : r = Returned(out)
  BY DEF py_start
<1>3. PICK d \in StartConnect(b) : out = Out(d, "OK", 0)
  BY <1>1, <1>2 DEF Start, IsConnected
<1>4. ss \in [StreamIds -> Streams] /\ \A id \in StreamIds : ss[id].phase = "unused"
  BY DEF Streams
<1>5. NoError \in Errors
  BY DEF Errors, NoError
<1>6. 0 \in 0..MaxCredit
  BY BoundsAssumption
<1>7. /\ begun \in Http3Clients /\ begun.conn = "open" /\ begun.streams = ss
      /\ begun.responses = {} /\ begun.completed = {} /\ begun.last_error = NoError
  <2> HIDE DEF ss, b
  <2>1. FreshClient \in Http3Clients /\ FreshClient.streams = ss /\ FreshClient.last_error = NoError
    <3>1. FreshClient = [conn |-> "none", handshaken |-> FALSE, last_error |-> NoError,
                         send_queue |-> <<>>, credit |-> 0, responses |-> {}, completed |-> {},
                         streams |-> ss]
      BY DEF FreshClient, ss
    <3>2. <<>> \in Seq({"packet", "close"})
      OBVIOUS
    <3> QED BY <1>4, <1>5, <1>6, <3>1, <3>2 DEF Http3Clients
  <2> HIDE DEF FreshClient
  <2> QED BY <1>1, <2>1 DEF Http3Clients
<1>8. \/ d = WritePacket(begun, "packet")
      \/ \E e \in ConnectionEnds(begun) : d = [e EXCEPT !.conn = "failed"]
  BY <1>3 DEF StartConnect
<1> HIDE DEF begun, ss, b
<1>9. InStep(begun) /\ Left(begun) = {}
  BY <1>4, <1>7 DEF InStep, Left
<1>10. /\ d \in Http3Clients /\ InStep(d) /\ d.responses = {} /\ d.completed = {}
       /\ d.conn \in {"open", "failed"} /\ d.last_error = NoError
  <2>1. CASE d = WritePacket(begun, "packet")
    BY <1>7, <1>9, <2>1, WritePacketFacts, CalmEvolves DEF Evolves, Calm
  <2>2. ASSUME NEW e \in ConnectionEnds(begun), d = [e EXCEPT !.conn = "failed"]
        PROVE  /\ d \in Http3Clients /\ InStep(d) /\ d.responses = {} /\ d.completed = {}
               /\ d.conn \in {"open", "failed"} /\ d.last_error = NoError
    <3>1. /\ e \in Http3Clients /\ InStep(e) /\ e.conn = "closed" /\ e.responses = {} /\ e.completed = {}
          /\ e.last_error = NoError
      BY <1>7, <1>9, ConnectionEndsFacts DEF Evolves
    <3>2. /\ d \in Http3Clients /\ d.conn = "failed" /\ d.responses = {} /\ d.completed = {}
          /\ d.last_error = NoError /\ d.streams = e.streams /\ d.completed = e.completed
      BY <2>2, <3>1 DEF Http3Clients
    <3> QED BY <3>1, <3>2 DEF InStep
  <2> QED BY <1>8, <2>1, <2>2
<1>11. r.c = d
  BY <1>2, <1>3 DEF Out, Returned
<1> QED BY <1>10, <1>11

\* receive_packet and handle_timeout of a client that has a connection: they
\* do not raise, and leave an error when the connection has ended.
LEMMA RunFacts ==
    ASSUME NEW c \in Http3Clients, InStep(c), c.conn # "none", NEW empty \in BOOLEAN,
           NEW r \in py_receive_packet(c, empty) \cup py_handle_timeout(c)
    PROVE  /\ Evolves(c, r.c) /\ r.ret = "value"
           /\ c.conn = "open" /\ r.c.conn = "closed" => r.c.last_error # NoError
<1> DEFINE b == ResetRuntimeError(c)
<1>1. b \in Http3Clients /\ Calm(c, b) /\ Evolves(c, b) /\ b.conn = c.conn /\ InStep(b)
  BY ResetFacts, CalmEvolves DEF Evolves, Calm
<1> HIDE DEF b
<1>2. PICK out \in ReceivePacket(c, empty) \cup HandleTimeout(c) : r = ClosedIsSilent(out)
  BY DEF py_receive_packet, py_handle_timeout
<1>3. out = Out(b, "OK", 0) \/ \E d \in ProcessUdpPacket(b) \cup ProcessAlarms(b) : out = AfterQuiche(d)
  BY <1>1, <1>2 DEF ReceivePacket, HandleTimeout, b
<1>4. CASE out = Out(b, "OK", 0)
  <2>1. r.c = b /\ r.ret = "value"
    BY <1>2, <1>4 DEF Out, ClosedIsSilent, Returned
  <2> QED BY <1>1, <2>1
<1>5. ASSUME NEW d \in ProcessUdpPacket(b) \cup ProcessAlarms(b), out = AfterQuiche(d)
      PROVE  /\ Evolves(c, r.c) /\ r.ret = "value"
             /\ c.conn = "open" /\ r.c.conn = "closed" => r.c.last_error # NoError
  <2>1. Evolves(b, d)
    BY <1>1, QuicheFacts
  <2>2. /\ out.c \in Http3Clients /\ Calm(d, out.c) /\ out.st \in {"OK", "CLOSED"}
        /\ d.conn # "open" => out.c.last_error # NoError
    BY <1>5, <2>1, AfterQuicheFacts DEF Evolves
  <2>3. Evolves(d, out.c)
    BY <2>1, <2>2, CalmEvolves DEF Evolves
  <2>4. Evolves(c, out.c)
    BY <1>1, <2>1, <2>3, EvolvesTransitive
  <2>5. r.c = out.c /\ r.ret = "value"
    <3>1. out = Out(out.c, out.st, out.val)
      BY <1>5 DEF AfterQuiche, Out
    <3> QED BY <1>2, <2>2, <3>1 DEF ClosedIsSilent, Returned, Out
  <2> QED BY <2>2, <2>4, <2>5 DEF Calm
<1> QED BY <1>3, <1>4, <1>5

\* receive_packet before start().
LEMMA UnstartedFacts ==
    ASSUME NEW c \in Http3Clients, c.conn = "none", NEW empty \in BOOLEAN,
           NEW r \in py_receive_packet(c, empty)
    PROVE  /\ r.c \in Http3Clients /\ Calm(c, r.c) /\ r.c.send_queue = c.send_queue
           /\ r.ret = "value" => r.c.last_error = NoError
<1> DEFINE b == ResetRuntimeError(c)
<1>1. /\ b \in Http3Clients /\ Calm(c, b) /\ b.send_queue = c.send_queue /\ b.last_error = NoError
      /\ b.conn = "none"
  BY ResetFacts DEF Calm
<1> HIDE DEF b
<1>2. PICK out \in ReceivePacket(c, empty) : r = ClosedIsSilent(out)
  BY DEF py_receive_packet
<1>3. out = Out(b, "OK", 0) \/ out = Out(SetError(b, "not started"), "ERROR", 0)
  BY <1>1, <1>2 DEF ReceivePacket, b
<1>4. CASE out = Out(b, "OK", 0)
  <2>1. r.c = b
    BY <1>2, <1>4 DEF Out, ClosedIsSilent, Returned
  <2> QED BY <1>1, <2>1
<1>5. CASE out = Out(SetError(b, "not started"), "ERROR", 0)
  <2> DEFINE e == "not started"
  <2>1. r.c = SetError(b, e) /\ r.ret = "RuntimeError"
    BY <1>2, <1>5 DEF Out, ClosedIsSilent, Returned, Exception
  <2>2. e \in Errors
    BY DEF Errors
  <2> HIDE DEF e
  <2>3. /\ r.c \in Http3Clients /\ r.c.send_queue = b.send_queue /\ Calm(b, r.c)
    BY <1>1, <2>1, <2>2, SetErrorFacts
  <2> QED BY <1>1, <2>1, <2>3 DEF Calm
<1> QED BY <1>3, <1>4, <1>5

\* close() ends the connection, if there is one.
LEMMA CloseFacts ==
    ASSUME NEW c \in Http3Clients, InStep(c)
    PROVE  /\ Evolves(c, Close(c)) /\ Close(c).conn # "open"
           /\ c.conn = "none" => Calm(c, Close(c)) /\ Close(c).send_queue = c.send_queue
<1> DEFINE b == ResetRuntimeError(c)
           e == OnCompleteResponse([b EXCEPT !.conn = "closed"], Left(b))
<1>1. b \in Http3Clients /\ Calm(c, b) /\ Evolves(c, b) /\ InStep(b) /\ b.send_queue = c.send_queue
  BY ResetFacts, CalmEvolves DEF Evolves
<1>2. Close(c) = IF b.conn = "open" THEN WritePacket(e, "close") ELSE b
  BY DEF Close, IsConnected, Left
<1> HIDE DEF b
<1>3. CASE b.conn = "open"
  <2>1. Evolves(b, e) /\ e.conn = "closed"
    BY <1>1, <1>3, EndedFacts
  <2> HIDE DEF e
  <2>2. Calm(e, Close(c)) /\ Close(c) \in Http3Clients
    BY <1>2, <1>3, <2>1, WritePacketFacts DEF Evolves
  <2>3. Evolves(e, Close(c))
    BY <2>1, <2>2, CalmEvolves DEF Evolves
  <2>4. Evolves(c, Close(c))
    BY <1>1, <2>1, <2>3, EvolvesTransitive
  <2> QED BY <1>1, <1>3, <2>1, <2>2, <2>4 DEF Calm
<1>4. CASE b.conn # "open"
  BY <1>1, <1>2, <1>4
<1> QED BY <1>3, <1>4

\* The client c once the stream id has its slot.
WithStream(c, id, ph, w) ==
    [c EXCEPT !.credit = @ - 1, !.streams[id].phase = ph, !.streams[id].wclosed = w]

\* A stream that CreateClientStream gives away, with or without its request.
LEMMA TakenFacts ==
    ASSUME NEW c \in Http3Clients, InStep(c), c.conn = "open", NEW id \in CreateClientStream(c),
           NEW ph \in {"created", "sent"}, NEW w \in BOOLEAN
    PROVE  LET d == WithStream(c, id, ph, w)
           IN /\ d \in Http3Clients /\ InStep(d) /\ d.conn = c.conn /\ d.send_queue = c.send_queue
              /\ d.responses = c.responses /\ d.completed = c.completed
<1> DEFINE s == [c.streams[id] EXCEPT !.phase = ph, !.wclosed = w]
           ss == [c.streams EXCEPT ![id] = s]
           n == c.credit - 1
           d == [c EXCEPT !.credit = n, !.streams = ss]
<1>1. id \in StreamIds /\ c.streams[id].phase = "unused" /\ c.credit # 0
  BY DEF CreateClientStream
<1>2. c.streams[id] \in Streams /\ c.credit \in 0..MaxCredit
  BY <1>1 DEF Http3Clients
<1>3. s \in Streams /\ s.phase = ph
  BY <1>2 DEF Streams
<1>4. n \in 0..MaxCredit
  BY <1>1, <1>2, BoundsAssumption
<1>5. WithStream(c, id, ph, w) = d
  BY <1>1, <1>2 DEF WithStream, Http3Clients, Streams
<1> HIDE DEF s, n
<1>6. ss \in [StreamIds -> Streams] /\ \A i \in StreamIds : ss[i] = IF i = id THEN s ELSE c.streams[i]
  BY <1>1, <1>3 DEF Http3Clients
<1> HIDE DEF ss
<1>7. /\ d \in Http3Clients /\ d.conn = c.conn /\ d.send_queue = c.send_queue
      /\ d.responses = c.responses /\ d.completed = c.completed /\ d.streams = ss
  BY <1>4, <1>6 DEF Http3Clients
<1> HIDE DEF d
<1>8. InStep(d)
  BY <1>1, <1>3, <1>6, <1>7 DEF InStep
<1> QED BY <1>5, <1>7, <1>8

\* A submit that a client turns down changes its error, or a stream too.
LEMMA RefusedFacts ==
    ASSUME NEW c \in Http3Clients, InStep(c), NEW e \in Errors
    PROVE  LET d == SetError(c, e)
           IN /\ d \in Http3Clients /\ InStep(d) /\ d.conn = c.conn /\ d.send_queue = c.send_queue
              /\ d.responses = c.responses /\ d.completed = c.completed /\ Calm(c, d)
BY SetErrorFacts, CalmEvolves DEF Calm, Evolves

\* The outcomes of submit_request: it sends the request on a new stream, asks
\* to be called again when and only when no stream is to be had, or raises;
\* no response comes or goes.
LEMMA SubmitFacts ==
    ASSUME NEW c \in Http3Clients, InStep(c), NEW named \in BOOLEAN, NEW fin \in BOOLEAN,
           NEW r \in py_submit_request(c, named, fin)
    PROVE  /\ r.c \in Http3Clients /\ InStep(r.c) /\ r.c.conn = c.conn
           /\ r.c.responses = c.responses /\ r.c.completed = c.completed
           /\ r.ret \notin {"None", "value"} => r.c.send_queue = c.send_queue
           /\ r.ret = "None" /\ NoClose(c) => NoClose(r.c)
           /\ r.ret = "None" <=> c.conn = "open" /\ CreateClientStream(c) = {}
           /\ r.ret = "None" \/ c.conn # "open" => Calm(c, r.c)
           /\ r.ret \in {"None", "value", "ValueError", "RuntimeError"}
           /\ r.ret = "value" => c.conn = "open" /\ r.val \in StreamIds
<1> DEFINE b == ResetRuntimeError(c)
           t(id, phase) == [b EXCEPT !.credit = @ - 1, !.streams[id].phase = phase,
                                     !.streams[id].wclosed = (phase = "sent" /\ fin)]
           refused == "not established"
           nameless == "empty header name"
<1>1. /\ b \in Http3Clients /\ Calm(c, b) /\ InStep(b) /\ b.send_queue = c.send_queue
      /\ b.conn = c.conn /\ b.responses = c.responses /\ b.completed = c.completed
  BY ResetFacts, CalmEvolves DEF Evolves, Calm
<1>2. CreateClientStream(b) = CreateClientStream(c)
  BY <1>1 DEF CreateClientStream, Calm
<1>3. PICK out \in SubmitRequest(c, named, fin) : r = Returned(out)
  BY DEF py_submit_request
<1>4. refused \in Errors /\ nameless \in Errors
  BY DEF Errors
<1>5. \/ b.conn # "open" /\ out = Out(SetError(b, refused), "ERROR", 0)
      \/ b.conn = "open" /\ CreateClientStream(b) = {} /\ \E d \in MaySend(b) : out = Out(d, "WOULD_BLOCK", 0)
      \/ /\ b.conn = "open"
         /\ \E id \in CreateClientStream(b) :
              out = Out(SetError(t(id, "created"), nameless), "INVALID_ARGUMENT", 0)
      \/ /\ b.conn = "open"
         /\ \E id \in CreateClientStream(b) : \E d \in MaySend(t(id, "sent")) : out = Out(d, "OK", id)
  <2> HIDE DEF refused, nameless
  <2> QED BY <1>3 DEF SubmitRequest, IsConnected, refused, nameless
<1>6. ASSUME NEW id \in CreateClientStream(b), NEW ph \in {"created", "sent"}, b.conn = "open"
      PROVE  /\ t(id, ph) \in Http3Clients /\ InStep(t(id, ph)) /\ t(id, ph).conn = b.conn
             /\ t(id, ph).send_queue = b.send_queue
             /\ t(id, ph).responses = b.responses /\ t(id, ph).completed = b.completed
  <2> DEFINE w == (ph = "sent" /\ fin)
  <2>1. w \in BOOLEAN
    OBVIOUS
  <2> HIDE DEF w
  <2>2. t(id, ph) = WithStream(b, id, ph, w)
    BY DEF w, WithStream
  <2> HIDE DEF b, t
  <2> QED BY <1>1, <1>6, <2>1, <2>2, TakenFacts
<1> HIDE DEF b, refused, nameless, t
<1>7. CASE b.conn # "open" /\ out = Out(SetError(b, refused), "ERROR", 0)
  <2>1. r.c = SetError(b, refused) /\ r.ret = "RuntimeError"
    BY <1>3, <1>7 DEF Out, Returned, Exception
  <2>2. /\ r.c \in Http3Clients /\ InStep(r.c) /\ r.c.conn = b.conn /\ r.c.send_queue = b.send_queue
        /\ r.c.responses = b.responses /\ r.c.completed = b.completed /\ Calm(b, r.c)
    BY <1>1, <1>4, <2>1, RefusedFacts
  <2>3. Calm(c, r.c)
    BY <1>1, <2>2, CalmTransitive
  <2> QED BY <1>1, <1>7, <2>1, <2>2, <2>3
<1>8. CASE b.conn = "open" /\ CreateClientStream(b) = {} /\ \E d \in MaySend(b) : out = Out(d, "WOULD_BLOCK", 0)
  <2>1. PICK d \in MaySend(b) : out = Out(d, "WOULD_BLOCK", 0)
    BY <1>8
  <2>2. r.c = d /\ r.ret = "None"
    BY <1>3, <2>1 DEF Out, Returned
  <2>3. r.c \in Http3Clients /\ Calm(b, r.c) /\ (NoClose(b) => NoClose(r.c))
    BY <1>1, <2>2, MaySendFacts
  <2>4. Calm(c, r.c) /\ InStep(r.c)
    BY <1>1, <2>3, CalmTransitive, CalmEvolves DEF Evolves
  <2>5. NoClose(c) => NoClose(r.c)
    BY <1>1, <2>3 DEF NoClose
  <2> QED BY <1>1, <1>2, <1>8, <2>2, <2>3, <2>4, <2>5 DEF Calm
<1>9. ASSUME b.conn = "open", NEW id \in CreateClientStream(b),
             out = Out(SetError(t(id, "created"), nameless), "INVALID_ARGUMENT", 0)
      PROVE  /\ r.c \in Http3Clients /\ InStep(r.c) /\ r.c.conn = b.conn
             /\ r.c.send_queue = b.send_queue /\ r.ret = "ValueError"
             /\ r.c.responses = b.responses /\ r.c.completed = b.completed
  <2>1. r.c = SetError(t(id, "created"), nameless) /\ r.ret = "ValueError"
    BY <1>3, <1>9 DEF Out, Returned, Exception
  <2>2. /\ t(id, "created") \in Http3Clients /\ InStep(t(id, "created"))
        /\ t(id, "created").conn = b.conn /\ t(id, "created").send_queue = b.send_queue
        /\ t(id, "created").responses = b.responses /\ t(id, "created").completed = b.completed
    BY <1>6, <1>9
  <2> QED BY <1>4, <2>1, <2>2, RefusedFacts
<1>10. ASSUME b.conn = "open", NEW id \in CreateClientStream(b), NEW d \in MaySend(t(id, "sent")),
              out = Out(d, "OK", id)
       PROVE  /\ r.c \in Http3Clients /\ InStep(r.c) /\ r.c.conn = b.conn /\ r.ret = "value"
              /\ r.c.responses = b.responses /\ r.c.completed = b.completed /\ r.val \in StreamIds
  <2>1. r.c = d /\ r.ret = "value" /\ r.val = id
    BY <1>3, <1>10 DEF Out, Returned
  <2>2. /\ t(id, "sent") \in Http3Clients /\ InStep(t(id, "sent")) /\ t(id, "sent").conn = b.conn
        /\ t(id, "sent").responses = b.responses /\ t(id, "sent").completed = b.completed
    BY <1>6, <1>10
  <2>3. d \in Http3Clients /\ Calm(t(id, "sent"), d)
    BY <2>2, MaySendFacts
  <2>4. InStep(d)
    BY <2>2, <2>3, CalmEvolves DEF Evolves
  <2>5. id \in StreamIds
    BY DEF CreateClientStream
  <2> QED BY <2>1, <2>2, <2>3, <2>4, <2>5 DEF Calm
<1>11. CASE \E id \in CreateClientStream(b) :
              out = Out(SetError(t(id, "created"), nameless), "INVALID_ARGUMENT", 0)
            /\ b.conn = "open"
  BY <1>1, <1>2, <1>9, <1>11
<1>12. CASE \E id \in CreateClientStream(b) : \E d \in MaySend(t(id, "sent")) : out = Out(d, "OK", id)
            /\ b.conn = "open"
  BY <1>1, <1>2, <1>10, <1>12
<1> QED BY <1>5, <1>7, <1>8, <1>11, <1>12

\* take_response: the response, once, or None as long as there is none.
LEMMA TakeFacts ==
    ASSUME NEW c \in Http3Clients, InStep(c), NEW id \in StreamIds, NEW r \in py_take_response(c, id)
    PROVE  /\ r.c \in Http3Clients /\ InStep(r.c) /\ r.c.conn = c.conn /\ r.c.send_queue = c.send_queue
           /\ r.ret \in {"None", "value"} /\ (r.ret = "None" <=> id \notin c.responses)
           /\ r.ret = "None" => Calm(c, r.c)
           /\ r.c.responses = c.responses \ {id} /\ r.c.completed = c.completed
<1> DEFINE b == ResetRuntimeError(c)
<1>1. /\ b \in Http3Clients /\ Calm(c, b) /\ InStep(b) /\ b.send_queue = c.send_queue
      /\ b.conn = c.conn /\ b.responses = c.responses /\ b.completed = c.completed
  BY ResetFacts, CalmEvolves DEF Evolves, Calm
<1>2. r = Returned(IF id \notin b.responses THEN Out(b, "WOULD_BLOCK", 0)
                   ELSE Out([b EXCEPT !.responses = @ \ {id}], "OK", id))
  BY DEF py_take_response, TakeResponse
<1> HIDE DEF b
<1>3. CASE id \notin b.responses
  <2>1. r.c = b /\ r.ret = "None"
    BY <1>2, <1>3 DEF Out, Returned
  <2> QED BY <1>1, <1>3, <2>1
<1>4. CASE id \in b.responses
  <2>1. r.c = [b EXCEPT !.responses = @ \ {id}] /\ r.ret = "value"
    BY <1>2, <1>4 DEF Out, Returned
  <2>2. /\ r.c \in Http3Clients /\ r.c.conn = b.conn /\ r.c.send_queue = b.send_queue
        /\ r.c.responses = b.responses \ {id} /\ r.c.completed = b.completed
        /\ r.c.streams = b.streams
    BY <1>1, <2>1 DEF Http3Clients
  <2>3. InStep(r.c)
    BY <1>1, <2>2 DEF InStep
  <2> QED BY <1>1, <1>4, <2>1, <2>2, <2>3
<1> QED BY <1>3, <1>4

-----------------------------------------------------------------------------
(* The inductive invariant of AsyncHttp3Client.                            *)

\* ResponsesExactlyOnce, of a list of streams and a core.
Delivered(g, c) ==
    LET returned == {g[i] : i \in 1..Len(g)} IN
    /\ \A i, j \in 1..Len(g) : g[i] = g[j] => i = j
    /\ returned \cap c.responses = {}
    /\ returned \cup c.responses = c.completed

\* How the fields of the client object follow its core: what _process and
\* _teardown leave behind.
Settled(x, c) ==
    /\ c.conn = "none" => /\ Blank(c) /\ c.send_queue = <<>>
                          /\ ~x.transport /\ ~x.was_connected /\ ~x.timer
    /\ c.conn = "closed" => x.closed
    /\ ~x.core => c.conn = "none"
    /\ c.conn = "open" /\ ~x.closed => x.transport /\ x.was_connected /\ x.timer
    /\ c.conn = "failed" /\ ~x.closed => x.transport /\ ~x.was_connected /\ ~x.timer
    /\ x.transport /\ (x.was_connected \/ ~x.closed) => NoClose(c)
    /\ x.transport /\ ~x.closed /\ c.send_queue # <<>> => c.conn = "open" /\ CreateClientStream(c) = {}

\* Why a task that awaits o is right to sleep.
Sleeps(o, x, c) ==
    /\ ~x.closed /\ c.conn = IF o.kind = "is_connected" THEN "failed" ELSE "open"
    /\ o.kind = "submit" => CreateClientStream(c) = {}
    /\ o.kind = "take" => o.id \notin c.responses

\* One task at most is in connect(), and start() runs once.
OneConnect ==
    /\ \A p \in Tasks : task[p].pc = "resolve" => ~client.core
    /\ \A p \in Tasks : task[p].pc \in {"endpoint", "opened"} => client.core /\ core.conn = "none"
    /\ \A p, q \in Tasks :
         task[p].pc \in {"resolve", "endpoint", "opened"} /\ task[q].pc \in {"resolve", "endpoint", "opened"}
           => p = q

\* Nobody waits before start(), and in connect() only if the connection ended
\* inside start(): its attempt succeeds at once otherwise.  Whoever sleeps is
\* right to.
Asleep ==
    /\ \A p \in Tasks : task[p].pc = "wait" =>
         /\ client.core /\ core.conn # "none"
         /\ task[p].op.kind = "is_connected" <=> core.conn = "failed"
    /\ \A p \in client.waiters : task[p].pc = "wait" /\ Sleeps(task[p].op, client, core)

\* As long as the end inside start() goes unnoticed, connect() waits.
FailureAwaited ==
    core.conn = "failed" /\ ~client.closed => \E p \in Tasks : task[p].pc = "wait"

Inv ==
    /\ TypeOK /\ InStep(core) /\ Delivered(got, core) /\ Settled(client, core) /\ OneConnect
    /\ Asleep /\ FailureAwaited

-----------------------------------------------------------------------------
\* The responses of a core that was calm, or that took some more.
LEMMA DeliveredGrows ==
    ASSUME NEW g \in Seq(StreamIds), NEW c, NEW d, Delivered(g, c), Answered(c, d)
    PROVE  Delivered(g, d)
<1> DEFINE R == {g[i] : i \in 1..Len(g)}
<1>1. /\ \A i, j \in 1..Len(g) : g[i] = g[j] => i = j
      /\ R \cap c.responses = {} /\ R \cup c.responses = c.completed
  BY DEF Delivered
<1>2. PICK new \in SUBSET StreamIds :
        /\ new \cap c.completed = {}
        /\ d.responses = c.responses \cup new /\ d.completed = c.completed \cup new
  BY DEF Answered
<1> HIDE DEF R
<1>3. R \cap d.responses = {} /\ R \cup d.responses = d.completed
  BY <1>1, <1>2
<1> QED BY <1>1, <1>3 DEF Delivered, R

\* The same responses.
LEMMA DeliveredKept ==
    ASSUME NEW g, NEW c, NEW d, Delivered(g, c), d.responses = c.responses, d.completed = c.completed
    PROVE  Delivered(g, d)
BY DEF Delivered

\* A response that is taken is returned.
LEMMA DeliveredTaken ==
    ASSUME NEW g \in Seq(StreamIds), NEW c, NEW d, NEW id \in StreamIds, Delivered(g, c),
           id \in c.responses, d.responses = c.responses \ {id}, d.completed = c.completed
    PROVE  Append(g, id) \in Seq(StreamIds) /\ Delivered(Append(g, id), d)
<1> DEFINE h == Append(g, id)
           R == {g[i] : i \in 1..Len(g)}
           S == {h[i] : i \in 1..Len(h)}
<1>1. /\ \A i, j \in 1..Len(g) : g[i] = g[j] => i = j
      /\ R \cap c.responses = {} /\ R \cup c.responses = c.completed
  BY DEF Delivered
<1>2. /\ h \in Seq(StreamIds) /\ Len(h) = Len(g) + 1 /\ Len(g) \in Nat /\ h[Len(g) + 1] = id
      /\ \A i \in 1..Len(g) : h[i] = g[i]
  OBVIOUS
<1> HIDE DEF h
<1>3. S = R \cup {id}
  <2>1. ASSUME NEW v \in S PROVE v \in R \cup {id}
    <3>1. PICK i \in 1..Len(h) : v = h[i]
      OBVIOUS
    <3>2. i = Len(g) + 1 \/ i \in 1..Len(g)
      BY <1>2
    <3> QED BY <1>2, <3>1, <3>2
  <2>2. ASSUME NEW v \in R PROVE v \in S
    <3>1. PICK i \in 1..Len(g) : v = g[i]
      OBVIOUS
    <3>2. i \in 1..Len(h) /\ h[i] = v
      BY <1>2, <3>1
    <3> QED BY <3>2
  <2>3. id \in S
    <3>1. Len(g) + 1 \in 1..Len(h)
      BY <1>2
    <3> QED BY <1>2, <3>1
  <2> HIDE DEF R, S
  <2> QED BY <2>1, <2>2, <2>3
<1>4. id \notin R
  <2> HIDE DEF R
  <2> QED BY <1>1
<1>5. \A i \in 1..Len(g) : g[i] # id
  BY <1>4
<1>6. \A i, j \in 1..Len(h) : h[i] = h[j] => i = j
  <2> SUFFICES ASSUME NEW i \in 1..Len(h), NEW j \in 1..Len(h), h[i] = h[j] PROVE i = j
    OBVIOUS
  <2>1. (i = Len(g) + 1 \/ i \in 1..Len(g)) /\ (j = Len(g) + 1 \/ j \in 1..Len(g))
    BY <1>2
  <2> QED BY <1>1, <1>2, <1>5, <2>1
<1> HIDE DEF R, S
<1>7. S \cap d.responses = {} /\ S \cup d.responses = d.completed
  BY <1>1, <1>3, <1>4
<1>8. Delivered(h, d)
  BY <1>6, <1>7 DEF Delivered, S
<1> QED BY <1>2, <1>8 DEF h

\* _teardown closes the client and wakes everybody.
LEMMA TeardownFacts ==
    ASSUME NEW x \in ClientStates
    PROVE  /\ Teardown(x) \in ClientStates /\ Teardown(x).closed
           /\ Teardown(x).core = x.core /\ Teardown(x).transport = x.transport
           /\ Teardown(x).was_connected = x.was_connected
           /\ Teardown(x).waiters = IF x.closed THEN x.waiters ELSE {}
           /\ Teardown(x).timer => x.timer
<1> DEFINE z == [x EXCEPT !.closed = TRUE, !.timer = FALSE,
                          !.sock = IF x.transport /\ @ = "open" THEN "closing" ELSE @]
<1>1. /\ z \in ClientStates /\ z.closed = TRUE /\ z.core = x.core /\ z.transport = x.transport
      /\ z.was_connected = x.was_connected /\ z.timer = FALSE
  BY DEF ClientStates
<1>2. Teardown(x) = IF x.closed THEN x ELSE [z EXCEPT !.waiters = {}]
  BY DEF Teardown, WakeWaiters
<1> HIDE DEF z
<1>3. CASE x.closed
  BY <1>2, <1>3
<1>4. CASE ~x.closed
  BY <1>1, <1>2, <1>4 DEF ClientStates
<1> QED BY <1>3, <1>4

\* _drain_send empties the queue, if there is a transport.
LEMMA DrainSendFacts ==
    ASSUME NEW x \in ClientStates, NEW c \in Http3Clients
    PROVE  /\ DrainSend(x, c) \in Http3Clients /\ Calm(c, DrainSend(x, c))
           /\ DrainSend(x, c).last_error = c.last_error
           /\ DrainSend(x, c).send_queue = IF x.transport THEN <<>> ELSE c.send_queue
<1>1. <<>> \in Seq({"packet", "close"})
  OBVIOUS
<1> QED BY <1>1 DEF DrainSend, Http3Clients, Calm

\* _process of a client that is not closed.
LEMMA ProcessFacts ==
    ASSUME NEW x \in ClientStates, NEW c \in Http3Clients, x.core, ~x.closed
    PROVE  LET a == Process(x, c)
           IN /\ a.x \in ClientStates /\ a.c \in Http3Clients /\ Calm(c, a.c)
              /\ a.x.core /\ a.x.transport = x.transport /\ a.x.waiters = {}
              /\ a.c.send_queue = IF x.transport THEN <<>> ELSE c.send_queue
              /\ a.x.closed <=> Dead(x, c)
              /\ c.conn = "open" => a.x.timer /\ a.x.was_connected
              /\ c.conn # "open" => ~a.x.timer /\ a.x.was_connected = x.was_connected
<1> DEFINE a == Process(x, c)
           d == DrainSend(x, c)
           w == x.was_connected \/ d.conn = "open"
           z == [x EXCEPT !.was_connected = w, !.timer = (d.conn = "open"), !.waiters = {}]
<1>1. /\ d \in Http3Clients /\ Calm(c, d) /\ d.last_error = c.last_error /\ d.conn = c.conn
      /\ d.send_queue = IF x.transport THEN <<>> ELSE c.send_queue
  BY DrainSendFacts DEF Calm
<1>2. Dead(x, d) <=> Dead(x, c)
  BY <1>1 DEF Dead, IsConnected
<1>3. CASE Dead(x, d)
  <2>1. a.x = Teardown(x) /\ a.c = d
    BY <1>3 DEF Process
  <2>2. c.conn # "open"
    BY <1>1, <1>3 DEF Dead, IsConnected
  <2>3. ~Teardown(x).timer
    BY DEF Teardown, WakeWaiters, ClientStates
  <2> HIDE DEF a, d
  <2>4. /\ a.x \in ClientStates /\ a.x.closed /\ a.x.core = x.core /\ a.x.transport = x.transport
        /\ a.x.was_connected = x.was_connected /\ a.x.waiters = {}
    <3> DEFINE z0 == Teardown(x)
    <3>1. /\ z0 \in ClientStates /\ z0.closed /\ z0.core = x.core /\ z0.transport = x.transport
          /\ z0.was_connected = x.was_connected /\ z0.waiters = IF x.closed THEN x.waiters ELSE {}
      BY TeardownFacts
    <3> HIDE DEF z0
    <3> QED BY <2>1, <3>1 DEF z0
  <2>5. a.c \in Http3Clients /\ Calm(c, a.c) /\ a.c.send_queue = IF x.transport THEN <<>> ELSE c.send_queue
    BY <1>1, <2>1
  <2> QED BY <1>2, <1>3, <2>1, <2>2, <2>3, <2>4, <2>5 DEF a
<1>4. CASE ~Dead(x, d)
  <2>1. a.x = WakeWaiters(RescheduleTimer([x EXCEPT !.was_connected = @ \/ IsConnected(d)], d))
        /\ a.c = NextTimeoutMs(d).c
    BY <1>4 DEF Process
  <2>2. NextTimeoutMs(d).val = (d.conn = "open") /\ NextTimeoutMs(d).c = ResetRuntimeError(d)
    BY DEF NextTimeoutMs, HasAlarm, Out
  <2>3. a.x = z
    BY <2>1, <2>2 DEF WakeWaiters, RescheduleTimer, IsConnected, ClientStates
  <2> HIDE DEF a, d
  <2>4. w \in BOOLEAN
    OBVIOUS
  <2>5. /\ z \in ClientStates /\ z.core = x.core /\ z.transport = x.transport /\ z.waiters = {}
        /\ z.closed = x.closed
    BY DEF ClientStates
  <2>6. z.timer = (d.conn = "open") /\ z.was_connected = w
    BY DEF ClientStates
  <2>7. /\ a.c \in Http3Clients /\ Calm(d, a.c) /\ a.c.send_queue = d.send_queue
    BY <1>1, <2>1, <2>2, ResetFacts
  <2>8. Calm(c, a.c)
    BY <1>1, <2>7, CalmTransitive
  <2>9. c.conn = "open" => a.x.timer /\ a.x.was_connected
    BY <1>1, <2>3, <2>6
  <2>10. c.conn # "open" => ~a.x.timer /\ a.x.was_connected = x.was_connected
    <3>1. c.conn # "open" => w = x.was_connected
      BY <1>1 DEF ClientStates
    <3> QED BY <1>1, <2>3, <2>6, <3>1
  <2> HIDE DEF z
  <2> QED BY <1>1, <1>2, <1>4, <2>3, <2>5, <2>7, <2>8, <2>9, <2>10 DEF a
<1> QED BY <1>3, <1>4

\* _process settles the client after a call on a connection.
LEMMA ProcessSettles ==
    ASSUME NEW x \in ClientStates, NEW c \in Http3Clients, InStep(c), x.core, ~x.closed, x.transport,
           \/ c.conn = "open" \/ (c.conn = "closed" /\ (x.was_connected \/ c.last_error # NoError))
           \/ c.conn = "failed" /\ ~x.was_connected
    PROVE  LET a == Process(x, c)
           IN /\ a.x \in ClientStates /\ a.c \in Http3Clients /\ InStep(a.c) /\ Calm(c, a.c)
              /\ Settled(a.x, a.c) /\ a.x.core /\ a.x.waiters = {}
              /\ c.conn # "failed" => (a.x.closed <=> c.conn = "closed")
              /\ c.conn = "failed" /\ c.last_error = NoError => ~a.x.closed
<1> DEFINE a == Process(x, c)
<1>1. /\ a.x \in ClientStates /\ a.c \in Http3Clients /\ Calm(c, a.c)
      /\ a.x.core /\ a.x.transport = x.transport /\ a.x.waiters = {}
      /\ a.c.send_queue = IF x.transport THEN <<>> ELSE c.send_queue
      /\ a.x.closed <=> Dead(x, c)
      /\ c.conn = "open" => a.x.timer /\ a.x.was_connected
      /\ c.conn # "open" => ~a.x.timer /\ a.x.was_connected = x.was_connected
  BY ProcessFacts
<1> HIDE DEF a
<1>2. /\ c.conn # "failed" => (Dead(x, c) <=> c.conn = "closed")
      /\ c.conn = "failed" /\ c.last_error = NoError => ~Dead(x, c)
  BY DEF Dead, IsConnected
<1>3. InStep(a.c)
  BY <1>1, CalmEvolves DEF Evolves
<1>4. a.c.conn = c.conn /\ a.c.send_queue = <<>>
  BY <1>1 DEF Calm
<1>5. NoClose(a.c)
  BY <1>4 DEF NoClose
<1>6. Settled(a.x, a.c)
  BY <1>1, <1>2, <1>4, <1>5 DEF Settled
<1> QED BY <1>1, <1>2, <1>3, <1>6 DEF a

\* Settled speaks of the connection, of the queue and of the streams only; a
\* stream can be given away while the queue is empty.
LEMMA SettledKept ==
    ASSUME NEW x, NEW c, NEW d, Settled(x, c), d.conn = c.conn, d.send_queue = c.send_queue,
           Calm(c, d) \/ (c.conn = "open" /\ CreateClientStream(c) # {})
    PROVE  Settled(x, d)
<1>1. NoClose(d) <=> NoClose(c)
  BY DEF NoClose
<1>2. CASE Calm(c, d)
  <2>1. CreateClientStream(d) = CreateClientStream(c)
    BY <1>2 DEF CreateClientStream, Calm
  <2>2. Blank(c) => Blank(d)
    BY <1>2 DEF Blank, Calm
  <2> QED BY <1>1, <2>1, <2>2 DEF Settled
<1>3. CASE c.conn = "open" /\ CreateClientStream(c) # {}
  BY <1>1, <1>3 DEF Settled
<1> QED BY <1>2, <1>3

\* A torn down client is settled, whatever its core.
LEMMA TeardownSettles ==
    ASSUME NEW x \in ClientStates, NEW c, Settled(x, c)
    PROVE  Settled(Teardown(x), c)
<1> DEFINE z == Teardown(x)
<1>1. /\ z.closed /\ z.core = x.core /\ z.transport = x.transport
      /\ z.was_connected = x.was_connected /\ (z.timer => x.timer)
  BY TeardownFacts
<1> HIDE DEF z
<1> QED BY <1>1 DEF Settled, z

\* A task that sleeps stays right to.
LEMMA SleepsKept ==
    ASSUME NEW o, NEW x, NEW y, NEW c, NEW d, Sleeps(o, x, c), Calm(c, d), y.closed = x.closed
    PROVE  Sleeps(o, y, d)
<1>1. CreateClientStream(d) = CreateClientStream(c)
  BY DEF CreateClientStream, Calm
<1> QED BY <1>1 DEF Sleeps, Calm

\* The state x, c of the client is one the invariant allows, with the tasks
\* other than p where they are.
Good(p, x, c) ==
    /\ x \in ClientStates /\ c \in Http3Clients /\ InStep(c) /\ Settled(x, c)
    /\ x.core = client.core
    /\ c.conn = "none" => core.conn = "none"
    /\ core.conn # "none" => (c.conn = "failed" <=> core.conn = "failed")
    /\ \A q \in x.waiters \ {p} : task[q].pc = "wait" /\ Sleeps(task[q].op, x, c)

\* The task p ends its turn, and the tasks of connect() still have theirs.
LEMMA StepKeeps ==
    ASSUME Inv, NEW p \in Tasks, NEW x, NEW c, Good(p, x, c),
           NEW t \in TaskStates, t.pc \in {"idle", "wait"},
           t.pc = "wait" => /\ x.core /\ c.conn # "none"
                            /\ t.op.kind = "is_connected" <=> c.conn = "failed",
           \/ c.conn # "failed" \/ x.closed \/ t.pc = "wait"
           \/ core.conn = "failed" /\ ~client.closed /\ task[p].pc # "wait",
           p \in x.waiters => t.pc = "wait" /\ Sleeps(t.op, x, c),
           c.conn = "none" \/ \A q \in Tasks \ {p} : task[q].pc \notin {"endpoint", "opened"},
           got' \in Seq(StreamIds), Delivered(got', c),
           client' = x, core' = c, task' = [task EXCEPT ![p] = t]
    PROVE  Inv'
<1>1. task \in [Tasks -> TaskStates] /\ OneConnect /\ Asleep /\ FailureAwaited
  BY DEF Inv, TypeOK
<1>2. task' \in [Tasks -> TaskStates] /\ \A q \in Tasks : task'[q] = IF q = p THEN t ELSE task[q]
  BY <1>1
<1>3. TypeOK' /\ InStep(core)' /\ Delivered(got, core)' /\ Settled(client, core)'
  BY <1>2 DEF TypeOK, Good
<1>4. OneConnect'
  <2>1. \A q \in Tasks : task'[q].pc = "resolve" => ~client'.core
    BY <1>1, <1>2 DEF OneConnect, Good
  <2>2. \A q \in Tasks : task'[q].pc \in {"endpoint", "opened"} => client'.core /\ core'.conn = "none"
    BY <1>1, <1>2 DEF OneConnect, Good
  <2>3. \A q, u \in Tasks :
          task'[q].pc \in {"resolve", "endpoint", "opened"}
          /\ task'[u].pc \in {"resolve", "endpoint", "opened"} => q = u
    BY <1>1, <1>2 DEF OneConnect
  <2> QED BY <2>1, <2>2, <2>3 DEF OneConnect
<1>5. Asleep'
  <2>1. \A q \in Tasks : task'[q].pc = "wait" =>
          /\ client'.core /\ core'.conn # "none"
          /\ task'[q].op.kind = "is_connected" <=> core'.conn = "failed"
    BY <1>1, <1>2 DEF Asleep, Good
  <2>2. \A q \in client'.waiters : q \in Tasks
    BY DEF Good, ClientStates
  <2>3. \A q \in client'.waiters : task'[q].pc = "wait" /\ Sleeps(task'[q].op, client', core')
    BY <1>2, <2>2 DEF Good
  <2> QED BY <2>1, <2>3 DEF Asleep
<1>6. FailureAwaited'
  BY <1>1, <1>2 DEF FailureAwaited
<1> QED BY <1>3, <1>4, <1>5, <1>6 DEF Inv

\* A callback: no task moves.
LEMMA EventKeeps ==
    ASSUME Inv, NEW x, NEW c, x \in ClientStates, c \in Http3Clients, InStep(c), Settled(x, c),
           x.core = client.core, client.closed => x.closed,
           c.conn = "none" <=> core.conn = "none", c.conn = "failed" <=> core.conn = "failed",
           \A q \in x.waiters : task[q].pc = "wait" /\ Sleeps(task[q].op, x, c),
           Delivered(got, c), client' = x, core' = c, task' = task, got' = got
    PROVE  Inv'
<1>1. TypeOK' /\ InStep(core)' /\ Delivered(got, core)' /\ Settled(client, core)'
  BY DEF Inv, TypeOK
<1>2. OneConnect'
  BY DEF Inv, OneConnect
<1>3. Asleep' /\ FailureAwaited'
  BY DEF Inv, Asleep, FailureAwaited
<1> QED BY <1>1, <1>2, <1>3 DEF Inv

\* The results of a task and what it can await have their types.
LEMMA TaskTypes ==
    /\ \A res \in Results : IdleTask(res) \in TaskStates /\ IdleTask(res).pc = "idle"
    /\ \A o \in Attempted : /\ [pc |-> "wait", op |-> o, res |-> "none"] \in TaskStates
                            /\ [pc |-> "wait", op |-> o, res |-> "none"].pc = "wait"
                            /\ [pc |-> "wait", op |-> o, res |-> "none"].op = o
    /\ \A id \in StreamIds : TakeOp(id) \in Attempted /\ TakeOp(id).kind = "take" /\ TakeOp(id).id = id
    /\ ConnectedOp \in Attempted /\ ConnectedOp.kind = "is_connected"
<1>1. ConnectedOp \in Attempted /\ ConnectedOp.kind = "is_connected"
  BY DEF ConnectedOp, Attempted
<1>2. \A res \in Results : IdleTask(res) \in TaskStates /\ IdleTask(res).pc = "idle"
  BY <1>1 DEF IdleTask, TaskStates
<1>3. \A id \in StreamIds : TakeOp(id) \in Attempted /\ TakeOp(id).kind = "take" /\ TakeOp(id).id = id
  BY DEF TakeOp, Attempted
<1>4. "none" \in Results
  BY DEF Results
<1>5. \A o \in Attempted : /\ [pc |-> "wait", op |-> o, res |-> "none"] \in TaskStates
                            /\ [pc |-> "wait", op |-> o, res |-> "none"].pc = "wait"
                            /\ [pc |-> "wait", op |-> o, res |-> "none"].op = o
  BY <1>4 DEF TaskStates
<1> QED BY <1>1, <1>2, <1>3, <1>5

\* A turn that ends the call.
LEMMA RaiseKeeps ==
    ASSUME Inv, NEW p \in Tasks, NEW x, NEW c, Good(p, x, c), p \notin x.waiters, NEW res \in Results,
           c.conn = "none" \/ \A q \in Tasks \ {p} : task[q].pc \notin {"endpoint", "opened"},
           \/ c.conn # "failed" \/ x.closed
           \/ core.conn = "failed" /\ ~client.closed /\ task[p].pc # "wait",
           Delivered(got, c), Raise(p, res, x, c)
    PROVE  Inv'
<1> DEFINE t == IdleTask(res)
<1>1. t \in TaskStates /\ t.pc = "idle"
  BY TaskTypes
<1>2. client' = x /\ core' = c /\ task' = [task EXCEPT ![p] = t] /\ got' = got
  BY DEF Raise, Finished
<1>3. got' \in Seq(StreamIds) /\ Delivered(got', c)
  BY <1>2 DEF Inv, TypeOK
<1> HIDE DEF t
<1> QED BY <1>1, <1>2, <1>3, StepKeeps

\* A turn that puts the task to sleep.
LEMMA SleepKeeps ==
    ASSUME Inv, NEW p \in Tasks, NEW x, NEW c, Good(p, x, c), NEW o \in Attempted,
           x.core, Sleeps(o, x, c),
           \A q \in Tasks \ {p} : task[q].pc \notin {"endpoint", "opened"},
           Delivered(got, c), Sleep(p, o, x, c)
    PROVE  Inv'
<1> DEFINE t == [pc |-> "wait", op |-> o, res |-> "none"]
           y == [x EXCEPT !.waiters = @ \cup {p}]
<1>1. t \in TaskStates /\ t.pc = "wait" /\ t.op = o
  BY TaskTypes
<1>2. client' = y /\ core' = c /\ task' = [task EXCEPT ![p] = t] /\ got' = got
  BY DEF Sleep
<1>3. got' \in Seq(StreamIds) /\ Delivered(got', c)
  BY <1>2 DEF Inv, TypeOK
<1>4. /\ y \in ClientStates /\ y.core = x.core /\ y.closed = x.closed /\ y.transport = x.transport
      /\ y.was_connected = x.was_connected /\ y.timer = x.timer /\ y.waiters = x.waiters \cup {p}
  BY DEF Good, ClientStates
<1> HIDE DEF t, y
<1>5. Settled(y, c)
  BY <1>4 DEF Good, Settled
<1>6. \A i : Sleeps(i, x, c) => Sleeps(i, y, c)
  BY <1>4 DEF Sleeps
<1>7. Good(p, y, c)
  BY <1>4, <1>5, <1>6 DEF Good
<1>8. c.conn # "none" /\ (t.op.kind = "is_connected" <=> c.conn = "failed") /\ Sleeps(t.op, y, c)
  BY <1>1, <1>6 DEF Sleeps
<1> QED BY <1>1, <1>2, <1>3, <1>4, <1>7, <1>8, StepKeeps

-----------------------------------------------------------------------------
(* The turns of the tasks.                                                 *)

\* The second wait of request().
LEMMA TakeTurnKeeps ==
    ASSUME Inv, NEW p \in Tasks, NEW id \in StreamIds, NEW x, NEW c, Good(p, x, c), p \notin x.waiters,
           x.core, c.conn \notin {"none", "failed"}, Delivered(got, c),
           \A q \in Tasks \ {p} : task[q].pc \notin {"endpoint", "opened"},
           TakeTurn(p, id, x, c)
    PROVE  Inv'
<1>1. /\ x \in ClientStates /\ c \in Http3Clients /\ InStep(c) /\ Settled(x, c) /\ x.core = client.core
      /\ \A q \in x.waiters \ {p} : task[q].pc = "wait" /\ Sleeps(task[q].op, x, c)
      /\ core.conn # "none" => (c.conn = "failed" <=> core.conn = "failed")
  BY DEF Good
<1>2. CASE x.closed
  <2>1. Raise(p, "ConnectionError", x, c)
    BY <1>2 DEF TakeTurn
  <2>2. "ConnectionError" \in Results
    BY DEF Results, Exceptions
  <2> QED BY <2>1, <2>2, RaiseKeeps
<1>3. CASE ~x.closed
  <2>1. PICK r \in py_take_response(c, id) :
          IF r.ret = "None" THEN Sleep(p, TakeOp(id), x, r.c)
          ELSE /\ client' = Process(x, r.c).x /\ core' = Process(x, r.c).c
               /\ Finished(p, "response") /\ got' = Append(got, id)
    BY <1>3 DEF TakeTurn
  <2>2. /\ r.c \in Http3Clients /\ InStep(r.c) /\ r.c.conn = c.conn /\ r.c.send_queue = c.send_queue
        /\ r.ret = "None" <=> id \notin c.responses
        /\ r.ret = "None" => Calm(c, r.c)
        /\ r.c.responses = c.responses \ {id} /\ r.c.completed = c.completed
    BY <1>1, TakeFacts
  <2>3. c.conn = "open" /\ x.transport /\ x.was_connected
    <3>1. c.conn \in {"none", "open", "closed", "failed"}
      BY <1>1 DEF Http3Clients
    <3> QED BY <1>1, <1>3, <3>1 DEF Settled
  <2>4. CASE r.ret = "None"
    <3>1. Sleep(p, TakeOp(id), x, r.c)
      BY <2>1, <2>4
    <3>2. /\ TakeOp(id) \in Attempted /\ TakeOp(id).kind = "take" /\ TakeOp(id).id = id
      BY TaskTypes
    <3>3. Settled(x, r.c)
      BY <1>1, <2>2, <2>4, SettledKept
    <3>4. \A o : Sleeps(o, x, c) => Sleeps(o, x, r.c)
      BY <2>2, <2>4, SleepsKept
    <3>5. Good(p, x, r.c)
      BY <1>1, <2>2, <2>3, <3>3, <3>4 DEF Good
    <3>6. Sleeps(TakeOp(id), x, r.c)
      BY <1>3, <2>2, <2>3, <2>4, <3>2 DEF Sleeps
    <3>7. Delivered(got, r.c)
      BY <2>2, <2>4, DeliveredKept DEF Calm
    <3> QED BY <3>1, <3>2, <3>5, <3>6, <3>7, SleepKeeps
  <2>5. CASE r.ret # "None"
    <3> DEFINE a == Process(x, r.c)
               t == IdleTask("response")
    <3>1. /\ client' = a.x /\ core' = a.c /\ task' = [task EXCEPT ![p] = t] /\ got' = Append(got, id)
      BY <2>1, <2>5 DEF Finished
    <3>2. /\ a.x \in ClientStates /\ a.c \in Http3Clients /\ InStep(a.c) /\ Calm(r.c, a.c)
          /\ Settled(a.x, a.c) /\ a.x.core /\ a.x.waiters = {}
      BY <1>1, <1>3, <2>2, <2>3, ProcessSettles
    <3> HIDE DEF a
    <3>3. "response" \in Results
      BY DEF Results
    <3>4. t \in TaskStates /\ t.pc = "idle"
      BY <3>3, TaskTypes
    <3> HIDE DEF t
    <3>5. a.c.responses = c.responses \ {id} /\ a.c.completed = c.completed /\ a.c.conn = "open"
      BY <2>2, <2>3, <3>2 DEF Calm
    <3>6. got' \in Seq(StreamIds) /\ Delivered(got', a.c)
      <4>1. got \in Seq(StreamIds)
        BY DEF Inv, TypeOK
      <4> QED BY <2>2, <2>5, <3>1, <3>5, <4>1, DeliveredTaken
    <3>7. a.x.core = client.core
      BY <1>1, <3>2 DEF ClientStates, Inv, TypeOK
    <3>8. Good(p, a.x, a.c)
      BY <3>2, <3>5, <3>7 DEF Good
    <3> QED BY <3>1, <3>2, <3>4, <3>5, <3>6, <3>8, StepKeeps
  <2> QED BY <2>4, <2>5
<1> QED BY <1>2, <1>3

\* The invariant makes the present state a good one.
LEMMA GoodNow ==
    ASSUME Inv, NEW p \in Tasks
    PROVE  /\ Good(p, client, core) /\ Delivered(got, core)
           /\ core.conn = "none" \/ \A q \in Tasks \ {p} : task[q].pc \notin {"endpoint", "opened"}
BY DEF Inv, TypeOK, Good, Asleep, OneConnect

\* The first wait of request(), and what follows once the request is sent.
LEMMA SubmitTurnKeeps ==
    ASSUME Inv, NEW p \in Tasks, p \notin client.waiters, client.core,
           NEW o \in Attempted, o.kind = "submit", SubmitTurn(p, o),
           core.conn = "failed" => task[p].pc # "wait"
    PROVE  Inv'
<1>1. /\ Good(p, client, core) /\ Delivered(got, core)
      /\ core.conn = "none" \/ \A q \in Tasks \ {p} : task[q].pc \notin {"endpoint", "opened"}
  BY GoodNow
<1>2. /\ client \in ClientStates /\ core \in Http3Clients /\ InStep(core) /\ Settled(client, core)
      /\ \A q \in client.waiters \ {p} : task[q].pc = "wait" /\ Sleeps(task[q].op, client, core)
  BY <1>1 DEF Good
<1>3. o.named \in BOOLEAN /\ o.fin \in BOOLEAN
  BY DEF Attempted
<1>4. CASE client.closed
  <2>1. Raise(p, "ConnectionError", client, core)
    BY <1>4 DEF SubmitTurn
  <2>2. "ConnectionError" \in Results
    BY DEF Results, Exceptions
  <2> QED BY <1>1, <2>1, <2>2, RaiseKeeps
<1>5. CASE ~client.closed
  <2>1. PICK r \in py_submit_request(core, o.named, o.fin) :
          IF r.ret = "None" THEN Sleep(p, o, client, r.c)
          ELSE IF r.ret # "value" THEN Raise(p, r.ret, client, r.c)
          ELSE TakeTurn(p, r.val, Process(client, r.c).x, Process(client, r.c).c)
    BY <1>5 DEF SubmitTurn
  <2>2. /\ r.c \in Http3Clients /\ InStep(r.c) /\ r.c.conn = core.conn
        /\ r.c.responses = core.responses /\ r.c.completed = core.completed
        /\ r.ret \notin {"None", "value"} => r.c.send_queue = core.send_queue
        /\ r.ret = "None" /\ NoClose(core) => NoClose(r.c)
        /\ r.ret = "None" <=> core.conn = "open" /\ CreateClientStream(core) = {}
        /\ r.ret = "None" \/ core.conn # "open" => Calm(core, r.c)
        /\ r.ret \in {"None", "value", "ValueError", "RuntimeError"}
        /\ r.ret = "value" => core.conn = "open" /\ r.val \in StreamIds
    BY <1>2, <1>3, SubmitFacts
  <2>3. Delivered(got, r.c)
    BY <1>1, <2>2, DeliveredKept
  <2>4. CASE r.ret # "value"
    <3>1. Settled(client, r.c)
      <4>1. CASE r.ret # "None"
        BY <1>2, <2>2, <2>4, <4>1, SettledKept
      <4>2. CASE r.ret = "None"
        <5>1. CreateClientStream(r.c) = CreateClientStream(core)
          BY <2>2, <4>2 DEF CreateClientStream, Calm
        <5> QED BY <1>2, <1>5, <2>2, <4>2, <5>1 DEF Settled
      <4> QED BY <4>1, <4>2
    <3>2. \A q \in client.waiters \ {p} : task[q].pc = "wait" /\ Sleeps(task[q].op, client, r.c)
      <4>1. CASE Calm(core, r.c)
        BY <1>2, <4>1, SleepsKept
      <4>2. CASE ~Calm(core, r.c)
        <5>1. core.conn = "open" /\ CreateClientStream(core) # {}
          BY <2>2, <4>2
        <5> QED BY <1>2, <2>2, <5>1 DEF Sleeps
      <4> QED BY <4>1, <4>2
    <3>3. Good(p, client, r.c)
      BY <1>2, <2>2, <3>1, <3>2 DEF Good
    <3>4. CASE r.ret = "None"
      <4>1. Sleep(p, o, client, r.c)
        BY <2>1, <3>4
      <4>2. Sleeps(o, client, r.c)
        <5>1. CreateClientStream(r.c) = CreateClientStream(core)
          BY <2>2, <3>4 DEF CreateClientStream, Calm
        <5> QED BY <1>5, <2>2, <3>4, <5>1 DEF Sleeps
      <4> QED BY <1>1, <2>2, <2>3, <3>3, <3>4, <4>1, <4>2, SleepKeeps
    <3>5. CASE r.ret # "None"
      <4>1. Raise(p, r.ret, client, r.c)
        BY <2>1, <2>4, <3>5
      <4>2. r.ret \in Results
        BY <2>2, <2>4, <3>5 DEF Results, Exceptions
      <4> QED BY <1>1, <1>5, <2>2, <2>3, <3>3, <4>1, <4>2, RaiseKeeps
    <3> QED BY <3>4, <3>5
  <2>5. CASE r.ret = "value"
    <3> DEFINE a == Process(client, r.c)
    <3>1. TakeTurn(p, r.val, a.x, a.c)
      BY <2>1, <2>5
    <3>2. client.transport /\ core.conn = "open" /\ r.c.conn = "open" /\ r.val \in StreamIds
      BY <1>2, <1>5, <2>2, <2>5 DEF Settled
    <3>3. /\ a.x \in ClientStates /\ a.c \in Http3Clients /\ InStep(a.c) /\ Calm(r.c, a.c)
          /\ Settled(a.x, a.c) /\ a.x.core /\ a.x.waiters = {}
      BY <1>2, <1>5, <2>2, <3>2, ProcessSettles
    <3> HIDE DEF a
    <3>4. a.c.conn = "open" /\ Delivered(got, a.c)
      BY <2>3, <3>2, <3>3, DeliveredKept DEF Calm
    <3>5. a.x.core = client.core
      BY <1>2, <3>3 DEF ClientStates
    <3>6. Good(p, a.x, a.c)
      BY <3>2, <3>3, <3>4, <3>5 DEF Good
    <3> QED BY <1>1, <3>1, <3>2, <3>3, <3>4, <3>6, TakeTurnKeeps
  <2> QED BY <2>4, <2>5
<1> QED BY <1>4, <1>5

\* request() is called, a sleeping task runs again, a wait is interrupted.
LEMMA WaitsKeepInv ==
    ASSUME Inv, NEW p \in Tasks, NEW o \in Attempted, NEW e \in {"TimeoutError", "CancelledError"},
           Request(p, o) \/ Wake(p) \/ Interrupt(p, e)
    PROVE  Inv'
<1>1. /\ client \in ClientStates /\ task \in [Tasks -> TaskStates] /\ OneConnect /\ Asleep
      /\ Settled(client, core)
  BY DEF Inv, TypeOK
<1>2. /\ Good(p, client, core) /\ Delivered(got, core)
      /\ core.conn = "none" \/ \A q \in Tasks \ {p} : task[q].pc \notin {"endpoint", "opened"}
  BY GoodNow
<1>3. CASE Request(p, o)
  <2>1. /\ p \notin client.waiters /\ client.core /\ o.kind = "submit" /\ SubmitTurn(p, o)
        /\ task[p].pc # "wait"
    BY <1>1, <1>3 DEF Request, Asleep
  <2> QED BY <2>1, SubmitTurnKeeps
<1>4. task[p].pc = "wait" =>
        /\ client.core /\ core.conn # "none" /\ task[p].op \in Attempted
        /\ task[p].op.kind = "is_connected" <=> core.conn = "failed"
  BY <1>1 DEF Asleep, TaskStates
<1>5. CASE Wake(p)
  <2>1. task[p].pc = "wait" /\ p \notin client.waiters
    BY <1>5 DEF Wake
  <2>0. CASE task[p].op.kind = "is_connected"
    <3>1. ConnectTurn(p, client, core) /\ core.conn = "failed"
      BY <1>4, <1>5, <2>0, <2>1 DEF Wake
    <3>2. CASE client.closed
      <4>1. Raise(p, "ConnectionError", client, core)
        BY <3>1, <3>2 DEF ConnectTurn
      <4>2. "ConnectionError" \in Results
        BY DEF Results, Exceptions
      <4> QED BY <1>2, <2>1, <3>2, <4>1, <4>2, RaiseKeeps
    <3>3. CASE ~client.closed
      <4>1. Sleep(p, ConnectedOp, client, core)
        BY <3>1, <3>3 DEF ConnectTurn, IsConnected
      <4>2. ConnectedOp \in Attempted /\ Sleeps(ConnectedOp, client, core)
        BY <3>1, <3>3, TaskTypes DEF Sleeps
      <4> QED BY <1>2, <1>4, <2>1, <3>1, <4>1, <4>2, SleepKeeps
    <3> QED BY <3>2, <3>3
  <2>2. CASE task[p].op.kind = "submit"
    <3>1. SubmitTurn(p, task[p].op)
      BY <1>5, <2>2 DEF Wake
    <3> QED BY <1>4, <2>1, <2>2, <3>1, SubmitTurnKeeps
  <2>3. CASE task[p].op.kind = "take"
    <3>1. TakeTurn(p, task[p].op.id, client, core)
      BY <1>5, <2>3 DEF Wake
    <3>2. task[p].op.id \in StreamIds
      BY <1>4, <2>1, <2>3 DEF Attempted
    <3> QED BY <1>2, <1>4, <2>1, <2>3, <3>1, <3>2, TakeTurnKeeps
  <2> QED BY <1>4, <2>0, <2>1, <2>2, <2>3 DEF Attempted
<1>6. CASE Interrupt(p, e)
  <2> DEFINE x == [client EXCEPT !.waiters = @ \ {p}]
  <2>1. task[p].op = ConnectedOp <=> core.conn = "failed"
    BY <1>4, <1>6, TaskTypes DEF Interrupt, Attempted, ConnectedOp
  <2>2. Raise(p, e, IF task[p].op = ConnectedOp THEN Teardown(x) ELSE x, core) /\ task[p].pc = "wait"
    BY <1>6 DEF Interrupt
  <2>3. /\ x \in ClientStates /\ x.core = client.core /\ x.closed = client.closed
        /\ x.transport = client.transport /\ x.was_connected = client.was_connected
        /\ x.timer = client.timer /\ x.waiters = client.waiters \ {p}
    BY <1>1 DEF ClientStates
  <2> HIDE DEF x
  <2>4. Settled(x, core)
    BY <1>1, <2>3 DEF Settled
  <2>5. \A i : Sleeps(i, client, core) => Sleeps(i, x, core)
    BY <2>3 DEF Sleeps
  <2>6. Good(p, x, core) /\ p \notin x.waiters
    BY <1>2, <2>3, <2>4, <2>5 DEF Good
  <2>7. e \in Results
    BY DEF Results
  <2>8. CASE task[p].op # ConnectedOp
    BY <1>2, <2>1, <2>2, <2>6, <2>7, <2>8, RaiseKeeps
  <2>9. CASE task[p].op = ConnectedOp
    <3> DEFINE y == Teardown(x)
    <3>1. /\ y \in ClientStates /\ y.closed /\ y.core = x.core
          /\ y.waiters = IF x.closed THEN x.waiters ELSE {}
      BY <2>3, TeardownFacts
    <3>2. Settled(y, core)
      BY <2>3, <2>4, TeardownSettles
    <3> HIDE DEF y
    <3>3. y.waiters = {}
      BY <1>1, <2>3, <3>1 DEF Asleep, Sleeps
    <3>4. Good(p, y, core)
      BY <1>2, <2>3, <3>1, <3>2, <3>3 DEF Good
    <3>5. Raise(p, e, y, core)
      BY <2>2, <2>9 DEF y
    <3> QED BY <1>2, <2>7, <3>1, <3>3, <3>4, <3>5, RaiseKeeps
  <2> QED BY <2>8, <2>9
<1> QED BY <1>3, <1>5, <1>6

\* A stage of connect(): the task p moves on and the socket may change.
LEMMA StageKeeps ==
    ASSUME Inv, NEW p \in Tasks, NEW x \in ClientStates, NEW pc \in {"resolve", "endpoint", "opened"},
           x.closed = client.closed, x.transport = client.transport, x.timer = client.timer,
           x.was_connected = client.was_connected, x.waiters = client.waiters,
           client.core => x.core, core.conn = "none", p \notin client.waiters,
           pc = "resolve" <=> ~x.core,
           \A q \in Tasks \ {p} : task[q].pc \notin {"resolve", "endpoint", "opened"},
           client' = x, core' = core, got' = got, Stage(p, pc)
    PROVE  Inv'
<1> DEFINE t == [pc |-> pc, op |-> ConnectedOp, res |-> "none"]
<1>1. task \in [Tasks -> TaskStates] /\ Asleep /\ Settled(client, core)
  BY DEF Inv, TypeOK
<1>2. t \in TaskStates /\ t.pc = pc
  BY TaskTypes DEF TaskStates, Results
<1>3. task' = [task EXCEPT ![p] = t]
  BY DEF Stage
<1> HIDE DEF t
<1>4. task' \in [Tasks -> TaskStates] /\ \A q \in Tasks : task'[q] = IF q = p THEN t ELSE task[q]
  BY <1>1, <1>2, <1>3
<1>5. Settled(x, core)
  BY <1>1 DEF Settled
<1>6. TypeOK' /\ InStep(core)' /\ Delivered(got, core)' /\ Settled(client, core)'
  BY <1>4, <1>5 DEF Inv, TypeOK
<1>7. OneConnect'
  <2>1. \A q \in Tasks : task'[q].pc \in {"resolve", "endpoint", "opened"} => q = p
    BY <1>4
  <2> QED BY <1>2, <1>4, <2>1 DEF OneConnect
<1>8. Asleep'
  <2>1. \A q \in Tasks : task[q].pc # "wait"
    BY <1>1 DEF Asleep
  <2>2. client.waiters = {}
    BY <1>1 DEF Asleep, Sleeps
  <2>3. \A q \in Tasks : task'[q].pc # "wait"
    BY <1>2, <1>4, <2>1
  <2> QED BY <2>2, <2>3 DEF Asleep
<1>9. FailureAwaited'
  BY DEF FailureAwaited
<1> QED BY <1>6, <1>7, <1>8, <1>9 DEF Inv

\* The stages of connect() before start().
LEMMA ConnectStagesKeepInv ==
    ASSUME Inv, NEW p \in Tasks, NEW e \in {"OSError", "RuntimeError", "CancelledError"},
           ConnectCall(p) \/ Resolved(p) \/ ConnectAborted(p, e) \/ EndpointMade(p) \/ EndpointCancelled(p)
    PROVE  Inv'
<1>1. /\ client \in ClientStates /\ OneConnect /\ Asleep /\ Settled(client, core)
  BY DEF Inv, TypeOK
<1>2. /\ Good(p, client, core) /\ Delivered(got, core)
      /\ core.conn = "none" \/ \A q \in Tasks \ {p} : task[q].pc \notin {"endpoint", "opened"}
  BY GoodNow
<1>3. p \notin client.waiters
  BY <1>1 DEF Asleep, ConnectCall, Resolved, ConnectAborted, EndpointMade, EndpointCancelled
<1>4. task[p].pc \in {"resolve", "endpoint", "opened"} =>
        \A q \in Tasks \ {p} : task[q].pc \notin {"resolve", "endpoint", "opened"}
  BY <1>1 DEF OneConnect
<1>n. ~client.core \/ task[p].pc \in {"resolve", "endpoint", "opened"} => core.conn = "none"
  BY <1>1 DEF OneConnect, Settled
<1>5. CASE ConnectCall(p)
  <2>1. /\ ~client.core /\ core.conn = "none" /\ client' = client /\ core' = core /\ got' = got
        /\ Stage(p, "resolve") /\ \A q \in Tasks : task[q].pc = "idle"
    BY <1>1, <1>5 DEF ConnectCall, Settled
  <2> QED BY <1>1, <1>3, <2>1, StageKeeps
<1>6. CASE Resolved(p)
  <2> DEFINE x == [client EXCEPT !.core = TRUE]
  <2>1. /\ ~client.core /\ core.conn = "none" /\ client' = x /\ core' = core /\ got' = got
        /\ Stage(p, "endpoint") /\ task[p].pc = "resolve"
    BY <1>1, <1>6 DEF Resolved, OneConnect, Settled
  <2>2. /\ x \in ClientStates /\ x.core = TRUE /\ x.closed = client.closed
        /\ x.transport = client.transport /\ x.was_connected = client.was_connected
        /\ x.timer = client.timer /\ x.waiters = client.waiters
    BY <1>1 DEF ClientStates
  <2> HIDE DEF x
  <2> QED BY <1>3, <1>4, <2>1, <2>2, StageKeeps
<1>7. CASE ConnectAborted(p, e)
  <2>1. Raise(p, e, client, core) /\ e \in Results /\ core.conn = "none"
    BY <1>7, <1>n DEF ConnectAborted, Results, Exceptions
  <2> QED BY <1>2, <1>3, <2>1, RaiseKeeps
<1>8. CASE EndpointMade(p)
  <2> DEFINE x == [client EXCEPT !.sock = "open"]
  <2>1. /\ client.core /\ core.conn = "none" /\ client' = x /\ core' = core /\ got' = got
        /\ Stage(p, "opened") /\ task[p].pc = "endpoint"
    BY <1>1, <1>8 DEF EndpointMade, OneConnect
  <2>2. /\ x \in ClientStates /\ x.core = client.core /\ x.closed = client.closed
        /\ x.transport = client.transport /\ x.was_connected = client.was_connected
        /\ x.timer = client.timer /\ x.waiters = client.waiters
    BY <1>1 DEF ClientStates
  <2> HIDE DEF x
  <2> QED BY <1>3, <1>4, <2>1, <2>2, StageKeeps
<1>9. CASE EndpointCancelled(p)
  <2> DEFINE x == [client EXCEPT !.sock = IF @ = "open" THEN "closing" ELSE @]
  <2>1. Raise(p, "CancelledError", x, core) /\ core.conn = "none"
    BY <1>9, <1>n DEF EndpointCancelled
  <2>2. /\ x \in ClientStates /\ x.core = client.core /\ x.closed = client.closed
        /\ x.transport = client.transport /\ x.was_connected = client.was_connected
        /\ x.timer = client.timer /\ x.waiters = client.waiters
    BY <1>1 DEF ClientStates
  <2> HIDE DEF x
  <2>3. Settled(x, core)
    BY <1>1, <2>2 DEF Settled
  <2>4. \A i : Sleeps(i, client, core) => Sleeps(i, x, core)
    BY <2>2 DEF Sleeps
  <2>5. Good(p, x, core)
    BY <1>2, <2>2, <2>3, <2>4 DEF Good
  <2>6. "CancelledError" \in Results
    BY DEF Results
  <2> QED BY <1>2, <1>3, <2>1, <2>2, <2>5, <2>6, RaiseKeeps
<1> QED BY <1>5, <1>6, <1>7, <1>8, <1>9

\* start() runs once, in connect(), on a core that was never started.
LEMMA ConnectStartKeepsInv ==
    ASSUME Inv, NEW p \in Tasks, ConnectStart(p)
    PROVE  Inv'
<1> DEFINE x == [client EXCEPT !.transport = TRUE]
<1>1. /\ client \in ClientStates /\ core \in Http3Clients /\ OneConnect /\ Asleep
      /\ Settled(client, core) /\ Delivered(got, core) /\ got \in Seq(StreamIds)
  BY DEF Inv, TypeOK
<1>2. /\ task[p].pc = "opened" /\ client.core /\ core.conn = "none" /\ Blank(core)
      /\ ~client.was_connected
  BY <1>1 DEF ConnectStart, OneConnect, Settled
<1>3. \A q \in Tasks \ {p} : task[q].pc \notin {"endpoint", "opened"}
  BY <1>1, <1>2 DEF OneConnect
<1>4. client.waiters = {}
  BY <1>1, <1>2 DEF Asleep, Sleeps
<1>5. /\ x \in ClientStates /\ x.core = client.core /\ x.closed = client.closed
      /\ x.transport = TRUE /\ x.was_connected = client.was_connected
      /\ x.timer = client.timer /\ x.waiters = {}
  BY <1>1, <1>4 DEF ClientStates
<1>6. PICK r \in py_start(core) : ConnectTurn(p, Process(x, r.c).x, Process(x, r.c).c)
  BY DEF ConnectStart
<1>7. /\ r.c \in Http3Clients /\ InStep(r.c) /\ r.c.responses = {} /\ r.c.completed = {}
      /\ r.c.conn \in {"open", "failed"} /\ r.c.last_error = NoError
  BY <1>1, <1>2, StartFacts
<1>8. Delivered(got, r.c)
  BY <1>1, <1>2, <1>7, DeliveredKept DEF Blank
<1> HIDE DEF x
<1> DEFINE a == Process(x, r.c)
<1>9. CASE client.closed
  <2>1. a.x = x /\ a.c = r.c
    BY <1>5, <1>9 DEF Process
  <2> HIDE DEF a
  <2>2. Raise(p, "ConnectionError", x, r.c)
    BY <1>5, <1>6, <1>9, <2>1 DEF ConnectTurn, a
  <2>3. Settled(x, r.c)
    BY <1>2, <1>5, <1>7, <1>9 DEF Settled
  <2>4. Good(p, x, r.c)
    BY <1>2, <1>5, <1>7, <2>3 DEF Good
  <2>5. "ConnectionError" \in Results
    BY DEF Results, Exceptions
  <2> QED BY <1>3, <1>5, <1>8, <1>9, <2>2, <2>4, <2>5, RaiseKeeps
<1>10. CASE ~client.closed
  <2>1. /\ a.x \in ClientStates /\ a.c \in Http3Clients /\ InStep(a.c) /\ Calm(r.c, a.c)
        /\ Settled(a.x, a.c) /\ a.x.core /\ a.x.waiters = {}
        /\ r.c.conn # "failed" => (a.x.closed <=> r.c.conn = "closed")
        /\ r.c.conn = "failed" /\ r.c.last_error = NoError => ~a.x.closed
    BY <1>2, <1>5, <1>7, <1>10, ProcessSettles
  <2>0. ConnectTurn(p, a.x, a.c)
    BY <1>6
  <2> HIDE DEF a
  <2>2. a.c.conn = r.c.conn /\ ~a.x.closed /\ Delivered(got, a.c)
    BY <1>7, <1>8, <2>1, DeliveredKept DEF Calm
  <2>3. a.x.core = client.core
    BY <1>1, <1>2, <2>1 DEF ClientStates
  <2>4. Good(p, a.x, a.c)
    BY <1>2, <1>7, <2>1, <2>2, <2>3 DEF Good
  <2>5. CASE r.c.conn = "open"
    <3>1. Raise(p, "connected", a.x, a.c)
      BY <2>0, <2>2, <2>5 DEF ConnectTurn, IsConnected
    <3>2. "connected" \in Results
      BY DEF Results
    <3> QED BY <1>3, <2>1, <2>2, <2>4, <2>5, <3>1, <3>2, RaiseKeeps
  <2>6. CASE r.c.conn = "failed"
    <3>1. Sleep(p, ConnectedOp, a.x, a.c)
      BY <2>0, <2>2, <2>6 DEF ConnectTurn, IsConnected
    <3>2. ConnectedOp \in Attempted /\ Sleeps(ConnectedOp, a.x, a.c)
      BY <2>2, <2>6, TaskTypes DEF Sleeps
    <3> QED BY <1>3, <2>1, <2>2, <2>4, <3>1, <3>2, SleepKeeps
  <2> QED BY <1>7, <2>5, <2>6
<1> QED BY <1>9, <1>10

-----------------------------------------------------------------------------
(* The callbacks and close().                                              *)

\* Where the client is before a callback that it does not ignore.
LEMMA Awake ==
    ASSUME Inv, client.core, ~client.closed
    PROVE  /\ client \in ClientStates /\ core \in Http3Clients /\ InStep(core) /\ Settled(client, core)
           /\ Delivered(got, core) /\ got \in Seq(StreamIds) /\ core.conn \in {"none", "open", "failed"}
           /\ core.conn = "open" => client.transport /\ client.was_connected
           /\ core.conn = "failed" => client.transport /\ ~client.was_connected
           /\ core.conn = "none" => client.waiters = {}
<1>1. /\ client \in ClientStates /\ core \in Http3Clients /\ InStep(core) /\ Settled(client, core)
      /\ Delivered(got, core) /\ got \in Seq(StreamIds) /\ Asleep
  BY DEF Inv, TypeOK
<1>2. core.conn \in {"none", "open", "closed", "failed"}
  BY <1>1 DEF Http3Clients
<1>3. core.conn = "none" => client.waiters = {}
  BY <1>1 DEF Asleep, Sleeps
<1> QED BY <1>1, <1>2, <1>3 DEF Settled

\* A call of QUICHE on a connection, then _process.
LEMMA CallbackKeeps ==
    ASSUME Inv, client.core, ~client.closed, core.conn # "none", NEW d, Evolves(core, d),
           core.conn = "open" /\ d.conn = "closed" => d.last_error # NoError,
           client' = Process(client, d).x, core' = Process(client, d).c, task' = task, got' = got
    PROVE  Inv'
<1> DEFINE a == Process(client, d)
<1>1. /\ client \in ClientStates /\ client.transport /\ Delivered(got, core) /\ got \in Seq(StreamIds)
      /\ core.conn \in {"open", "failed"} /\ (core.conn = "failed" => ~client.was_connected)
  BY Awake
<1>2. /\ d \in Http3Clients /\ InStep(d) /\ Answered(core, d)
      /\ core.conn = "open" => d.conn \in {"open", "closed"}
      /\ core.conn = "failed" <=> d.conn = "failed"
  BY DEF Evolves, Http3Clients
<1>3. /\ a.x \in ClientStates /\ a.c \in Http3Clients /\ InStep(a.c) /\ Calm(d, a.c)
      /\ Settled(a.x, a.c) /\ a.x.core /\ a.x.waiters = {}
  BY <1>1, <1>2, ProcessSettles
<1>4. client' = a.x /\ core' = a.c
  OBVIOUS
<1> HIDE DEF a
<1>5. Delivered(got, a.c)
  BY <1>1, <1>2, <1>3, DeliveredGrows, DeliveredKept DEF Calm
<1>6. a.x.core = client.core
  BY <1>1, <1>3 DEF ClientStates
<1>7. (a.c.conn = "none" <=> core.conn = "none") /\ (a.c.conn = "failed" <=> core.conn = "failed")
  BY <1>1, <1>2, <1>3 DEF Calm
<1> QED BY <1>3, <1>4, <1>5, <1>6, <1>7, EventKeeps

\* datagram_received and the timer.
LEMMA EventsKeepInv ==
    ASSUME Inv, NEW empty \in BOOLEAN, OnReceive(empty) \/ OnTimeout
    PROVE  Inv'
<1>1. client.core /\ ~client.closed /\ task' = task /\ got' = got
  BY DEF OnReceive, OnTimeout
<1>2. /\ client \in ClientStates /\ core \in Http3Clients /\ InStep(core) /\ Settled(client, core)
      /\ Delivered(got, core)
      /\ core.conn = "none" => client.waiters = {}
  BY <1>1, Awake
<1>3. CASE core.conn # "none"
  <2>1. PICK r \in py_receive_packet(core, empty) \cup py_handle_timeout(core) :
          \/ client' = Process(client, r.c).x /\ core' = Process(client, r.c).c
          \/ r.ret # "value"
    BY DEF OnReceive, OnTimeout
  <2>2. /\ Evolves(core, r.c) /\ r.ret = "value"
        /\ core.conn = "open" /\ r.c.conn = "closed" => r.c.last_error # NoError
    BY <1>2, <1>3, RunFacts
  <2> QED BY <1>1, <1>3, <2>1, <2>2, CallbackKeeps
<1>4. CASE core.conn = "none"
  <2>1. OnReceive(empty)
    BY <1>2, <1>4 DEF OnTimeout, Settled
  <2>2. PICK r \in py_receive_packet(core, empty) :
          IF r.ret = "value" THEN client' = Process(client, r.c).x /\ core' = Process(client, r.c).c
          ELSE client' = client /\ core' = r.c
    BY <2>1 DEF OnReceive
  <2>3. /\ r.c \in Http3Clients /\ Calm(core, r.c) /\ r.c.send_queue = core.send_queue
        /\ r.ret = "value" => r.c.last_error = NoError
    BY <1>2, <1>4, UnstartedFacts
  <2>4. r.c.conn = "none" /\ InStep(r.c) /\ Settled(client, r.c) /\ Delivered(got, r.c)
    BY <1>2, <1>4, <2>3, CalmEvolves, SettledKept, DeliveredKept DEF Calm, Evolves
  <2>5. CASE r.ret # "value"
    BY <1>1, <1>2, <1>4, <2>2, <2>3, <2>4, <2>5, EventKeeps
  <2>6. CASE r.ret = "value"
    <3> DEFINE a == Process(client, r.c)
    <3>1. client' = a.x /\ core' = a.c
      BY <2>2, <2>6
    <3>2. /\ a.x \in ClientStates /\ a.c \in Http3Clients /\ Calm(r.c, a.c)
          /\ a.x.core /\ a.x.transport = client.transport /\ a.x.waiters = {}
          /\ a.c.send_queue = IF client.transport THEN <<>> ELSE r.c.send_queue
          /\ r.c.conn # "open" => ~a.x.timer /\ a.x.was_connected = client.was_connected
      BY <1>1, <1>2, <2>3, ProcessFacts
    <3> HIDE DEF a
    <3>3. a.c.conn = "none" /\ InStep(a.c) /\ Delivered(got, a.c)
      BY <2>3, <2>4, <3>2, CalmEvolves, DeliveredKept DEF Calm, Evolves
    <3>4. Settled(a.x, a.c)
      BY <2>4, <3>2, <3>3 DEF Settled, Blank, Calm, NoClose
    <3>5. a.x.core = client.core
      BY <1>1, <1>2, <3>2 DEF ClientStates
    <3> QED BY <1>1, <1>4, <3>1, <3>2, <3>3, <3>4, <3>5, EventKeeps
  <2> QED BY <2>5, <2>6
<1> QED BY <1>2, <1>3, <1>4

\* The socket stops reading, or is lost.
LEMMA SocketKeepsInv ==
    ASSUME Inv, TransportFails \/ OnConnectionLost
    PROVE  Inv'
<1>1. /\ client \in ClientStates /\ core \in Http3Clients /\ InStep(core) /\ Settled(client, core)
      /\ Delivered(got, core) /\ Asleep
  BY DEF Inv, TypeOK
<1>2. ASSUME NEW s \in {"closing", "closed"}
      PROVE  LET x == [client EXCEPT !.sock = s]
             IN /\ x \in ClientStates /\ x.core = client.core /\ x.closed = client.closed
                /\ x.waiters = client.waiters /\ Settled(x, core)
                /\ \A i : Sleeps(i, client, core) => Sleeps(i, x, core)
  <2> DEFINE x == [client EXCEPT !.sock = s]
  <2>1. /\ x \in ClientStates /\ x.core = client.core /\ x.closed = client.closed
        /\ x.transport = client.transport /\ x.was_connected = client.was_connected
        /\ x.timer = client.timer /\ x.waiters = client.waiters
    BY <1>1 DEF ClientStates
  <2> HIDE DEF x
  <2>2. Settled(x, core)
    BY <1>1, <2>1 DEF Settled
  <2>3. \A i : Sleeps(i, client, core) => Sleeps(i, x, core)
    BY <2>1 DEF Sleeps
  <2> QED BY <2>1, <2>2, <2>3 DEF x
<1>3. CASE TransportFails
  <2> DEFINE x == [client EXCEPT !.sock = "closing"]
  <2>1. client' = x /\ core' = core /\ task' = task /\ got' = got
    BY <1>3 DEF TransportFails
  <2>2. /\ x \in ClientStates /\ x.core = client.core /\ x.closed = client.closed
        /\ x.waiters = client.waiters /\ Settled(x, core)
        /\ \A i : Sleeps(i, client, core) => Sleeps(i, x, core)
    BY <1>2
  <2> HIDE DEF x
  <2>3. \A q \in x.waiters : task[q].pc = "wait" /\ Sleeps(task[q].op, x, core)
    BY <1>1, <2>2 DEF Asleep
  <2> QED BY <1>1, <2>1, <2>2, <2>3, EventKeeps
<1>4. CASE OnConnectionLost
  <2> DEFINE x == [client EXCEPT !.sock = "closed"]
             y == Teardown(x)
  <2>1. client' = y /\ core' = core /\ task' = task /\ got' = got
    BY <1>4 DEF OnConnectionLost
  <2>2. /\ x \in ClientStates /\ x.core = client.core /\ x.closed = client.closed
        /\ x.waiters = client.waiters /\ Settled(x, core)
    BY <1>2
  <2> HIDE DEF x
  <2>3. /\ y \in ClientStates /\ y.core = x.core /\ y.closed /\ Settled(y, core)
        /\ y.waiters = IF x.closed THEN x.waiters ELSE {}
    BY <2>2, TeardownFacts, TeardownSettles
  <2> HIDE DEF y
  <2>4. y.waiters = {}
    BY <1>1, <2>2, <2>3 DEF Asleep, Sleeps
  <2> QED BY <1>1, <2>1, <2>2, <2>3, <2>4, EventKeeps
<1> QED BY <1>3, <1>4

\* close() of the application.
LEMMA AppCloseKeepsInv ==
    ASSUME Inv, AppClose
    PROVE  Inv'
<1> DEFINE y == Teardown(client)
           b == Close(core)
           d == IF client.core THEN DrainSend(client, b) ELSE core
<1>1. /\ client \in ClientStates /\ core \in Http3Clients /\ InStep(core) /\ Settled(client, core)
      /\ Delivered(got, core) /\ got \in Seq(StreamIds) /\ ~client.closed
  BY DEF Inv, TypeOK, AppClose
<1>2. client' = y /\ core' = d /\ task' = task /\ got' = got
  BY DEF AppClose
<1>3. /\ y \in ClientStates /\ y.closed /\ y.core = client.core /\ y.transport = client.transport
      /\ y.was_connected = client.was_connected /\ y.waiters = {} /\ (y.timer => client.timer)
  BY <1>1, TeardownFacts
<1>4. CASE ~client.core
  <2>1. d = core
    BY <1>4
  <2>2. Settled(y, core)
    BY <1>1, TeardownSettles
  <2> HIDE DEF y, d
  <2> QED BY <1>1, <1>2, <1>3, <2>1, <2>2, EventKeeps
<1>5. CASE client.core
  <2>1. /\ Evolves(core, b) /\ b.conn # "open"
        /\ core.conn = "none" => Calm(core, b) /\ b.send_queue = core.send_queue
    BY <1>1, CloseFacts
  <2>2. d = DrainSend(client, b)
    BY <1>5
  <2> HIDE DEF b, d, y
  <2>3. /\ d \in Http3Clients /\ Calm(b, d)
        /\ d.send_queue = IF client.transport THEN <<>> ELSE b.send_queue
    BY <1>1, <2>1, <2>2, DrainSendFacts DEF Evolves
  <2>4. InStep(d) /\ Delivered(got, d)
    BY <1>1, <2>1, <2>3, CalmEvolves, DeliveredGrows, DeliveredKept DEF Evolves, Calm
  <2>5. /\ d.conn = "none" <=> core.conn = "none"
        /\ d.conn = "failed" <=> core.conn = "failed"
        /\ d.conn # "open"
    BY <2>1, <2>3 DEF Evolves, Calm
  <2>6. Settled(y, d)
    <3>1. CASE core.conn = "none"
      BY <1>1, <1>3, <1>5, <2>1, <2>3, <2>5, <3>1 DEF Settled, Blank, Calm
    <3>2. CASE core.conn # "none"
      BY <1>3, <1>5, <2>3, <2>5, <3>2 DEF Settled, NoClose
    <3> QED BY <3>1, <3>2
  <2> QED BY <1>1, <1>2, <1>3, <2>3, <2>4, <2>5, <2>6, EventKeeps
<1> QED BY <1>4, <1>5

-----------------------------------------------------------------------------
\* Every action keeps the invariant.
LEMMA InvInductive == Inv /\ [Next]_vars => Inv'
<1> SUFFICES ASSUME Inv, [Next]_vars PROVE Inv'
  OBVIOUS
<1>0. /\ ConnectedOp \in Attempted /\ TRUE \in BOOLEAN /\ "CancelledError" \in {"TimeoutError", "CancelledError"}
      /\ "CancelledError" \in {"OSError", "RuntimeError", "CancelledError"}
  BY TaskTypes
<1>1. ASSUME NEW p \in Tasks, NEW o \in Attempted, Request(p, o) PROVE Inv'
  BY <1>0, <1>1, WaitsKeepInv
<1>2. ASSUME NEW p \in Tasks, Wake(p) PROVE Inv'
  BY <1>0, <1>2, WaitsKeepInv
<1>3. ASSUME NEW p \in Tasks, NEW e \in {"TimeoutError", "CancelledError"}, Interrupt(p, e) PROVE Inv'
  BY <1>0, <1>3, WaitsKeepInv
<1>4. ASSUME NEW p \in Tasks, ConnectCall(p) \/ Resolved(p) \/ EndpointMade(p) \/ EndpointCancelled(p)
      PROVE  Inv'
  BY <1>0, <1>4, ConnectStagesKeepInv
<1>5. ASSUME NEW p \in Tasks, NEW e \in {"OSError", "RuntimeError", "CancelledError"}, ConnectAborted(p, e)
      PROVE  Inv'
  BY <1>5, ConnectStagesKeepInv
<1>6. ASSUME NEW p \in Tasks, ConnectStart(p) PROVE Inv'
  BY <1>6, ConnectStartKeepsInv
<1>7. ASSUME NEW empty \in BOOLEAN, OnReceive(empty) \/ OnTimeout PROVE Inv'
  BY <1>7, EventsKeepInv
<1>8. ASSUME TransportFails \/ OnConnectionLost PROVE Inv'
  BY <1>8, SocketKeepsInv
<1>9. ASSUME AppClose PROVE Inv'
  BY <1>9, AppCloseKeepsInv
<1>10. ASSUME UNCHANGED vars PROVE Inv'
  BY <1>10 DEF vars, Inv, TypeOK, OneConnect, Asleep, FailureAwaited
<1> QED BY <1>0, <1>1, <1>2, <1>3, <1>4, <1>5, <1>6, <1>7, <1>8, <1>9, <1>10 DEF Next

\* A client that was just constructed satisfies it.
LEMMA InitInv == Init => Inv
<1> SUFFICES ASSUME Init PROVE Inv
  OBVIOUS
<1> DEFINE ss == [id \in StreamIds |-> [phase |-> "unused", rclosed |-> FALSE, wclosed |-> FALSE]]
<1>1. /\ client.core = FALSE /\ client.transport = FALSE /\ client.timer = FALSE /\ client.closed = FALSE
      /\ client.waiters = {} /\ client.was_connected = FALSE /\ client \in ClientStates
  BY DEF Init, ClientStates
<1>2. core = FreshClient /\ task = [p \in Tasks |-> IdleTask("none")] /\ got = <<>>
  BY DEF Init
<1>3. ss \in [StreamIds -> Streams] /\ \A id \in StreamIds : ss[id].phase = "unused"
  BY DEF Streams
<1>4. NoError \in Errors /\ 0 \in 0..MaxCredit /\ <<>> \in Seq({"packet", "close"})
  BY BoundsAssumption DEF Errors, NoError
<1>5. core = [conn |-> "none", handshaken |-> FALSE, last_error |-> NoError, send_queue |-> <<>>,
              credit |-> 0, responses |-> {}, completed |-> {}, streams |-> ss]
  BY <1>2 DEF FreshClient
<1> HIDE DEF ss
<1>6. core \in Http3Clients
  BY <1>3, <1>4, <1>5 DEF Http3Clients
<1>7. /\ core.conn = "none" /\ core.send_queue = <<>> /\ core.responses = {} /\ core.completed = {}
      /\ core.streams = ss
  BY <1>5
<1>8. InStep(core) /\ Settled(client, core)
  BY <1>1, <1>3, <1>7 DEF InStep, Settled, Blank, NoClose
<1>9. Delivered(got, core)
  <2>1. Len(got) = 0
    BY <1>2
  <2>2. {got[i] : i \in 1..Len(got)} = {} /\ \A i, j \in 1..Len(got) : FALSE
    BY <2>1
  <2> QED BY <1>7, <2>2 DEF Delivered
<1>10. IdleTask("none") \in TaskStates /\ IdleTask("none").pc = "idle"
  BY TaskTypes DEF Results
<1>11. task \in [Tasks -> TaskStates] /\ \A p \in Tasks : task[p].pc = "idle"
  BY <1>2, <1>10
<1>12. TypeOK
  BY <1>1, <1>2, <1>6, <1>11 DEF TypeOK
<1>13. OneConnect /\ Asleep /\ FailureAwaited
  BY <1>1, <1>7, <1>11 DEF OneConnect, Asleep, FailureAwaited
<1> QED BY <1>8, <1>9, <1>12, <1>13 DEF Inv

\* The invariant holds in every state.
LEMMA Invariance == Spec => []Inv
BY InitInv, InvInductive, PTL DEF Spec

\* The types of the object, of its Http3Client and of the tasks are kept.
THEOREM Http3TypeCorrect == Spec => []TypeOK
<1>1. Inv => TypeOK
  BY DEF Inv
<1> QED BY <1>1, Invariance, PTL

\* An open client has no dead connection: _process saw every end of it, though
\* receive_packet and handle_timeout swallow CLOSED.  The one end it cannot see,
\* inside start(), leaves connect() waiting, which takes the client down in the end.
THEOREM Http3DeathNeverMissed == Spec => []DeadConnectionDetected
<1>1. Inv => DeadConnectionDetected
  <2> SUFFICES ASSUME Inv, client.core, ~client.closed
               PROVE  /\ core.conn # "closed"
                      /\ core.conn = "failed" =>
                           \E p \in Tasks : task[p].pc = "wait" /\ task[p].op = ConnectedOp
    BY DEF DeadConnectionDetected
  <2>1. core.conn # "closed"
    BY DEF Inv, Settled
  <2>2. ASSUME core.conn = "failed"
        PROVE  \E p \in Tasks : task[p].pc = "wait" /\ task[p].op = ConnectedOp
    <3>1. PICK p \in Tasks : task[p].pc = "wait"
      BY <2>2 DEF Inv, FailureAwaited
    <3>2. task[p].op.kind = "is_connected" /\ task[p].op \in Attempted
      BY <2>2, <3>1 DEF Inv, Asleep, TypeOK, TaskStates
    <3>3. task[p].op = ConnectedOp
      BY <3>2 DEF Attempted, ConnectedOp
    <3> QED BY <3>1, <3>3
  <2> QED BY <2>1, <2>2
<1> QED BY <1>1, Invariance, PTL

\* Every path that can queue a packet or arm an alarm hands the packet to the
\* transport and arms the timer before control is back in the event loop, but
\* for the STREAMS_BLOCKED of a submit_request() that has to wait: it stays only
\* as long as no stream is to be had, and with the timer armed.
THEOREM NothingElseLingers == Spec => []OnlyRefusalsLinger
<1>1. Inv => OnlyRefusalsLinger
  <2> SUFFICES ASSUME Inv PROVE OnlyRefusalsLinger
    OBVIOUS
  <2>1. /\ Settled(client, core) /\ core.conn \in {"none", "open", "closed", "failed"}
        /\ client.timer \in BOOLEAN
    BY DEF Inv, TypeOK, Http3Clients, ClientStates
  <2> QED BY <2>1 DEF Settled, OnlyRefusalsLinger, HasAlarm, NoClose
<1> QED BY <1>1, Invariance, PTL

\* Every completed response is returned once or still waits to be taken,
\* whatever was cancelled, timed out or closed.
THEOREM ResponsesDeliveredOnce == Spec => []ResponsesExactlyOnce
<1>1. Inv => ResponsesExactlyOnce
  BY DEF Inv, Delivered, ResponsesExactlyOnce
<1> QED BY <1>1, Invariance, PTL

\* No wake-up is lost: nobody sleeps on a closed client, nor while a stream
\* for the request or its response is there, for any number of tasks.
THEOREM Http3NoWakeupIsLost == Spec => []NoLostWakeup
<1>1. Inv => NoLostWakeup
  <2> SUFFICES ASSUME Inv, NEW p \in client.waiters
               PROVE  /\ task[p].pc = "wait" /\ ~client.closed
                      /\ LET o == task[p].op IN
                         CASE o.kind = "is_connected" -> ~IsConnected(core)
                           [] o.kind = "submit" ->
                                \A r \in py_submit_request(core, o.named, o.fin) : r.ret = "None"
                           [] o.kind = "take" -> \A r \in py_take_response(core, o.id) : r.ret = "None"
    BY DEF NoLostWakeup
  <2> DEFINE o == task[p].op
  <2>1. p \in Tasks /\ core \in Http3Clients /\ InStep(core)
    BY DEF Inv, TypeOK, ClientStates
  <2>2. task[p].pc = "wait" /\ Sleeps(o, client, core)
    BY <2>1 DEF Inv, Asleep
  <2>3. o \in Attempted
    BY <2>1 DEF Inv, TypeOK, TaskStates
  <2> HIDE DEF o
  <2>4. ASSUME o.kind = "submit", NEW r \in py_submit_request(core, o.named, o.fin) PROVE r.ret = "None"
    <3>1. o.named \in BOOLEAN /\ o.fin \in BOOLEAN
      BY <2>3, <2>4 DEF Attempted
    <3>2. core.conn = "open" /\ CreateClientStream(core) = {}
      BY <2>2, <2>4 DEF Sleeps
    <3> QED BY <2>1, <3>1, <3>2, SubmitFacts
  <2>5. ASSUME o.kind = "take", NEW r \in py_take_response(core, o.id) PROVE r.ret = "None"
    <3>1. o.id \in StreamIds /\ o.id \notin core.responses
      BY <2>2, <2>3, <2>5 DEF Attempted, Sleeps
    <3> QED BY <2>1, <3>1, TakeFacts
  <2>6. o.kind \in {"is_connected", "submit", "take"} /\ ~client.closed
    BY <2>2, <2>3 DEF Attempted, Sleeps
  <2>7. o.kind = "is_connected" => ~IsConnected(core)
    BY <2>2 DEF Sleeps, IsConnected
  <2> QED BY <2>2, <2>4, <2>5, <2>6, <2>7 DEF o
<1> QED BY <1>1, Invariance, PTL

-----------------------------------------------------------------------------
(* AsyncHttp3 implements AsyncPromise, step by step.                       *)

\* The task p moves to t.
Moves(p, t) == task' = [task EXCEPT ![p] = t]

\* The task p moves to t: AsyncPromise sees its call change to Seen(t).
LEMMA CallMoves ==
    ASSUME NEW p \in Tasks, NEW t, task \in [Tasks -> TaskStates], Moves(p, t)
    PROVE  Promise!Set(p, Seen(t))
<1>1. \A q \in Tasks : task'[q] = IF q = p THEN t ELSE task[q]
  BY DEF Moves
<1>2. [q \in Tasks |-> Seen(task'[q])] = [[q \in Tasks |-> Seen(task[q])] EXCEPT ![p] = Seen(t)]
  BY <1>1
<1> QED BY <1>2 DEF Promise!Set

\* A call that ends with an exception fails.
LEMMA FailStep ==
    ASSUME NEW p \in Tasks, task \in [Tasks -> TaskStates], NEW res \in Results,
           res \notin {"none", "connected", "response"}, Finished(p, res),
           client'.closed = client.closed \/ client'.closed,
           core'.responses = core.responses, got' = got
    PROVE  Promise!Fail(p)
<1> DEFINE t == IdleTask(res)
<1>1. Seen(t) = "error"
  BY DEF Seen, IdleTask
<1>2. Promise!Set(p, Seen(t))
  BY CallMoves DEF Finished, Moves
<1> HIDE DEF t
<1> QED BY <1>1, <1>2 DEF Promise!Fail, Promise!GoesDownOrNot

\* A call that returns nothing of the items does so while the client is up.
LEMMA ConnectedStep ==
    ASSUME NEW p \in Tasks, task \in [Tasks -> TaskStates], Finished(p, "connected"),
           ~client.closed, ~client'.closed, core'.responses = core.responses, got' = got
    PROVE  Promise!Return(p)
<1> DEFINE t == IdleTask("connected")
<1>1. Seen(t) = "ok"
  BY DEF Seen, IdleTask
<1>2. Promise!Set(p, Seen(t))
  BY CallMoves DEF Finished, Moves
<1> HIDE DEF t
<1> QED BY <1>1, <1>2 DEF Promise!Return

\* A call that returns a response takes it.
LEMMA ResponseStep ==
    ASSUME NEW p \in Tasks, task \in [Tasks -> TaskStates], Finished(p, "response"),
           ~client.closed, ~client'.closed, got \in Seq(StreamIds), NEW id \in StreamIds,
           id \in core.responses, core'.responses = core.responses \ {id}, got' = Append(got, id)
    PROVE  Promise!Return(p)
<1> DEFINE t == IdleTask("response")
           R == {got[i] : i \in 1..Len(got)}
           S == {got'[i] : i \in 1..Len(got')}
<1>1. Seen(t) = "ok"
  BY DEF Seen, IdleTask
<1>2. Promise!Set(p, Seen(t))
  BY CallMoves DEF Finished, Moves
<1>3. S = R \cup {id}
  <2>1. /\ Len(got') = Len(got) + 1 /\ Len(got) \in Nat /\ got'[Len(got) + 1] = id
        /\ \A i \in 1..Len(got) : got'[i] = got[i]
    OBVIOUS
  <2>2. ASSUME NEW v \in S PROVE v \in R \cup {id}
    <3>1. PICK i \in 1..Len(got') : v = got'[i]
      OBVIOUS
    <3>2. i = Len(got) + 1 \/ i \in 1..Len(got)
      BY <2>1
    <3> QED BY <2>1, <3>1, <3>2
  <2>3. ASSUME NEW v \in R PROVE v \in S
    <3>1. PICK i \in 1..Len(got) : v = got[i]
      OBVIOUS
    <3>2. i \in 1..Len(got') /\ got'[i] = v
      BY <2>1, <3>1
    <3> QED BY <3>2
  <2>4. id \in S
    <3>1. Len(got) + 1 \in 1..Len(got')
      BY <2>1
    <3> QED BY <2>1, <3>1
  <2> HIDE DEF R, S
  <2> QED BY <2>2, <2>3, <2>4
<1> HIDE DEF t
<1>4. \E i \in core.responses : core'.responses = core.responses \ {i} /\ S = R \cup {i}
  BY <1>3
<1> QED BY <1>1, <1>2, <1>4 DEF Promise!Return

\* A task that goes to sleep, or gets its socket, has begun its call; one that
\* slept before has not moved.
LEMMA BusyStep ==
    ASSUME NEW p \in Tasks, task \in [Tasks -> TaskStates], NEW t, Seen(t) \in {"none", "busy"},
           Moves(p, t), Seen(task[p]) = "busy" => Seen(t) = "busy",
           client'.closed = client.closed, core'.responses = core.responses, got' = got
    PROVE  Promise!Begin(p) \/ UNCHANGED Promise!vars
<1>1. Promise!Set(p, Seen(t))
  BY CallMoves
<1>2. CASE Seen(task[p]) # "busy"
  BY <1>1, <1>2 DEF Promise!Begin
<1>3. CASE Seen(task[p]) = "busy"
  <2>1. [q \in Tasks |-> Seen(task'[q])] = [q \in Tasks |-> Seen(task[q])]
    BY <1>3 DEF Moves
  <2> QED BY <2>1 DEF Promise!vars
<1> QED BY <1>2, <1>3

\* An event brings responses of streams that had none, and may close the client.
LEMMA EventStep ==
    ASSUME Delivered(got, core), Answered(core, core'), ~client.closed, task' = task, got' = got
    PROVE  Promise!Event
<1> DEFINE R == {got[i] : i \in 1..Len(got)}
<1>1. R \cup core.responses = core.completed
  BY DEF Delivered
<1>2. PICK new \in SUBSET StreamIds : new \cap core.completed = {} /\ core'.responses = core.responses \cup new
  BY DEF Answered
<1> HIDE DEF R
<1>3. new \in SUBSET (StreamIds \ (core.responses \cup R))
  BY <1>1, <1>2
<1> QED BY <1>2, <1>3 DEF Promise!Event, Promise!GoesDownOrNot, R

\* A step that shows neither in the calls nor in the responses.
LEMMA StutterStep ==
    ASSUME client'.closed = client.closed, core'.responses = core.responses, task' = task, got' = got
    PROVE  UNCHANGED Promise!vars
BY DEF Promise!vars

\* What a step may be to AsyncPromise.
Kept == Promise!Next \/ UNCHANGED Promise!vars

\* A step of a task is a step of AsyncPromise.
LEMMA TaskStep ==
    ASSUME NEW p \in Tasks,
           Promise!Begin(p) \/ Promise!Return(p) \/ Promise!Fail(p) \/ UNCHANGED Promise!vars
    PROVE  Kept
BY DEF Kept, Promise!Next

\* Going to sleep.
LEMMA SleepStep ==
    ASSUME Inv, NEW p \in Tasks, NEW o, NEW x \in ClientStates, NEW c, x.closed = client.closed,
           c.responses = core.responses, Sleep(p, o, x, c)
    PROVE  Kept
<1> DEFINE t == [pc |-> "wait", op |-> o, res |-> "none"]
<1>1. Seen(t) = "busy"
  BY DEF Seen
<1>2. task' = [task EXCEPT ![p] = t] /\ core' = c /\ got' = got /\ client' = [x EXCEPT !.waiters = @ \cup {p}]
  BY DEF Sleep
<1>3. client'.closed = client.closed
  BY <1>2 DEF ClientStates
<1>4. task \in [Tasks -> TaskStates]
  BY DEF Inv, TypeOK
<1> HIDE DEF t
<1>5. Moves(p, t) /\ core'.responses = core.responses /\ got' = got
  BY <1>2 DEF Moves
<1>6. Promise!Begin(p) \/ UNCHANGED Promise!vars
  BY <1>1, <1>3, <1>4, <1>5, BusyStep
<1> QED BY <1>6, TaskStep

\* Ending with an exception.
LEMMA RaiseStep ==
    ASSUME Inv, NEW p \in Tasks, NEW res \in Results, res \notin {"none", "connected", "response"},
           NEW x, NEW c, x.closed = client.closed \/ x.closed, c.responses = core.responses,
           Raise(p, res, x, c)
    PROVE  Kept
<1>1. client' = x /\ core' = c /\ Finished(p, res) /\ got' = got
  BY DEF Raise
<1>2. task \in [Tasks -> TaskStates]
  BY DEF Inv, TypeOK
<1> QED BY <1>1, <1>2, FailStep, TaskStep

\* The second wait of request().
LEMMA TakeTurnStep ==
    ASSUME Inv, NEW p \in Tasks, NEW id \in StreamIds, NEW x \in ClientStates, NEW c \in Http3Clients,
           InStep(c), Settled(x, c), x.core, c.conn \notin {"none", "failed"}, x.closed = client.closed,
           c.responses = core.responses, TakeTurn(p, id, x, c)
    PROVE  Kept
<1>1. task \in [Tasks -> TaskStates] /\ got \in Seq(StreamIds)
  BY DEF Inv, TypeOK
<1>2. CASE x.closed
  <2>1. Raise(p, "ConnectionError", x, c)
    BY <1>2 DEF TakeTurn
  <2>2. "ConnectionError" \in Results
    BY DEF Results, Exceptions
  <2> QED BY <2>1, <2>2, RaiseStep
<1>3. CASE ~x.closed
  <2>1. PICK r \in py_take_response(c, id) :
          IF r.ret = "None" THEN Sleep(p, TakeOp(id), x, r.c)
          ELSE /\ client' = Process(x, r.c).x /\ core' = Process(x, r.c).c
               /\ Finished(p, "response") /\ got' = Append(got, id)
    BY <1>3 DEF TakeTurn
  <2>2. /\ r.c \in Http3Clients /\ InStep(r.c) /\ r.c.conn = c.conn
        /\ r.ret = "None" <=> id \notin c.responses
        /\ r.c.responses = c.responses \ {id}
    BY TakeFacts
  <2>3. c.conn = "open" /\ x.transport
    <3>1. c.conn \in {"none", "open", "closed", "failed"}
      BY DEF Http3Clients
    <3> QED BY <1>3, <3>1 DEF Settled
  <2>4. CASE r.ret = "None"
    <3>1. Sleep(p, TakeOp(id), x, r.c)
      BY <2>1, <2>4
    <3>2. r.c.responses = core.responses
      BY <2>2, <2>4
    <3> QED BY <3>1, <3>2, SleepStep
  <2>5. CASE r.ret # "None"
    <3> DEFINE a == Process(x, r.c)
    <3>1. /\ client' = a.x /\ core' = a.c /\ Finished(p, "response") /\ got' = Append(got, id)
      BY <2>1, <2>5
    <3>2. Calm(r.c, a.c) /\ (r.c.conn # "failed" => (a.x.closed <=> r.c.conn = "closed"))
      BY <1>3, <2>2, <2>3, ProcessSettles
    <3> HIDE DEF a
    <3>3. core'.responses = core.responses \ {id} /\ ~client'.closed
      BY <2>2, <2>3, <3>1, <3>2 DEF Calm
    <3> QED BY <1>1, <1>3, <2>2, <2>5, <3>1, <3>3, ResponseStep, TaskStep
  <2> QED BY <2>4, <2>5
<1> QED BY <1>2, <1>3

\* The first wait of request().
LEMMA SubmitTurnStep ==
    ASSUME Inv, NEW p \in Tasks, client.core, NEW o \in Attempted, o.kind = "submit", SubmitTurn(p, o)
    PROVE  Kept
<1>1. /\ client \in ClientStates /\ core \in Http3Clients /\ InStep(core) /\ Settled(client, core)
  BY DEF Inv, TypeOK
<1>2. o.named \in BOOLEAN /\ o.fin \in BOOLEAN
  BY DEF Attempted
<1>3. CASE client.closed
  <2>1. Raise(p, "ConnectionError", client, core)
    BY <1>3 DEF SubmitTurn
  <2>2. "ConnectionError" \in Results
    BY DEF Results, Exceptions
  <2> QED BY <2>1, <2>2, RaiseStep
<1>4. CASE ~client.closed
  <2>1. PICK r \in py_submit_request(core, o.named, o.fin) :
          IF r.ret = "None" THEN Sleep(p, o, client, r.c)
          ELSE IF r.ret # "value" THEN Raise(p, r.ret, client, r.c)
          ELSE TakeTurn(p, r.val, Process(client, r.c).x, Process(client, r.c).c)
    BY <1>4 DEF SubmitTurn
  <2>2. /\ r.c \in Http3Clients /\ InStep(r.c) /\ r.c.conn = core.conn
        /\ r.c.responses = core.responses
        /\ r.ret \in {"None", "value", "ValueError", "RuntimeError"}
        /\ r.ret = "value" => core.conn = "open" /\ r.val \in StreamIds
    BY <1>1, <1>2, SubmitFacts
  <2>3. CASE r.ret = "None"
    BY <1>1, <2>1, <2>2, <2>3, SleepStep
  <2>4. CASE r.ret \in {"ValueError", "RuntimeError"}
    <3>1. Raise(p, r.ret, client, r.c)
      BY <2>1, <2>4
    <3>2. r.ret \in Results /\ r.ret \notin {"none", "connected", "response"}
      BY <2>4 DEF Results, Exceptions
    <3> QED BY <2>2, <3>1, <3>2, RaiseStep
  <2>5. CASE r.ret = "value"
    <3> DEFINE a == Process(client, r.c)
    <3>1. TakeTurn(p, r.val, a.x, a.c)
      BY <2>1, <2>5
    <3>2. client.transport /\ r.c.conn = "open" /\ r.val \in StreamIds
      BY <1>1, <1>4, <2>2, <2>5 DEF Settled
    <3>3. /\ a.x \in ClientStates /\ a.c \in Http3Clients /\ InStep(a.c) /\ Calm(r.c, a.c)
          /\ Settled(a.x, a.c) /\ a.x.core
          /\ r.c.conn # "failed" => (a.x.closed <=> r.c.conn = "closed")
      BY <1>1, <1>4, <2>2, <3>2, ProcessSettles
    <3> HIDE DEF a
    <3>4. a.c.conn = "open" /\ a.c.responses = core.responses /\ ~a.x.closed
      BY <2>2, <3>2, <3>3 DEF Calm
    <3>5. a.x.closed = client.closed
      BY <1>1, <1>4, <3>3, <3>4 DEF ClientStates
    <3> QED BY <3>1, <3>2, <3>3, <3>4, <3>5, TakeTurnStep
  <2> QED BY <2>2, <2>3, <2>4, <2>5
<1> QED BY <1>3, <1>4

\* The waits of the tasks.
LEMMA WaitsStep ==
    ASSUME Inv, NEW p \in Tasks, NEW o \in Attempted, NEW e \in {"TimeoutError", "CancelledError"},
           Request(p, o) \/ Wake(p) \/ Interrupt(p, e)
    PROVE  Kept
<1>1. /\ client \in ClientStates /\ core \in Http3Clients /\ task \in [Tasks -> TaskStates]
      /\ InStep(core) /\ Asleep /\ Settled(client, core)
  BY DEF Inv, TypeOK
<1>2. CASE Request(p, o)
  BY <1>2, SubmitTurnStep DEF Request
<1>3. task[p].pc = "wait" =>
        /\ client.core /\ core.conn # "none" /\ task[p].op \in Attempted
        /\ task[p].op.kind = "is_connected" <=> core.conn = "failed"
  BY <1>1 DEF Asleep, TaskStates
<1>4. CASE Wake(p)
  <2>1. task[p].pc = "wait"
    BY <1>4 DEF Wake
  <2>0. CASE task[p].op.kind = "is_connected"
    <3>1. ConnectTurn(p, client, core) /\ core.conn = "failed"
      BY <1>3, <1>4, <2>0, <2>1 DEF Wake
    <3>2. \/ Raise(p, "ConnectionError", client, core) \/ Sleep(p, ConnectedOp, client, core)
      BY <3>1 DEF ConnectTurn, IsConnected
    <3>3. "ConnectionError" \in Results
      BY DEF Results, Exceptions
    <3> QED BY <1>1, <3>2, <3>3, RaiseStep, SleepStep
  <2>2. CASE task[p].op.kind = "submit"
    <3>1. SubmitTurn(p, task[p].op)
      BY <1>4, <2>2 DEF Wake
    <3> QED BY <1>3, <2>1, <2>2, <3>1, SubmitTurnStep
  <2>3. CASE task[p].op.kind = "take"
    <3>1. TakeTurn(p, task[p].op.id, client, core)
      BY <1>4, <2>3 DEF Wake
    <3>2. task[p].op.id \in StreamIds
      BY <1>3, <2>1, <2>3 DEF Attempted
    <3> QED BY <1>1, <1>3, <2>1, <2>3, <3>1, <3>2, TakeTurnStep
  <2> QED BY <1>3, <2>0, <2>1, <2>2, <2>3 DEF Attempted
<1>5. CASE Interrupt(p, e)
  <2> DEFINE x == [client EXCEPT !.waiters = @ \ {p}]
  <2>1. Raise(p, e, x, core) \/ Raise(p, e, Teardown(x), core)
    BY <1>5 DEF Interrupt
  <2>2. x \in ClientStates /\ x.closed = client.closed
    BY <1>1 DEF ClientStates
  <2>3. Teardown(x).closed
    BY <2>2, TeardownFacts
  <2>4. e \in Results /\ e \notin {"none", "connected", "response"}
    BY DEF Results
  <2> HIDE DEF x
  <2> QED BY <2>1, <2>2, <2>3, <2>4, RaiseStep
<1> QED BY <1>2, <1>4, <1>5

\* The stages of connect().
LEMMA ConnectStep ==
    ASSUME Inv, NEW p \in Tasks, NEW e \in {"OSError", "RuntimeError", "CancelledError"},
           \/ ConnectCall(p) \/ Resolved(p) \/ ConnectAborted(p, e) \/ EndpointMade(p)
           \/ EndpointCancelled(p)
    PROVE  Kept
<1>1. client \in ClientStates /\ task \in [Tasks -> TaskStates]
  BY DEF Inv, TypeOK
<1>2. ASSUME NEW pc \in {"resolve", "endpoint", "opened"}, Stage(p, pc), client'.closed = client.closed,
             core' = core, got' = got, task[p].pc \notin {"opened", "wait"}
      PROVE  Kept
  <2> DEFINE t == [pc |-> pc, op |-> ConnectedOp, res |-> "none"]
  <2>1. Seen(t) \in {"none", "busy"} /\ Seen(task[p]) # "busy"
    BY <1>2 DEF Seen
  <2>2. Moves(p, t)
    BY <1>2 DEF Stage, Moves
  <2> HIDE DEF t
  <2>3. Promise!Begin(p) \/ UNCHANGED Promise!vars
    BY <1>1, <1>2, <2>1, <2>2, BusyStep
  <2> QED BY <2>3, TaskStep
<1>3. CASE ConnectCall(p)
  BY <1>2, <1>3 DEF ConnectCall
<1>4. CASE Resolved(p)
  <2>1. client'.closed = client.closed
    BY <1>1, <1>4 DEF Resolved, ClientStates
  <2> QED BY <1>2, <1>4, <2>1 DEF Resolved
<1>5. CASE ConnectAborted(p, e)
  <2>1. e \in Results /\ e \notin {"none", "connected", "response"}
    BY DEF Results, Exceptions
  <2> QED BY <1>5, <2>1, RaiseStep DEF ConnectAborted
<1>6. CASE EndpointMade(p)
  <2>1. client'.closed = client.closed
    BY <1>1, <1>6 DEF EndpointMade, ClientStates
  <2> QED BY <1>2, <1>6, <2>1 DEF EndpointMade
<1>7. CASE EndpointCancelled(p)
  <2> DEFINE x == [client EXCEPT !.sock = IF @ = "open" THEN "closing" ELSE @]
  <2>1. Raise(p, "CancelledError", x, core)
    BY <1>7 DEF EndpointCancelled
  <2>2. x.closed = client.closed
    BY <1>1 DEF ClientStates
  <2>3. "CancelledError" \in Results
    BY DEF Results
  <2> HIDE DEF x
  <2> QED BY <2>1, <2>2, <2>3, RaiseStep
<1> QED BY <1>3, <1>4, <1>5, <1>6, <1>7

\* start() and the first turn of the wait of connect().
LEMMA ConnectStartStep ==
    ASSUME Inv, NEW p \in Tasks, ConnectStart(p)
    PROVE  Kept
<1> DEFINE x == [client EXCEPT !.transport = TRUE]
<1>1. /\ client \in ClientStates /\ core \in Http3Clients /\ OneConnect /\ Settled(client, core)
      /\ task \in [Tasks -> TaskStates]
  BY DEF Inv, TypeOK
<1>2. client.core /\ core.conn = "none" /\ Blank(core) /\ ~client.was_connected
  BY <1>1 DEF ConnectStart, OneConnect, Settled
<1>3. /\ x \in ClientStates /\ x.core = client.core /\ x.closed = client.closed /\ x.transport = TRUE
      /\ x.was_connected = client.was_connected
  BY <1>1 DEF ClientStates
<1>4. PICK r \in py_start(core) : ConnectTurn(p, Process(x, r.c).x, Process(x, r.c).c)
  BY DEF ConnectStart
<1>5. /\ r.c \in Http3Clients /\ InStep(r.c) /\ r.c.responses = {}
      /\ r.c.conn \in {"open", "failed"} /\ r.c.last_error = NoError
  BY <1>1, <1>2, StartFacts
<1>6. r.c.responses = core.responses
  BY <1>2, <1>5 DEF Blank
<1> HIDE DEF x
<1> DEFINE a == Process(x, r.c)
<1>7. CASE client.closed
  <2>1. a.x = x /\ a.c = r.c
    BY <1>3, <1>7 DEF Process
  <2> HIDE DEF a
  <2>2. Raise(p, "ConnectionError", x, r.c)
    BY <1>3, <1>4, <1>7, <2>1 DEF ConnectTurn, a
  <2>3. "ConnectionError" \in Results
    BY DEF Results, Exceptions
  <2> QED BY <1>3, <1>6, <2>2, <2>3, RaiseStep
<1>8. CASE ~client.closed
  <2>1. /\ a.x \in ClientStates /\ Calm(r.c, a.c)
        /\ r.c.conn # "failed" => (a.x.closed <=> r.c.conn = "closed")
        /\ r.c.conn = "failed" /\ r.c.last_error = NoError => ~a.x.closed
    BY <1>2, <1>3, <1>5, <1>8, ProcessSettles
  <2>0. ConnectTurn(p, a.x, a.c)
    BY <1>4
  <2> HIDE DEF a
  <2>2. a.c.conn = r.c.conn /\ ~a.x.closed /\ a.c.responses = core.responses
    BY <1>5, <1>6, <2>1 DEF Calm
  <2>3. CASE r.c.conn = "open"
    <3>1. client' = a.x /\ core' = a.c /\ Finished(p, "connected") /\ got' = got
      BY <2>0, <2>2, <2>3 DEF ConnectTurn, IsConnected, Raise
    <3> QED BY <1>1, <1>8, <2>2, <3>1, ConnectedStep, TaskStep
  <2>4. CASE r.c.conn = "failed"
    <3>1. Sleep(p, ConnectedOp, a.x, a.c)
      BY <2>0, <2>2, <2>4 DEF ConnectTurn, IsConnected
    <3>2. a.x.closed = client.closed
      BY <1>1, <1>8, <2>1, <2>2 DEF ClientStates
    <3> QED BY <2>1, <2>2, <3>1, <3>2, SleepStep
  <2> QED BY <1>5, <2>3, <2>4
<1> QED BY <1>7, <1>8

\* The callbacks and close().
LEMMA EventsStep ==
    ASSUME Inv, NEW empty \in BOOLEAN,
           OnReceive(empty) \/ OnTimeout \/ TransportFails \/ OnConnectionLost \/ AppClose
    PROVE  Kept
<1>1. /\ client \in ClientStates /\ core \in Http3Clients /\ InStep(core) /\ Settled(client, core)
      /\ Delivered(got, core)
  BY DEF Inv, TypeOK
<1>2. task' = task /\ got' = got
  BY DEF OnReceive, OnTimeout, TransportFails, OnConnectionLost, AppClose
<1>3. Answered(core, core)
  BY <1>1, CalmEvolves DEF Calm, Evolves
<1>4. Promise!Event => Kept
  BY DEF Kept, Promise!Next
<1>5. CASE OnReceive(empty) \/ OnTimeout
  <2>1. client.core /\ ~client.closed
    BY <1>5 DEF OnReceive, OnTimeout
  <2>2. core \in Http3Clients /\ InStep(core)
    BY <2>1, Awake
  <2>3. PICK r \in py_receive_packet(core, empty) \cup py_handle_timeout(core) :
          core' = Process(client, r.c).c \/ core' = r.c
    BY <1>5 DEF OnReceive, OnTimeout
  <2>4. r.c \in Http3Clients /\ Answered(core, r.c)
    <3>1. CASE core.conn # "none"
      BY <1>1, <3>1, RunFacts DEF Evolves
    <3>2. CASE core.conn = "none" /\ r \in py_receive_packet(core, empty)
      BY <1>1, <3>2, UnstartedFacts, CalmEvolves DEF Evolves
    <3>3. CASE core.conn = "none" /\ r \in py_handle_timeout(core)
      <4> DEFINE b == ResetRuntimeError(core)
      <4>1. b \in Http3Clients /\ Calm(core, b) /\ b.conn = "none"
        BY <1>1, <3>3, ResetFacts DEF Calm
      <4> HIDE DEF b
      <4>2. r = ClosedIsSilent(AfterQuiche(b))
        BY <3>3, <4>1 DEF py_handle_timeout, HandleTimeout, ProcessAlarms, HasAlarm, b
      <4>3. AfterQuiche(b).c \in Http3Clients /\ Calm(b, AfterQuiche(b).c)
        BY <4>1, AfterQuicheFacts
      <4>4. r.c = AfterQuiche(b).c
        BY <4>2 DEF ClosedIsSilent, Returned, AfterQuiche, Out
      <4> QED BY <1>1, <4>1, <4>3, <4>4, CalmTransitive, CalmEvolves DEF Evolves
    <3> QED BY <2>2, <2>3, <3>1, <3>2, <3>3
  <2>5. Answered(core, core')
    <3>1. CASE core' = r.c
      BY <2>4, <3>1
    <3>2. CASE core' = Process(client, r.c).c
      <4>1. Calm(r.c, core')
        BY <1>1, <2>1, <2>4, <3>2, ProcessFacts
      <4> QED BY <2>4, <4>1 DEF Answered, Calm
    <3> QED BY <2>3, <3>1, <3>2
  <2> QED BY <1>1, <1>2, <1>4, <2>1, <2>5, EventStep
<1>6. CASE TransportFails
  <2>1. client'.closed = client.closed /\ core' = core
    BY <1>1, <1>6 DEF TransportFails, ClientStates
  <2> QED BY <1>2, <2>1, StutterStep DEF Kept
<1>7. CASE OnConnectionLost
  <2> DEFINE x == [client EXCEPT !.sock = "closed"]
  <2>1. client' = Teardown(x) /\ core' = core /\ x \in ClientStates /\ x.closed = client.closed
    BY <1>1, <1>7 DEF OnConnectionLost, ClientStates
  <2> HIDE DEF x
  <2>2. CASE client.closed
    <3>1. client'.closed = client.closed
      BY <2>1, <2>2 DEF Teardown
    <3> QED BY <1>2, <2>1, <3>1, StutterStep DEF Kept
  <2>3. CASE ~client.closed
    BY <1>1, <1>2, <1>3, <1>4, <2>1, <2>3, EventStep
  <2> QED BY <2>2, <2>3
<1>8. CASE AppClose
  <2>1. ~client.closed /\ core' = IF client.core THEN DrainSend(client, Close(core)) ELSE core
    BY <1>8 DEF AppClose
  <2>2. Answered(core, core')
    <3>1. CASE client.core
      <4>1. Evolves(core, Close(core))
        BY <1>1, CloseFacts
      <4>2. Calm(Close(core), core')
        BY <1>1, <2>1, <3>1, <4>1, DrainSendFacts DEF Evolves
      <4> QED BY <4>1, <4>2 DEF Evolves, Answered, Calm
    <3>2. CASE ~client.core
      BY <1>3, <2>1, <3>2
    <3> QED BY <3>1, <3>2
  <2> QED BY <1>1, <1>2, <1>4, <2>1, <2>2, EventStep
<1> QED BY <1>5, <1>6, <1>7, <1>8

\* Every step is one of AsyncPromise, or none.
LEMMA StepKeepsPromise == Inv /\ [Next]_vars => [Promise!Next]_Promise!vars
<1> SUFFICES ASSUME Inv, [Next]_vars PROVE Kept
  BY DEF Kept
<1>0. /\ ConnectedOp \in Attempted /\ TRUE \in BOOLEAN /\ "CancelledError" \in {"TimeoutError", "CancelledError"}
      /\ "CancelledError" \in {"OSError", "RuntimeError", "CancelledError"}
  BY TaskTypes
<1>1. ASSUME NEW p \in Tasks, NEW o \in Attempted, Request(p, o) PROVE Kept
  BY <1>0, <1>1, WaitsStep
<1>2. ASSUME NEW p \in Tasks, Wake(p) PROVE Kept
  BY <1>0, <1>2, WaitsStep
<1>3. ASSUME NEW p \in Tasks, NEW e \in {"TimeoutError", "CancelledError"}, Interrupt(p, e) PROVE Kept
  BY <1>0, <1>3, WaitsStep
<1>4. ASSUME NEW p \in Tasks, ConnectCall(p) \/ Resolved(p) \/ EndpointMade(p) \/ EndpointCancelled(p)
      PROVE  Kept
  BY <1>0, <1>4, ConnectStep
<1>5. ASSUME NEW p \in Tasks, NEW e \in {"OSError", "RuntimeError", "CancelledError"}, ConnectAborted(p, e)
      PROVE  Kept
  BY <1>5, ConnectStep
<1>6. ASSUME NEW p \in Tasks, ConnectStart(p) PROVE Kept
  BY <1>6, ConnectStartStep
<1>7. ASSUME NEW empty \in BOOLEAN,
             OnReceive(empty) \/ OnTimeout \/ TransportFails \/ OnConnectionLost \/ AppClose
      PROVE  Kept
  BY <1>7, EventsStep
<1>8. ASSUME UNCHANGED vars PROVE Kept
  BY <1>8, StutterStep DEF vars, Kept
<1> QED BY <1>0, <1>1, <1>2, <1>3, <1>4, <1>5, <1>6, <1>7, <1>8 DEF Next

\* A client that was just constructed is an initial state of AsyncPromise.
LEMMA InitKeepsPromise == Init => Promise!Init
<1> SUFFICES ASSUME Init PROVE Promise!Init
  OBVIOUS
<1>1. client.closed = FALSE /\ core.responses = {} /\ task = [p \in Tasks |-> IdleTask("none")]
  BY DEF Init, FreshClient
<1>2. {got[i] : i \in 1..Len(got)} = {}
  <2>1. got = <<>> /\ Len(got) = 0
    BY DEF Init
  <2> QED BY <2>1
<1>3. Seen(IdleTask("none")) = "none"
  BY DEF Seen, IdleTask
<1>4. [p \in Tasks |-> Seen(task[p])] = [p \in Tasks |-> "none"]
  BY <1>1, <1>3
<1> QED BY <1>1, <1>2, <1>4 DEF Promise!Init

\* AsyncHttp3Client implements the safety part of AsyncPromise, for any number
\* of tasks: a call returns only on a client that is up, no call that waited
\* returns once it is down, and every response is handed to one call.
THEOREM Http3KeepsPromise == Spec => Promise!Spec
BY InitKeepsPromise, StepKeepsPromise, Invariance, PTL DEF Spec, Promise!Spec
=============================================================================
