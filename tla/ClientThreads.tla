---------------------------- MODULE ClientThreads ----------------------------
(***************************************************************************)
(* One WebTransportClient and its WebTransportStream objects used by       *)
(* several threads of a free-threaded Python.                              *)
(*                                                                         *)
(* A method of src/bindings/module.cpp holds the lock of the Python object *)
(* it was called on (nb::lock_self) from its first line to its last.  What *)
(* it calls in src/bindings/quiche_glue_wt.cc holds mutex_ of the C++      *)
(* client, once per call: receive_datagram makes two such calls, and a     *)
(* method that raises reads last_error_ once more, with no mutex_.         *)
(*                                                                         *)
(* The threads start with a session that is ready and with an object for   *)
(* every stream, and none of them closes the session.                      *)
(***************************************************************************)
EXTENDS WtGlue

CONSTANT Threads

VARIABLES
    core,     \* the quiche_py_wt_client that the objects share
    thread,   \* what each thread does, on which object
    got       \* history: the datagrams that calls returned, in order

vars == <<core, thread, got>>

\* The Python objects; the client is 0, which is no id of a session's stream.
Client == 0
Objects == {Client} \cup StreamIds

OnClient ==
    {"receive_packet", "handle_timeout", "next_send", "next_timeout_ms", "is_session_ready",
     "send_datagram", "send_oversized", "receive_datagram", "open", "accept", "last_error"}
OnStreamObject == {"read", "write", "write_fin", "reset", "stop_sending", "is_open"}

\* "entered": inside the method, outside mutex_; "inside": it holds mutex_;
\* "throw": it reads last_error_.  peeked is the size found by the first call
\* of receive_datagram, -1 if there was none.
ThreadStates ==
    [pc : {"idle", "entered", "inside", "throw"}, call : OnClient \cup OnStreamObject,
     obj : Objects, peeked : -1..MaxDatagrams]

IdleThread == [pc |-> "idle", call |-> "next_send", obj |-> Client, peeked |-> -1]

Established ==
    [FreshClient EXCEPT !.conn = "open", !.settings = "wt", !.wt = "live", !.session_ready = TRUE,
                        !.streams = [id \in StreamIds |-> [@[id] EXCEPT !.phase = "open"]]]

Init ==
    /\ core = Established
    /\ thread = [t \in Threads |-> IdleThread]
    /\ got = <<>>

Set(t, s) == thread' = [thread EXCEPT ![t] = s]

-----------------------------------------------------------------------------

\* Mutant of Enter: the methods are bound without nb::lock_self.
EnterUnlocked(t, call, obj) ==
    /\ thread[t].pc = "idle"
    /\ Set(t, [pc |-> IF call = "last_error" THEN "throw" ELSE "entered", call |-> call,
               obj |-> obj, peeked |-> -1])
    /\ UNCHANGED <<core, got>>

\* A method is called: the lock of its object is free.  The property
\* last_error goes straight to the string.
Enter(t, call, obj) ==
    /\ thread[t].pc = "idle"
    /\ \A s \in Threads : thread[s].pc = "idle" \/ thread[s].obj # obj
    /\ Set(t, [pc |-> IF call = "last_error" THEN "throw" ELSE "entered", call |-> call,
               obj |-> obj, peeked |-> -1])
    /\ UNCHANGED <<core, got>>

\* std::lock_guard on mutex_.
Lock(t) ==
    /\ thread[t].pc = "entered"
    /\ \A s \in Threads : thread[s].pc # "inside"
    /\ Set(t, [thread[t] EXCEPT !.pc = "inside"])
    /\ UNCHANGED <<core, got>>

\* The call of the glue that a thread in state s makes under mutex_.
GlueCall(s) ==
    CASE s.call = "receive_packet"   -> ReceivePacket(core, FALSE)
      [] s.call = "handle_timeout"   -> HandleTimeout(core)
      [] s.call = "next_send"        -> {NextSend(core)}
      [] s.call = "next_timeout_ms"  -> {NextTimeoutMs(core)}
      [] s.call = "is_session_ready" -> IsSessionReady(core)
      [] s.call = "send_datagram"    -> SendDatagram(core, FALSE)
      [] s.call = "send_oversized"   -> SendDatagram(core, TRUE)
      [] s.call = "receive_datagram" -> IF s.peeked = -1 THEN PeekDatagramSize(core)
                                        ELSE ReceiveDatagram(core, s.peeked)
      [] s.call = "open"             -> UNION {OpenStream(core, u) : u \in BOOLEAN}
      [] s.call = "accept"           -> UNION {AcceptStream(core, u) : u \in BOOLEAN}
      [] s.call = "read"             -> ReadStream(core, s.obj)
      [] s.call = "write"            -> WriteStream(core, s.obj, FALSE)
      [] s.call = "write_fin"        -> WriteStream(core, s.obj, TRUE)
      [] s.call = "reset"            -> ResetStream(core, s.obj)
      [] s.call = "stop_sending"     -> StopSending(core, s.obj)
      [] s.call = "is_open"          -> {Out(Inspect(core), "OK", 0)}

\* Whether the method raises on status st: the end of the connection is not an
\* error of receive_packet and handle_timeout, and WOULD_BLOCK is one of the
\* second call of receive_datagram.
Raises(s, st) ==
    CASE st = "OK"          -> FALSE
      [] st = "WOULD_BLOCK" -> s.peeked # -1
      [] st = "CLOSED"      -> s.call \notin {"receive_packet", "handle_timeout"}
      [] OTHER              -> TRUE

\* The glue does its work and releases mutex_; the method goes on to its second
\* call, to ThrowStatus, or returns and releases the object.
Unlock(t) ==
    /\ thread[t].pc = "inside"
    /\ \E out \in GlueCall(thread[t]) :
         LET s == thread[t]
             peeking == s.call = "receive_datagram" /\ s.peeked = -1
         IN /\ core' = out.c
            /\ got' = IF s.call = "receive_datagram" /\ ~peeking /\ out.st = "OK"
                        THEN Append(got, out.val) ELSE got
            /\ Set(t, IF Raises(s, out.st) THEN [s EXCEPT !.pc = "throw"]
                      ELSE IF peeking /\ out.st = "OK"
                        THEN [s EXCEPT !.pc = "entered", !.peeked = out.val]
                      ELSE IdleThread)

\* last_error_ has been copied: the method raises, or returns it.
Leave(t) ==
    /\ thread[t].pc = "throw"
    /\ Set(t, IdleThread)
    /\ UNCHANGED <<core, got>>

Next ==
    \/ \E t \in Threads, call \in OnClient : Enter(t, call, Client)
    \/ \E t \in Threads, call \in OnStreamObject, id \in StreamIds : Enter(t, call, id)
    \/ \E t \in Threads : Lock(t)
    \/ \E t \in Threads : Unlock(t)
    \/ \E t \in Threads : Leave(t)

Spec == Init /\ [][Next]_vars

-----------------------------------------------------------------------------
(* Properties.                                                             *)

\* Every variable has its type: the shared client and the threads' states stay
\* in their domains.
TypeOK ==
    /\ core \in WtClients
    /\ thread \in [Threads -> ThreadStates]
    /\ got \in Seq(1..MaxDatagrams)

\* Threads that call receive_datagram at the same time lose no datagram, share
\* none and keep their order: the size that the first call of the glue found is
\* that of the datagram that the second one takes, though the glue drops a
\* datagram that does not fit.
DatagramsExactlyOnce ==
    got \o core.received_datagrams = [i \in 1..core.arrived |-> i]

\* The calls of the glue that write last_error_.
Writers ==
    (OnClient \cup OnStreamObject) \ {"next_send", "is_session_ready", "last_error", "is_open"}

\* last_error_ is not read by one thread while another may write it: the read
\* in ThrowStatus and in the property last_error has no mutex_.
NoDataRace ==
    \A s, t \in Threads :
        s # t /\ thread[s].pc = "throw" =>
            ~(thread[t].pc = "inside" /\ thread[t].call \in Writers)
=============================================================================
