----------------------------- MODULE AsyncPromise -----------------------------
(***************************************************************************)
(* What an asyncio client of quiche-py promises the tasks that share it,   *)
(* whatever protocol it speaks: an abstract specification that AsyncQuic,  *)
(* AsyncHttp3 and AsyncWt implement.                                       *)
(*                                                                         *)
(* The client is up until it goes down, for ever.  A call returns only     *)
(* while it is up, and hands out at most one of the items (datagrams,      *)
(* responses) that have come, each of them once.  A call that waits when   *)
(* the client goes down fails, and soon.                                   *)
(***************************************************************************)
CONSTANTS
    Tasks,    \* the application's tasks
    Items     \* what the peer may send

VARIABLES
    life,     \* "up" or "down"
    call,     \* the state of each task's call, or how its last one ended
    avail,    \* the items that have come and were not handed out
    taken     \* the items that were handed out

vars == <<life, call, avail, taken>>

Init ==
    /\ life = "up" /\ call = [p \in Tasks |-> "none"]
    /\ avail = {} /\ taken = {}

Set(p, s) == call' = [call EXCEPT ![p] = s]
GoesDownOrNot == life' \in {life, "down"}

\* A task begins a call, or prepares one (its name is being resolved).
Begin(p) ==
    /\ call[p] # "busy" /\ \E s \in {"none", "busy"} : Set(p, s)
    /\ UNCHANGED <<life, avail, taken>>

\* A call returns, at once or after a wait, with an item or without.
Return(p) ==
    /\ life = "up" /\ Set(p, "ok")
    /\ \/ UNCHANGED <<avail, taken>>
       \/ \E i \in avail : avail' = avail \ {i} /\ taken' = taken \cup {i}
    /\ UNCHANGED life

\* A call raises; a failed connect() takes the client down.
Fail(p) ==
    /\ Set(p, "error") /\ GoesDownOrNot
    /\ UNCHANGED <<avail, taken>>

\* The network, the timer or close(): items arrive, the client goes down.
Event ==
    /\ life = "up" /\ GoesDownOrNot
    /\ \E new \in SUBSET (Items \ (avail \cup taken)) : avail' = avail \cup new
    /\ UNCHANGED <<call, taken>>

Next == Event \/ \E p \in Tasks : Begin(p) \/ Return(p) \/ Fail(p)

Spec == Init /\ [][Next]_vars

\* A call that waits on a client that is down fails.
Release(p) == life = "down" /\ call[p] = "busy" /\ Fail(p)

FairSpec == Spec /\ \A p \in Tasks : WF_vars(Release(p))
=============================================================================
