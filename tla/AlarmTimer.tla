------------------------------ MODULE AlarmTimer ------------------------------
(***************************************************************************)
(* Time.  QUICHE keeps its alarms in microseconds; next_timeout_ms rounds  *)
(* the distance to the earliest one up to milliseconds; the asyncio client *)
(* arms one timer of the event loop with it and calls handle_timeout when  *)
(* that fires.  The same arithmetic is in the three glue files and the     *)
(* same timer in the three asyncio clients; the lines are those of raw     *)
(* QUIC.                                                                   *)
(*                                                                         *)
(* Not every call ends in _process: reading, opening or accepting a stream *)
(* can make QUICHE set an earlier alarm and leaves the timer as it was.    *)
(***************************************************************************)
EXTENDS Integers

CONSTANT Instants   \* the microseconds at which something may happen

ASSUME InstantsAssumption == Instants \subseteq Nat

VARIABLES
    now,       \* the clock, in microseconds
    alarm,     \* deadlines of the armed alarms
    timer,     \* when the event loop runs _on_timeout, or None
    stale,     \* history: an alarm was set since the timer was armed
    spurious   \* history: an _on_timeout whose timer was not stale found no alarm due

vars == <<now, alarm, timer, stale, spurious>>

None == -1

-----------------------------------------------------------------------------

\* Mutant of TimeoutMs: truncated to whole milliseconds.
TimeoutMsTruncated(deadline, t) ==
    (IF deadline - t < 0 THEN 0 ELSE deadline - t) \div 1000

\* The distance from t to the deadline in milliseconds, rounded up.
TimeoutMs(deadline, t) ==
    ((IF deadline - t < 0 THEN 0 ELSE deadline - t) + 999) \div 1000

\* GetNextUpcomingAlarm: the earliest deadline.
IsNext(d, alarms) == d \in alarms /\ \A e \in alarms : d <= e

\* _reschedule_timer at time t: no alarm, no timer.
Rescheduled(alarms, t, tm) ==
    \/ alarms = {} /\ tm = None
    \/ \E d \in alarms : IsNext(d, alarms) /\ tm = t + 1000 * TimeoutMs(d, t)

Init ==
    /\ now = 0 /\ alarm = {} /\ timer = None /\ stale = FALSE /\ spurious = FALSE

\* Time passes, also beyond a timer that is armed: the loop may be late.
Tick ==
    /\ \E t \in Instants \cup ({timer} \ {None}) : t > now /\ now' = t
    /\ UNCHANGED <<alarm, timer, stale, spurious>>

\* QUICHE arms and cancels alarms while it works: at most two are armed.  An
\* alarm that is overdue stays until ProcessAlarmsUpTo runs it.
NewAlarms ==
    {s \in SUBSET ({t \in Instants : t >= now} \cup alarm) : \A a, b, c \in s : a = b \/ b = c \/ a = c}

\* A packet is received, or a call that ends in _process is made.
Processed ==
    /\ alarm' \in NewAlarms
    /\ Rescheduled(alarm', now, timer')
    /\ stale' = FALSE
    /\ UNCHANGED <<now, spurious>>

\* read(), open_*_stream() and accept_*_stream() do not run _process.
Deferred ==
    /\ timer # None
    /\ alarm' \in NewAlarms \ {{}}
    /\ stale' = TRUE
    /\ UNCHANGED <<now, timer, spurious>>

\* Mutant of OnTimeout: the timer is not armed again.
OnTimeoutOnce ==
    /\ timer # None /\ now >= timer
    /\ spurious' = (spurious \/ (~stale /\ {d \in alarm : d <= now} = {}))
    /\ alarm' = {d \in alarm : d > now}
    /\ timer' = None
    /\ stale' = FALSE
    /\ UNCHANGED now

\* _on_timeout: ProcessAlarmsUpTo(now) runs the alarms that are due, which may
\* arm others; then _process re-arms the timer.
OnTimeout ==
    /\ timer # None /\ now >= timer
    /\ spurious' = (spurious \/ (~stale /\ {d \in alarm : d <= now} = {}))
    /\ alarm' \in {{d \in alarm : d > now} \cup s : s \in {{}} \cup {{t} : t \in {u \in Instants : u > now}}}
    /\ Rescheduled(alarm', now, timer')
    /\ stale' = FALSE
    /\ UNCHANGED now

Next == Tick \/ Processed \/ Deferred \/ OnTimeout

Spec == Init /\ [][Next]_vars

\* The loop's clock advances to an armed timer, and the timer fires.
FairSpec == Spec /\ WF_vars(OnTimeout) /\ WF_vars(timer # None /\ Tick)

-----------------------------------------------------------------------------
(* Properties.                                                             *)

\* The clock, the deadlines and the timer are times.
TypeOK ==
    /\ now \in Nat /\ alarm \subseteq Nat /\ timer \in Nat \cup {None}
    /\ stale \in BOOLEAN /\ spurious \in BOOLEAN

\* tm is the right time for a timer, seen at time t.
Fits(alarms, tm, t) ==
    \/ alarms = {} /\ tm = None
    \/ \E d \in alarms : /\ IsNext(d, alarms)
                         /\ d <= tm
                         /\ tm < (IF d > t THEN d ELSE t) + 1000

\* A timer that is armed for the present alarms does not fire before the
\* earliest of them is due and is less than a millisecond late: the comment in
\* NextTimeoutMs says that the distance is rounded up so as not to busy-loop.
TimerMeetsAlarm == ~stale => Fits(alarm, timer, now)

\* _on_timeout never runs for nothing, so the event loop does not spin, unless
\* a call that skips _process moved the alarms after the timer was armed.
NoSpuriousTimeout == ~spurious

\* An alarm that is due is served, however the timer and the alarms were moved.
AlarmsEventuallyServed ==
    \A t \in Instants : t \in alarm /\ timer # None ~> t \notin alarm
=============================================================================
