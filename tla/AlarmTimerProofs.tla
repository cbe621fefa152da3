--------------------------- MODULE AlarmTimerProofs ---------------------------
(***************************************************************************)
(* Proofs about AlarmTimer, for every set of instants.                     *)
(***************************************************************************)
EXTENDS AlarmTimer, TLAPS

\* The arithmetic of NextTimeoutMs: the timeout is not negative, a timer set
\* with it is not early, and it is less than a millisecond late.
LEMMA TimeoutRoundsUp ==
    ASSUME NEW d \in Nat, NEW t \in Nat
    PROVE  /\ TimeoutMs(d, t) \in Nat
           /\ d <= t + 1000 * TimeoutMs(d, t)
           /\ t + 1000 * TimeoutMs(d, t) < (IF d > t THEN d ELSE t) + 1000
<1>1. CASE d - t < 0
  BY <1>1 DEF TimeoutMs
<1>2. CASE ~(d - t < 0)
  BY <1>2 DEF TimeoutMs
<1> QED BY <1>1, <1>2

\* _reschedule_timer establishes what TimerMeetsAlarm says of the timer.
LEMMA RescheduledMeetsAlarm ==
    ASSUME NEW alarms \in SUBSET Nat, NEW t \in Nat, NEW tm, Rescheduled(alarms, t, tm)
    PROVE  tm \in Nat \cup {None} /\ Fits(alarms, tm, t)
<1>1. CASE alarms = {} /\ tm = None
  BY <1>1 DEF Fits
<1>2. CASE \E d \in alarms : IsNext(d, alarms) /\ tm = t + 1000 * TimeoutMs(d, t)
  <2>1. PICK d \in alarms : IsNext(d, alarms) /\ tm = t + 1000 * TimeoutMs(d, t)
    BY <1>2
  <2>2. d \in Nat
    OBVIOUS
  <2>3. /\ TimeoutMs(d, t) \in Nat
        /\ d <= tm
        /\ tm < (IF d > t THEN d ELSE t) + 1000
    BY <2>1, <2>2, TimeoutRoundsUp
  <2>4. tm \in Nat
    BY <2>1, <2>3
  <2> QED BY <2>1, <2>3, <2>4 DEF Fits
<1> QED BY <1>1, <1>2 DEF Rescheduled

\* A timer that fits goes on fitting as time passes.
LEMMA FitsLater ==
    ASSUME NEW alarms \in SUBSET Nat, NEW tm \in Nat \cup {None}, NEW t \in Nat, NEW u \in Nat,
           t <= u, Fits(alarms, tm, t)
    PROVE  Fits(alarms, tm, u)
<1>1. CASE alarms = {} /\ tm = None
  BY <1>1 DEF Fits
<1>2. CASE \E d \in alarms : /\ IsNext(d, alarms) /\ d <= tm
                             /\ tm < (IF d > t THEN d ELSE t) + 1000
  <2>1. PICK d \in alarms : /\ IsNext(d, alarms) /\ d <= tm
                            /\ tm < (IF d > t THEN d ELSE t) + 1000
    BY <1>2
  <2>2. d \in Nat /\ tm \in Int
    BY DEF None
  <2>3. tm < (IF d > u THEN d ELSE u) + 1000
    BY <2>1, <2>2
  <2> QED BY <2>1, <2>3 DEF Fits
<1> QED BY <1>1, <1>2 DEF Fits

\* The inductive invariant: a timer that is not stale fits the alarms, and no
\* timeout was spurious.
Inv == TypeOK /\ TimerMeetsAlarm /\ NoSpuriousTimeout

\* Every step of the clock, of QUICHE and of the event loop keeps Inv.
LEMMA InvInductive == Inv /\ [Next]_vars => Inv'
<1> SUFFICES ASSUME Inv, [Next]_vars PROVE Inv'
  OBVIOUS
<1> USE InstantsAssumption
<1>a. NewAlarms \subseteq SUBSET Nat
  BY DEF NewAlarms, Inv, TypeOK
<1>1. CASE Tick
  <2>1. now \in Nat /\ now' \in Nat /\ now < now' /\ UNCHANGED <<alarm, timer, stale, spurious>>
    BY <1>1 DEF Tick, Inv, TypeOK, None
  <2>2. ASSUME ~stale PROVE Fits(alarm, timer, now')
    <3>1. Fits(alarm, timer, now) /\ alarm \in SUBSET Nat /\ timer \in Nat \cup {None}
      BY <2>2 DEF Inv, TypeOK, TimerMeetsAlarm
    <3> QED BY <2>1, <3>1, FitsLater
  <2> QED BY <2>1, <2>2 DEF Inv, TypeOK, NoSpuriousTimeout, TimerMeetsAlarm
<1>2. CASE Processed
  <2>1. alarm' \in SUBSET Nat /\ now \in Nat /\ Rescheduled(alarm', now, timer')
    BY <1>2, <1>a DEF Processed, Inv, TypeOK
  <2>2. timer' \in Nat \cup {None} /\ Fits(alarm', timer', now)
    BY <2>1, RescheduledMeetsAlarm
  <2> QED BY <1>2, <2>1, <2>2 DEF Processed, Inv, TypeOK, TimerMeetsAlarm, NoSpuriousTimeout
<1>3. CASE Deferred
  BY <1>3, <1>a DEF Deferred, Inv, TypeOK, TimerMeetsAlarm, NoSpuriousTimeout
<1>4. CASE OnTimeout
  <2>1. alarm' \in SUBSET Nat /\ now \in Nat /\ Rescheduled(alarm', now, timer') /\ stale' = FALSE
        /\ now' = now /\ spurious' \in BOOLEAN
    BY <1>4 DEF OnTimeout, Inv, TypeOK
  <2>2. timer' \in Nat \cup {None} /\ Fits(alarm', timer', now)
    BY <2>1, RescheduledMeetsAlarm
  <2>3. ASSUME ~stale PROVE {e \in alarm : e <= now} # {}
    <3>1. PICK d \in alarm : d <= timer
      BY <1>4, <2>3 DEF OnTimeout, Inv, TimerMeetsAlarm, Fits
    <3>2. d \in Nat /\ timer \in Int /\ d <= now
      BY <1>4, <3>1 DEF OnTimeout, Inv, TypeOK, None
    <3> QED BY <3>2
  <2>4. ~spurious'
    BY <1>4, <2>3 DEF OnTimeout, Inv, NoSpuriousTimeout
  <2> QED BY <2>1, <2>2, <2>4 DEF Inv, TypeOK, TimerMeetsAlarm, NoSpuriousTimeout
<1>5. CASE UNCHANGED vars
  BY <1>5 DEF vars, Inv, TypeOK, TimerMeetsAlarm, NoSpuriousTimeout, Fits, IsNext
<1> QED BY <1>1, <1>2, <1>3, <1>4, <1>5 DEF Next

\* Inv holds in every reachable state.
LEMMA InvHolds == Spec => []Inv
<1>1. ASSUME Init PROVE Inv
  <2>1. TypeOK
    BY <1>1 DEF Init, TypeOK
  <2>2. TimerMeetsAlarm
    BY <1>1 DEF Init, TimerMeetsAlarm, Fits
  <2> QED BY <1>1, <2>1, <2>2 DEF Init, Inv, NoSpuriousTimeout
<1> QED BY <1>1, InvInductive, PTL DEF Spec

\* next_timeout_ms and _reschedule_timer: a timer that is not stale is never
\* early and less than a millisecond late, for all alarms.
THEOREM TimerMeetsAlarmAlways == Spec => []TimerMeetsAlarm
<1>1. Inv => TimerMeetsAlarm
  BY DEF Inv
<1> QED BY <1>1, InvHolds, PTL

\* _on_timeout never runs for nothing, unless a call that skips _process moved
\* the alarms after the timer was armed.
THEOREM NoSpuriousTimeoutAlways == Spec => []NoSpuriousTimeout
<1>1. Inv => NoSpuriousTimeout
  BY DEF Inv
<1> QED BY <1>1, InvHolds, PTL
=============================================================================
