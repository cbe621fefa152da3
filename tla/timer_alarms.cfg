\* Instants on both sides of whole milliseconds.
SPECIFICATION FairSpec
CONSTANT
    Instants = {0, 1, 999, 1000, 1001, 2000, 2001}
INVARIANTS
    TimerMeetsAlarm
    NoSpuriousTimeout
PROPERTIES
    AlarmsEventuallyServed
