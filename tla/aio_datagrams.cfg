\* Two tasks, one connection, datagrams only; also against the abstract specification.
SPECIFICATION FairSpec
CONSTANTS
    Tasks = {t1, t2}
    MaxAttempts = 1
    StreamIds = {}
    MaxDatagrams = 2
    MaxPackets = 1
    MaxChunks = 0
    MaxRoom = 1
    MaxCredit = 0
INVARIANTS
    NoLostWakeup
    DeadConnectionDetected
    AlarmsServed
    DatagramsExactlyOnce
    NoCloseStranded
PROPERTIES
    ConnectionErrorMeansClosed
    WaitersReleased
    KeepsPromise
