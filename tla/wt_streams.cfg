\* Two tasks and one stream of a session that the server may end.
SPECIFICATION Spec
CONSTANTS
    Tasks = {t1, t2}
    StreamIds = {4}
    MaxDatagrams = 0
    MaxPackets = 1
    MaxChunks = 1
    MaxRoom = 1
    MaxCredit = 1
    ServerEndsSession = TRUE
SYMMETRY TaskSymmetry
INVARIANTS
    TypeOK
    NoLostWakeup
    DeadConnectionDetected
    CloseLeavesPointersGood
