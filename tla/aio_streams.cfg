\* Two tasks and one outgoing bidirectional stream.
SPECIFICATION Spec
CONSTANTS
    Tasks = {t1, t2}
    MaxAttempts = 1
    StreamIds = {0}
    MaxDatagrams = 0
    MaxPackets = 1
    MaxChunks = 1
    MaxRoom = 1
    MaxCredit = 1
SYMMETRY TaskSymmetry
INVARIANTS
    TypeOK
    NoLostWakeup
