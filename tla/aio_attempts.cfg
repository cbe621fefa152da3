\* Two tasks, two attempts to connect: cores and sockets of both are alive.
SPECIFICATION Spec
CONSTANTS
    Tasks = {t1, t2}
    MaxAttempts = 2
    StreamIds = {}
    MaxDatagrams = 0
    MaxPackets = 1
    MaxChunks = 0
    MaxRoom = 1
    MaxCredit = 0
SYMMETRY TaskSymmetry
INVARIANTS
    DeadConnectionDetected
    AlarmsServed
