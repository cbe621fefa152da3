\* Two threads share a client object and a stream object, and receive datagrams.
SPECIFICATION Spec
CONSTANTS
    Threads = {t1, t2}
    StreamIds = {4}
    MaxDatagrams = 2
    MaxPackets = 1
    MaxChunks = 1
    MaxRoom = 1
    MaxCredit = 0
    ServerEndsSession = FALSE
SYMMETRY ThreadSymmetry
INVARIANTS
    TypeOK
    DatagramsExactlyOnce
