\* One thread uses the client object, another a stream object of the same client.
SPECIFICATION Spec
CONSTANTS
    Threads = {t1, t2}
    StreamIds = {4}
    MaxDatagrams = 0
    MaxPackets = 1
    MaxChunks = 1
    MaxRoom = 1
    MaxCredit = 1
    ServerEndsSession = FALSE
INVARIANTS
    NoDataRace
