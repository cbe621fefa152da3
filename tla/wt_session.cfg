\* Two tasks set up a session and exchange datagrams; the server does not end it.
SPECIFICATION FairSpec
CONSTANTS
    Tasks = {t1, t2}
    StreamIds = {}
    MaxDatagrams = 2
    MaxPackets = 1
    MaxChunks = 0
    MaxRoom = 1
    MaxCredit = 1
    ServerEndsSession = FALSE
INVARIANTS
    NoLostWakeup
    DatagramsExactlyOnce
    NoCloseStranded
PROPERTIES
    ConnectMeansSession
    KeepsPromise
