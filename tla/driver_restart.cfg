\* Two connections of one QuicClient, one datagram and two streams on each.
SPECIFICATION Spec
CONSTANTS
    StreamIds = {0, 3}
    MaxDatagrams = 1
    MaxPackets = 1
    MaxChunks = 1
    MaxRoom = 1
    MaxCredit = 1
    MaxStarts = 2
INVARIANTS
    TypeOK
    DatagramsOfThisConnection
    ClosedErrorIsTrue
PROPERTIES
    EndIsExplained
