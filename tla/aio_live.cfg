\* Two tasks and one incoming unidirectional stream, whose read() leaves
\* packets in the send queue.
SPECIFICATION FairSpec
CONSTANTS
    Tasks = {t1, t2}
    MaxAttempts = 1
    StreamIds = {3}
    MaxDatagrams = 0
    MaxPackets = 1
    MaxChunks = 1
    MaxRoom = 1
    MaxCredit = 0
PROPERTIES
    QueuedPacketsLeave
    StreamErrorsSurface
