\* Two tasks that share one connection with room for two requests; also against the
\* abstract specification.
SPECIFICATION FairSpec
CONSTANTS
    Tasks = {t1, t2}
    StreamIds = {0, 4}
    MaxPackets = 1
    MaxCredit = 2
INVARIANTS
    TypeOK
    NoLostWakeup
    DeadConnectionDetected
    OnlyRefusalsLinger
    ResponsesExactlyOnce
PROPERTIES
    CompletedResponseEndsRequest
    QueuedPacketsLeave
    KeepsPromise
