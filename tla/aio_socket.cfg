\* One task connects while the application closes the client.
SPECIFICATION Spec
CONSTANTS
    Tasks = {t1}
    MaxAttempts = 1
    StreamIds = {}
    MaxDatagrams = 0
    MaxPackets = 1
    MaxChunks = 0
    MaxRoom = 1
    MaxCredit = 0
INVARIANT
    SocketReleased
