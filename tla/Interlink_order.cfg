CONSTANTS
    Peers = {p1, p2}
    Dialled = {p1}
    TickPackets = {k1, k2}
    AppPackets = {}
    MaxHandles = 3
    MaxFaults = 1
    MaxMessages = 2
    MaxCloses = 0
    Dialling = {p2}
    EarlyRedial = FALSE
    NoHandle = NoHandle
    NoPacket = NoPacket
SPECIFICATION FairSpec
INVARIANT
    OrderKept
PROPERTY
    QueuedAreSent
\* A fault ends the process.
CHECK_DEADLOCK FALSE
