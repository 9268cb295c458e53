CONSTANTS
    Peers = {p1}
    Dialled = {p1}
    TickPackets = {k1}
    AppPackets = {k2}
    MaxHandles = 3
    MaxFaults = 1
    MaxMessages = 1
    MaxCloses = 1
    Dialling = {p1}
    EarlyRedial = TRUE
    NoHandle = NoHandle
    NoPacket = NoPacket
SPECIFICATION Spec
INVARIANTS
    
    EventsFindTheirRow
    
\* A fault ends the process.
CHECK_DEADLOCK FALSE
