CONSTANTS
    Clients = {c1}
    Proxies = {x1, x2}
    NoProxy = NoProxy
    MaxClientIds = 2
    Subscribers = {game}
    EventTypes = {"ClientConnectEvent", "LogEvent"}
    MaxSubscriptions = 2
    LedgerEntities = {e1, e2, e3}
    ClientEntities = {e1}
    MaxMoves = 1
    ByteBits = 4
    Base = 16
    UuidBytes = 2
    MaxGroups = 6
    Seeds = {1, 60000}
    MaxList = 2
    BlobSizes = {0, 3, 9}
    BitFields <- MCBits
    Ints <- MCInts
SPECIFICATION MCSpec
INVARIANTS
    ConsumerSurvives
    EventsInOrder
    ClientsAreListed
    PacketReadBack
    TruncatedThrows
    
PROPERTIES
    OutsideMarked
CHECK_DEADLOCK FALSE
