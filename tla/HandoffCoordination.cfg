SPECIFICATION MCSpec
CONSTANTS
    Shards = {1, 2, 3}
    NoShard = NoShard
    MaxCrashes = 1
    NHShards = {1, 2, 3}
    NHNone = NHNone
    NHLeadTicks = 2
    NHMaxWait = 1
    NHMaxHandoffs = 2
    Publishers = {p1, p2, p3}
    FirstTracker = p1
    TracedEntity = e1
    MaxMoves = 2
    MaxDeaths = 1
PROPERTIES
    SettledStays
    NHImplementsToken
    PublishedByTracker
    OwnerAgreed
    NaiveSettled
    TelemetrySettled
CHECK_DEADLOCK FALSE
