CONSTANTS
    Bounds = {b1, b2}
    Ids = {s1, s2, s3}
    NoBound = NoBound
    NoId = NoId
    MaxWatchdogStarts = 2
    MaxShardCrashes = 1
SPECIFICATION Spec
SYMMETRY Symmetry
INVARIANTS
    ClaimsConsistent
    ExclusiveLease
    ShardsFindBounds
CHECK_DEADLOCK FALSE
