CONSTANTS
    Bounds = {b1, b2}
    Ids = {s1, s2}
    NoBound = NoBound
    NoId = NoId
    MaxWatchdogStarts = 1
    MaxShardCrashes = 0
SPECIFICATION FairSpec
PROPERTY
    AllBoundsServed
