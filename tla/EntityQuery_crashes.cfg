CONSTANTS
    Shards = {s1, s2}
    Entities = {e1, e2}
    CounterRange = 4
    MaxQueries = 2
    MaxFaults = 1
SPECIFICATION FairSpec
INVARIANTS
    CounterExact
    NoSharedAccess
    ResultComplete
PROPERTY
    QueryReturns
\* The last call ends, and a call that asked a crashed shard waits for ever.
CHECK_DEADLOCK FALSE
