SPECIFICATION MCSpec
CONSTANTS
    Shards = {s1, s2, s3}
    Entities = {e1}
    Owner = s1
    NoShard = NoShard
    Never = Never
    Delay = 2
    MaxTickGap = 2
    Timeout = 3
    MaxTime = 5
    MaxCrashes = 1
    Recorders = {s1, s2, s3}
    Seeder = s1
    Entity = e1
    MaxTransfers = 2
    MaxExpiries = 1
    MaxRecordCrashes = 1
    Peers = {s1, s2}
    NoLease = NoLease
    MaxPackets = 3
    MaxPeerCrashes = 1
INVARIANTS
    OneAuthority
    NeverLost
    NoPhantomHolder
    RecordLifetime
    
PROPERTY
    ImplementsAuthority
\* Packets to a crashed shard stay on their way; a transfer record comes to rest.
CHECK_DEADLOCK FALSE
