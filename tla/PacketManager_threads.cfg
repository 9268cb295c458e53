CONSTANTS
    tick = tick
    app = app
    s1 = s1
    s2 = s2
    s3 = s3
    Threads = {tick, app}
    TickThread = tick
    Slots = {s1, s2, s3}
    SlotOf <- MCSlotOf
    Types = {ta, tb}
    NoSub = NoSub
    MaxId = 4
    MaxPackets = 2
SPECIFICATION Spec
INVARIANTS
    EntriesOwned
    DispatchSafe
    EveryoneCalledOnce
\* All packets have been dispatched and all subscriptions used.
CHECK_DEADLOCK FALSE
