CONSTANTS
    o1 = o1
    o2 = o2
    o3 = o3
    h1 = h1
    h2 = h2
    Observation = {o1, o2, o3}
    Hash <- MCHash
    Batch <- MCBatch
    Undecodable = {o3}
    OtherTables = {}
    BatchSize = 2
    MaxDeliveries <- MCFirstTwice
    PerRestart = 0
    MaxRestarts = 1
    Faults = TRUE
SPECIFICATION Spec
INVARIANTS TypeOK OneRowPerDelivery NothingLostWhileUp TimingsBufferBounded
CHECK_DEADLOCK FALSE
