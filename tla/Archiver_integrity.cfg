CONSTANTS
    o1 = o1
    o2 = o2
    o3 = o3
    h1 = h1
    h2 = h2
    Observation = {o1, o2}
    Hash <- MCHash
    Batch <- MCSmallBatch
    Undecodable = {}
    OtherTables = {}
    BatchSize = 1
    MaxDeliveries <- MCOnce
    PerRestart = 0
    MaxRestarts = 0
    Faults = FALSE
SPECIFICATION Spec
INVARIANT ReferentialIntegrity
CHECK_DEADLOCK FALSE
