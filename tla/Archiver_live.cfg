CONSTANTS
    o1 = o1
    o2 = o2
    o3 = o3
    h1 = h1
    h2 = h2
    Observation = {o1, o2}
    Hash <- MCHash
    Batch <- MCPartialBatch
    Undecodable = {}
    OtherTables = {}
    BatchSize = 1
    MaxDeliveries <- MCOnce
    PerRestart = 1
    MaxRestarts = 1
    Faults = TRUE
SPECIFICATION FairSpec
PROPERTIES EventuallyStored OnlyTheReaderWaits
CHECK_DEADLOCK FALSE
