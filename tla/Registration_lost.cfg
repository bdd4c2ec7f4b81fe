CONSTANTS
    Collector = {c1}
    Assigned = {c1}
    ListLen = 3
    ChunkSize = 2
    TargetCount = 1
    MaxCrashes = 0
    MaxFaults = 0
    MaxLost = 1
SPECIFICATION RegFairSpec
PROPERTY SomeRegistrationWorked
