CONSTANTS
    Collector = {c1, c2}
    Assigned = {c1}
    ListLen = 4
    ChunkSize = 2
    TargetCount = 1
    MaxCrashes = 2
    MaxFaults = 1
    MaxLost = 1
    NoQuery = NoQuery
SPECIFICATION StaFairSpec
INVARIANTS RegTypeOK TargetAfterPeers
PROPERTIES RegistrationCompletes HeartbeatsResume StatusAccountsForAll
