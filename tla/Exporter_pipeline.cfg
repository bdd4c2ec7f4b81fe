CONSTANTS
    Peer = {p1}
    BatchSize = 2
    MaxMsgs = 6
SPECIFICATION ExpFairSpec
INVARIANTS ExpTypeOK InOrderExactlyOnce NothingLostWhileRunning
PROPERTIES ImplementsExportLog ShutdownCompletes FullBatchesFlow
CHECK_DEADLOCK FALSE
