CONSTANTS
    c1 = c1
    c2 = c2
    n1 = n1
    n2 = n2
    k1 = k1
    k2 = k2
    Collector = {c1, c2}
    Ends <- MCEnds
    Announcement <- MCAnnouncement
    KnowsCapacity = {c2}
    InitGraph <- MCInitGraph
    ChunkSize = 1
    WriteCap = 1
    MaxUploads <- MCUploads
    MaxDumps = 1
    MaxEvents = 1
SPECIFICATION GUSpec
CHECK_DEADLOCK FALSE
INVARIANTS GraphTypeOK EachEntryOnce UploadsAreWhole NewestWins DiffCorrect ReportsNotAbandoned
