CONSTANTS
    k1 = k1
    k2 = k2
    as1 = as1
    NoAsn = NoAsn
    LBracket = LBracket
    Comma = Comma
    RBracket = RBracket
    NodeList <- MCNodeList
    AsnOf <- MCAsnOf
    AddrsOf <- MCAddrsOf
    PrevAsns = {as1}
    NoSockets = {k2}
    GraphNode = {n1, n2}
    GraphChannel = {c1}
    MinNodes = 0
    QueueSize = 2
    FlushBound = 2
    BucketSize = 1
    MaxRequests = 1
    Faults = TRUE
    Scripts <- MCScripts
    MaxEvents = 1
SPECIFICATION AnaSpec
INVARIANTS AnaTypeOK FileWellFormed ParsesOnlyIfComplete NodeListsAgree
PROPERTY CommandEnds
CHECK_DEADLOCK FALSE
