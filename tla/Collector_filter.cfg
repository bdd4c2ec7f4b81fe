CONSTANTS
    p1 = p1
    p2 = p2
    clear = clear
    Peer = {p1}
    Addr = {clear}
    Tor = {}
    Addrs <- MCAddrs
    StartupDelay = 2
    AttemptId = {1}
    AttemptRate = 1
    TotalAttempts = 2
    Targets = {1}
    PeerLists <- MCPeerLists
    MaxPosts = 2
    MaxDisconnects = 1
    AlwaysUp = {}
    AlwaysDown = {}
    Overlap = FALSE
    BatchSize = 1
    MaxMsgs = 2
SPECIFICATION CollectorSpec
INVARIANTS LocalFilterCurrent EligibleMirrorsQueue
PROPERTY FreshPeersMuted
CHECK_DEADLOCK FALSE
