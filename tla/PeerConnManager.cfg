CONSTANTS
    p1 = p1
    p2 = p2
    a1 = a1
    a2 = a2
    clear = clear
    onion = onion
    Peer = {p1, p2}
    Addr = {clear, onion}
    Tor = {onion}
    Addrs <- MCAddrs
    StartupDelay = 2
    AttemptId = {a1, a2}
    AttemptRate = 1
    TotalAttempts = 2
    Targets = {1}
    PeerLists <- MCPeerLists
    MaxPosts = 1
    MaxDisconnects = 1
    AlwaysUp <- MCAlwaysUp
    AlwaysDown <- MCAlwaysDown
    Overlap = FALSE
SPECIFICATION PCMFairSpec
INVARIANTS TypeOK FilterMirrorsPending FreshConnectionsFiltered
PROPERTIES TargetReached FilterDrains
