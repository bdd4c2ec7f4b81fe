CONSTANTS
    p1 = p1
    p2 = p2
    a1 = a1
    a2 = a2
    clear = clear
    onion = onion
    Peer = {p1, p2}
    Addr = {clear, onion}
    Tor = {onion}
    Addrs <- MCAddrs
    StartupDelay = 2
    AttemptId = {a1, a2}
    AttemptRate = 1
    TotalAttempts = 2
    Targets = {2}
    PeerLists <- MCPeerLists
    MaxPosts = 1
    MaxDisconnects = 1
    AlwaysUp = {}
    AlwaysDown = {}
    Overlap = TRUE
SPECIFICATION PCMSpec
INVARIANTS FreshConnectionsFiltered
SYMMETRY AttemptSymmetry
