-------------------------- MODULE PeerConnManager --------------------------
(***************************************************************************)
(* The collector's peer connection manager                                 *)
(* (gossip_collector/src/peer_conn_manager.rs): the actor that owns the    *)
(* eligible-peer queue and the list of pending connections, the watch      *)
(* channel on which it publishes the export filter, and the tasks that     *)
(* send it messages: the sweeper, the peer count monitor with its token    *)
(* bucket, and one try_add_peer task per connection attempt.               *)
(*                                                                         *)
(* Time is measured in units of the pending-connection delay's resolution. *)
(* The code only ever compares now - conn_time with the delay, so a        *)
(* conn_time is kept as an age that saturates at StartupDelay; the passage *)
(* of time ages everything at once (Tick).                                 *)
(***************************************************************************)
EXTENDS Naturals, Sequences, FiniteSets, Functions

CONSTANTS
    Peer,           \* public keys
    Addr,           \* socket addresses
    Tor,            \* the onion addresses among them
    Addrs,          \* Addrs[p]: the addresses of p in its PeerConnectionInfo
    StartupDelay,   \* pending_connection_delay
    AttemptId,      \* bound: the try_add_peer tasks that can be in flight
    AttemptRate,    \* attempt_rate: capacity of the token bucket
    TotalAttempts,  \* total_attempts: permits of the classic semaphore
    Targets,        \* the target counts the controller may post
    PeerLists,      \* the eligible-peer lists the controller may post
    MaxPosts,       \* bound: posted lists
    MaxDisconnects, \* bound: disconnections by remote peers
    AlwaysUp,       \* specifiers a connect() never fails on
    AlwaysDown,     \* specifiers a connect() never succeeds on
    Overlap         \* may the rotation return to a peer with an attempt in flight?

NoPeer == "none"

Specifier == Peer \X Addr

ASSUME PCMAssumption ==
    /\ NoPeer \notin Peer
    /\ Tor \subseteq Addr
    /\ Addrs \in [Peer -> Seq(Addr)]
    /\ \A p \in Peer : Addrs[p] # << >>
    /\ StartupDelay \in Nat \ {0}
    /\ AttemptRate \in Nat \ {0}
    /\ TotalAttempts \in Nat \ {0}
    /\ Targets \subseteq Nat
    /\ PeerLists \subseteq Seq(Peer)
    /\ MaxPosts \in Nat
    /\ MaxDisconnects \in Nat
    /\ AlwaysUp \subseteq Specifier
    /\ AlwaysDown \subseteq Specifier
    /\ Overlap \in BOOLEAN

VARIABLES
    mailbox,               \* the actor's unbounded mailbox
    eligible_peers,        \* VecDeque<PeerConnectionInfo>, as public keys
    eligible_peer_pubkeys, \* HashSet<PublicKey>
    pending_conns,         \* the pending connections: specifier and age
    pending_notifier,      \* the watch channel: value, and unseen by the exporter
    target_peer_count,     \* the AtomicUsize shared with the gRPC server
    monitor,               \* peer_count_monitor: where it is, and its last reply
    bucket,                \* tokens in the TokenBucket
    classic_sem,           \* permits in its classic semaphore
    attempts,              \* the try_add_peer tasks
    connected,             \* the peers the LDK node is connected to
    conn_age,              \* history: age of the attempt that made the connection
    disconnects,           \* bound: disconnections so far
    posts                  \* bound: lists posted so far

mgrVars == <<eligible_peers, eligible_peer_pubkeys, pending_conns>>
limiterVars == <<bucket, classic_sem>>
nodeVars == <<connected, conn_age, disconnects>>
pcmVars == <<mailbox, mgrVars, pending_notifier, target_peer_count, monitor,
             limiterVars, attempts, nodeVars, posts>>

Age == 0..StartupDelay

ConnManagerMsg ==
    [type : {"AddPendingConn"}, peer : Specifier, age : Age]
    \cup [type : {"RemovePendingConn"}, peer : Specifier]
    \cup [type : {"AddEligiblePeer"}, peer : Peer]
    \cup [type : {"SweepPendingConnections", "PeekEligiblePeer", "RotateEligiblePeers"}]

PendingConnection == [peer : Specifier, age : Age]

Attempt ==
    [pc : {"idle"}, peer : {NoPeer}, spec : {0}, age : {0}]
    \cup [pc : {"spawned", "sleep", "connect"}, peer : Peer, spec : Nat, age : Age]

IdleAttempt == [pc |-> "idle", peer |-> NoPeer, spec |-> 0, age |-> 0]

TypeOK ==
    /\ mailbox \in Seq(ConnManagerMsg)
    /\ eligible_peers \in Seq(Peer)
    /\ eligible_peer_pubkeys \in SUBSET Peer
    /\ pending_conns \in SUBSET PendingConnection
    /\ pending_notifier \in [value : SUBSET Peer, changed : BOOLEAN]
    /\ target_peer_count \in Nat
    /\ monitor \in [pc : {"tick", "acquire", "peek", "recheck"},
                    reply : SUBSET (Peer \cup {NoPeer})]
    /\ bucket \in 0..AttemptRate
    /\ classic_sem \in 0..TotalAttempts
    /\ attempts \in [AttemptId -> Attempt]
    /\ connected \in SUBSET Peer
    /\ conn_age \in [Peer -> Age]
    /\ disconnects \in 0..MaxDisconnects
    /\ posts \in 0..MaxPosts
-----------------------------------------------------------------------------
(* Helpers *)

\* The addresses of a list that are in S, in their order.
Among(list, S) ==
    LET acc[i \in 0..Len(list)] ==
            IF i = 0 THEN << >>
            ELSE IF list[i] \in S THEN Append(acc[i - 1], list[i]) ELSE acc[i - 1]
    IN  acc[Len(list)]

\* split() and sort_by(compare_for_sort): a stable sort, clearnet before Tor.
PeerSpecifiers(p) ==
    LET sorted == Among(Addrs[p], Addr \ Tor) \o Among(Addrs[p], Tor)
    IN  [i \in 1..Len(sorted) |-> <<p, sorted[i]>>]

build_pending_filter(pending) == {c.peer[1] : c \in pending}

Older(age) == IF age < StartupDelay THEN age + 1 ELSE age

\* send_replace: the receiver's next changed() fires even for an equal value.
Notify(pending) ==
    pending_notifier' = [value |-> build_pending_filter(pending), changed |-> TRUE]

BelowTarget == Cardinality(connected) < target_peer_count

InFlight == {a \in AttemptId : attempts[a].pc # "idle"}
-----------------------------------------------------------------------------
(* The actor: one action per message it handles *)

Receives(type) ==
    /\ mailbox # << >>
    /\ Head(mailbox).type = type
    /\ mailbox' = Tail(mailbox)

HandleAddPendingConn ==
    /\ Receives("AddPendingConn")
    /\ LET msg == Head(mailbox) IN
       pending_conns' = pending_conns \cup {[peer |-> msg.peer, age |-> msg.age]}
    /\ Notify(pending_conns')
    /\ UNCHANGED <<eligible_peers, eligible_peer_pubkeys, target_peer_count, monitor,
                   limiterVars, attempts, nodeVars, posts>>

HandleRemovePendingConn ==
    /\ Receives("RemovePendingConn")
    /\ pending_conns' = {c \in pending_conns : c.peer # Head(mailbox).peer}
    /\ Notify(pending_conns')
    /\ UNCHANGED <<eligible_peers, eligible_peer_pubkeys, target_peer_count, monitor,
                   limiterVars, attempts, nodeVars, posts>>

\* Mutant: the swept list is not published.
HandleSweepSilently ==
    /\ Receives("SweepPendingConnections")
    /\ pending_conns' = {c \in pending_conns : c.age < StartupDelay}
    /\ UNCHANGED <<eligible_peers, eligible_peer_pubkeys, pending_notifier, target_peer_count,
                   monitor, limiterVars, attempts, nodeVars, posts>>

\* Mutant: the sweep takes connections off the list one unit of time too early.
HandleSweepEarly ==
    /\ Receives("SweepPendingConnections")
    /\ pending_conns' = {c \in pending_conns : c.age + 1 < StartupDelay}
    /\ Notify(pending_conns')
    /\ UNCHANGED <<eligible_peers, eligible_peer_pubkeys, target_peer_count, monitor,
                   limiterVars, attempts, nodeVars, posts>>

\* Mutant: a connection as old as the delay is kept.
HandleSweepKeepsOld ==
    /\ Receives("SweepPendingConnections")
    /\ pending_conns' = {c \in pending_conns : c.age <= StartupDelay}
    /\ Notify(pending_conns')
    /\ UNCHANGED <<eligible_peers, eligible_peer_pubkeys, target_peer_count, monitor,
                   limiterVars, attempts, nodeVars, posts>>

HandleSweepPendingConnections ==
    /\ Receives("SweepPendingConnections")
    /\ pending_conns' = {c \in pending_conns : c.age < StartupDelay}
    /\ Notify(pending_conns')
    /\ UNCHANGED <<eligible_peers, eligible_peer_pubkeys, target_peer_count, monitor,
                   limiterVars, attempts, nodeVars, posts>>

\* Mutant: a key that is known already is queued once more.
HandleAddEligibleTwice ==
    /\ Receives("AddEligiblePeer")
    /\ LET p == Head(mailbox).peer IN
       /\ eligible_peer_pubkeys' = eligible_peer_pubkeys \cup {p}
       /\ eligible_peers' = Append(eligible_peers, p)
    /\ UNCHANGED <<pending_conns, pending_notifier, target_peer_count, monitor,
                   limiterVars, attempts, nodeVars, posts>>

HandleAddEligiblePeer ==
    /\ Receives("AddEligiblePeer")
    /\ LET p == Head(mailbox).peer IN
       IF p \in eligible_peer_pubkeys
       THEN UNCHANGED <<eligible_peers, eligible_peer_pubkeys>>
       ELSE /\ eligible_peer_pubkeys' = eligible_peer_pubkeys \cup {p}
            /\ eligible_peers' = Append(eligible_peers, p)
    /\ UNCHANGED <<pending_conns, pending_notifier, target_peer_count, monitor,
                   limiterVars, attempts, nodeVars, posts>>

HandlePeekEligiblePeer ==
    /\ Receives("PeekEligiblePeer")
    /\ monitor' = [monitor EXCEPT !.reply =
           {IF eligible_peers = << >> THEN NoPeer ELSE Head(eligible_peers)}]
    /\ UNCHANGED <<mgrVars, pending_notifier, target_peer_count, limiterVars, attempts,
                   nodeVars, posts>>

\* Mutant: the queue is not rotated.
HandleRotateNothing ==
    /\ Receives("RotateEligiblePeers")
    /\ UNCHANGED <<mgrVars, pending_notifier, target_peer_count, monitor, limiterVars,
                   attempts, nodeVars, posts>>

HandleRotateEligiblePeers ==
    /\ Receives("RotateEligiblePeers")
    /\ IF eligible_peers = << >>
       THEN UNCHANGED eligible_peers
       ELSE eligible_peers' = Append(Tail(eligible_peers), Head(eligible_peers))
    /\ UNCHANGED <<eligible_peer_pubkeys, pending_conns, pending_notifier,
                   target_peer_count, monitor, limiterVars, attempts, nodeVars, posts>>

HandleMsg ==
    \/ HandleAddPendingConn
    \/ HandleRemovePendingConn
    \/ HandleSweepPendingConnections
    \/ HandleAddEligiblePeer
    \/ HandlePeekEligiblePeer
    \/ HandleRotateEligiblePeers
-----------------------------------------------------------------------------
(* The senders outside the monitor: gRPC handlers and the sweeper *)

Send(msgs) == mailbox' = mailbox \o msgs

\* post_eligible_peers: one message per peer of the list, sent in a loop that
\* does not await. A list may repeat peers of an earlier one.
PostEligiblePeers(list) ==
    /\ posts < MaxPosts
    /\ posts' = posts + 1
    /\ Send([i \in 1..Len(list) |-> [type |-> "AddEligiblePeer", peer |-> list[i]]])
    /\ UNCHANGED <<mgrVars, pending_notifier, target_peer_count, monitor, limiterVars,
                   attempts, nodeVars>>

PostTargetPeerCount(n) ==
    /\ target_peer_count' = n
    /\ UNCHANGED <<mailbox, mgrVars, pending_notifier, monitor, limiterVars, attempts,
                   nodeVars, posts>>

\* pending_conn_sweeper, one interval tick. A sweep still in the mailbox stands
\* for any number of them.
SweeperTick ==
    LET msg == [type |-> "SweepPendingConnections"] IN
    /\ msg \notin Range(mailbox)
    /\ Send(<<msg>>)
    /\ UNCHANGED <<mgrVars, pending_notifier, target_peer_count, monitor, limiterVars,
                   attempts, nodeVars, posts>>
-----------------------------------------------------------------------------
(* peer_count_monitor *)

\* TokenBucket::new: the refill task.
RefillBucket ==
    /\ bucket < AttemptRate
    /\ bucket' = bucket + 1
    /\ UNCHANGED <<mailbox, mgrVars, pending_notifier, target_peer_count, monitor,
                   classic_sem, attempts, nodeVars, posts>>

\* The interval tick; a tick that finds the count on target goes back to waiting.
MonitorTick ==
    /\ monitor.pc = "tick"
    /\ BelowTarget
    /\ monitor' = [monitor EXCEPT !.pc = "acquire"]
    /\ UNCHANGED <<mailbox, mgrVars, pending_notifier, target_peer_count, limiterVars,
                   attempts, nodeVars, posts>>

\* Mutant: the permit of the classic semaphore is not taken.
MonitorAcquireToken ==
    /\ monitor.pc = "acquire"
    /\ bucket > 0
    /\ bucket' = bucket - 1
    /\ Send(<<[type |-> "PeekEligiblePeer"]>>)
    /\ monitor' = [monitor EXCEPT !.pc = "peek"]
    /\ UNCHANGED <<mgrVars, pending_notifier, target_peer_count, classic_sem, attempts,
                   nodeVars, posts>>

\* acquire() forgets a token and takes a permit; then the peek is sent.
MonitorAcquire ==
    /\ monitor.pc = "acquire"
    /\ bucket > 0 /\ classic_sem > 0
    /\ bucket' = bucket - 1
    /\ classic_sem' = classic_sem - 1
    /\ Send(<<[type |-> "PeekEligiblePeer"]>>)
    /\ monitor' = [monitor EXCEPT !.pc = "peek"]
    /\ UNCHANGED <<mgrVars, pending_notifier, target_peer_count, attempts, nodeVars, posts>>

\* next_eligible_peer returns, having sent the rotate; try_add_peer is spawned
\* for Some(peer), and for None the loop sleeps.
MonitorReply ==
    /\ monitor.pc = "peek"
    /\ \E p \in monitor.reply :
        IF p = NoPeer
        THEN UNCHANGED attempts
        ELSE /\ Overlap \/ \A a \in InFlight : attempts[a].peer # p
             /\ \E a \in AttemptId \ InFlight :
                    attempts' = [attempts EXCEPT
                        ![a] = [pc |-> "spawned", peer |-> p, spec |-> 0, age |-> 0]]
    /\ Send(<<[type |-> "RotateEligiblePeers"]>>)
    /\ monitor' = [pc |-> "recheck", reply |-> {}]
    /\ UNCHANGED <<mgrVars, pending_notifier, target_peer_count, limiterVars, nodeVars, posts>>

\* The end of the iteration: the count is read again and _permit is dropped.
MonitorRecheck ==
    /\ monitor.pc = "recheck"
    /\ monitor' = [monitor EXCEPT !.pc = IF BelowTarget THEN "acquire" ELSE "tick"]
    /\ classic_sem' = classic_sem + 1
    /\ UNCHANGED <<mailbox, mgrVars, pending_notifier, target_peer_count, bucket,
                   attempts, nodeVars, posts>>
-----------------------------------------------------------------------------
(* try_add_peer *)

AttemptStart(a) ==
    /\ attempts[a].pc = "spawned"
    /\ LET specs == PeerSpecifiers(attempts[a].peer) IN
       Send([i \in 1..Len(specs) |->
                [type |-> "AddPendingConn", peer |-> specs[i], age |-> 0]])
    /\ attempts' = [attempts EXCEPT ![a].pc = "sleep"]
    /\ UNCHANGED <<mgrVars, pending_notifier, target_peer_count, monitor, limiterVars,
                   nodeVars, posts>>

\* Mutant: no sleep before the first connect().
NoSleep(a) == TRUE

\* sleep(250ms): long enough for the actor to have handled what was sent
\* before it. Nothing is assumed about the exporter.
SleepElapsed(a) ==
    \A i \in DOMAIN mailbox :
        mailbox[i].type = "AddPendingConn" => mailbox[i].peer[1] # attempts[a].peer

AttemptWake(a) ==
    /\ attempts[a].pc = "sleep"
    /\ SleepElapsed(a)
    /\ attempts' = [attempts EXCEPT ![a].pc = "connect", ![a].spec = 1]
    /\ UNCHANGED <<mailbox, mgrVars, pending_notifier, target_peer_count, monitor,
                   limiterVars, nodeVars, posts>>

\* node_peer_connect returns Ok: also at once when the peer is connected already.
AttemptConnected(a) ==
    LET p == attempts[a].peer IN
    /\ attempts[a].pc = "connect"
    /\ p \in connected \/ PeerSpecifiers(p)[attempts[a].spec] \notin AlwaysDown
    /\ connected' = connected \cup {p}
    /\ conn_age' = IF p \in connected THEN conn_age
                   ELSE [conn_age EXCEPT ![p] = attempts[a].age]
    /\ attempts' = [attempts EXCEPT ![a] = IdleAttempt]
    /\ UNCHANGED <<mailbox, mgrVars, pending_notifier, target_peer_count, monitor,
                   limiterVars, disconnects, posts>>

\* node_peer_connect fails: the next address, or after the last one the peer is
\* taken off the filter list.
AttemptFailed(a) ==
    LET p     == attempts[a].peer
        specs == PeerSpecifiers(p)
        last  == attempts[a].spec = Len(specs)
    IN
    /\ attempts[a].pc = "connect"
    /\ p \notin connected
    /\ specs[attempts[a].spec] \notin AlwaysUp
    /\ IF last
       THEN /\ Send([i \in 1..Len(specs) |->
                        [type |-> "RemovePendingConn", peer |-> specs[i]]])
            /\ attempts' = [attempts EXCEPT ![a] = IdleAttempt]
       ELSE /\ attempts' = [attempts EXCEPT ![a].spec = @ + 1]
            /\ UNCHANGED mailbox
    /\ UNCHANGED <<mgrVars, pending_notifier, target_peer_count, monitor, limiterVars,
                   nodeVars, posts>>

\* The remote side, or the network, ends a connection.
Disconnect(p) ==
    /\ p \in connected
    /\ disconnects < MaxDisconnects
    /\ connected' = connected \ {p}
    /\ conn_age' = [conn_age EXCEPT ![p] = 0]
    /\ disconnects' = disconnects + 1
    /\ UNCHANGED <<mailbox, mgrVars, pending_notifier, target_peer_count, monitor,
                   limiterVars, attempts, posts>>

Tick ==
    /\ mailbox' = [i \in DOMAIN mailbox |->
                    IF mailbox[i].type = "AddPendingConn"
                    THEN [mailbox[i] EXCEPT !.age = Older(@)] ELSE mailbox[i]]
    /\ pending_conns' = {[c EXCEPT !.age = Older(@)] : c \in pending_conns}
    /\ attempts' = [a \in AttemptId |->
                    IF attempts[a].pc \in {"sleep", "connect"}
                    THEN [attempts[a] EXCEPT !.age = Older(@)] ELSE attempts[a]]
    /\ conn_age' = [p \in Peer |-> IF p \in connected THEN Older(conn_age[p])
                                   ELSE conn_age[p]]
    /\ UNCHANGED <<eligible_peers, eligible_peer_pubkeys, pending_notifier,
                   target_peer_count, monitor, limiterVars, connected, disconnects, posts>>
-----------------------------------------------------------------------------
PCMInit ==
    /\ mailbox = << >>
    /\ eligible_peers = << >>
    /\ eligible_peer_pubkeys = {}
    /\ pending_conns = {}
    /\ pending_notifier = [value |-> {}, changed |-> FALSE]
    /\ target_peer_count = 0
    /\ monitor = [pc |-> "tick", reply |-> {}]
    /\ bucket = AttemptRate
    /\ classic_sem = TotalAttempts
    /\ attempts = [a \in AttemptId |-> IdleAttempt]
    /\ connected = {}
    /\ conn_age = [p \in Peer |-> 0]
    /\ disconnects = 0
    /\ posts = 0

AttemptStep(a) ==
    AttemptStart(a) \/ AttemptWake(a) \/ AttemptConnected(a) \/ AttemptFailed(a)

PCMNext ==
    \/ HandleMsg
    \/ \E list \in PeerLists : PostEligiblePeers(list)
    \/ \E n \in Targets : PostTargetPeerCount(n)
    \/ SweeperTick
    \/ RefillBucket
    \/ MonitorTick
    \/ MonitorAcquire
    \/ MonitorReply
    \/ MonitorRecheck
    \/ \E a \in AttemptId : AttemptStep(a)
    \/ \E p \in Peer : Disconnect(p)
    \/ Tick

PCMSpec == PCMInit /\ [][PCMNext]_pcmVars
-----------------------------------------------------------------------------
(* Properties *)

\* The filter the exporter can read names exactly the public keys of the
\* pending connections: every handler that changes the list (add, remove,
\* sweep) republishes it, in the same step.
FilterMirrorsPending == pending_notifier.value = build_pending_filter(pending_conns)

\* eligible_peer_pubkeys is the set of the keys in the eligible_peers queue and
\* the queue holds no key twice, whatever the order in which posts, peeks and
\* rotations reach the actor: a peer is attempted once per round.
EligibleMirrorsQueue ==
    /\ eligible_peer_pubkeys = Range(eligible_peers)
    /\ IsInjective(eligible_peers)

\* "To try and add a new peer, we'll first add it to our filter list. Then, we'll
\* ask our LDK node to connect": while less than the delay has passed since the
\* attempt that made a connection, the published filter names that peer.
\* try_add_peer, the sweep and the removals of other attempts all bear on it.
FreshConnectionsFiltered ==
    \A p \in connected : conn_age[p] < StartupDelay => p \in pending_notifier.value
-----------------------------------------------------------------------------
(* Liveness: every task of the runtime runs, time passes, and the controller *)
(* posts its peer list and target.                                           *)

PCMFairness ==
    /\ WF_pcmVars(HandleMsg)
    /\ WF_pcmVars(SweeperTick)
    /\ WF_pcmVars(RefillBucket)
    /\ WF_pcmVars(MonitorTick \/ MonitorAcquire \/ MonitorReply \/ MonitorRecheck)
    /\ \A a \in AttemptId : WF_pcmVars(AttemptStep(a))
    /\ WF_pcmVars(\E list \in PeerLists : PostEligiblePeers(list))
    /\ \A n \in Targets : WF_pcmVars(PostTargetPeerCount(n))
    /\ WF_pcmVars(Tick)

PCMFairSpec == PCMSpec /\ PCMFairness

\* peer_count_monitor keeps attempting the eligible peers in turn until the
\* target is reached, unreachable ones among them or not.
TargetReached == <>[](target_peer_count \in Targets /\ ~BelowTarget)

\* Once the target is reached nobody is muted for ever: the sweeper empties the
\* filter for good.
FilterDrains == <>[](pending_notifier.value = {})
=============================================================================
