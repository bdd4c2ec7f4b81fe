------------------------------ MODULE GraphDiff ------------------------------
(***************************************************************************)
(* compute_graph_differences of observer_controller/src/collector_manager  *)
(* .rs and the comparisons of observer_common/src/types.rs it is built     *)
(* from: the graphs the collectors uploaded are combined, the newest       *)
(* information first, and each collector is compared with the result.      *)
(*                                                                         *)
(* A Rust Option is a sequence of at most one element. An announcement or  *)
(* a channel_update is its timestamp and its data (alias and addresses, or *)
(* fees and limits); the ends of a channel never differ and are left out.  *)
(***************************************************************************)
EXTENDS Naturals, Sequences, FiniteSets, TLC, SequencesExt

None == << >>
Some(x) == <<x>>
Option(S) == {None} \cup {Some(x) : x \in S}
Unwrap(o) == o[1]

\* The newer of two Option<u32> timestamps.
LaterOf(a, b) ==
    IF a # None /\ b # None THEN Some(Max({Unwrap(a), Unwrap(b)}))
    ELSE IF a # None THEN a ELSE b

\* Mutant: the last one compared wins.
NodeIsLater(own, other) == TRUE

\* GossipNodeInfo::is_newer
NodeIsNewer(own, other) ==
    /\ own # None
    /\ other # None => Unwrap(own).last_update > Unwrap(other).last_update

\* same_info ignores the timestamp.
SameInfo(a, b) == a.data = b.data

\* merge_to_newest on one direction of a channel
MergeDirection(init, other) ==
    IF init # None /\ other # None
    THEN IF Unwrap(init).last_update > Unwrap(other).last_update THEN init ELSE other
    ELSE IF init # None THEN init ELSE other

\* GossipChannelInfo::merge_to_newest. The capacity goes with the newer timestamp.
MergeChannel(own, other) ==
    LET newer_ts == LaterOf(own.last_update, other.last_update) IN
    [ last_update |-> newer_ts,
      capacity_sats |->
        IF own.capacity_sats # None /\ other.capacity_sats # None
        THEN IF own.last_update = newer_ts THEN own.capacity_sats ELSE other.capacity_sats
        ELSE IF own.capacity_sats # None THEN own.capacity_sats ELSE other.capacity_sats,
      one_to_two |-> MergeDirection(own.one_to_two, other.one_to_two),
      two_to_one |-> MergeDirection(own.two_to_one, other.two_to_one) ]

\* GossipChannelInfo::try_from: the channel is as new as its newest direction.
ChannelInfo(channel, capacity) ==
    LET Stamp(d) == IF d = None THEN None ELSE Some(Unwrap(d).last_update) IN
    [ last_update |-> LaterOf(Stamp(channel.one_to_two), Stamp(channel.two_to_one)),
      capacity_sats |-> capacity,
      one_to_two |-> channel.one_to_two,
      two_to_one |-> channel.two_to_one ]
-----------------------------------------------------------------------------
(* A graph is the Vec of <<key, info>> pairs a collector's uploads appended. *)

\* The function f with v at k, whether k was in its domain or not.
Put(f, k, v) == [x \in DOMAIN f \cup {k} |-> IF x = k THEN v ELSE f[x]]

\* First pass: the entry of a key that is there already is replaced or merged.
InsertNode(known, n) ==
    IF n[1] \in DOMAIN known /\ ~NodeIsNewer(n[2], known[n[1]]) THEN known
    ELSE Put(known, n[1], n[2])

InsertChannel(known, c) ==
    Put(known, c[1], IF c[1] \in DOMAIN known THEN MergeChannel(known[c[1]], c[2]) ELSE c[2])

\* The loops over the nodes and the channels of one graph.
CombineNodes(known, nodes) ==
    LET acc[i \in 0..Len(nodes)] == IF i = 0 THEN known ELSE InsertNode(acc[i - 1], nodes[i])
    IN  acc[Len(nodes)]

CombineChannels(known, channels) ==
    LET acc[i \in 0..Len(channels)] ==
            IF i = 0 THEN known ELSE InsertChannel(acc[i - 1], channels[i])
    IN  acc[Len(channels)]

\* Mutant: the first entry of a key stays.
ViewOfFirst(entries) ==
    LET acc[i \in 0..Len(entries)] ==
            IF i = 0 THEN << >>
            ELSE IF entries[i][1] \in DOMAIN acc[i - 1] THEN acc[i - 1]
            ELSE Put(acc[i - 1], entries[i][1], entries[i][2])
    IN  acc[Len(entries)]

\* HashMap::from_iter: of several entries for a key the last one stays.
ViewOf(entries) ==
    LET acc[i \in 0..Len(entries)] ==
            IF i = 0 THEN << >> ELSE Put(acc[i - 1], entries[i][1], entries[i][2])
    IN  acc[Len(entries)]

\* The arm of the match on what is known globally and to the collector.
InfoArm(combined, view) ==
    CASE combined = None /\ view = None -> "matching"
      [] combined = None /\ view # None -> "never"
      [] combined # None /\ view = None -> "missing"
      [] OTHER -> IF SameInfo(Unwrap(combined), Unwrap(view)) THEN "matching" ELSE "stale"

\* Second pass. A node the collector does not know misses its information too; the
\* directions of a channel it does not know are not counted.
DiffOf(combined_nodes, combined_channels, nodes, channels) ==
    LET nview == ViewOf(nodes)
        cview == ViewOf(channels)
        Unknown(combined, view) == Cardinality(DOMAIN combined \ DOMAIN view)
        Known(combined, view) == Cardinality(DOMAIN combined \cap DOMAIN view)
        NodeArms(arm) == Cardinality({k \in DOMAIN combined_nodes \cap DOMAIN nview :
                                        InfoArm(combined_nodes[k], nview[k]) = arm})
        OneTwo(arm) == Cardinality({k \in DOMAIN combined_channels \cap DOMAIN cview :
                          InfoArm(combined_channels[k].one_to_two, cview[k].one_to_two) = arm})
        TwoOne(arm) == Cardinality({k \in DOMAIN combined_channels \cap DOMAIN cview :
                          InfoArm(combined_channels[k].two_to_one, cview[k].two_to_one) = arm})
    IN  [ known_nodes |-> Known(combined_nodes, nview),
          missing_nodes |-> Unknown(combined_nodes, nview),
          matching_node_info |-> NodeArms("matching"),
          missing_node_info |-> Unknown(combined_nodes, nview) + NodeArms("missing"),
          stale_node_info |-> NodeArms("stale"),
          known_channels |-> Known(combined_channels, cview),
          missing_channels |-> Unknown(combined_channels, cview),
          matching_channel_direction |-> OneTwo("matching") + TwoOne("matching"),
          missing_channel_direction |-> OneTwo("missing") + TwoOne("missing"),
          stale_channel_direction |-> OneTwo("stale") + TwoOne("stale") ]

CombineGraph(known, graph) ==
    [ nodes |-> CombineNodes(known.nodes, graph.nodes),
      channels |-> CombineChannels(known.channels, graph.channels) ]

\* The combined graph, visiting the collectors' graphs in the given order.
Combine(graphs, order) ==
    LET acc[i \in 0..Len(order)] ==
            IF i = 0 THEN [nodes |-> << >>, channels |-> << >>]
            ELSE CombineGraph(acc[i - 1], graphs[order[i]])
    IN  acc[Len(order)]

\* FullGraphDiff. Without any graph it is the default value.
compute_graph_differences(graphs, order) ==
    LET combined == Combine(graphs, order) IN
    [ graphs |-> graphs,
      controller_graph |-> combined,
      diffs |-> [c \in DOMAIN graphs |->
                    DiffOf(combined.nodes, combined.channels,
                           graphs[c].nodes, graphs[c].channels)] ]
=============================================================================
