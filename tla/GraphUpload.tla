----------------------------- MODULE GraphUpload -----------------------------
(***************************************************************************)
(* Graph uploads and reports. On its cron schedule each collector reads    *)
(* the network graph of its LDK node item by item and posts it in chunks   *)
(* (upload_gossip_graph of gossip_collector/src/main.rs, send_gossip_graph *)
(* of observer_common/src/controller_client.rs). The controller's manager  *)
(* appends the chunks; on a schedule of its own the differ takes all of    *)
(* them, computes the differences (GraphDiff) and hands the files to the   *)
(* JSON writer (collector_manager.rs, json_writer.rs).                     *)
(*                                                                         *)
(* The manager's mailbox is a FIFO that every sender reaches without       *)
(* waiting, so a post or a dump is one step with its handling. A file is   *)
(* its name; whether it could be written is only logged.                   *)
(***************************************************************************)
EXTENDS GraphDiff

CONSTANTS
    Collector,      \* collector uuids
    Ends,           \* the nodes at the ends of each channel
    Announcement,   \* node_announcements and channel_updates: timestamp and data
    KnowsCapacity,  \* collectors whose LDK node looks up funding outputs
    InitGraph,      \* the network graph each LDK node has on disk at the start
    ChunkSize,      \* entries per post_gossip_graph_chunk
    WriteCap,       \* capacity of the JSON writer's channel
    MaxUploads,     \* bound: uploads of each collector
    MaxDumps,       \* bound: runs of the differ
    MaxEvents       \* bound: changes of LDK's graphs, failed calls, and stops and
                    \* restarts of the controller, taken together

Channel == DOMAIN Ends
Node == UNION {Ends[ch] : ch \in Channel}
Capacity == 1   \* the funding output of a channel, the same for everyone

\* A network graph: the directions of every channel, and its ends with what they
\* announced. LDK keeps a node only while it has a channel.
PartialFunctions(S, T) == UNION {[D -> T] : D \in SUBSET S}
Directions == [one_to_two : Option(Announcement), two_to_one : Option(Announcement)]
NetworkGraph ==
    {g \in [nodes : PartialFunctions(Node, Option(Announcement)),
            channels : PartialFunctions(Channel, Directions)] :
        DOMAIN g.nodes = UNION {Ends[ch] : ch \in DOMAIN g.channels}}

\* A node or channel does not sign two announcements with one timestamp (BOLT 7).
ASSUME GraphUploadAssumption ==
    /\ \A a \in Announcement : a.last_update \in Nat
    /\ \A a, b \in Announcement : a.last_update = b.last_update => a = b
    /\ IsFiniteSet(Collector) /\ IsFiniteSet(Channel) /\ IsFiniteSet(Node)
    /\ InitGraph \in [Collector -> NetworkGraph]
    /\ KnowsCapacity \subseteq Collector
    /\ ChunkSize \in Nat \ {0} /\ WriteCap \in Nat \ {0}

VARIABLES
    ldk,            \* network_graph() of each collector's LDK node
    uploader,       \* upload_gossip_graph of each collector
    manager,        \* is the manager actor running
    gossip_graphs,  \* the manager's buffers: what each collector posted
    differ,         \* collector_gossip_differ: where it is, what it has left to send
    report,         \* the FullGraphDiff it has computed
    write_chan,     \* the channel to the JSON writer
    writer,         \* is json_writer_task running
    stop_signal,    \* the controller's cancellation token
    delivered,      \* history: entries that reached the manager since it started
    dumped,         \* history: those of them that the differ took
    listed,         \* history: what LDK held from the listing to the end of an upload
    uploads, dumps, events

uploadVars == <<ldk, uploader, listed, uploads>>
managerVars == <<manager, gossip_graphs, delivered, dumped>>
reportVars == <<differ, report, write_chan, writer, stop_signal, dumps>>
guVars == <<uploadVars, managerVars, reportVars, events>>

Event == events < MaxEvents /\ events' = events + 1

EmptyGraph == [nodes |-> << >>, channels |-> << >>]
NoReport == compute_graph_differences(<< >>, << >>)
Idle == [pc |-> "wait", node_ids |-> << >>, channel_ids |-> << >>, graph |-> EmptyGraph]
NotListed == [nodes |-> {}, channels |-> {}, intact |-> FALSE]

NodeEntry == Node \X Option(Announcement)
ChannelEntry ==
    Channel \X {ChannelInfo(d, capacity) : d \in Directions, capacity \in Option({Capacity})}
Graph == [nodes : Seq(NodeEntry), channels : Seq(ChannelEntry)]

Uploader == [pc : {"wait", "listed", "read"}, node_ids : Seq(Node),
             channel_ids : Seq(Channel), graph : Graph]
File == {"collector_diffs", "controller_graph"} \cup Collector

GraphTypeOK ==
    /\ ldk \in [Collector -> NetworkGraph]
    /\ uploader \in [Collector -> Uploader]
    /\ \A c \in Collector : uploader[c].pc = "wait" => uploader[c] = Idle
    /\ manager \in BOOLEAN
    /\ ~manager => gossip_graphs = << >>
    /\ DOMAIN gossip_graphs \subseteq Collector
    /\ gossip_graphs \in [DOMAIN gossip_graphs -> Graph \ {EmptyGraph}]
    /\ delivered \in [Collector -> Graph] /\ dumped \in [Collector -> Graph]
    /\ listed \in [Collector -> [nodes : SUBSET Node, channels : SUBSET Channel,
                                 intact : BOOLEAN]]
    /\ differ \in [pc : {"wait", "write", "done", "err"}, outbox : Seq(File)]
    /\ differ.pc # "write" => differ.outbox = << >>
    /\ write_chan \in Seq(File) /\ Len(write_chan) <= WriteCap
    /\ writer \in BOOLEAN /\ stop_signal \in BOOLEAN
-----------------------------------------------------------------------------
(* The network graph of a LDK node (external): gossip adds channels with their *)
(* ends, newer announcements replace older ones, and a closed or expired       *)
(* channel is removed, with the nodes that have no other.                      *)

Learns(c, graph) ==
    /\ Event
    /\ ldk' = [ldk EXCEPT ![c] = graph]
    /\ UNCHANGED <<uploader, uploads, managerVars, reportVars>>

Newer(info, a) == info # None => a.last_update > Unwrap(info).last_update

ChannelAnnounced(c, ch) ==
    /\ ch \notin DOMAIN ldk[c].channels
    /\ Learns(c, [nodes |-> [n \in DOMAIN ldk[c].nodes \cup Ends[ch] |->
                                IF n \in DOMAIN ldk[c].nodes THEN ldk[c].nodes[n] ELSE None],
                  channels |-> Put(ldk[c].channels, ch,
                                   [one_to_two |-> None, two_to_one |-> None])])
    /\ UNCHANGED listed

ChannelUpdated(c, ch, dir, a) ==
    /\ ch \in DOMAIN ldk[c].channels
    /\ Newer(ldk[c].channels[ch][dir], a)
    /\ Learns(c, [ldk[c] EXCEPT !.channels[ch][dir] = Some(a)])
    /\ UNCHANGED listed

NodeAnnounced(c, n, a) ==
    /\ n \in DOMAIN ldk[c].nodes
    /\ Newer(ldk[c].nodes[n], a)
    /\ Learns(c, [ldk[c] EXCEPT !.nodes[n] = Some(a)])
    /\ UNCHANGED listed

ChannelRemoved(c, ch) ==
    LET channels == DOMAIN ldk[c].channels \ {ch}
        nodes == UNION {Ends[x] : x \in channels}
    IN
    /\ ch \in DOMAIN ldk[c].channels
    /\ Learns(c, [nodes |-> [n \in nodes |-> ldk[c].nodes[n]],
                  channels |-> [x \in channels |-> ldk[c].channels[x]]])
    /\ listed' = IF uploader[c].pc = "wait" THEN listed
                 ELSE [listed EXCEPT ![c].nodes = @ \cap nodes,
                                     ![c].channels = @ \cap channels]
-----------------------------------------------------------------------------
(* upload_gossip_graph *)

\* The cron time has come: list_nodes(), in whatever order LDK's map has, and then,
\* in a step of its own, list_channels().
UploadListNodes(c) ==
    /\ uploader[c].pc = "wait"
    /\ uploads[c] < MaxUploads[c]
    /\ uploader' = [uploader EXCEPT ![c] = [Idle EXCEPT !.pc = "listed",
                                             !.node_ids = SetToSeq(DOMAIN ldk[c].nodes)]]
    /\ uploads' = [uploads EXCEPT ![c] = @ + 1]
    /\ listed' = [listed EXCEPT ![c] = [nodes |-> DOMAIN ldk[c].nodes, channels |-> {},
                                        intact |-> TRUE]]
    /\ UNCHANGED <<ldk, managerVars, reportVars, events>>

UploadListChannels(c) ==
    /\ uploader[c].pc = "listed"
    /\ uploader' = [uploader EXCEPT ![c].pc = "read",
                                    ![c].channel_ids = SetToSeq(DOMAIN ldk[c].channels)]
    /\ listed' = [listed EXCEPT ![c].channels = DOMAIN ldk[c].channels]
    /\ UNCHANGED <<ldk, uploads, managerVars, reportVars, events>>

\* The blocking task looks the ids up one by one. A node that is gone by now is
\* uploaded without information, a channel that is gone is skipped.
UploadReadNode(c) ==
    LET u == uploader[c] IN
    /\ u.pc = "read" /\ u.node_ids # << >>
    /\ LET n == Head(u.node_ids)
           info == IF n \in DOMAIN ldk[c].nodes THEN ldk[c].nodes[n] ELSE None
       IN  uploader' = [uploader EXCEPT ![c] =
                            [u EXCEPT !.node_ids = Tail(@),
                                      !.graph.nodes = Append(@, <<n, info>>)]]
    /\ UNCHANGED <<ldk, listed, uploads, managerVars, reportVars, events>>

UploadReadChannel(c) ==
    LET u == uploader[c] IN
    /\ u.pc = "read" /\ u.node_ids = << >> /\ u.channel_ids # << >>
    /\ LET ch == Head(u.channel_ids)
           capacity == IF c \in KnowsCapacity THEN Some(Capacity) ELSE None
           found == IF ch \in DOMAIN ldk[c].channels
                    THEN <<<<ch, ChannelInfo(ldk[c].channels[ch], capacity)>>>> ELSE << >>
       IN  uploader' = [uploader EXCEPT ![c] =
                            [u EXCEPT !.channel_ids = Tail(@), !.graph.channels = @ \o found]]
    /\ UNCHANGED <<ldk, listed, uploads, managerVars, reportVars, events>>

\* An upload that fails is logged and forgotten until the next cron time.
UploadGivesUp(c) ==
    /\ Event
    /\ uploader' = [uploader EXCEPT ![c] = Idle]
    /\ listed' = [listed EXCEPT ![c] = NotListed]
    /\ UNCHANGED <<ldk, uploads, reportVars>>

Chunk(s) == SubSeq(s, 1, Min({ChunkSize, Len(s)}))

\* Mutant: the next chunk starts one entry late.
RestSkips(s) == SubSeq(s, ChunkSize + 2, Len(s))

Rest(s) == SubSeq(s, ChunkSize + 1, Len(s))

\* The next chunk of an upload: of the nodes, and after them of the channels.
NextChunk(graph) ==
    IF graph.nodes # << >> THEN [EmptyGraph EXCEPT !.nodes = Chunk(graph.nodes)]
    ELSE [EmptyGraph EXCEPT !.channels = Chunk(graph.channels)]

WithoutChunk(graph) ==
    IF graph.nodes # << >> THEN [graph EXCEPT !.nodes = Rest(@)]
    ELSE [graph EXCEPT !.channels = Rest(@)]

Joined(a, b) == [nodes |-> a.nodes \o b.nodes, channels |-> a.channels \o b.channels]

\* What a collector has in the buffers.
Posted(c) == IF c \in DOMAIN gossip_graphs THEN gossip_graphs[c] ELSE EmptyGraph

\* PushGossipNodes and PushGossipChannels: entry(uuid).or_default(), then extend. A call
\* that finds the actor gone panics or loses its answer, and fails.
PushGossip(c, chunk) ==
    /\ manager
    /\ gossip_graphs' = Put(gossip_graphs, c, Joined(Posted(c), chunk))
    /\ delivered' = [delivered EXCEPT ![c] = Joined(@, chunk)]
    /\ UNCHANGED <<dumped, manager>>

ReadDone(c) ==
    uploader[c].pc = "read" /\ uploader[c].node_ids = << >> /\ uploader[c].channel_ids = << >>

\* Connecting is part of the first call.
PostChunk(c) ==
    LET rest == WithoutChunk(uploader[c].graph) IN
    /\ ReadDone(c) /\ uploader[c].graph # EmptyGraph
    /\ PushGossip(c, NextChunk(uploader[c].graph))
    /\ uploader' = [uploader EXCEPT ![c] = IF rest = EmptyGraph THEN Idle
                                           ELSE [@ EXCEPT !.graph = rest]]
    /\ UNCHANGED <<ldk, listed, uploads, reportVars, events>>

\* The connection or the call fails, before or after the controller has handled it.
PostChunkFails(c) ==
    /\ ReadDone(c) /\ uploader[c].graph # EmptyGraph
    /\ PushGossip(c, NextChunk(uploader[c].graph)) \/ UNCHANGED managerVars
    /\ UploadGivesUp(c)

UploadNothing(c) ==
    /\ ReadDone(c) /\ uploader[c].graph = EmptyGraph
    /\ uploader' = [uploader EXCEPT ![c] = Idle]
    /\ UNCHANGED <<ldk, listed, uploads, managerVars, reportVars, events>>
-----------------------------------------------------------------------------
(* collector_gossip_differ and json_writer_task *)

\* The files of a report: the diffs if there are any, the combined graph, and the
\* graph of every collector.
Files(graphs, order) ==
    (IF graphs = << >> THEN << >> ELSE <<"collector_diffs">>)
        \o <<"controller_graph">> \o order

Broken == [c \in Collector |-> [listed[c] EXCEPT !.intact = FALSE]]

\* Mutant: the buffers are cloned and not taken.
DifferDumpClones ==
    /\ differ.pc = "wait"
    /\ manager
    /\ dumps < MaxDumps
    /\ \E order \in SetToSeqs(DOMAIN gossip_graphs) :
        /\ report' = compute_graph_differences(gossip_graphs, order)
        /\ differ' = [pc |-> "write", outbox |-> Files(gossip_graphs, order)]
    /\ dumped' = [c \in Collector |->
                    IF c \in DOMAIN gossip_graphs THEN Joined(dumped[c], gossip_graphs[c])
                    ELSE dumped[c]]
    /\ dumps' = dumps + 1
    /\ listed' = Broken
    /\ UNCHANGED <<gossip_graphs, ldk, uploader, uploads, delivered, manager,
                   write_chan, writer, stop_signal, events>>

\* DumpCollectorGraphs: mem::take empties the buffers and the report is computed
\* from what was in them, in the iteration order of the HashMap.
DifferDump ==
    /\ differ.pc = "wait"
    /\ manager
    /\ dumps < MaxDumps
    /\ \E order \in SetToSeqs(DOMAIN gossip_graphs) :
        /\ report' = compute_graph_differences(gossip_graphs, order)
        /\ differ' = [pc |-> "write", outbox |-> Files(gossip_graphs, order)]
    /\ gossip_graphs' = << >>
    /\ dumped' = [c \in Collector |->
                    IF c \in DOMAIN gossip_graphs THEN Joined(dumped[c], gossip_graphs[c])
                    ELSE dumped[c]]
    /\ dumps' = dumps + 1
    /\ listed' = Broken
    /\ UNCHANGED <<ldk, uploader, uploads, delivered, manager,
                   write_chan, writer, stop_signal, events>>

\* The cron time came before the differ saw the cancelled token, and the manager is
\* gone: get_gossip_graphs fails and the differ returns the error.
DifferDumpFails ==
    /\ differ.pc = "wait"
    /\ ~manager
    /\ differ' = [differ EXCEPT !.pc = "err"]
    /\ UNCHANGED <<report, write_chan, writer, stop_signal, dumps, uploadVars, managerVars,
                   events>>

\* Mutant: the writer's channel is unbounded.
DifferSendUnbounded ==
    /\ differ.pc = "write" /\ differ.outbox # << >>
    /\ writer
    /\ write_chan' = Append(write_chan, Head(differ.outbox))
    /\ differ' = [differ EXCEPT !.outbox = Tail(@)]
    /\ UNCHANGED <<report, writer, stop_signal, dumps, uploadVars, managerVars, events>>

DifferSend ==
    /\ differ.pc = "write" /\ differ.outbox # << >>
    /\ writer
    /\ Len(write_chan) < WriteCap
    /\ write_chan' = Append(write_chan, Head(differ.outbox))
    /\ differ' = [differ EXCEPT !.outbox = Tail(@)]
    /\ UNCHANGED <<report, writer, stop_signal, dumps, uploadVars, managerVars, events>>

\* The writer is gone: the send fails and the differ returns the error.
DifferSendFails ==
    /\ differ.pc = "write" /\ differ.outbox # << >>
    /\ ~writer
    /\ differ' = [pc |-> "err", outbox |-> << >>]
    /\ report' = NoReport
    /\ UNCHANGED <<write_chan, writer, stop_signal, dumps, uploadVars, managerVars, events>>

DifferDone ==
    /\ differ.pc = "write" /\ differ.outbox = << >>
    /\ differ' = [differ EXCEPT !.pc = "wait"]
    /\ report' = NoReport
    /\ UNCHANGED <<write_chan, writer, stop_signal, dumps, uploadVars, managerVars, events>>

DifferStop ==
    /\ differ.pc = "wait" /\ stop_signal
    /\ differ' = [differ EXCEPT !.pc = "done"]
    /\ UNCHANGED <<report, write_chan, writer, stop_signal, dumps, uploadVars, managerVars,
                   events>>

\* Mutant: a file that cannot be written ends the task.
WriterWriteOrEnd ==
    /\ writer /\ ~stop_signal
    /\ write_chan # << >>
    /\ write_chan' = Tail(write_chan)
    /\ writer' \in BOOLEAN
    /\ UNCHANGED <<differ, report, stop_signal, dumps, uploadVars, managerVars, events>>

\* The file is written, or the error logged.
WriterWrite ==
    /\ writer /\ ~stop_signal
    /\ write_chan # << >>
    /\ write_chan' = Tail(write_chan)
    /\ UNCHANGED <<differ, report, writer, stop_signal, dumps, uploadVars, managerVars, events>>

\* biased: a cancelled token comes before the files that wait.
WriterStop ==
    /\ writer /\ stop_signal
    /\ writer' = FALSE
    /\ write_chan' = << >>
    /\ UNCHANGED <<differ, report, stop_signal, dumps, uploadVars, managerVars, events>>

ControllerStop ==
    /\ Event
    /\ ~stop_signal
    /\ stop_signal' = TRUE
    /\ UNCHANGED <<differ, report, write_chan, writer, dumps, uploadVars, managerVars>>

\* The buffers and both histories of a manager that is gone, or has just started.
NoEntries ==
    /\ gossip_graphs' = << >>
    /\ delivered' = [c \in Collector |-> EmptyGraph]
    /\ dumped' = [c \in Collector |-> EmptyGraph]
    /\ listed' = Broken

\* run_until_cancelled_owned drops the manager, and the entries it holds.
ManagerStop ==
    /\ manager /\ stop_signal
    /\ manager' = FALSE
    /\ NoEntries
    /\ UNCHANGED <<ldk, uploader, uploads, reportVars, events>>

\* The process ends, at any point, and starts again: nothing here is on disk.
ControllerRestart ==
    /\ Event
    /\ manager' = TRUE
    /\ NoEntries
    /\ differ' = [pc |-> "wait", outbox |-> << >>]
    /\ report' = NoReport
    /\ write_chan' = << >>
    /\ writer' = TRUE
    /\ stop_signal' = FALSE
    /\ UNCHANGED <<ldk, uploader, uploads, dumps>>
-----------------------------------------------------------------------------
GUInit ==
    /\ ldk = InitGraph
    /\ uploader = [c \in Collector |-> Idle]
    /\ manager = TRUE
    /\ gossip_graphs = << >>
    /\ differ = [pc |-> "wait", outbox |-> << >>]
    /\ report = NoReport
    /\ write_chan = << >>
    /\ writer = TRUE
    /\ stop_signal = FALSE
    /\ delivered = [c \in Collector |-> EmptyGraph]
    /\ dumped = [c \in Collector |-> EmptyGraph]
    /\ listed = [c \in Collector |-> NotListed]
    /\ uploads = [c \in Collector |-> 0]
    /\ dumps = 0 /\ events = 0

LdkStep(c) ==
    \/ \E ch \in Channel :
        \/ ChannelAnnounced(c, ch)
        \/ ChannelRemoved(c, ch)
        \/ \E dir \in {"one_to_two", "two_to_one"}, a \in Announcement :
            ChannelUpdated(c, ch, dir, a)
    \/ \E n \in Node, a \in Announcement : NodeAnnounced(c, n, a)

UploadStep(c) ==
    \/ UploadListNodes(c)
    \/ UploadListChannels(c)
    \/ UploadReadNode(c)
    \/ UploadReadChannel(c)
    \/ PostChunk(c)
    \/ PostChunkFails(c)
    \/ UploadNothing(c)

DifferStep ==
    DifferDump \/ DifferDumpFails \/ DifferSend \/ DifferSendFails \/ DifferDone \/ DifferStop
WriterStep == WriterWrite \/ WriterStop

GUNext ==
    \/ \E c \in Collector : LdkStep(c) \/ UploadStep(c)
    \/ DifferStep
    \/ WriterStep
    \/ ControllerStop
    \/ ManagerStop
    \/ ControllerRestart

GUSpec == GUInit /\ [][GUNext]_guVars
-----------------------------------------------------------------------------
(* Properties *)

\* Every entry that reached the manager since it started is in the buffers or was
\* taken by exactly one dump, in the order it was posted: mem::take loses and repeats
\* nothing, wherever the dump falls between the chunks of an upload. (What was in the
\* buffers when the controller stops or dies is lost, and not counted.)
EachEntryOnce ==
    \A c \in Collector :
        delivered[c] = IF c \in DOMAIN gossip_graphs THEN Joined(dumped[c], gossip_graphs[c])
                       ELSE dumped[c]

\* The nodes or channels that a list of entries names.
Keys(s) == {e[1] : e \in Range(s)}

\* After an upload that no failure, dump, stop or restart disturbed, the buffer names
\* every node and channel LDK held from the listing to the end, although the graph
\* was read item by item and sent in chunks: the report will not call them missing.
UploadsAreWhole ==
    \A c \in Collector :
        listed[c].intact /\ uploader[c].pc = "wait" =>
            /\ listed[c].nodes \subseteq Keys(Posted(c).nodes)
            /\ listed[c].channels \subseteq Keys(Posted(c).channels)

\* Reference definitions over the graphs of a report.
KeysOf(c, field) == Keys(report.graphs[c][field])
AllKeys(field) == UNION {KeysOf(c, field) : c \in DOMAIN report.graphs}
InfosOf(k, field) ==
    {e[2] : e \in {x \in UNION {Range(report.graphs[c][field]) : c \in DOMAIN report.graphs} :
                    x[1] = k}}
LastPosted(c, k, field) ==
    LET s == report.graphs[c][field] IN s[Max({i \in DOMAIN s : s[i][1] = k})][2]
Newest(infos) ==
    IF infos \subseteq {None} THEN None
    ELSE CHOOSE x \in infos \ {None} :
            \A y \in infos \ {None} : Unwrap(x).last_update >= Unwrap(y).last_update
Behind(own, newest) ==
    /\ own # None
    /\ Unwrap(newest).last_update > Unwrap(own).last_update
    /\ Unwrap(newest).data # Unwrap(own).data

\* "considering the latest messages as most accurate": whatever the order of the
\* collectors and of their uploads, the combined graph has every node and channel,
\* each with the newest information anyone posted, each direction by itself.
NewestWins ==
    LET g == report.controller_graph IN
    /\ DOMAIN g.nodes = AllKeys("nodes")
    /\ DOMAIN g.channels = AllKeys("channels")
    /\ \A n \in DOMAIN g.nodes : g.nodes[n] = Newest(InfosOf(n, "nodes"))
    /\ \A ch \in DOMAIN g.channels :
        LET infos == InfosOf(ch, "channels")
            merged == g.channels[ch]
            one == Newest({x.one_to_two : x \in infos})
            two == Newest({x.two_to_one : x \in infos})
        IN  /\ merged.capacity_sats = IF \E x \in infos : x.capacity_sats # None
                                      THEN Some(Capacity) ELSE None
            /\ merged = ChannelInfo([one_to_two |-> one, two_to_one |-> two],
                                    merged.capacity_sats)

\* The numbers of a report. A collector is behind on a node or direction exactly
\* if what it posted last is older than, and differs from, the newest anyone
\* posted; every node and every direction is counted once, so the arms marked
\* "Should never happen" are not taken.
DiffCorrect ==
    \A c \in DOMAIN report.graphs :
        LET d == report.diffs[c]
            behind == {n \in KeysOf(c, "nodes") :
                        Behind(LastPosted(c, n, "nodes"), Newest(InfosOf(n, "nodes")))}
            behind_dirs == {p \in KeysOf(c, "channels") \X {"one_to_two", "two_to_one"} :
                            Behind(LastPosted(c, p[1], "channels")[p[2]],
                                   Newest({x[p[2]] : x \in InfosOf(p[1], "channels")}))}
        IN
        /\ d.missing_nodes = Cardinality(AllKeys("nodes") \ KeysOf(c, "nodes"))
        /\ d.missing_channels = Cardinality(AllKeys("channels") \ KeysOf(c, "channels"))
        /\ d.stale_node_info = Cardinality(behind)
        /\ d.stale_channel_direction = Cardinality(behind_dirs)
        /\ d.known_nodes + d.missing_nodes = Cardinality(AllKeys("nodes"))
        /\ d.matching_node_info + d.missing_node_info + d.stale_node_info
            = Cardinality(AllKeys("nodes"))
        /\ d.matching_channel_direction + d.missing_channel_direction + d.stale_channel_direction
            = 2 * d.known_channels

\* The differ gives a report up, and with it the graphs it took, only when the
\* controller was told to stop: a file that cannot be written, or a report with
\* more files than the writer's channel has room for, does not end it.
ReportsNotAbandoned == differ.pc = "err" => stop_signal
=============================================================================
