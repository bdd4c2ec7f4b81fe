# Gossip Observer in TLA+

Gossip Observer watches the Lightning Network's gossip from many vantage points.
*Collectors* run an LDK node each, connect to the peers of one community and export
every gossip message they see; *archivers* take the messages from a NATS JetStream work
queue and store them in TimescaleDB; one *controller* tells the collectors whom to
connect to and keeps track of who is alive. This project models the parts of the system
that run concurrently or survive failures, checks them with TLC on small instances and
proves every safety property the runs check, and the exporter's refinement of its abstract
specification, with TLAPS for every instance.

Line numbers refer to the files under `src/`; `PROJECT.json` maps every definition to the
lines it stands for.

## 1. Inventory

| Component | State | Operations | Talks to |
|---|---|---|---|
| Peer connection manager (`gossip_collector/src/peer_conn_manager.rs`) | eligible-peer queue and its key set, pending connections, the watch channel with the filter | the actor's messages; sweeper, monitor with token bucket, one `try_add_peer` task per attempt | LDK node (connect, peer count), exporter (watch channel), gRPC server (peer list, target) |
| NATS exporter (`gossip_collector/src/exporter.rs`) | unbounded queue, held message, bounded channel, batch, local filter copy, cancellation token | `export()`, startup barrier, `queue_exported_msg`, `publish_msgs` | LDK (logger), connection manager, JetStream |
| Registration and heartbeats (`gossip_collector/src/main.rs`, `observer_controller/src/collector_manager.rs`, `grpc_server.rs`) | the collector's ping state, peer list, target; the controller's registry and expected collectors | `ping_controller`, `AddCollector`, `SweepHeartbeats`, the two handlers, the chunked registration reply, the status call | gRPC both ways |
| Archiver (`gossip_archiver/src/`) | six channels, four buffers, flush counter, cancellation token; the database | reader, decoder, write ticker, database writer | JetStream, database |
| Gossip graph upload and diff | per-collector graphs in the controller | chunked upload, dump, comparison | gRPC, JSON files |
| Community sampling | statistics computed once at startup | sample sizes, assignment | CSV and TOML files |
| Channel operations | none of their own | open channel, update fees | LDK |
| Collector startup and shutdown (`gossip_collector/src/main.rs`) | the `JoinSet`, the token, the actor outside the set, the LDK node | spawn, join, cancel, stop LDK, return | all tasks |
| `gossip_analyze` (`gossip_analyze/src/main.rs`) | rate limiter, fetch tasks, one channel and writer per JSON file; the files | `DumpNodeInfo`, `FetchASNInfo`, `ExtractAddrsNodeInfo`, `Dump` | HTTP services, an LDK node, the files of an earlier command |
| Other analysis tools, tor_proxy, electrum-cli, generated gRPC code, configuration | none at run time | | |

**What is hard here.** Two copies of the filter, an actor between them and a sleep that is
meant to order them (stale state, ordering). Connection attempts to one peer that overlap.
Tasks joined by bounded and unbounded channels that end in six ways each, with a token
that some of them do not watch (deadlock, liveness). A batch written by several INSERTs at
once, an ACK sent before the write, redelivery, a crash in between. A registration that is
several calls back to the caller, any of which may fail, and two processes that restart
independently. A graph read while it changes, sent in chunks and taken at any moment. A shutdown in which tasks
call an actor that the same token has already stopped. A status answer put together from two reads.
Files written by tasks nobody joins, and read by the next command. `PROJECT.json` lists these hazards one by one, with the line where each
bites and the property aimed at it.

**What correct means.** Connection manager: the filter is what the pending list says, it
names every peer whose connection attempt is younger than the delay, it empties in the end, and the target is reached past
unreachable peers. Exporter: order, no duplicate, no loss before shutdown, bounded buffers,
a shutdown that completes. Together: no gossip of a fresh connection is exported.
Archiver: at most one timings row per delivery, nothing lost while it is up, everything
stored in the end, tasks that stop when cancelled. Registration: target after list, every
assigned collector ends up with both, everybody is heard again and again, the status accounts for
every collector. Graph reports: every uploaded entry in one report, the newest information combined
whatever the order, counts that add up. Shutdown: the process exits, status 0 means an orderly
shutdown, the LDK node is stopped. `gossip_analyze`: a file that parses is complete, the lists agree,
every command ends if its requests do.

## 2. Modules

| Module | Models | Role |
|---|---|---|
| `PeerConnManager` | the actor, sweeper, monitor, token bucket, attempts, the LDK node's connections | component |
| `Exporter` | `export()`, both tasks, the barrier, the shutdown, the JetStream server as seen by a publisher | component |
| `ExportLog` | what the exporter promises | abstract specification |
| `Collector` | `PeerConnManager` and `Exporter` joined by the watch channel and the LDK node | composition |
| `Archiver` | the four tasks, the process, the work queue, the tables | component |
| `Registration` | collectors' ping tasks, the controller's registry and replies, crashes of both | component (a composition of two processes) |
| `ControllerStatus` | the controller's status call | extends `Registration` |
| `CollectorShutdown` | `async_main`, the ends of its tasks, the actor, LDK | component |
| `GraphDiff` | `compute_graph_differences` and the merges of `types.rs` | operators |
| `GraphUpload` | collectors' graph uploads, the manager's buffers, the differ, the JSON writer | component (uses `GraphDiff`) |
| `GossipAnalyze` | the commands, fetch tasks and writers of `gossip_analyze`, the files | component |
| `MC*` | constants of the instances | model checking |
| `PeerConnManager_proofs`, `Exporter_proofs`, `Collector_proofs`, `Archiver_proofs`, `Registration_proofs` (with `ControllerStatus`), `CollectorShutdown_proofs`, `GraphUpload_proofs`, `GossipAnalyze_proofs` | theorems and proofs | proofs |

Operators with the comment *Mutant* are plausible mistakes in the definition that follows
them; no specification uses them. They show that each property can fail.

### PeerConnManager

One variable per field of `PeerConnManager` and per shared object; `mailbox` is the
unbounded channel of `ConnManagerMsg` records. Each arm of `handle_msg` is an action
(`Handle…`), taken for the message at the head of the mailbox, and includes the
`send_replace` of the new filter where the arm has one. `pending_conns` is a set, because
only membership and `retain` matter. A watch channel is its value and whether its receiver
has seen it. Time is an age: the code compares only `now - conn_time` with the delay, so
ages saturate at `StartupDelay` and `Tick` advances all of them. The monitor is four
program points (tick, acquire, peek, recheck); `_permit` lives until the end of the
iteration, as it does in the code, not of the spawned attempt. An attempt is spawned, adds
its specifiers, sleeps, tries the addresses in sorted order, and removes them all after the
last failure.

Assumptions. `SleepElapsed`: the 250 ms sleep is long enough for the actor to have handled
the additions sent before it (it is an in-memory queue); nothing is assumed about when the
exporter looks at the channel. `Overlap = FALSE`: the rotation does not return to a peer
whose attempt is still in flight, which holds while the eligible list is longer than the
attempts of one round; the `pcm_overlap` run shows what happens otherwise. A
`SweepPendingConnections` in the mailbox stands for any number of them. The target starts
at 0, the default of `config.rs:126`, which no template overrides. Every peer has an
address (the controller sends only members that have sockets). Not modelled:
inbound connections, `GetPendingConnections` and `EmptyEligiblePeers`, which no code sends.

### Exporter, ExportLog, Collector

A message is its sender and a serial number. The biased `select!` of `queue_exported_msg`
appears as guards: a filter change needs an uncancelled token, a message also needs an unchanged
filter. `QueueExit` and `PublishExit` are the drop guards: the task's channel ends
close and the token is cancelled. A panic of `publish_msgs` (`unwrap()` on a failed publish
or ACK) is `PublishPanic`. JetStream stores a batch that is in flight at any time, even
after the publisher is gone, or loses it. The barrier is released in one step by the
third party, `set_export_metadata`; a release that races with a cancelled task is not followed.

`ExportLog` has three variables: the log, the queue of what was received and not yet
published, and whether service goes on. `ImplementsExportLog` maps the stream to the log
and everything between LDK and the stream to the queue: the stream grows from the front of
the queue, at most a batch at a time, and only the filter, one message at a time, or the end of
service removes anything. It does not promise when, nor that batches are full: the code
publishes full ones only, the sequence diagrams also flush a partial one on a timeout, and
both implement `ExportLog` (see section 5).

`Collector` replaces the arbitrary filter updates by the manager's, and lets only connected
peers gossip. After a cancellation the manager's tasks are torn down and only the exporter's
end is followed.

### Archiver

An observation is one sighting of a message; several may share a hash. Each of the four
tasks has its program point, the channels are sequences, and every way a task ends (`ok`,
`err`) cancels the token as its drop guard does. `nats_reader` hands the message on and then
ACKs; the ACK may not arrive, and the queue then redelivers. The writer's unbiased `select!`
is a choice between `WriterRecv`, `WriterTick`, `WriterCancel` and `WriterClosed`;
`buf_tick_rx.recv()` yields `None` at once when the ticker is gone, and the code flushes on
it, so `WriterTick` does. `db_batch_write` is one `Insert` per table in any order, and on an
error the other tables' INSERTs may have committed or not. `messages`, `metadata` and
`message_hashes` have a conflict clause and are sets of hashes; `timings` counts rows. A
failing setup of the consumer is retried by the code every 5 s and is a stuttering step here.
A crash or kill loses everything but the queue and the tables; a restart begins with empty buffers.
`MaxDeliveries` and `PerRestart` bound how often the queue hands out a batch; without the latter a
batch whose last delivery fell into a crash would be lost to the bound and not to the code.

### Registration, ControllerStatus

The peer list is `1..ListLen`, and `send_eligible_peers` cuts it as the code does: the first request
has one peer, the following ones `ChunkSize`, and the last is empty when the rest divides evenly.
`reply` is the first peer of the next request. A registry entry is vacant, fresh or expired, because only the
newest heartbeat decides whether a sweep removes a collector. A call returns when its
handler does, and a handler that replies waits for the reply, so `PingReturn` waits for both.
`Fault` is a call of a collector that fails between two running processes, `ReplyFails` a
failing call of a reply. Assumptions: the 90 s between pings outlast a reply (so there is one
reply per collector at a time), and a restarted process comes up after the calls to its
predecessor have failed.

`ControllerStatus` adds the status call, which asks the collector manager for the registered and then
for the expected collectors; anything may happen in between. `swept` is history. The sums in the
answer are left out.

### CollectorShutdown

`async_main` is a program counter from the building of the node to the exit. A task of the `JoinSet` is
where it stands relative to its `select!`: *idle* at it, *busy* away from it, *asked* and *replied* around a
call to the connection manager's actor, then one of the ways a task ends. What the tasks do in between is
in the other modules. The token stops the actor too, so a task that calls it afterwards panics on
`unwrap()` (`Ask`, `Answered`, `MonitorRotate`, `SweeperTick`). `JoinNext` is the first task to end: `res?`
returns at once when it panicked, otherwise the token is cancelled and `JoinAll` waits, or panics with the
first task that did. Only `signal` and the shutdown request stop LDK. Returning drops the `JoinSet`, which
aborts what is left.

### GossipAnalyze

A user runs commands one after the other on the same files (`Scripts` bounds the sequences). A file is the sequence
of its brackets, commas and values; `written` includes what is in the `BufWriter`, `flushed` is how much of it is
on disk for sure. What `serde_json` would read are the marks and the values at every second place
(`Values`). A key whose addresses are extracted puts them in a work list (`ExtractInfo`), and main sends them one per
step (`NextSpec`, `SendSpec`): the channels are unbounded, but the writers run in between and the one an address goes to may have failed. Fetch tasks hold clones of the sender; main drops its own, sleeps two seconds and returns, and the
runtime drops every task at its next await (`DropWriter`, `FetchFails`). A request may hang for ever: it has no
timeout. `Kill` and failing writes leave any part of a buffer in the file. The next command reads a file only when
it parses. `Dump` polls the node count until it is stable, takes a list of ids and looks each up again while LDK
changes the graph. An error or a panic during the walk over the nodes drops the two senders first and flushes the
buffer of the simple list after that (`Unwind`, then `MainReturns`); a kill in between leaves a part of that list
although the full ones are closed (`node_list_ok`). Left out: the fields of the JSON objects, `FetchAddresses` and `ParseAddresses`, which are
sequential text processing, and the content of `channel_list`.

### GraphUpload, GraphDiff

`GraphDiff` has no state: `Combine` goes through the graphs and `CombineNodes` and `CombineChannels` through the
entries of one, as the nested loops of the first pass do, each a recursive function whose body is one insertion
(`InsertNode`, `InsertChannel`); `ViewOf` collects a collector's entries into a map and `DiffOf` counts the arms of
the second pass. A Rust `Option` is a sequence of
at most one element; alias and addresses, or fees and limits, are one datum under their timestamp.

In `GraphUpload` a collector lists the ids, looks them up one at a time and posts chunks; LDK changes
the graph in between (external: channels are announced and removed, newer announcements replace
older ones). Connecting is part of the first call; a call fails before or after the controller has
handled it. A push or a dump is one step with its handling, because the manager's mailbox is a FIFO
that nobody waits for. `DifferDump` takes the buffers (`mem::take`) and computes the report for any
iteration order of the `HashMap`; the differ then sends the files over a bounded channel. `delivered`, `dumped` and
`listed` are history; the first two count since the manager started. A cancelled token also drops the manager actor
with its buffers (`ManagerStop`); a post then fails, and so does a dump if its time comes before the differ sees the
token (`DifferDumpFails`). Assumption: a node or channel does not sign two different announcements with
one timestamp (BOLT 7 requires increasing timestamps); with such a pair `is_newer` keeps the first
and `merge_to_newest` the last one visited, and the result would depend on the order. Left out: the
order in which LDK lists ids (any fixed one), keys that do not parse, addresses that the
permissive conversion drops (it drops them for every collector alike), and the writer's
`channel closed` exit, which cannot happen because `main` keeps a sender.

## 3. Runs

| Run | Specification | Shows |
|---|---|---|
| `pcm` | `PCMFairSpec` | `TypeOK`, `FilterMirrorsPending`, `FreshConnectionsFiltered`, `TargetReached`, `FilterDrains` |
| `pcm_overlap` | `PCMSpec`, `Overlap = TRUE` | violation of `FreshConnectionsFiltered` |
| `exporter_pipeline` | `ExpFairSpec` | `ExpTypeOK`, `InOrderExactlyOnce`, `NothingLostWhileRunning`, `ImplementsExportLog`, `ShutdownCompletes`, `FullBatchesFlow` |
| `collector_filter` | `CollectorSpec` | `LocalFilterCurrent`, `EligibleMirrorsQueue`, `FreshPeersMuted` |
| `archiver_safety` | `Spec` | `TypeOK`, `OneRowPerDelivery`, `NothingLostWhileUp`, `TimingsBufferBounded` |
| `archiver_live` | `FairSpec` | `EventuallyStored`, `OnlyTheReaderWaits` |
| `archiver_integrity` | `Spec` | violation of `ReferentialIntegrity` |
| `graph_upload` | `GUSpec` | `GraphTypeOK`, `EachEntryOnce`, `UploadsAreWhole`, `NewestWins`, `DiffCorrect`, `ReportsNotAbandoned` |
| `registration` | `StaFairSpec` | `RegTypeOK`, `TargetAfterPeers`, `RegistrationCompletes`, `HeartbeatsResume`, `StatusAccountsForAll` |
| `registration_lost` | `RegFairSpec` | violation of `SomeRegistrationWorked` |
| `collector_shutdown` | `ShutSpec` | `ShutTypeOK`, `SuccessIsOrderly`, `NodeStoppedUnlessPanic`, `ProcessExits` |
| `analyze` | `AnaSpec` | `AnaTypeOK`, `FileWellFormed`, `ParsesOnlyIfComplete`, `NodeListsAgree`, `CommandEnds` |

**Bounds, and why they are enough.**
`pcm`: two peers: one that never answers at the head of the queue, so that its entries are removed and the
target needs the rotation to work, and one that answers only on the second of its two addresses; two attempts in
flight, so that they interleave; one disconnection, so that a peer is attempted again while its old entries are
pending; a delay of two units, so that there are ages before, at and after the boundary. No symmetry, as there is
liveness. A list that is posted twice is in `collector_filter`, which runs the same manager.
`pcm_overlap`: the same peers with overlapping attempts; the attempts are interchangeable and reduced by symmetry.
`exporter_pipeline`: three batches of two: one in flight, one in the channel, one waiting, so
that back-pressure reaches `queue_exported_msg`; one sender suffices because the filter
treats senders alike and its content is arbitrary.
`collector_filter`: one peer, posted twice, one disconnection and a second attempt, two messages, a delay of two.
`archiver_safety`: batches <<o1, o2>> and <<o3>>, o3 undecodable, a second delivery of the
first, batch size two, one restart: a flush for a full batch, for a tick and for none occur,
and a redelivered batch meets the rows of its first delivery. `messages` and `timings` are
followed; the two other tables behave as `messages` does (`OtherTables` adds them).
`archiver_live`: one batch of two observations with database batches of one, one restart and one more delivery
after it, lost ACKs and failing INSERTs at any point.
`graph_upload`: two collectors with different graphs, one of which uploads twice, so that a
buffer has several entries for a key; chunks of one entry, so that a dump falls between the chunks
of nodes and of channels; three timestamps, two of them with the same data, so that older is not
the same as stale; a writer's channel with room for one of the four files; and one event (a change
of a graph, a failed call, a stop or a restart) at any point.
`registration`: an assigned and an unassigned collector, two crashes on either side, one
failing call in each direction, a list of four peers in chunks of two, so that there are a first request of
one peer, a full one and a partial one; in `registration_lost` (one collector, three
peers, one failing call of a reply) the last request is empty.
`collector_shutdown`: the system has no other bound than that every task is there once.
`analyze`: two keys, one without AS number and sockets, so that a list ends early; flushes after every second
value, so that some are in the file and some in the buffer; a graph of two nodes and a channel with one change; a
stable count of two polls.

Deadlock is checked where the processes never end for good: the connection manager and the
registration. In the other
runs the bounded input is used up or the processes stop, so the system may halt.

**Fairness.** Weak fairness of every task of a process: tokio polls a ready task. Weak fairness
of the restarts: the systemd units say `Restart=on-failure`, and a crash, a kill and an exit with a task's error are failures. Strong fairness appears where a
ready branch of a `select!` competes with others that come and go: receiving in
`queue_exported_msg` is postponed by filter changes, which are seconds apart; the writer's
unbiased `select!` picks among ready branches at random; the ticker's biased `select!`
prefers a flush tick, which is due once per interval. Nothing is assumed of what the code does
not control: that a stream closes, that more batches arrive, that a call of a reply is
repeated. The crashes and faults are not fair and are bounded. In the archiver an expired ACK wait, an exit and a restart are fair too:
the server redelivers, the service manager restarts. In the shutdown, main, the actor and a task away from
its `select!` progress, and taking the arm of the cancelled token is strongly fair: `select!` polls its arms
in random order, and the uncancelled arms may win many times, not for ever. In `gossip_analyze` nothing is
assumed of a fetch while main runs.

## 4. What is proved

Each theorem is about the specification its run checks, for every value of the constants that satisfies the named
`ASSUME`s. An invariant is proved from an inductive one; TLC checked each inductive invariant on the instance of the
run before it was proved. Every proof has one step or one lemma per action.

`PeerConnManager_proofs`: any set of peers and addresses, delay, rate and posted list, with and without overlapping
attempts unless the theorem says so.

- `TypeCorrect` (`TypeOK`). `MonitorRecheck` returns a permit, so the bound of `classic_sem` is
  not inductive by itself. `IInv` adds `PermitHeld`: one permit is out exactly while the monitor is
  between acquire and the end of the iteration.
- `FilterCorrect` (`FilterMirrorsPending`): in every reachable state the published filter is the
  set of keys of the pending connections. The step that ages the entries is the only one that
  changes them without publishing, and it keeps the keys.
- `EligibleCorrect` (`EligibleMirrorsQueue`): from two lemmas on sequences, that appending a new
  element and rotating keep a sequence free of repetitions and its range exact.
- `FreshFiltered` (`FreshConnectionsFiltered`, for `Overlap = FALSE`). The age of a connection is that of the
  attempt that made it, counted from `add_pending_conn` as the code's `conn_time` is. A connection is covered by its pending
  entry, but an older attempt's removals may still be in the mailbox, and the addition itself may be. `FreshInv` says
  that a peer has at most one attempt; that one that sleeps has its entry pending with no removal under way, or on
  its way behind every removal; and that one that connects, and a connection, has it pending with no removal under
  way. `SleepElapsed` is where the second case becomes the third. The entry is no older than the attempt, so a
  sweep removes it only when the connection is no longer fresh.

`Exporter_proofs`: any sizes, any number of messages, any filter updates.

- `ExpTypeCorrect` (`ExpTypeOK`, with the bounds on what is behind the filter). `Phases` says what each task holds
  where: a held message only while it waits for room, a batch filled, then full, then in flight, nothing
  left behind a task that has ended. `Known` says that ids in the pipeline were given out.
- `ExactlyOnce` (`InOrderExactlyOnce`) and `NothingLost` (`NothingLostWhileRunning`). Every step is of one `Shape`: it
  appends the next message to the pipeline, takes out one (the filter), moves a boundary inside it, or drops a part
  of it with the token cancelled. What the two theorems say is preserved by each of these.
- `ExportLogImplemented` (`ImplementsExportLog`): the initial states map to initial states of `ExportLog`, and
  each of the same kinds of step to one of its actions or to a stutter.

`Collector_proofs`: the composition.

- `FilterCopyCurrent` (`LocalFilterCurrent`), from `ChannelInv`: the manager leaves the watch channel alone or marks
  it changed, and the exporter copies the filter when it takes the mark away.
- `FreshMuted` (`FreshPeersMuted`, for `Overlap = FALSE`): from `FreshFiltered`, `FilterCopyCurrent` and the
  bias of the `select!`.
- `ExporterComposed`: every behaviour of the collector is one of the exporter, so that the theorems about the
  exporter hold for it inside the collector.

`Archiver_proofs`: any batches, batch size, tables among the four, deliveries, restarts and faults.

- `ArcTypeCorrect` (`TypeOK`) and `BufferBounded` (`TimingsBufferBounded`). `ArcIInv` adds that the ticker holds one message
  exactly between a full batch and its flush, that a task that has ended has the token cancelled, and that only a running
  `db_batch_write` has rows to insert.
- `RowsPerDelivery` (`OneRowPerDelivery`) and `NothingLost` (`NothingLostWhileUp`). `Copies(t, o)` counts an observation over
  all places on its way to table t. Lemma `StepKinds`: every step conserves the copies of every observation (a delivery adds one, with
  its count), inserts some of them into one table, or drops some, which disturbs the service. Both
  theorems follow from that and from the conflict clauses. `SightingAssumption` says that an
  observation is in one batch and once in it, which is what the exporter guarantees (`ExactlyOnce`).

`Registration_proofs`: any number of collectors, crashes and failed calls and any length of the list and of its chunks.

- `RegTypeCorrect` (`RegTypeOK`);
- `TargetLast` (`TargetAfterPeers`). `RegIInv` adds `Sent`: a running collector has received all the requests
  before the one its reply is about to send (lemma `PostKeeps`: each request extends the received list by exactly
  the peers up to the next request, the empty last one included). It holds because a collector that lost its list in a
  crash is not restarted before the reply to its old process has ended.
- `StatusComplete` (`StatusAccountsForAll`, an action property). The answer's two reads are of the registered and
  then of the expected collectors; `SweptUnexpected` says that the expected ones are always the assigned without the swept.

`CollectorShutdown_proofs`: with and without faults.

- `ShutTypeCorrect` (`ShutTypeOK`), `OrderlyExit` (`SuccessIsOrderly`), `NodeStopped` (`NodeStoppedUnlessPanic`).
  `ShutIInv` adds that the last three tasks do not exist before the address is known, that the signal task past its
  `select!` has stopped LDK and never fails, and that nothing of the set survives the exit. With status 0 every task
  ended by itself, the signal task too, so LDK was stopped.

`GraphUpload_proofs`: any number of collectors, nodes, channels, uploads, dumps and events, any size of the chunks
and of the writer's channel.

- `GraphTypeCorrect` (`GraphTypeOK`), with what LDK keeps of its graph: every node is the end of a channel.
- `EntriesOnce` (`EachEntryOnce`): appending is associative, so it does not matter where a dump falls. It is about
  the entries since the manager started: those in the buffers when the controller stops or dies are lost.
- `UploadsWhole` (`UploadsAreWhole`). `Whole` says in the middle of an upload that what LDK held from the listing on
  is still to be looked up, or looked up and to be sent, or posted; and that a channel that counts is still in LDK's
  graph, so that it is not skipped. Lemma `ChunkAndRest`: a chunk and what follows it are the whole list.
- `ReportsKept` (`ReportsNotAbandoned`): the writer and the manager end only when the token is cancelled
  (`ReportInv`, `ManagerInv`).
- `ReportsNewest` (`NewestWins`) and `ReportsCount` (`DiffCorrect`), for any uploads and any iteration order. The
  invariant is `ReportComputed`: a report is what `compute_graph_differences` makes of some typed graphs in some order
  of their keys; only a dump makes one. The rest is about the function. Lemmas `CombineNodesLoop`, `CombineChannelsLoop`,
  `ViewOfLoop` and `CombineLoop` show that each recursive function exists and is the sequence of states of
  its loop. By induction over the entries, what is in the combined graph after each of them is at least as new as every
  entry so far and is one of them (`NodesOK`, `ChannelsOK`, with `InsertNodeOK` and `InsertChannelOK` as the step).
  Timestamps are a total order without ties (`AtLeastOrder`), so that this determines the result whatever the order;
  `MergedUpdate` says that the newer timestamp of a merged channel is that of its merged directions. `ViewOfLast`: the map of a
  collector has its last entry for each key. As that entry is one of those combined, the combined
  information is at least as new, the arm "Should never happen" is not taken, and *stale* means behind (`InfoArms`); the
  counts then add up because the arms partition the keys (`ThreeArms`, `BothSides`).

`GossipAnalyze_proofs`: any scripts of commands, keys, addresses, graphs, sizes of channels and buffers, and any number
of kills, failing writes and failing or hanging requests.

- `AnaInvariant` is the inductive invariant `AnaInv`. `FileOK`: a file is a prefix of the JSON array of the values that were
  sent to it, in order (`ArrayPrefix`), and what is still in the channel of a receiving writer is the rest of them.
  `SendersInv`: a file that main still has a sender of has no closing bracket, so that a value sent later is never
  behind the end of the array. `WalkInv`: the walk of the graph sends no node twice, to neither of the two full
  lists, and the simple list has one line for each node sent, unless it lost its end to a failed write or a kill or the writer of a full list
  ended without closing its array (`Frozen`; such a file never parses).
- `AnaTypeCorrect` (`AnaTypeOK`), `FilesWellFormed` (`FileWellFormed`), `CompleteIfItParses` (`ParsesOnlyIfComplete`) and
  `NodeListsMatch` (`NodeListsAgree`) follow from it. `CompleteIfItParses` rests on the marks being different from each
  other and from every value (`AnalyzeAssumption`): the last bracket of an array is written once, after every value.

**Induction.** The library's induction theorems take a predicate as a parameter, which the provers cannot instantiate.
`NatSetInduction`, proved from the well-foundedness of the natural numbers, has a set in its place; with it
the loops of `GraphDiff` and the sort of `PeerConnManager` (`AmongSplit`: sorting the specifiers of a peer drops none)
are proved for lists of any length.

The assumptions are the named `ASSUME`s of the component modules, which TLC evaluates on the instances.
`GraphUploadAssumption` says that LDK's stored graphs are well formed and finite and that timestamps are
distinct numbers.

Only model-checked is liveness (`TargetReached`, `FilterDrains`, `ShutdownCompletes`, `FullBatchesFlow`,
`EventuallyStored`, `OnlyTheReaderWaits`, `RegistrationCompletes`, `HeartbeatsResume`, `ProcessExits`, `CommandEnds`):
fairness and `ENABLED` are out of the prover's reach.

## 5. Findings

1. `pcm_overlap`: an attempt that fails removes the pending entries of its peer by specifier, also
   those a later attempt to the same peer added (`peer_conn_manager.rs:252`). A peer that is
   connected then has no filter entry and the answers to its first gossip queries are exported.
2. `archiver_integrity`: the migration that dropped the foreign keys relies on one transaction with
   `messages` first; the INSERTs run in parallel outside a transaction.
3. `registration_lost`: a reply that fails after its first request leaves a collector with peers and
   without a target; it never registers again and the controller never repeats the reply.

Seen while modelling, and not a run of their own:

- `publish_msgs` has no flush timer (`exporter.rs:337`), although `diagrams/seq_gossip_collect.puml:38` and
  `seq_gossip_message_flow.puml:45` say "batch full (N=1024) OR timeout": up to a batch less one message
  stays unpublished until more arrive. That a partial batch is published in the end does not hold of the code and no
  property claims it; `FullBatchesFlow` states what the code does guarantee, and `ExportLog` allows either behaviour.
- The archiver's reader and decoder do not watch the token: after a critical error the process does not exit
  before another message arrives. `OnlyTheReaderWaits` states what does hold.
- In the collector, `res?` on a task that panicked (`main.rs:332`) returns without stopping LDK;
  `NodeStoppedUnlessPanic` has that one exception.
- A collector that was heard and then swept is in neither list of a status answer, until it is heard again
  or the controller restarts; `StatusAccountsForAll` names that exception.
- The permit of `TokenBucket::acquire` is there "to limit max concurrency / outstanding tokens"
  (`token_bucket.rs:59`), but both callers keep it in `_permit` and drop it at the end of the loop iteration, not with
  the spawned task, so that nothing in flight is limited: not the "concurrent connection attempts" of
  `peer_conn_manager.rs:302`, and in `gossip_analyze/src/main.rs` neither the "only 5 reqs. in flight at a time" of
  `:510` (permit at `:528`) nor the two of `FetchASNInfo` (`:597`). The models do what the code does.
  `CommandEnds` claims the end of a command only if its requests end, so that it holds with the permit kept too; that
  a hanging request does not stall main is a consequence of the early drop and is not claimed.

## 6. Not modelled

Community sampling is floating-point arithmetic (square roots, rounding) done once at startup, on files; the
controller's other modules take its result as a constant. Channel operations forward
single calls and keep no state. Configuration, logging, generated code, the other analysis tools, `tor_proxy` and
`electrum-cli` have no concurrent state. Conversions between protobuf and domain types are field-by-field copies, except
those in `PeerConnManager` and `GraphDiff`. Within the modelled parts: what strings `decode_msg` accepts (an
observation is decodable or not), the sums of the status answer, and the commands of `gossip_analyze` named above.

## 7. Plan

Done: every module of section 2, and the proofs of section 4. Next, the most important first:

1. Runs for hazards that have none: the permit that does not limit what is in flight
   (`peer_conn_manager.rs:304`, `gossip_analyze/src/main.rs:528`), connected peers that re-enter the filter
   (`peer_conn_manager.rs:305`), and the partial batch that waits (`exporter.rs:337`).
2. `Sampling`: the connection counts of the controller over scaled integers.
