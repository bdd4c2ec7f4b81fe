--------------------------- MODULE GossipAnalyze ---------------------------
(***************************************************************************)
(* The gossip_analyze command-line tool (gossip_analyze/src/main.rs): the  *)
(* commands that collect data through concurrent tasks into JSON files,    *)
(* one after the other on the same directory. DumpNodeInfo and             *)
(* FetchASNInfo spawn a rate-limited fetch task per key, the tasks send    *)
(* what they fetched to a writer task, and main only sleeps two seconds    *)
(* before it returns; ExtractAddrsNodeInfo splits the file of DumpNodeInfo *)
(* into three files and returns at once; Dump walks the graph of a running *)
(* LDK node. When main returns, the runtime drops every task at its next   *)
(* await; the BufWriter of a dropped writer flushes what it was given.     *)
(*                                                                         *)
(* A file is the sequence of its brackets, commas and values. Values are   *)
(* keys, AS numbers, graph items, or pairs of a key and an address kind.   *)
(***************************************************************************)
EXTENDS Naturals, Sequences, FiniteSets, SequencesExt

CONSTANTS
    NodeList,      \* the lines of node_list.csv: keys, without repetition
    AsnOf,         \* AsnOf[k]: the AS number in k's info, or NoAsn (Tor-only)
    NoAsn,
    LBracket, Comma, RBracket,
    PrevAsns,      \* the AS numbers in fetched_asns.txt
    AddrsOf,       \* AddrsOf[k]: the kinds of k's addresses
    NoSockets,     \* the keys whose info has no sockets field
    GraphNode,     \* the nodes LDK may know
    GraphChannel,  \* the channels LDK may know
    MinNodes,      \* min_node_count
    QueueSize,     \* queue_size: node counts compared
    FlushBound,    \* flush_bound of info_writer
    BucketSize,    \* request_bucket_size
    MaxRequests,   \* max_requests, the permits of the classic semaphore
    Faults,        \* may a write fail, may the user kill the process?
    Scripts,       \* bound: the sequences of commands the user may run
    MaxEvents      \* bound: nodes and channels LDK adds or removes

Key == Range(NodeList)
Asn == {AsnOf[k] : k \in Key} \ {NoAsn}

\* The files, by the channel that feeds them.
Output == {"node_info", "asn_info", "reachable", "unreachable", "mystery",
           "nodes", "missing_ann", "channels"}
Command == {"DumpNodeInfo", "FetchASNInfo", "ExtractAddrsNodeInfo", "Dump"}

\* What an address parses to; special: private, loopback, documentation...
AddrKind == {"v4_global", "v4_special", "v6_global", "v6_special", "onion_v2", "onion_v3",
             "hostname", "invalid"}

\* What a file may hold beside its punctuation, and what each of them does hold.
Mark == {LBracket, Comma, RBracket}
Value == Key \cup Asn \cup GraphNode \cup GraphChannel \cup (Key \X AddrKind)

ValueOf(o) ==
    CASE o = "node_info" -> Key
      [] o = "asn_info" -> Asn
      [] o \in {"nodes", "missing_ann"} -> GraphNode
      [] o = "channels" -> GraphChannel
      [] OTHER -> Key \X AddrKind

ASSUME AnalyzeAssumption ==
    /\ NodeList \in Seq(Key) /\ IsInjective(NodeList)
    /\ IsFiniteSet(GraphNode) /\ IsFiniteSet(GraphChannel)
    /\ LBracket # Comma /\ LBracket # RBracket /\ Comma # RBracket
    /\ Mark \cap Value = {}
    /\ NoSockets \subseteq Key
    /\ \A k \in Key : AddrsOf[k] \in Seq(AddrKind)
    /\ {MinNodes, MaxEvents} \subseteq Nat
    /\ \A s \in Scripts : s \in Seq(Command)
    /\ {QueueSize, FlushBound, BucketSize, MaxRequests} \subseteq Nat \ {0}

VARIABLES
    proc,         \* no process, main running, or the runtime being dropped
    pc,           \* where main is
    left,         \* what main has still to handle
    specs,        \* and of the info it is at: the addresses to send
    tx,           \* the channels main holds a sender of
    bucket,       \* tokens of the TokenBucket
    classic_sem,  \* its permits
    fetching,     \* the keys of the fetch tasks under way
    chan,         \* the unbounded channels
    sent,         \* history: what was sent on them
    writer,       \* info_writer, one per file
    written,      \* what it wrote: the file and its BufWriter
    flushed,      \* how much of that is in the file for sure
    graph,        \* the nodes and channels in LDK's graph
    graph_size,   \* the last node counts
    node_list,    \* simple_node_list
    node_list_ok, \* history: no failed write and no kill has cut it short
    commands,     \* history: the commands so far
    events

limiterVars == <<bucket, classic_sem>>
mainVars == <<pc, left, specs, tx>>
fileVars == <<chan, sent, writer, written, flushed>>
dumpVars == <<graph, events, graph_size, node_list, node_list_ok>>
anaVars == <<proc, mainVars, limiterVars, fetching, fileVars, dumpVars, commands>>

Ended == {"none", "ok", "err", "dropped"}

AnaTypeOK ==
    /\ proc \in {"none", "running", "shutdown"}
    /\ commands \in Seq(Command)
    /\ pc \in {"acquire", "spawn", "linger", "extract", "sync", "walk_nodes",
              "walked", "walk_channels", "unwind", "return"}
    /\ left \in Seq(Key \cup Asn \cup GraphNode \cup GraphChannel)
    /\ specs \in Seq(Key \X AddrKind)
    /\ tx \subseteq Output
    /\ bucket \in 0..BucketSize
    /\ classic_sem \in 0..MaxRequests
    /\ fetching \subseteq Key \cup Asn
    /\ DOMAIN chan = Output /\ DOMAIN sent = Output
    /\ \A o \in Output : chan[o] \in Seq(ValueOf(o)) /\ sent[o] \in Seq(ValueOf(o))
    /\ written \in [Output -> Seq(Mark \cup Value)]
    /\ writer \in [Output -> {"start", "recv"} \cup Ended]
    /\ flushed \in [Output -> Nat] /\ \A o \in Output : flushed[o] <= Len(written[o])
    /\ graph \subseteq GraphNode \cup GraphChannel
    /\ graph_size \in [1..QueueSize -> 0..Cardinality(GraphNode)]
    /\ node_list \in Seq(GraphNode) /\ node_list_ok \in BOOLEAN
    /\ events \in 0..MaxEvents

command == Last(commands)

File(o) == SubSeq(written[o], 1, flushed[o])

\* The values of an array: every other position between its brackets.
Values(f) == [i \in 1..((Len(f) - 1) \div 2) |-> f[2 * i]]

\* serde_json::from_str accepts what starts and ends with its brackets.
Parses(o) == File(o) # << >> /\ Last(File(o)) = RBracket
-----------------------------------------------------------------------------
(* The command line *)

\* new_file_writer truncates the file, info_writer is spawned on it; main keeps the
\* senders.
Open(outs, at, todo) ==
    /\ proc' = "running"
    /\ pc' = at
    /\ left' = todo
    /\ specs' = << >>
    /\ tx' = outs
    /\ chan' = [o \in Output |-> IF o \in outs THEN << >> ELSE chan[o]]
    /\ sent' = [o \in Output |-> IF o \in outs THEN << >> ELSE sent[o]]
    /\ written' = [o \in Output |-> IF o \in outs THEN << >> ELSE written[o]]
    /\ flushed' = [o \in Output |-> IF o \in outs THEN 0 ELSE flushed[o]]
    /\ writer' = [o \in Output |-> IF o \in outs THEN "start" ELSE writer[o]]

NextCommand(cmd) ==
    /\ proc = "none"
    /\ commands' = Append(commands, cmd)
    /\ \E s \in Scripts : IsPrefix(commands', s)

NewBucket == bucket' = BucketSize /\ classic_sem' = MaxRequests

StartDumpNodeInfo ==
    /\ NextCommand("DumpNodeInfo")
    /\ Open({"node_info"}, "acquire", NodeList)
    /\ NewBucket
    /\ UNCHANGED <<fetching, dumpVars>>

\* The distinct AS numbers of the infos in the file, in the order of a HashSet; with
\* --retry, those that are not in fetched_asns.txt.
StartFetchASNInfo(retry) ==
    LET infos == Values(File("node_info"))
        asns  == {AsnOf[infos[i]] : i \in DOMAIN infos} \ {NoAsn}
    IN
    /\ NextCommand("FetchASNInfo")
    /\ Parses("node_info")
    /\ \E todo \in SetToSeqs(IF retry THEN asns \ PrevAsns ELSE asns) :
          Open({"asn_info"}, "acquire", todo)
    /\ NewBucket
    /\ UNCHANGED <<fetching, dumpVars>>

\* node_infos[0] is printed first: an empty list is a panic.
StartExtractAddrs ==
    /\ NextCommand("ExtractAddrsNodeInfo")
    /\ Parses("node_info") /\ Values(File("node_info")) # << >>
    /\ Open({"reachable", "unreachable", "mystery"}, "extract",
            Values(File("node_info")))
    /\ UNCHANGED <<limiterVars, fetching, dumpVars>>

\* A file that is missing, cut short or (to be split) empty, arguments, or an LDK node
\* that does not start end the command before it opens its own files.
StartFails ==
    /\ \/ Faults /\ \E cmd \in Command : NextCommand(cmd)
       \/ NextCommand("FetchASNInfo") /\ ~Parses("node_info")
       \/ /\ NextCommand("ExtractAddrsNodeInfo")
          /\ ~Parses("node_info") \/ Values(File("node_info")) = << >>
    /\ UNCHANGED <<proc, mainVars, limiterVars, fetching, fileVars, dumpVars>>

\* LDK is started and connected to its peers; the files are opened later.
StartDump ==
    /\ NextCommand("Dump")
    /\ Open({}, "sync", << >>)
    /\ graph_size' = [i \in 1..QueueSize |-> 0]
    /\ UNCHANGED <<limiterVars, fetching, graph, events, node_list, node_list_ok>>

\* main returns, with Ok, an error or a panic: its senders are dropped and the
\* runtime starts to drop the tasks.
Return ==
    /\ proc' = "shutdown"
    /\ pc' = "return"
    /\ left' = << >> /\ specs' = << >>
    /\ tx' = {}

\* An error or a panic while the simple node list is being written: the senders, which
\* were declared later, are dropped before the BufWriter of that list flushes.
Unwind ==
    /\ pc' = "unwind"
    /\ left' = << >> /\ specs' = << >>
    /\ tx' = {}
    /\ UNCHANGED proc
-----------------------------------------------------------------------------
(* DumpNodeInfo and FetchASNInfo *)

FetchOutput == IF command = "DumpNodeInfo" THEN "node_info" ELSE "asn_info"

\* TokenBucket::acquire: a token, which is forgotten, and a permit.
Acquire ==
    /\ proc = "running" /\ pc = "acquire"
    /\ left # << >>
    /\ bucket > 0 /\ classic_sem > 0
    /\ bucket' = bucket - 1
    /\ classic_sem' = classic_sem - 1
    /\ pc' = "spawn"
    /\ UNCHANGED <<proc, left, specs, tx, fetching, fileVars, dumpVars, commands>>

\* Mutant: the refill does not look at the size of the bucket.
RefillUnbounded ==
    /\ proc = "running" /\ pc \in {"acquire", "spawn"}
    /\ bucket <= BucketSize
    /\ bucket' = bucket + 1
    /\ UNCHANGED <<proc, mainVars, classic_sem, fetching, fileVars, dumpVars, commands>>

RefillBucket ==
    /\ proc = "running" /\ pc \in {"acquire", "spawn"}
    /\ bucket < BucketSize
    /\ bucket' = bucket + 1
    /\ UNCHANGED <<proc, mainVars, classic_sem, fetching, fileVars, dumpVars, commands>>

\* Mutant: the permit is forgotten like the token.
SpawnFetchForgets ==
    /\ proc = "running" /\ pc = "spawn"
    /\ fetching' = fetching \cup {Head(left)}
    /\ left' = Tail(left)
    /\ pc' = "acquire"
    /\ UNCHANGED <<proc, specs, tx, limiterVars, fileVars, dumpVars, commands>>

\* The fetch task is spawned with a clone of the sender; the permit is dropped at
\* the end of the iteration, not with the task: it does not limit the requests in flight.
SpawnFetch ==
    /\ proc = "running" /\ pc = "spawn"
    /\ fetching' = fetching \cup {Head(left)}
    /\ left' = Tail(left)
    /\ classic_sem' = classic_sem + 1
    /\ pc' = "acquire"
    /\ UNCHANGED <<proc, specs, tx, bucket, fileVars, dumpVars, commands>>

\* All requests are out, or a list is walked: main drops its senders and sleeps two
\* seconds.
DropSenders ==
    /\ proc = "running" /\ pc \in {"acquire", "walk_nodes", "walk_channels"}
    /\ left = << >>
    /\ pc' = IF pc = "walk_nodes" THEN "walked" ELSE "linger"
    /\ tx' = {}
    /\ UNCHANGED <<proc, left, specs, limiterVars, fetching, fileVars, dumpVars, commands>>

Send(o, v) ==
    /\ chan' = [chan EXCEPT ![o] = Append(@, v)]
    /\ sent' = [sent EXCEPT ![o] = Append(@, v)]

Alive(o) == writer[o] \in {"start", "recv"}

\* fetch_node_info, fetch_asn_info: the answer is sent to the writer.
FetchDone(k) ==
    /\ k \in fetching
    /\ Alive(FetchOutput)
    /\ fetching' = fetching \ {k}
    /\ Send(FetchOutput, k)
    /\ UNCHANGED <<proc, mainVars, limiterVars, writer, written, flushed, dumpVars, commands>>

\* An error, or an answer for a writer that is gone, is printed. When main has
\* returned the runtime drops the task at its next await: the request is given up.
FetchFails(k) ==
    /\ k \in fetching
    /\ fetching' = fetching \ {k}
    /\ UNCHANGED <<proc, mainVars, limiterVars, fileVars, dumpVars, commands>>
-----------------------------------------------------------------------------
(* ExtractAddrsNodeInfo *)

maybe_reachable(kind) == kind \in {"v4_global", "v6_global", "onion_v3", "hostname"}

OutputOf(kind) ==
    CASE kind = "invalid" -> "mystery"
      [] maybe_reachable(kind) -> "reachable"
      [] OTHER -> "unreachable"

\* The addresses of an info, valid or not.
Specs(k) == [i \in DOMAIN AddrsOf[k] |-> <<k, AddrsOf[k][i]>>]

\* The one to send next: the invalid ones come first.
NextSpec(i) ==
    /\ \A j \in 1..(i - 1) : specs[j][2] # "invalid"
    /\ \/ specs[i][2] = "invalid"
       \/ i = 1 /\ \A j \in DOMAIN specs : specs[j][2] # "invalid"

\* The next info; one without sockets is an error and ends the command.
ExtractInfo ==
    /\ proc = "running" /\ pc = "extract"
    /\ specs = << >> /\ left # << >>
    /\ IF Head(left) \in NoSockets
       THEN Return
       ELSE /\ specs' = Specs(Head(left))
            /\ left' = Tail(left)
            /\ UNCHANGED <<proc, pc, tx>>
    /\ UNCHANGED <<limiterVars, fetching, fileVars, dumpVars, commands>>

\* One address is sent to its writer; a writer that is gone is a panic.
SendSpec ==
    /\ proc = "running" /\ pc = "extract"
    /\ \E i \in DOMAIN specs : LET o == OutputOf(specs[i][2]) IN
          /\ NextSpec(i)
          /\ IF Alive(o)
             THEN Send(o, specs[i]) /\ specs' = RemoveAt(specs, i) /\ UNCHANGED <<proc, pc, left, tx>>
             ELSE Return /\ UNCHANGED <<chan, sent>>
    /\ UNCHANGED <<limiterVars, fetching, writer, written, flushed, dumpVars, commands>>

\* After the last info, the last sleep (for Dump, after node.stop too), or when its
\* locals are dropped, main returns: nobody waits for the writers.
MainReturns ==
    /\ proc = "running"
    /\ \/ pc = "extract" /\ left = << >> /\ specs = << >>
       \/ pc \in {"linger", "unwind"}
    /\ Return
    /\ UNCHANGED <<limiterVars, fetching, fileVars, dumpVars, commands>>
-----------------------------------------------------------------------------
(* Dump *)

\* Every 15 seconds, until the last QueueSize node counts are equal and above
\* MinNodes; then five more minutes.
Synced == \A i \in 1..QueueSize :
             graph_size[i] > MinNodes /\ graph_size[i] = graph_size[QueueSize]

PollGraph ==
    /\ proc = "running" /\ pc = "sync"
    /\ ~Synced
    /\ graph_size' = Append(Tail(graph_size), Cardinality(graph \cap GraphNode))
    /\ UNCHANGED <<proc, mainVars, limiterVars, fetching, fileVars, graph, events,
                   node_list, node_list_ok, commands>>

\* LDK adds and prunes nodes and channels while the command runs.
GraphChanges(n) ==
    /\ proc = "running" /\ command = "Dump"
    /\ events < MaxEvents
    /\ events' = events + 1
    /\ graph' = IF n \in graph THEN graph \ {n} ELSE graph \cup {n}
    /\ UNCHANGED <<proc, mainVars, limiterVars, fetching, fileVars, graph_size,
                   node_list, node_list_ok, commands>>

OpenNodeLists ==
    /\ proc = "running" /\ pc = "sync"
    /\ Synced
    /\ \E todo \in SetToSeqs(graph \cap GraphNode) :
          Open({"nodes", "missing_ann"}, "walk_nodes", todo)
    /\ node_list' = << >> /\ node_list_ok' = TRUE
    /\ UNCHANGED <<limiterVars, fetching, graph, events, graph_size, commands>>

\* One item of a list taken before the walk: the item may have left the graph, its
\* writer may be gone; main then returns.
Walk(o, item) ==
    IF item \in graph /\ Alive(o)
    THEN Send(o, item) /\ left' = Tail(left) /\ UNCHANGED <<proc, pc, specs, tx>>
    ELSE /\ IF pc = "walk_nodes" THEN Unwind ELSE Return
         /\ UNCHANGED <<chan, sent>>

\* Mutant: the simple list is written in the branch of the announced nodes.
WalkNodeAnnounced ==
    /\ proc = "running" /\ pc = "walk_nodes"
    /\ left # << >>
    /\ \E o \in {"nodes", "missing_ann"} :
          /\ Walk(o, Head(left))
          /\ node_list' = IF pc' = pc /\ o = "nodes" THEN Append(node_list, Head(left))
                          ELSE node_list
    /\ UNCHANGED <<limiterVars, fetching, writer, written, flushed, graph, events,
                   graph_size, node_list_ok, commands>>

\* A node goes to one of two writers, as LDK knows its announcement or not, then to
\* the simple list.
WalkNode ==
    /\ proc = "running" /\ pc = "walk_nodes"
    /\ left # << >>
    /\ \E o \in {"nodes", "missing_ann"} : Walk(o, Head(left))
    /\ node_list' = IF pc' = pc THEN Append(node_list, Head(left)) ELSE node_list
    /\ UNCHANGED <<limiterVars, fetching, writer, written, flushed, graph, events,
                   graph_size, node_list_ok, commands>>

OpenChannelList ==
    /\ proc = "running" /\ pc = "walked"
    /\ \E todo \in SetToSeqs(graph \cap GraphChannel) :
          Open({"channels"}, "walk_channels", todo)
    /\ UNCHANGED <<limiterVars, fetching, dumpVars, commands>>

WalkChannel ==
    /\ proc = "running" /\ pc = "walk_channels"
    /\ left # << >>
    /\ Walk("channels", Head(left))
    /\ UNCHANGED <<limiterVars, fetching, writer, written, flushed, dumpVars, commands>>

\* A write to a simple list, after the item was sent to its writer, or the last flush
\* fails: main returns the error, and some of the list is lost.
SimpleListFails ==
    /\ Faults
    /\ proc = "running" /\ pc \in {"walk_nodes", "walk_channels"}
    /\ IF left = << >> THEN UNCHANGED <<chan, sent>>
       ELSE /\ Head(left) \in graph
            /\ \E o \in tx : Alive(o) /\ Send(o, Head(left))
    /\ IF pc = "walk_channels" THEN UNCHANGED <<node_list, node_list_ok>>
       ELSE /\ node_list' \in {SubSeq(node_list, 1, n) : n \in 0..Len(node_list)}
            /\ node_list_ok' = FALSE
    /\ Return
    /\ UNCHANGED <<limiterVars, fetching, writer, written, flushed, graph, events,
                   graph_size, commands>>
-----------------------------------------------------------------------------
(* info_writer *)

\* What is written goes to the buffer, which a flush empties. A full buffer also
\* spills into the file: Kill and WriterFails choose how much of it did.
Write(o, s, flush) ==
    /\ written' = [written EXCEPT ![o] = @ \o s]
    /\ flushed' = IF flush THEN [flushed EXCEPT ![o] = Len(written'[o])] ELSE flushed

Spilled(o) == flushed[o]..Len(written[o])

WriterStart(o) ==
    /\ writer[o] = "start"
    /\ writer' = [writer EXCEPT ![o] = "recv"]
    /\ Write(o, <<LBracket>>, FALSE)
    /\ UNCHANGED <<proc, mainVars, limiterVars, fetching, chan, sent, dumpVars, commands>>

\* recv_counter; first says that it is zero.
recv_counter(o) == Len(sent[o]) - Len(chan[o])

\* Mutant: the comma follows the value.
WriterRecvTrailingComma(o) ==
    /\ writer[o] = "recv"
    /\ chan[o] # << >>
    /\ chan' = [chan EXCEPT ![o] = Tail(@)]
    /\ Write(o, <<Head(chan[o]), Comma>>, (recv_counter(o) + 1) % FlushBound = 0)
    /\ UNCHANGED <<proc, mainVars, limiterVars, fetching, sent, writer, dumpVars, commands>>

\* The comma precedes every value but the first.
Separated(o) ==
    IF recv_counter(o) = 0 THEN <<Head(chan[o])>> ELSE <<Comma, Head(chan[o])>>

WriterRecv(o) ==
    /\ writer[o] = "recv"
    /\ chan[o] # << >>
    /\ chan' = [chan EXCEPT ![o] = Tail(@)]
    /\ Write(o, Separated(o), (recv_counter(o) + 1) % FlushBound = 0)
    /\ UNCHANGED <<proc, mainVars, limiterVars, fetching, sent, writer, dumpVars, commands>>

\* A clone of a sender lives as long as its task.
Senders(o) == o \in tx \/ (o = FetchOutput /\ fetching # {})

\* Mutant: recv returns None as soon as main has dropped its sender.
WriterCloseEarly(o) ==
    /\ writer[o] = "recv"
    /\ o \notin tx
    /\ Write(o, <<RBracket>>, TRUE)
    /\ writer' = [writer EXCEPT ![o] = "ok"]
    /\ UNCHANGED <<proc, mainVars, limiterVars, fetching, chan, sent, dumpVars, commands>>

\* recv returns None when the channel is empty and has no sender left.
WriterClose(o) ==
    /\ writer[o] = "recv"
    /\ chan[o] = << >> /\ ~Senders(o)
    /\ Write(o, <<RBracket>>, TRUE)
    /\ writer' = [writer EXCEPT ![o] = "ok"]
    /\ UNCHANGED <<proc, mainVars, limiterVars, fetching, chan, sent, dumpVars, commands>>

\* What info_writer is about to write.
Upcoming(o) ==
    CASE writer[o] = "start" -> <<LBracket>>
      [] writer[o] = "recv" /\ chan[o] # << >> -> Separated(o)
      [] writer[o] = "recv" /\ chan[o] = << >> /\ ~Senders(o) -> <<RBracket>>
      [] OTHER -> << >>

\* A write or a flush fails: info_writer returns, its channel is gone. Some of what was
\* in the buffer, or about to be, has reached the file; the buffer tries once more when
\* it is dropped.
WriterFails(o) ==
    /\ Faults
    /\ Alive(o)
    /\ Upcoming(o) # << >>
    /\ writer' = [writer EXCEPT ![o] = "err"]
    /\ chan' = [chan EXCEPT ![o] = << >>]
    /\ \E n \in flushed[o]..Len(written[o] \o Upcoming(o)) :
          /\ written' = [written EXCEPT ![o] = SubSeq(@ \o Upcoming(o), 1, n)]
          /\ flushed' = [flushed EXCEPT ![o] = n]
    /\ UNCHANGED <<proc, mainVars, limiterVars, fetching, sent, dumpVars, commands>>
-----------------------------------------------------------------------------
(* The end of the process *)

\* A writer that is dropped loses its channel, not its buffer.
DropWriter(o) ==
    /\ proc = "shutdown"
    /\ Alive(o)
    /\ writer' = [writer EXCEPT ![o] = "dropped"]
    /\ chan' = [chan EXCEPT ![o] = << >>]
    /\ Write(o, << >>, TRUE)
    /\ UNCHANGED <<proc, mainVars, limiterVars, fetching, sent, dumpVars, commands>>

ProcessEnds ==
    /\ proc = "shutdown"
    /\ fetching = {} /\ \A o \in Output : ~Alive(o)
    /\ proc' = "none"
    /\ UNCHANGED <<mainVars, limiterVars, fetching, fileVars, dumpVars, commands>>

\* The user kills the process: what was in a buffer is lost, also of the simple node list
\* as long as main has not flushed it.
Kill ==
    LET open == {o \in Output : Alive(o)}
        longest == Max({Len(written[o]) : o \in Output})
    IN
    /\ Faults
    /\ proc # "none"
    /\ proc' = "none"
    /\ pc' = "return" /\ left' = << >> /\ specs' = << >> /\ tx' = {}
    /\ fetching' = {}
    /\ chan' = [o \in Output |-> << >>]
    /\ writer' = [o \in Output |-> IF o \in open THEN "dropped" ELSE writer[o]]
    /\ \E n \in (IF pc \in {"walk_nodes", "unwind"} THEN 0..Len(node_list)
                 ELSE {Len(node_list)}) :
          /\ node_list' = SubSeq(node_list, 1, n)
          /\ node_list_ok' = (node_list_ok /\ n = Len(node_list))
    /\ \E n \in [open -> 0..longest] :
          /\ \A o \in open : n[o] \in Spilled(o)
          /\ flushed' = [o \in Output |-> IF o \in open THEN n[o] ELSE flushed[o]]
    /\ written' = [o \in Output |-> SubSeq(written[o], 1, flushed'[o])]
    /\ UNCHANGED <<limiterVars, sent, graph, events, graph_size, commands>>
-----------------------------------------------------------------------------
AnaInit ==
    /\ proc = "none"
    /\ pc = "return" /\ left = << >> /\ specs = << >> /\ tx = {}
    /\ bucket = BucketSize /\ classic_sem = MaxRequests
    /\ fetching = {}
    /\ chan = [o \in Output |-> << >>]
    /\ sent = [o \in Output |-> << >>]
    /\ writer = [o \in Output |-> "none"]
    /\ written = [o \in Output |-> << >>]
    /\ flushed = [o \in Output |-> 0]
    /\ graph \in {{}, GraphNode \cup GraphChannel}   \* LDK keeps its graph on disk
    /\ graph_size = [i \in 1..QueueSize |-> 0]
    /\ node_list = << >> /\ node_list_ok = TRUE
    /\ commands = << >> /\ events = 0

Start ==
    \/ StartDumpNodeInfo
    \/ \E retry \in BOOLEAN : StartFetchASNInfo(retry)
    \/ StartExtractAddrs
    \/ StartDump
    \/ StartFails

Main ==
    \/ Acquire \/ SpawnFetch
    \/ ExtractInfo \/ SendSpec
    \/ PollGraph \/ OpenNodeLists \/ WalkNode \/ OpenChannelList \/ WalkChannel
    \/ DropSenders \/ MainReturns

Writer(o) == WriterStart(o) \/ WriterRecv(o) \/ WriterClose(o)

AnaNext ==
    \/ Start
    \/ Main
    \/ RefillBucket
    \/ \E k \in Key \cup Asn : FetchDone(k) \/ FetchFails(k)
    \/ \E n \in GraphNode \cup GraphChannel : GraphChanges(n)
    \/ \E o \in Output : Writer(o) \/ WriterFails(o) \/ DropWriter(o)
    \/ SimpleListFails
    \/ ProcessEnds
    \/ Kill

\* Main, the refill task, the writers and the shutdown of the runtime make progress. A
\* request has no timeout: nothing is assumed of the fetches.
AnaFairness ==
    /\ WF_anaVars(Main)
    /\ WF_anaVars(RefillBucket)
    /\ WF_anaVars(proc = "shutdown" /\ \E k \in Key \cup Asn : FetchFails(k))
    /\ WF_anaVars(\E o \in Output : DropWriter(o))
    /\ WF_anaVars(ProcessEnds)
    /\ \A o \in Output : WF_anaVars(Writer(o))

AnaSpec == AnaInit /\ [][AnaNext]_anaVars /\ AnaFairness
-----------------------------------------------------------------------------
(* Properties *)

\* Whatever fails, is dropped or killed: what info_writer writes is at any time a prefix
\* of one JSON array, a comma between two values and none before the closing bracket.
FileWellFormed ==
    \A o \in Output : LET f == written[o] IN
        \A i \in DOMAIN f :
            /\ f[i] = LBracket <=> i = 1
            /\ f[i] = Comma <=> i > 1 /\ i % 2 = 1 /\ f[i] # RBracket
            /\ f[i] = RBracket => i = Len(f) /\ (i = 2 \/ i % 2 = 1)

\* A file that serde_json accepts is whole: it holds every value that was sent to its
\* writer, in the order sent. Whatever was sent and did not reach the file (the writer
\* dropped two seconds after the last request, or failed) leaves a file that the next
\* command refuses.
ParsesOnlyIfComplete ==
    \A o \in Output : Parses(o) => Values(File(o)) = sent[o]

\* node_list.txt and the two full lists agree: when both full lists of a Dump are
\* complete, no node is in them twice, and they split the nodes of the simple list; only
\* a failed write, or a kill while main unwinds, can cut that one short.
NodeListsAgree ==
    LET full == Values(File("nodes")) \o Values(File("missing_ann"))
    IN  Parses("nodes") /\ Parses("missing_ann") =>
           /\ IsInjective(full) /\ IsInjective(node_list)
           /\ Range(node_list) \subseteq Range(full)
           /\ node_list_ok => Len(full) = Len(node_list)

\* A command that is past the sync loop ends if its requests do: main gets a token and a
\* permit for every key, however many, and whatever writers fail or keys leave the graph.
\* (A request has no timeout; that one which hangs is harmless too is due to the permit's
\* early drop, against "only 5 reqs. in flight at a time", and not claimed here.)
CommandEnds ==
    (\A k \in Key \cup Asn : []<>(k \notin fetching))
        => ((proc = "running" /\ pc # "sync") ~> (proc = "none"))
=============================================================================
