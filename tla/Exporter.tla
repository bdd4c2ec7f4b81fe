------------------------------ MODULE Exporter ------------------------------
(***************************************************************************)
(* The collector's NATS exporter (gossip_collector/src/exporter.rs): the   *)
(* unbounded channel LDK logs gossip into, the queue_exported_msg task     *)
(* that filters and moves messages to a bounded channel, and the           *)
(* publish_msgs task that batches them and publishes each full batch.      *)
(*                                                                         *)
(* A message is its sender and a serial number; its text, the collector    *)
(* suffix and the delimiters are left out. The JetStream server is         *)
(* external: a published batch is stored or lost, and the publisher sees   *)
(* an ACK or an error.                                                     *)
(***************************************************************************)
EXTENDS Naturals, Sequences, FiniteSets, Functions

CONSTANTS
    Peer,       \* public keys of the peers that gossip to us
    BatchSize,  \* cfg.batch_size: batch length and capacity of the bounded channel
    MaxMsgs     \* bound: messages LDK exports

ASSUME ExporterAssumption ==
    /\ BatchSize \in Nat \ {0}
    /\ MaxMsgs \in Nat

VARIABLES
    pending_notifier,  \* the connection manager's watch channel
    received,          \* history: messages exported by LDK so far
    filtered,          \* history: serial numbers the filter discarded
    export_q,          \* the unbounded channel export_tx -> export_rx
    queue_task,        \* where queue_exported_msg is
    msg_filter_rules,  \* its local copy of the filter
    held,              \* the message it is waiting to place (none or one)
    nats_chan,         \* the bounded channel nats_tx -> nats_rx
    publish_task,      \* where publish_msgs is
    msg_batch,         \* its batch under construction
    in_flight,         \* the batch handed to the NATS client and not stored yet
    stream,            \* what the JetStream stream holds, in order
    stop_signal        \* the collector's cancellation token

queueVars == <<queue_task, msg_filter_rules, held>>
publishVars == <<publish_task, msg_batch>>
natsVars == <<in_flight, stream>>
exporterVars == <<received, filtered, export_q, queueVars, nats_chan, publishVars,
                  natsVars, stop_signal>>
expVars == <<pending_notifier, exporterVars>>

Message == [peer : Peer, id : Nat]

QueueDone == queue_task \in {"ok", "err"}
PublishDone == publish_task \in {"ok", "err"}

\* The types, and back-pressure: behind the filter there is at most the held message, a
\* channel of one batch, and one batch that is either filled or published, however many
\* messages wait in the unbounded channel.
ExpTypeOK ==
    /\ pending_notifier \in [value : SUBSET Peer, changed : BOOLEAN]
    /\ received \in 0..MaxMsgs
    /\ filtered \in SUBSET (1..MaxMsgs)
    /\ export_q \in Seq(Message)
    /\ queue_task \in {"barrier", "recv", "reserve", "ok", "err"}
    /\ msg_filter_rules \in SUBSET Peer
    /\ held \in Seq(Message)
    /\ nats_chan \in Seq(Message)
    /\ publish_task \in {"barrier", "recv", "publish", "ack", "ok", "err"}
    /\ msg_batch \in Seq(Message)
    /\ in_flight \in Seq(Message)
    /\ stream \in Seq(Message)
    /\ stop_signal \in BOOLEAN
    /\ Len(nats_chan \o held) <= BatchSize + 1
    /\ Len(in_flight \o msg_batch) <= BatchSize

\* Every message the exporter still accounts for, the oldest first.
Pipeline == stream \o in_flight \o msg_batch \o nats_chan \o held \o export_q
-----------------------------------------------------------------------------
(* export() and startup *)

\* LDK logs a message. The send fails only when queue_exported_msg is gone.
Export(p) ==
    /\ received < MaxMsgs
    /\ received' = received + 1
    /\ IF QueueDone
       THEN /\ stop_signal' = TRUE
            /\ UNCHANGED export_q
       ELSE /\ export_q' = Append(export_q, [peer |-> p, id |-> received'])
            /\ UNCHANGED stop_signal
    /\ UNCHANGED <<pending_notifier, filtered, queueVars, nats_chan, publishVars, natsVars>>

\* set_export_metadata reaches the barrier of three; both tasks pass it, and
\* queue_exported_msg takes its first copy of the filter.
BarrierRelease ==
    /\ queue_task = "barrier" /\ publish_task = "barrier"
    /\ queue_task' = "recv"
    /\ publish_task' = "recv"
    /\ msg_filter_rules' = pending_notifier.value
    /\ pending_notifier' = [pending_notifier EXCEPT !.changed = FALSE]
    /\ UNCHANGED <<received, filtered, export_q, held, nats_chan, msg_batch, natsVars,
                   stop_signal>>

\* Ctrl-C, a Shutdown request, or the end of any other task of the collector.
Shutdown ==
    /\ ~stop_signal
    /\ stop_signal' = TRUE
    /\ UNCHANGED <<pending_notifier, received, filtered, export_q, queueVars, nats_chan,
                   publishVars, natsVars>>
-----------------------------------------------------------------------------
(* queue_exported_msg: a biased select over stop, filter change and message *)

\* The task returns: its receiver and its sender are dropped, and its drop guard
\* cancels the collector's token.
QueueExit(how) ==
    /\ queue_task' = how
    /\ held' = << >>
    /\ export_q' = << >>
    /\ stop_signal' = TRUE
    /\ UNCHANGED <<pending_notifier, received, filtered, msg_filter_rules, nats_chan,
                   publishVars, natsVars>>

QueueStop ==
    /\ queue_task \in {"barrier", "recv", "reserve"}
    /\ stop_signal
    /\ QueueExit("ok")

\* Mutant: the update is marked as seen and not copied.
QueueFilterSeen ==
    /\ queue_task = "recv"
    /\ ~stop_signal
    /\ pending_notifier.changed
    /\ pending_notifier' = [pending_notifier EXCEPT !.changed = FALSE]
    /\ UNCHANGED <<received, filtered, export_q, queueVars, nats_chan, publishVars,
                   natsVars, stop_signal>>

QueueFilterChanged ==
    /\ queue_task = "recv"
    /\ ~stop_signal
    /\ pending_notifier.changed
    /\ msg_filter_rules' = pending_notifier.value
    /\ pending_notifier' = [pending_notifier EXCEPT !.changed = FALSE]
    /\ UNCHANGED <<received, filtered, export_q, queue_task, held, nats_chan, publishVars,
                   natsVars, stop_signal>>

QueueCanReceive ==
    /\ queue_task = "recv"
    /\ ~stop_signal
    /\ ~pending_notifier.changed
    /\ export_q # << >>

\* The sender is the second field of the message. Its suffix, appended first, holds
\* a delimiter, so a second field always exists and the arm for a broken format
\* is never taken.
QueueDiscard ==
    /\ QueueCanReceive
    /\ Head(export_q).peer \in msg_filter_rules
    /\ filtered' = filtered \cup {Head(export_q).id}
    /\ export_q' = Tail(export_q)
    /\ UNCHANGED <<pending_notifier, received, queueVars, nats_chan, publishVars, natsVars,
                   stop_signal>>

QueueAccept ==
    /\ QueueCanReceive
    /\ Head(export_q).peer \notin msg_filter_rules
    /\ held' = <<Head(export_q)>>
    /\ export_q' = Tail(export_q)
    /\ queue_task' = "reserve"
    /\ UNCHANGED <<pending_notifier, received, filtered, msg_filter_rules, nats_chan,
                   publishVars, natsVars, stop_signal>>

\* Mutant: try_send() instead of reserve(): a full channel drops the message.
QueueTrySend ==
    /\ queue_task = "reserve"
    /\ ~PublishDone
    /\ nats_chan' = IF Len(nats_chan) < BatchSize THEN nats_chan \o held ELSE nats_chan
    /\ held' = << >>
    /\ queue_task' = "recv"
    /\ UNCHANGED <<pending_notifier, received, filtered, export_q, msg_filter_rules,
                   publishVars, natsVars, stop_signal>>

\* Mutant: an unbounded channel.
QueueSendUnbounded ==
    /\ queue_task = "reserve"
    /\ ~PublishDone
    /\ nats_chan' = nats_chan \o held
    /\ held' = << >>
    /\ queue_task' = "recv"
    /\ UNCHANGED <<pending_notifier, received, filtered, export_q, msg_filter_rules,
                   publishVars, natsVars, stop_signal>>

\* tx.reserve(): waits for room; the select with the token is not biased, so a
\* free slot may win over a cancelled token.
QueueSend ==
    /\ queue_task = "reserve"
    /\ ~PublishDone
    /\ Len(nats_chan) < BatchSize
    /\ nats_chan' = nats_chan \o held
    /\ held' = << >>
    /\ queue_task' = "recv"
    /\ UNCHANGED <<pending_notifier, received, filtered, export_q, msg_filter_rules,
                   publishVars, natsVars, stop_signal>>

QueueSendClosed ==
    /\ queue_task = "reserve"
    /\ PublishDone
    /\ QueueExit("err")
-----------------------------------------------------------------------------
(* publish_msgs: an unbiased select over message, stop and statistics *)

\* Mutant: publish_msgs has no drop guard; its failure goes unnoticed.
PublishExitUnguarded(how) ==
    /\ publish_task' = how
    /\ msg_batch' = << >>
    /\ nats_chan' = << >>
    /\ UNCHANGED <<pending_notifier, received, filtered, export_q, queueVars, natsVars,
                   stop_signal>>

\* The task returns or panics: its receiver closes and its drop guard cancels.
PublishExit(how) ==
    /\ publish_task' = how
    /\ msg_batch' = << >>
    /\ nats_chan' = << >>
    /\ stop_signal' = TRUE
    /\ UNCHANGED <<pending_notifier, received, filtered, export_q, queueVars, natsVars>>

\* Mutant: a batch is taken for full one message late.
PublishRecvLate ==
    /\ publish_task = "recv"
    /\ nats_chan # << >>
    /\ msg_batch' = Append(msg_batch, Head(nats_chan))
    /\ nats_chan' = Tail(nats_chan)
    /\ publish_task' = IF Len(msg_batch') > BatchSize THEN "publish" ELSE "recv"
    /\ UNCHANGED <<pending_notifier, received, filtered, export_q, queueVars, natsVars,
                   stop_signal>>

PublishRecv ==
    /\ publish_task = "recv"
    /\ nats_chan # << >>
    /\ msg_batch' = Append(msg_batch, Head(nats_chan))
    /\ nats_chan' = Tail(nats_chan)
    /\ publish_task' = IF Len(msg_batch') >= BatchSize THEN "publish" ELSE "recv"
    /\ UNCHANGED <<pending_notifier, received, filtered, export_q, queueVars, natsVars,
                   stop_signal>>

\* recv() returns None: the queue task dropped its sender and nothing is left.
PublishClosed ==
    /\ publish_task = "recv"
    /\ nats_chan = << >>
    /\ QueueDone
    /\ PublishExit("err")

\* Mutant: the token is not watched at the barrier.
PublishStopRunning ==
    /\ publish_task \in {"recv", "ack"}
    /\ stop_signal
    /\ PublishExit("ok")

\* The token is watched at the barrier and while waiting for a message or the ACK.
PublishStop ==
    /\ publish_task \in {"barrier", "recv", "ack"}
    /\ stop_signal
    /\ PublishExit("ok")

\* Mutant: the batch is joined and not drained.
PublishBatchUndrained ==
    /\ publish_task = "publish"
    /\ in_flight' = msg_batch
    /\ publish_task' = "ack"
    /\ UNCHANGED <<pending_notifier, received, filtered, export_q, queueVars, nats_chan,
                   msg_batch, stream, stop_signal>>

\* The batch is drained, joined and handed to the client.
PublishBatch ==
    /\ publish_task = "publish"
    /\ in_flight' = msg_batch
    /\ msg_batch' = << >>
    /\ publish_task' = "ack"
    /\ UNCHANGED <<pending_notifier, received, filtered, export_q, queueVars, nats_chan,
                   stream, stop_signal>>

\* unwrap() of a failed publish, or of an ACK that did not come.
PublishPanic ==
    /\ publish_task \in {"publish", "ack"}
    /\ PublishExit("err")

\* The ACK follows the server's storing the batch.
PublishAck ==
    /\ publish_task = "ack"
    /\ in_flight = << >>
    /\ publish_task' = "recv"
    /\ UNCHANGED <<pending_notifier, received, filtered, export_q, queueVars, nats_chan,
                   msg_batch, natsVars, stop_signal>>
-----------------------------------------------------------------------------
(* External: the JetStream server, and the connection manager's updates *)

StreamStore ==
    /\ in_flight # << >>
    /\ stream' = stream \o in_flight
    /\ in_flight' = << >>
    /\ UNCHANGED <<pending_notifier, received, filtered, export_q, queueVars, nats_chan,
                   publishVars, stop_signal>>

\* A batch that got lost is never acknowledged: the publisher ends by a panic or
\* by shutdown.
StreamLose ==
    /\ in_flight # << >>
    /\ PublishDone
    /\ in_flight' = << >>
    /\ UNCHANGED <<pending_notifier, received, filtered, export_q, queueVars, nats_chan,
                   publishVars, stream, stop_signal>>

FilterUpdate(rules) ==
    /\ pending_notifier' = [value |-> rules, changed |-> TRUE]
    /\ UNCHANGED exporterVars
-----------------------------------------------------------------------------
ExporterInit ==
    /\ received = 0
    /\ filtered = {}
    /\ export_q = << >>
    /\ queue_task = "barrier"
    /\ msg_filter_rules = {}
    /\ held = << >>
    /\ nats_chan = << >>
    /\ publish_task = "barrier"
    /\ msg_batch = << >>
    /\ in_flight = << >>
    /\ stream = << >>
    /\ stop_signal = FALSE

QueueTask ==
    \/ QueueStop \/ QueueFilterChanged \/ QueueDiscard \/ QueueAccept
    \/ QueueSend \/ QueueSendClosed

PublishTask ==
    \/ PublishRecv \/ PublishClosed \/ PublishStop \/ PublishBatch \/ PublishAck

ExporterStep ==
    \/ BarrierRelease
    \/ Shutdown
    \/ QueueTask
    \/ PublishTask
    \/ PublishPanic
    \/ StreamStore
    \/ StreamLose

ExpInit ==
    /\ pending_notifier = [value |-> {}, changed |-> FALSE]
    /\ ExporterInit

ExpNext ==
    \/ \E p \in Peer : Export(p)
    \/ ExporterStep
    \/ \E rules \in SUBSET Peer : FilterUpdate(rules)

ExpSpec == ExpInit /\ [][ExpNext]_expVars
-----------------------------------------------------------------------------
(* Properties *)

\* Order and uniqueness: from the channel LDK writes to the stream, messages
\* keep the order of their arrival and none occurs twice, through every hand-over
\* between the two tasks, a failed publish and a shutdown.
InOrderExactlyOnce ==
    \A i, j \in DOMAIN Pipeline : i < j => Pipeline[i].id < Pipeline[j].id

\* Until the token is cancelled, a message is either in the pipeline or was
\* discarded by the filter: back-pressure never drops one.
NothingLostWhileRunning ==
    ~stop_signal => {Pipeline[i].id : i \in DOMAIN Pipeline} \cup filtered = 1..received

Unpublished == in_flight \o msg_batch \o nats_chan \o held \o export_q

Log == INSTANCE ExportLog WITH
    Message <- [peer : Peer, id : 1..MaxMsgs], log <- stream, queue <- Unpublished,
    running <- ~stop_signal

\* The exporter implements ExportLog: whatever the two tasks, the server and a
\* shutdown do, the stream grows by batches of at most BatchSize messages from the front
\* of the queue, each in one piece, and only the filter or the end of service removes
\* anything. ExportLog allows batches that are not full (the diagrams also have a flush by
\* time, which publish_msgs does not).
ImplementsExportLog == Log!Spec
-----------------------------------------------------------------------------
(* Liveness: the two tasks run, the JetStream server answers, and filter updates *)
(* (sweeps and attempts, seconds apart) leave the biased select time to receive. *)

ExpFairness ==
    /\ WF_expVars(BarrierRelease)
    /\ WF_expVars(QueueTask)
    /\ SF_expVars(QueueDiscard \/ QueueAccept)
    /\ WF_expVars(PublishTask)
    /\ WF_expVars(StreamStore)

ExpFairSpec == ExpSpec /\ ExpFairness

\* A shutdown, or the failure of either task, ends both: neither waits for ever
\* on a channel whose other end is gone.
ShutdownCompletes == stop_signal ~> (QueueDone /\ PublishDone)

\* If nothing cancels the token, full batches do not get stuck: in the end fewer
\* than BatchSize messages are left outside the stream.
FullBatchesFlow ==
    <>[](stop_signal \/ Len(Pipeline) - Len(stream) < BatchSize)
=============================================================================
