------------------------------ MODULE Archiver ------------------------------
(***************************************************************************)
(* The gossip archiver (gossip_archiver/src/main.rs, nats.rs, lib.rs): the *)
(* NATS reader, the decoder, the write ticker and the database writer, the *)
(* unbounded channels between them, and a process that can crash and be    *)
(* restarted by systemd.                                                   *)
(*                                                                         *)
(* What a collector publishes is a batch of observations; an observation   *)
(* is one sighting of a gossip message, identified by its hash. The        *)
(* JetStream work queue and the database are external: the queue keeps a   *)
(* batch until its ACK arrives and redelivers it when the ACK does not     *)
(* come in time; an INSERT is atomic, commits or fails.                    *)
(***************************************************************************)
EXTENDS Naturals, Sequences, FiniteSets, Functions

CONSTANTS
    Observation,    \* the sightings collectors publish
    Hash,           \* Hash[o]: hash of the message sighted
    Batch,          \* Batch[b]: the observations of the b-th published batch
    Undecodable,    \* the observations decode_msg rejects
    OtherTables,    \* the tables besides messages and timings that are followed
    BatchSize,      \* database.batch_size
    MaxDeliveries,  \* bound: MaxDeliveries[b], deliveries of the b-th batch
    PerRestart,     \* bound: further deliveries after each restart
    MaxRestarts,    \* bound: restarts after an exit, a crash or a kill
    Faults          \* may an INSERT or the NATS client fail?

Tables == {"messages", "timings"} \cup OtherTables
BatchId == DOMAIN Batch
NoBatch == 0

ASSUME ArchiverAssumption ==
    /\ Batch \in Seq(Seq(Observation))
    /\ Undecodable \subseteq Observation
    /\ OtherTables \subseteq {"metadata", "message_hashes"}
    /\ BatchSize \in Nat \ {0}
    /\ MaxDeliveries \in [BatchId -> Nat \ {0}]
    /\ PerRestart \in Nat
    /\ MaxRestarts \in Nat
    /\ Faults \in BOOLEAN
    /\ DOMAIN Hash = Observation

\* An observation is one sighting, and a collector publishes it once
\* (InOrderExactlyOnce of Exporter): it is in one batch, in one place.
ASSUME SightingAssumption ==
    /\ \A o \in Observation : \E b \in BatchId : o \in Range(Batch[b])
    /\ \A b, c \in BatchId : \A i \in DOMAIN Batch[b], j \in DOMAIN Batch[c] :
          Batch[b][i] = Batch[c][j] => b = c /\ i = j

VARIABLES
    \* the JetStream work queue
    published,    \* batches published so far
    unacked,      \* published batches the queue still holds
    outstanding,  \* the ones among them delivered and not timed out
    deliveries,   \* history: times each batch was handed to the archiver
    \* the process
    up, cancel, restarts,
    \* its tasks
    reader,       \* nats_reader_with_reconnect: where it is, and the batch to ACK
    raw_q,        \* raw_msg channel
    decoder,      \* is msg_decoder running, or how did it end
    msg_q,        \* msg channel
    ticker,       \* db_write_ticker: where it is, the message it holds, msg_counter
    tick_chan,    \* the flush-signal channel of capacity one: signals in it
    chans,        \* the four buf_* channels
    writer,       \* db_write_handler: where it is
    bufs,         \* raw_msgs, timings, metas, hash_mappings
    inserting,    \* what the running db_batch_write was given and not yet inserted
    \* the database
    rows,         \* hashes in each table with ON CONFLICT DO NOTHING
    timings       \* rows of the timings table, per observation

queueVars == <<published, unacked, outstanding, deliveries>>
taskVars == <<reader, raw_q, decoder, msg_q, ticker, tick_chan, chans, writer, bufs,
              inserting>>
dbVars == <<rows, timings>>
vars == <<queueVars, up, cancel, restarts, taskVars, dbVars>>

Deliverable(b) == MaxDeliveries[b] + PerRestart * restarts

Done == {"ok", "err"}
Empty == [t \in Tables |-> << >>]

TypeOK ==
    /\ published \in 0..Len(Batch)
    /\ unacked \in SUBSET BatchId
    /\ outstanding \in SUBSET BatchId
    /\ deliveries \in [BatchId -> Nat]
    /\ \A b \in BatchId : deliveries[b] <= Deliverable(b)
    /\ up \in BOOLEAN /\ cancel \in BOOLEAN
    /\ restarts \in 0..MaxRestarts
    /\ reader \in [pc : {"setup", "next", "ack"} \cup Done, batch : BatchId \cup {NoBatch}]
    /\ raw_q \in Seq(BatchId)
    /\ decoder \in {"recv"} \cup Done
    /\ msg_q \in Seq(Observation)
    /\ ticker \in [pc : {"select", "tick", "full"} \cup Done, held : Seq(Observation),
                   msg_counter : 0..BatchSize]
    /\ tick_chan \in 0..1
    /\ chans \in [Tables -> Seq(Observation)]
    /\ writer \in {"select", "write"} \cup Done
    /\ bufs \in [Tables -> Seq(Observation)]
    /\ inserting \in [Tables -> Seq(Observation)]
    /\ rows \in [Tables \ {"timings"} -> SUBSET {Hash[o] : o \in Observation}]
    /\ timings \in [Observation -> Nat]
-----------------------------------------------------------------------------
(* External: collectors and the work queue *)

PublishBatch ==
    /\ published < Len(Batch)
    /\ published' = published + 1
    /\ unacked' = unacked \cup {published'}
    /\ UNCHANGED <<outstanding, deliveries, up, cancel, restarts, taskVars, dbVars>>

\* The ACK of a delivered batch did not arrive within the ack wait.
AckTimeout(b) ==
    /\ b \in unacked \cap outstanding
    /\ deliveries[b] < Deliverable(b)
    /\ outstanding' = outstanding \ {b}
    /\ UNCHANGED <<published, unacked, deliveries, up, cancel, restarts, taskVars, dbVars>>
-----------------------------------------------------------------------------
(* nats_reader_with_reconnect and nats_reader *)

ReaderVars == <<decoder, msg_q, ticker, tick_chan, chans, writer, bufs, inserting, dbVars,
                up, restarts>>

\* The token is looked at only here, between two connections.
ReaderSetup ==
    /\ up /\ reader.pc = "setup"
    /\ reader' = [reader EXCEPT !.pc = IF cancel THEN "ok" ELSE "next"]
    /\ UNCHANGED <<queueVars, cancel, raw_q, ReaderVars>>

\* A message is handed to the decoder, before its ACK; an error of the send ends
\* the task and its drop guard cancels the token.
ReaderNext(b) ==
    /\ up /\ reader.pc = "next"
    /\ b \in unacked \ outstanding
    /\ deliveries[b] < Deliverable(b)
    /\ outstanding' = outstanding \cup {b}
    /\ deliveries' = [deliveries EXCEPT ![b] = @ + 1]
    /\ IF decoder \in Done
       THEN /\ reader' = [pc |-> "err", batch |-> NoBatch]
            /\ cancel' = TRUE
            /\ UNCHANGED raw_q
       ELSE /\ raw_q' = Append(raw_q, b)
            /\ reader' = [pc |-> "ack", batch |-> b]
            /\ UNCHANGED cancel
    /\ UNCHANGED <<published, unacked, ReaderVars>>

\* ack() only hands the ACK to the client: it may or may not reach the server.
ReaderAck ==
    /\ up /\ reader.pc = "ack"
    /\ \/ unacked' = unacked \ {reader.batch}
       \/ UNCHANGED unacked
    /\ reader' = [pc |-> "next", batch |-> NoBatch]
    /\ UNCHANGED <<published, outstanding, deliveries, cancel, raw_q, ReaderVars>>

\* The stream ends: the reader returns Ok and is set up again.
ReaderStreamClosed ==
    /\ up /\ reader.pc = "next"
    /\ reader' = [reader EXCEPT !.pc = "setup"]
    /\ UNCHANGED <<queueVars, cancel, raw_q, ReaderVars>>

\* An error item of the stream, or a failing ack(): the archiver is cancelled.
ReaderFails ==
    /\ Faults
    /\ up /\ reader.pc \in {"next", "ack"}
    /\ reader' = [pc |-> "err", batch |-> NoBatch]
    /\ cancel' = TRUE
    /\ UNCHANGED <<queueVars, raw_q, ReaderVars>>
-----------------------------------------------------------------------------
(* msg_decoder *)

DecoderVars == <<queueVars, reader, ticker, tick_chan, chans, writer, bufs, inserting,
                 dbVars, up, restarts>>

\* The observations of a batch that come before the first undecodable one.
GoodPrefix(b) ==
    LET bad == {i \in DOMAIN Batch[b] : Batch[b][i] \in Undecodable}
    IN  IF bad = {} THEN Batch[b]
        ELSE SubSeq(Batch[b], 1, (CHOOSE i \in bad : \A j \in bad : i <= j) - 1)

Decode ==
    /\ up /\ decoder = "recv"
    /\ raw_q # << >>
    /\ LET b      == Head(raw_q)
           closed == ticker.pc \in Done
       IN
       /\ msg_q' = IF closed THEN msg_q ELSE msg_q \o GoodPrefix(b)
       /\ IF closed \/ GoodPrefix(b) # Batch[b]
          THEN /\ decoder' = "err"
               /\ cancel' = TRUE
               /\ raw_q' = << >>
          ELSE /\ raw_q' = Tail(raw_q)
               /\ UNCHANGED <<decoder, cancel>>
    /\ UNCHANGED DecoderVars

\* recv() returns None once the reader is gone.
DecoderClosed ==
    /\ up /\ decoder = "recv"
    /\ raw_q = << >>
    /\ reader.pc \in Done
    /\ decoder' = "err"
    /\ cancel' = TRUE
    /\ UNCHANGED <<raw_q, msg_q, DecoderVars>>
-----------------------------------------------------------------------------
(* db_write_ticker: a biased select over cancel, flush tick and message *)

TickerVars == <<queueVars, reader, raw_q, decoder, writer, bufs, inserting, dbVars, up,
                restarts>>

TickerExit(how) ==
    /\ ticker' = [ticker EXCEPT !.pc = how, !.held = << >>]
    /\ cancel' = TRUE
    /\ msg_q' = << >>
    /\ UNCHANGED <<tick_chan, chans, TickerVars>>

TickerCancel ==
    /\ up /\ ticker.pc = "select"
    /\ cancel
    /\ TickerExit("ok")

TickerFlushTick ==
    /\ up /\ ticker.pc = "select"
    /\ ~cancel
    /\ ticker' = [ticker EXCEPT !.pc = "tick"]
    /\ UNCHANGED <<cancel, msg_q, tick_chan, chans, TickerVars>>

\* split_exported_gossip and the four sends. They fail once the writer is gone.
TickerForward(o, counter) ==
    IF writer \in Done
    THEN /\ ticker' = [ticker EXCEPT !.pc = "err", !.held = << >>]
         /\ cancel' = TRUE
         /\ msg_q' = << >>
         /\ UNCHANGED chans
    ELSE /\ chans' = [t \in Tables |-> Append(chans[t], o)]
         /\ ticker' = [pc |-> "select", held |-> << >>, msg_counter |-> counter + 1]
         /\ UNCHANGED cancel

\* A message; when a batch has been forwarded since the last flush, a flush has
\* to be signalled first.
TickerRecv ==
    /\ up /\ ticker.pc = "select"
    /\ ~cancel
    /\ msg_q # << >>
    /\ IF ticker.msg_counter >= BatchSize
       THEN /\ ticker' = [ticker EXCEPT !.pc = "full", !.held = <<Head(msg_q)>>]
            /\ msg_q' = Tail(msg_q)
            /\ UNCHANGED <<chans, cancel>>
       ELSE /\ TickerForward(Head(msg_q), ticker.msg_counter)
            /\ writer \notin Done => msg_q' = Tail(msg_q)
    /\ UNCHANGED <<tick_chan, TickerVars>>

\* recv() returns None: the decoder has cancelled the token and dropped its sender
\* after the select polled the token and before it polled the channel.
TickerMsgClosed ==
    /\ up /\ ticker.pc = "select"
    /\ msg_q = << >>
    /\ decoder \in Done
    /\ TickerExit("err")

\* Mutant: the count of forwarded messages is not reset by a flush.
TickerSignalKeepsCount ==
    /\ up /\ ticker.pc \in {"tick", "full"}
    /\ writer \notin Done
    /\ tick_chan = 0
    /\ tick_chan' = 1
    /\ IF ticker.pc = "full"
       THEN /\ TickerForward(ticker.held[1], ticker.msg_counter)
            /\ UNCHANGED msg_q
       ELSE /\ ticker' = [ticker EXCEPT !.pc = "select"]
            /\ UNCHANGED <<chans, cancel, msg_q>>
    /\ UNCHANGED TickerVars

\* Mutant: the message that found the batch full is forgotten after the flush.
TickerSignalForgets ==
    /\ up /\ ticker.pc \in {"tick", "full"}
    /\ writer \notin Done
    /\ tick_chan = 0
    /\ tick_chan' = 1
    /\ ticker' = [pc |-> "select", held |-> << >>, msg_counter |-> 0]
    /\ UNCHANGED <<chans, cancel, msg_q, TickerVars>>

\* signal_flush: reserve() waits for room in the channel, or fails when the
\* writer is gone. The token is not watched here.
TickerSignal ==
    /\ up /\ ticker.pc \in {"tick", "full"}
    /\ writer \notin Done
    /\ tick_chan = 0
    /\ tick_chan' = 1
    /\ IF ticker.pc = "full"
       THEN /\ TickerForward(ticker.held[1], 0)
            /\ UNCHANGED msg_q
       ELSE /\ ticker' = [pc |-> "select", held |-> << >>, msg_counter |-> 0]
            /\ UNCHANGED <<chans, cancel, msg_q>>
    /\ UNCHANGED TickerVars

\* Mutant: the error of reserve() is swallowed and the flush tried again.
TickerSignalRetries ==
    /\ up /\ ticker.pc \in {"tick", "full"}
    /\ writer \in Done
    /\ UNCHANGED vars

TickerSignalFails ==
    /\ up /\ ticker.pc \in {"tick", "full"}
    /\ writer \in Done
    /\ TickerExit("err")
-----------------------------------------------------------------------------
(* db_write_handler: an unbiased select over cancel, flush signal, four channels *)

WriterVars == <<queueVars, reader, raw_q, decoder, msg_q, ticker, up, restarts>>

\* Mutant: the buffers are copied and not moved.
WriterFlushCopies(flush, buffers) ==
    IF flush /\ buffers # Empty
    THEN /\ inserting' = buffers
         /\ bufs' = buffers
         /\ writer' = "write"
    ELSE /\ bufs' = buffers
         /\ UNCHANGED <<inserting, writer>>

\* The end of an iteration that received: a flush when signalled or when the
\* timings buffer is full moves the buffers into db_batch_write.
WriterFlushOr(flush, buffers) ==
    IF flush /\ buffers # Empty
    THEN /\ inserting' = buffers
         /\ bufs' = Empty
         /\ writer' = "write"
    ELSE /\ bufs' = buffers
         /\ UNCHANGED <<inserting, writer>>

\* Mutant: only the ticker's signal flushes.
WriterRecvOnly(t) ==
    /\ up /\ writer = "select"
    /\ chans[t] # << >>
    /\ chans' = [chans EXCEPT ![t] = Tail(@)]
    /\ WriterFlushOr(FALSE, [bufs EXCEPT ![t] = Append(@, Head(chans[t]))])
    /\ UNCHANGED <<cancel, tick_chan, dbVars, WriterVars>>

WriterRecv(t) ==
    /\ up /\ writer = "select"
    /\ chans[t] # << >>
    /\ chans' = [chans EXCEPT ![t] = Tail(@)]
    /\ LET buffers == [bufs EXCEPT ![t] = Append(@, Head(chans[t]))]
       IN  WriterFlushOr(Len(buffers["timings"]) >= BatchSize, buffers)
    /\ UNCHANGED <<cancel, tick_chan, dbVars, WriterVars>>

\* Mutant: the signal is received and nothing is flushed.
WriterTickIgnored ==
    /\ up /\ writer = "select"
    /\ \/ tick_chan = 1 /\ tick_chan' = 0
       \/ tick_chan = 0 /\ ticker.pc \in Done /\ UNCHANGED tick_chan
    /\ WriterFlushOr(FALSE, bufs)
    /\ UNCHANGED <<cancel, chans, dbVars, WriterVars>>

\* The signal, or None for ever once the ticker is gone: either flushes.
WriterTick ==
    /\ up /\ writer = "select"
    /\ \/ tick_chan = 1 /\ tick_chan' = 0
       \/ tick_chan = 0 /\ ticker.pc \in Done /\ UNCHANGED tick_chan
    /\ WriterFlushOr(TRUE, bufs)
    /\ UNCHANGED <<cancel, chans, dbVars, WriterVars>>

\* The writer ends: what it buffered and what was still in its channels is dropped.
WriterExit(how) ==
    /\ writer' = how
    /\ bufs' = Empty
    /\ inserting' = Empty
    /\ chans' = Empty
    /\ tick_chan' = 0
    /\ cancel' = TRUE
    /\ UNCHANGED WriterVars

WriterCancel ==
    /\ up /\ writer = "select"
    /\ cancel
    /\ WriterExit("ok")
    /\ UNCHANGED dbVars

WriterClosed ==
    /\ up /\ writer = "select"
    /\ ticker.pc \in Done
    /\ \E t \in Tables : chans[t] = << >>
    /\ WriterExit("err")
    /\ UNCHANGED dbVars

\* The rows the INSERTs of the tables in T add.
Commit(T) ==
    /\ rows' = [t \in Tables \ {"timings"} |->
                  IF t \in T THEN rows[t] \cup {Hash[o] : o \in Range(inserting[t])}
                  ELSE rows[t]]
    /\ timings' = [o \in Observation |->
                     IF "timings" \in T
                     THEN timings[o] + Cardinality({i \in DOMAIN inserting["timings"] :
                                                    inserting["timings"][i] = o})
                     ELSE timings[o]]

\* db_batch_write runs its INSERTs concurrently, outside a transaction.
Insert(t) ==
    /\ up /\ writer = "write"
    /\ inserting[t] # << >>
    /\ Commit({t})
    /\ inserting' = [inserting EXCEPT ![t] = << >>]
    /\ writer' = IF inserting' = Empty THEN "select" ELSE "write"
    /\ UNCHANGED <<cancel, tick_chan, chans, bufs, WriterVars>>

\* The first error drops the JoinSet: the other INSERTs are aborted, but some may
\* have reached the server.
InsertFails(t) ==
    /\ Faults
    /\ up /\ writer = "write"
    /\ inserting[t] # << >>
    /\ \E T \in SUBSET (Tables \ {t}) : Commit(T)
    /\ WriterExit("err")
-----------------------------------------------------------------------------
(* The process *)

Fresh ==
    /\ reader' = [pc |-> "setup", batch |-> NoBatch]
    /\ raw_q' = << >>
    /\ decoder' = "recv"
    /\ msg_q' = << >>
    /\ ticker' = [pc |-> "select", held |-> << >>, msg_counter |-> 0]
    /\ tick_chan' = 0
    /\ chans' = Empty
    /\ writer' = "select"
    /\ bufs' = Empty
    /\ inserting' = Empty
    /\ cancel' = FALSE

AllDone ==
    {reader.pc, decoder, ticker.pc, writer} \subseteq Done

\* try_join! waits for the four tasks.
Exit ==
    /\ up /\ AllDone
    /\ up' = FALSE
    /\ UNCHANGED <<queueVars, cancel, restarts, taskVars, dbVars>>

\* A crash or a kill (no signal is handled); INSERTs under way may commit.
Crash ==
    /\ up
    /\ restarts < MaxRestarts
    /\ up' = FALSE
    /\ \E T \in SUBSET Tables : Commit(T)
    /\ Fresh
    /\ UNCHANGED <<queueVars, restarts>>

\* systemd starts the archiver again (Restart=on-failure: msg_decoder returns only
\* errors, so every exit is a failure).
Restart ==
    /\ ~up
    /\ restarts < MaxRestarts
    /\ restarts' = restarts + 1
    /\ up' = TRUE
    /\ Fresh
    /\ UNCHANGED <<queueVars, dbVars>>

Init ==
    /\ published = 0
    /\ unacked = {} /\ outstanding = {}
    /\ deliveries = [b \in BatchId |-> 0]
    /\ up = TRUE /\ cancel = FALSE /\ restarts = 0
    /\ reader = [pc |-> "setup", batch |-> NoBatch]
    /\ raw_q = << >>
    /\ decoder = "recv"
    /\ msg_q = << >>
    /\ ticker = [pc |-> "select", held |-> << >>, msg_counter |-> 0]
    /\ tick_chan = 0
    /\ chans = Empty
    /\ writer = "select"
    /\ bufs = Empty /\ inserting = Empty
    /\ rows = [t \in Tables \ {"timings"} |-> {}]
    /\ timings = [o \in Observation |-> 0]

Reader == ReaderSetup \/ (\E b \in BatchId : ReaderNext(b)) \/ ReaderAck
Decoder == Decode \/ DecoderClosed
Ticker ==
    \/ TickerCancel \/ TickerFlushTick \/ TickerRecv \/ TickerMsgClosed
    \/ TickerSignal \/ TickerSignalFails
Writer ==
    \/ \E t \in Tables : WriterRecv(t) \/ Insert(t)
    \/ WriterTick \/ WriterCancel \/ WriterClosed

Next ==
    \/ PublishBatch
    \/ \E b \in BatchId : AckTimeout(b)
    \/ Reader \/ ReaderStreamClosed \/ ReaderFails
    \/ Decoder
    \/ Ticker
    \/ Writer \/ (\E t \in Tables : InsertFails(t))
    \/ Exit \/ Crash \/ Restart

Spec == Init /\ [][Next]_vars
-----------------------------------------------------------------------------
(* Properties *)

Count(s, o) == Cardinality({i \in DOMAIN s : s[i] = o})

\* The copies of an observation on its way to a table, and its deliveries.
Underway(t, o) ==
    Cardinality({i \in DOMAIN raw_q : o \in Range(Batch[raw_q[i]])})
        + Count(msg_q, o) + Count(ticker.held, o) + Count(chans[t], o)
        + Count(bufs[t], o) + Count(inserting[t], o)

Deliveries(o) == deliveries[CHOOSE b \in BatchId : o \in Range(Batch[b])]

\* The archiver itself never multiplies an observation: the timings table, which
\* has no conflict clause, holds at most one row per delivery of its batch,
\* through redeliveries, failed writes, crashes and restarts.
OneRowPerDelivery ==
    \A o \in Observation : timings[o] + Underway("timings", o) <= Deliveries(o)

\* Until something cancels the token or kills the process, a delivered
\* observation is stored or on its way, for every table separately: the four
\* channels, the buffers that are swapped out and the flush signals lose nothing.
NothingLostWhileUp ==
    (up /\ ~cancel /\ restarts = 0) =>
        \A o \in Observation :
            /\ timings[o] + Underway("timings", o) = Deliveries(o)
            /\ \A t \in Tables \ {"timings"} :
                  Deliveries(o) > 0 => Hash[o] \in rows[t] \/ Underway(t, o) > 0

\* "Checking the buffer size here ... prevents excess accumulation": the timings
\* buffer never exceeds a batch, whatever flush signals were missed.
TimingsBufferBounded == Len(bufs["timings"]) < BatchSize

\* "The archiver always inserts into `messages` first within the same
\* transaction, so referential integrity is guaranteed": a timings row refers to
\* a row of messages.
ReferentialIntegrity ==
    \A o \in Observation : timings[o] > 0 => Hash[o] \in rows["messages"]
-----------------------------------------------------------------------------
(* Liveness: the four tasks run, the interval ticks, an INSERT returns. Nothing  *)
(* makes the stream close or a new batch arrive. Strong fairness where a branch  *)
(* of a select competes with others that keep becoming ready: the ticker's flush *)
(* interval is seconds long, the writer's select picks a ready branch at random, *)
(* and a consumer set up again and again is handed a message some time.          *)

Fairness ==
    /\ WF_vars(ReaderSetup \/ ReaderAck)
    /\ \A b \in BatchId : SF_vars(ReaderNext(b)) /\ WF_vars(AckTimeout(b))
    /\ WF_vars(Decoder)
    /\ WF_vars(Ticker) /\ SF_vars(TickerRecv) /\ SF_vars(TickerFlushTick)
    /\ SF_vars(\E t \in Tables : WriterRecv(t)) /\ WF_vars(\E t \in Tables : Insert(t))
    /\ SF_vars(WriterTick) /\ SF_vars(WriterCancel \/ WriterClosed)
    /\ WF_vars(Exit \/ Restart)

FairSpec == Spec /\ Fairness

Stored(o) == timings[o] > 0 /\ \A t \in Tables \ {"timings"} : Hash[o] \in rows[t]

\* A published batch reaches all the tables, also when it does not fill a database
\* batch and whatever crashes. Two things excuse a loss: the archiver was cancelled, or
\* it crashed with the batch acknowledged and not yet written. A batch the queue still
\* holds is never lost.
EventuallyStored ==
    \A b \in BatchId :
        b \in unacked ~> \/ \A o \in Range(Batch[b]) : Stored(o)
                         \/ cancel
                         \/ b \notin unacked /\ (~up \/ restarts > 0)

\* Cancelling the token ends both database tasks, neither the flush signal's channel of
\* capacity one nor a closed channel keeps one waiting, and then the process, unless
\* the reader waits for NATS: next() is the one place where nobody looks at the token.
OnlyTheReaderWaits ==
    cancel ~> ~up \/ (writer \in Done /\ ticker.pc \in Done /\ reader.pc = "next")
=============================================================================
