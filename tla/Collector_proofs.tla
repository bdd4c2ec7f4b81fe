-------------------------- MODULE Collector_proofs --------------------------
(***************************************************************************)
(* Proofs about the collector's data path: the connection manager's        *)
(* invariants survive the exporter's use of the watch channel, the local   *)
(* copy of the filter is current, fresh peers are muted, and the composed  *)
(* collector implements the exporter's specification, with the manager's   *)
(* updates for its arbitrary ones.                                         *)
(***************************************************************************)
EXTENDS Collector, PeerConnManager_proofs

\* What is published and what it is copied from: the manager's side of the channel is
\* well typed and mirrors the pending list, the queue its set, the copy the channel.
ChannelInv == IInv /\ FilterMirrorsPending /\ EligibleMirrorsQueue /\ LocalFilterCurrent

-----------------------------------------------------------------------------
(* The two sides of the watch channel *)

\* The manager leaves the channel alone or publishes, which marks it changed.
LEMMA ManagerPublishes ==
    ASSUME PCMNext
    PROVE  pending_notifier' = pending_notifier \/ pending_notifier'.changed
<1>1. CASE HandleMsg
  BY <1>1 DEF HandleMsg, HandleAddPendingConn, HandleRemovePendingConn,
              HandleSweepPendingConnections, HandleAddEligiblePeer, HandlePeekEligiblePeer,
              HandleRotateEligiblePeers, Notify
<1>2. CASE \/ \E list \in PeerLists : PostEligiblePeers(list)
           \/ \E n \in Targets : PostTargetPeerCount(n)
           \/ SweeperTick \/ RefillBucket \/ MonitorTick \/ MonitorAcquire \/ MonitorReply
           \/ MonitorRecheck
  BY <1>2 DEF PostEligiblePeers, PostTargetPeerCount, SweeperTick, RefillBucket, MonitorTick,
              MonitorAcquire, MonitorReply, MonitorRecheck
<1>3. ASSUME NEW a \in AttemptId, AttemptStep(a) PROVE pending_notifier' = pending_notifier
  BY <1>3 DEF AttemptStep, AttemptStart, AttemptWake, AttemptConnected, AttemptFailed
<1>4. CASE (\E p \in Peer : Disconnect(p)) \/ Tick
  BY <1>4 DEF Disconnect, Tick
<1> QED BY <1>1, <1>2, <1>3, <1>4 DEF PCMNext

\* The exporter only marks what is published as seen, and then copies it.
LEMMA ExporterReads ==
    ASSUME TypeOK, LocalFilterCurrent, Exp!ExporterStep \/ \E p \in Peer : Exp!Export(p)
    PROVE  /\ pending_notifier' \in [value : SUBSET Peer, changed : BOOLEAN]
           /\ pending_notifier'.value = pending_notifier.value
           /\ LocalFilterCurrent'
<1>t. pending_notifier \in [value : SUBSET Peer, changed : BOOLEAN]
  BY DEF TypeOK
<1> USE DEF LocalFilterCurrent, Exp!queueVars, Exp!publishVars, Exp!natsVars
<1>1. CASE Exp!BarrierRelease \/ Exp!QueueFilterChanged
  <2>1. /\ pending_notifier' = [pending_notifier EXCEPT !.changed = FALSE]
        /\ msg_filter_rules' = pending_notifier.value
    BY <1>1 DEF Exp!BarrierRelease, Exp!QueueFilterChanged
  <2> QED BY <1>t, <2>1
<1>2. ASSUME UNCHANGED pending_notifier, UNCHANGED msg_filter_rules,
             queue_task' \in {"recv", "reserve"} => queue_task \in {"recv", "reserve"}
      PROVE  /\ pending_notifier' \in [value : SUBSET Peer, changed : BOOLEAN]
             /\ pending_notifier'.value = pending_notifier.value
             /\ LocalFilterCurrent'
  BY <1>t, <1>2
<1>3. CASE Exp!Shutdown \/ Exp!StreamStore \/ Exp!StreamLose \/ (\E p \in Peer : Exp!Export(p))
  BY <1>2, <1>3 DEF Exp!Shutdown, Exp!StreamStore, Exp!StreamLose, Exp!Export
<1>4. CASE Exp!QueueStop \/ Exp!QueueSendClosed
  BY <1>2, <1>4 DEF Exp!QueueStop, Exp!QueueSendClosed, Exp!QueueExit
<1>5. CASE Exp!QueueDiscard \/ Exp!QueueAccept \/ Exp!QueueSend
  BY <1>2, <1>5 DEF Exp!QueueDiscard, Exp!QueueAccept, Exp!QueueSend, Exp!QueueCanReceive
<1>6. CASE Exp!PublishTask \/ Exp!PublishPanic
  BY <1>2, <1>6 DEF Exp!PublishTask, Exp!PublishRecv, Exp!PublishClosed, Exp!PublishStop,
                    Exp!PublishBatch, Exp!PublishAck, Exp!PublishPanic, Exp!PublishExit
<1> QED BY <1>1, <1>3, <1>4, <1>5, <1>6 DEF Exp!ExporterStep, Exp!QueueTask

\* A step of the collector is one of the exporter or one of the manager.
LEMMA EitherSide ==
    ASSUME [CollectorNext]_collectorVars
    PROVE  \/ /\ [PCMNext]_pcmVars
              /\ UNCHANGED exporterVars
              /\ UNCHANGED pcmVars \/ PCMNext
           \/ /\ Exp!ExporterStep \/ \E p \in Peer : Exp!Export(p)
              /\ UNCHANGED pcmOwnVars
<1>1. CASE UNCHANGED collectorVars
  BY <1>1 DEF collectorVars
<1>2. CASE CollectorNext
  BY <1>2 DEF CollectorNext, Gossip, ManagerStep, ExporterStep
<1> QED BY <1>1, <1>2

\* Every step keeps the channel's invariant.
LEMMA ChannelNext == ChannelInv /\ [CollectorNext]_collectorVars => ChannelInv'
<1> SUFFICES ASSUME ChannelInv, [CollectorNext]_collectorVars PROVE ChannelInv'
  OBVIOUS
<1>i. IInv /\ TypeOK /\ FilterMirrorsPending /\ EligibleMirrorsQueue /\ LocalFilterCurrent
  BY DEF ChannelInv, IInv
<1>1. CASE [PCMNext]_pcmVars /\ UNCHANGED exporterVars /\ (UNCHANGED pcmVars \/ PCMNext)
  <2>1. IInv' /\ FilterMirrorsPending' /\ EligibleMirrorsQueue'
    BY <1>i, <1>1, IInvNext, FilterStep, EligibleStep
  <2>2. pending_notifier' = pending_notifier \/ pending_notifier'.changed
    BY <1>1, ManagerPublishes DEF pcmVars
  <2>3. UNCHANGED <<queue_task, msg_filter_rules>>
    BY <1>1 DEF exporterVars
  <2>4. LocalFilterCurrent'
    BY <1>i, <2>2, <2>3 DEF LocalFilterCurrent
  <2> QED BY <2>1, <2>4 DEF ChannelInv
<1>2. CASE (Exp!ExporterStep \/ \E p \in Peer : Exp!Export(p)) /\ UNCHANGED pcmOwnVars
  <2>1. /\ pending_notifier' \in [value : SUBSET Peer, changed : BOOLEAN]
        /\ pending_notifier'.value = pending_notifier.value /\ LocalFilterCurrent'
    BY <1>i, <1>2, ExporterReads
  <2>2. UNCHANGED <<mailbox, eligible_peers, eligible_peer_pubkeys, pending_conns,
                    target_peer_count, monitor, bucket, classic_sem, attempts, connected,
                    conn_age, disconnects, posts>>
    BY <1>2 DEF pcmOwnVars, mgrVars, limiterVars, nodeVars
  <2>3. TypeOK'
    BY <1>i, <2>1, <2>2 DEF TypeOK
  <2>4. PermitHeld' /\ FilterMirrorsPending' /\ EligibleMirrorsQueue'
    BY <1>i, <2>1, <2>2 DEF IInv, PermitHeld, FilterMirrorsPending, build_pending_filter,
                            EligibleMirrorsQueue
  <2> QED BY <2>1, <2>3, <2>4 DEF ChannelInv, IInv
<1> QED BY <1>1, <1>2, EitherSide

LEMMA ChannelInit == CollectorInit => ChannelInv
<1> SUFFICES ASSUME CollectorInit PROVE ChannelInv
  OBVIOUS
<1>1. IInv
  BY IInvInit DEF CollectorInit
<1>2. FilterMirrorsPending /\ EligibleMirrorsQueue
  BY DEF CollectorInit, PCMInit, FilterMirrorsPending, build_pending_filter,
         EligibleMirrorsQueue, Range, IsInjective
<1>3. LocalFilterCurrent
  BY DEF CollectorInit, Exp!ExporterInit, LocalFilterCurrent
<1> QED BY <1>1, <1>2, <1>3 DEF ChannelInv

\* Every reachable state of the collector satisfies the channel's invariant: what is
\* proved of the manager alone stays true when the exporter reads its channel.
THEOREM ChannelInductive == CollectorSpec => []ChannelInv
BY ChannelInit, ChannelNext, PTL DEF CollectorSpec

\* The exporter's copy of the filter differs from what is published only while the
\* biased select has an update to see, however manager and exporter interleave.
THEOREM FilterCopyCurrent == CollectorSpec => []LocalFilterCurrent
<1>1. ChannelInv => LocalFilterCurrent
  BY DEF ChannelInv
<1> QED BY <1>1, ChannelInductive, PTL
-----------------------------------------------------------------------------
(* Fresh peers are muted *)

LEMMA FreshCollector ==
    ASSUME ~Overlap, ChannelInv, FreshInv, [CollectorNext]_collectorVars
    PROVE  FreshInv'
<1>1. CASE [PCMNext]_pcmVars
  BY <1>1, FreshNext DEF ChannelInv, IInv
<1>2. CASE UNCHANGED pcmOwnVars
  BY <1>2, FreshSame DEF pcmOwnVars, mgrVars, nodeVars, ChannelInv, IInv
<1> QED BY <1>1, <1>2, EitherSide

\* A message that the queue task accepts is not from a fresh connection.
LEMMA AcceptMuted ==
    ASSUME ChannelInv, FreshInv, Exp!QueueAccept, Head(export_q).peer \in connected
    PROVE  conn_age[Head(export_q).peer] >= StartupDelay
<1> DEFINE p == Head(export_q).peer
<1>1. FreshConnectionsFiltered
  BY FreshImplies DEF ChannelInv, IInv
<1>2. msg_filter_rules = pending_notifier.value /\ p \notin msg_filter_rules
  BY DEF ChannelInv, LocalFilterCurrent, Exp!QueueAccept, Exp!QueueCanReceive
<1>3. p \in Peer /\ conn_age[p] \in Nat /\ StartupDelay \in Nat
  BY PCMAssumption DEF ChannelInv, IInv, TypeOK, Age
<1> HIDE DEF p
<1>4. ~(conn_age[p] < StartupDelay)
  BY <1>1, <1>2, p \in connected DEF FreshConnectionsFiltered, p
<1> QED BY <1>3, <1>4 DEF p

\* Without overlap, no message of a connected peer passes the filter while its
\* connection's attempt is younger than the delay: for any peers, addresses, delay and
\* limits, with the exporter working on a copy and disconnections at any time.
THEOREM FreshMuted ==
    ASSUME ~Overlap PROVE CollectorSpec => FreshPeersMuted
<1>1. CollectorInit => FreshInv
  BY DEF CollectorInit, PCMInit, FreshInv, OneAttempt, InFlight, AttemptsCovered,
         ConnectionsCovered, IdleAttempt
<1>2. ChannelInv /\ FreshInv /\ [CollectorNext]_collectorVars => FreshInv'
  BY FreshCollector
<1>3. CollectorSpec => []FreshInv
  BY <1>1, <1>2, ChannelInductive, PTL DEF CollectorSpec
<1>4. ChannelInv /\ FreshInv =>
          (Exp!QueueAccept =>
              LET p == Head(export_q).peer
              IN  p \in connected => conn_age[p] >= StartupDelay)
  BY AcceptMuted
<1> QED BY <1>3, <1>4, ChannelInductive, PTL DEF FreshPeersMuted, CollectorSpec
-----------------------------------------------------------------------------
(* The collector implements the exporter *)

\* The composed collector is a behaviour of the exporter's specification: what is proved
\* of the exporter for arbitrary filter updates holds for the manager's.
THEOREM ExporterComposed == CollectorSpec => Exp!ExpSpec
<1>1. CollectorInit => Exp!ExpInit
  BY DEF CollectorInit, PCMInit, Exp!ExpInit
<1>2. ChannelInv /\ ChannelInv' /\ [CollectorNext]_collectorVars
          => [Exp!ExpNext]_(Exp!expVars)
  <2> SUFFICES ASSUME ChannelInv', [CollectorNext]_collectorVars
               PROVE  [Exp!ExpNext]_(Exp!expVars)
    OBVIOUS
  <2>t. pending_notifier' \in [value : SUBSET Peer, changed : BOOLEAN]
    BY DEF ChannelInv, IInv, TypeOK
  <2>1. CASE UNCHANGED exporterVars /\ (UNCHANGED pcmVars \/ PCMNext)
    <3>1. UNCHANGED Exp!exporterVars
      BY <2>1 DEF exporterVars, Exp!exporterVars, Exp!queueVars, Exp!publishVars, Exp!natsVars
    <3>2. CASE pending_notifier' = pending_notifier
      BY <3>1, <3>2 DEF Exp!expVars
    <3>3. CASE pending_notifier'.changed
      <4> DEFINE rules == pending_notifier'.value
      <4>1. rules \in SUBSET Peer /\ pending_notifier' = [value |-> rules, changed |-> TRUE]
        BY <2>t, <3>3
      <4>2. Exp!FilterUpdate(rules)
        BY <3>1, <4>1 DEF Exp!FilterUpdate
      <4> QED BY <4>1, <4>2 DEF Exp!ExpNext
    <3> QED BY <2>1, <3>2, <3>3, ManagerPublishes DEF pcmVars
  <2>2. CASE Exp!ExporterStep \/ \E p \in Peer : Exp!Export(p)
    BY <2>2 DEF Exp!ExpNext
  <2> QED BY <2>1, <2>2, EitherSide
<1> QED BY <1>1, <1>2, ChannelInductive, PTL DEF CollectorSpec, Exp!ExpSpec
=============================================================================
