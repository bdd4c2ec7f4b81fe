----------------------------- MODULE Collector ------------------------------
(***************************************************************************)
(* The collector's data path: the peer connection manager and the NATS     *)
(* exporter together, joined by the watch channel that carries the export  *)
(* filter and by the LDK node, which gossips only with connected peers.    *)
(* The exporter's filter updates, arbitrary in Exporter, are the manager's *)
(* here. Once the token is cancelled the manager's actor and tasks are     *)
(* torn down and only the exporter's shutdown is followed.                 *)
(***************************************************************************)
EXTENDS PeerConnManager

CONSTANTS BatchSize, MaxMsgs

VARIABLES received, filtered, export_q, queue_task, msg_filter_rules, held, nats_chan,
          publish_task, msg_batch, in_flight, stream, stop_signal

Exp == INSTANCE Exporter

exporterVars == <<received, filtered, export_q, queue_task, msg_filter_rules, held,
                  nats_chan, publish_task, msg_batch, in_flight, stream, stop_signal>>

collectorVars == <<pcmVars, exporterVars>>

\* The manager's variables other than the watch channel, which both sides use.
pcmOwnVars == <<mailbox, mgrVars, target_peer_count, monitor, limiterVars, attempts,
                nodeVars, posts>>

CollectorInit == PCMInit /\ Exp!ExporterInit

\* LDK hands a gossip message of a connected peer to the exporter.
Gossip(p) ==
    /\ p \in connected
    /\ Exp!Export(p)
    /\ UNCHANGED pcmOwnVars

ManagerStep ==
    /\ ~stop_signal
    /\ PCMNext
    /\ UNCHANGED exporterVars

ExporterStep ==
    /\ Exp!ExporterStep
    /\ UNCHANGED pcmOwnVars

CollectorNext ==
    \/ \E p \in Peer : Gossip(p)
    \/ ManagerStep
    \/ ExporterStep

CollectorSpec == CollectorInit /\ [][CollectorNext]_collectorVars
-----------------------------------------------------------------------------
(* Properties *)

\* pending_connection_delay is the time "between our node connecting to a peer,
\* and exporting gossip messages from that peer": queue_exported_msg never lets
\* a message of a connected peer pass while that connection's attempt is younger
\* than the delay, although it works on a local copy of the filter, although
\* nothing makes it look at the channel within the 250 ms of try_add_peer, and
\* although peers disconnect and are attempted again.
FreshPeersMuted ==
    [][ Exp!QueueAccept =>
            LET p == Head(export_q).peer
            IN  p \in connected => conn_age[p] >= StartupDelay ]_collectorVars

\* The local copy of the filter is never older than the last update the biased
\* select has not seen yet.
LocalFilterCurrent ==
    (queue_task \in {"recv", "reserve"} /\ ~pending_notifier.changed)
        => msg_filter_rules = pending_notifier.value
=============================================================================
