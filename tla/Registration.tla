---------------------------- MODULE Registration ----------------------------
(***************************************************************************)
(* Registration and heartbeats: ping_controller in every collector         *)
(* (gossip_collector/src/main.rs) and, in the controller, the collector    *)
(* manager's registry with its sweeper                                     *)
(* (observer_controller/src/collector_manager.rs), the two gRPC handlers   *)
(* and the spawned registration reply (grpc_server.rs), which calls the    *)
(* collector back. Either process may crash and be restarted, and a call   *)
(* may fail.                                                               *)
(*                                                                         *)
(* A community's peer list is 1..ListLen, its positions. Of a collector's  *)
(* heartbeats only the newest decides when it is swept, so the registry    *)
(* keeps whether that one has expired.                                     *)
(***************************************************************************)
EXTENDS Naturals

CONSTANTS
    Collector,    \* collector uuids
    Assigned,     \* the keys of collector_mapping
    ListLen,      \* peers in the list of a community
    ChunkSize,    \* chunk_size of send_eligible_peers
    TargetCount,  \* connection_count of the community
    MaxCrashes,   \* bound: crashes of either process
    MaxFaults,    \* bound: calls of collectors that fail between running processes
    MaxLost       \* bound: calls of replies that fail between running processes

ASSUME RegistrationAssumption ==
    /\ Assigned \subseteq Collector
    /\ ListLen \in Nat
    /\ ChunkSize \in Nat \ {0}
    /\ TargetCount \in Nat \ {0}
    /\ MaxCrashes \in Nat
    /\ MaxFaults \in Nat
    /\ MaxLost \in Nat

VARIABLES
    \* the collectors
    col_up,       \* is the process running
    ping,         \* ping_controller: where it is, its CollectorState, the info it read
    eligible,     \* the peers the connection manager has received
    target,       \* target_peer_count
    peer_count,   \* peers connected
    \* the controller
    ctl_up,
    call,         \* a collector's request the controller has not handled yet
    registered,   \* registered_collectors: the newest heartbeat
    expected,     \* expected_collectors
    reply,        \* the registration reply: 0 none, or the first peer of its next request;
                  \* AllSent when only the target is left
    crashes, faults,
    lost          \* calls of replies that failed

colVars == <<col_up, ping, eligible, target, peer_count>>
ctlVars == <<ctl_up, call, registered, expected, reply>>
envVars == <<crashes, faults, lost>>
regVars == <<colVars, ctlVars, envVars>>

AllSent == ListLen + 2

CollectorState == {"Running", "ReceivedPeers", "Connecting", "Active"}
Info == [eligible : BOOLEAN, connected : BOOLEAN, on_target : BOOLEAN]
Ping == [pc : {"sleep", "connect", "wait"}, state : CollectorState, info : Info]

RegTypeOK ==
    /\ col_up \in [Collector -> BOOLEAN]
    /\ ping \in [Collector -> Ping]
    /\ eligible \in [Collector -> SUBSET (1..ListLen)]
    /\ target \in [Collector -> {0, TargetCount}]
    /\ peer_count \in [Collector -> 0..TargetCount]
    /\ ctl_up \in BOOLEAN
    /\ call \in [Collector -> {"none", "register", "status"}]
    /\ registered \in [Collector -> {"vacant", "fresh", "expired"}]
    /\ expected \in SUBSET Assigned
    /\ reply \in [Collector -> 0..AllSent]
    /\ crashes \in 0..MaxCrashes
    /\ faults \in 0..MaxFaults
    /\ lost \in 0..MaxLost

NoInfo == [eligible |-> FALSE, connected |-> FALSE, on_target |-> FALSE]
NewPing == [pc |-> "sleep", state |-> "Running", info |-> NoInfo]
-----------------------------------------------------------------------------
(* ping_controller *)

SetPing(c, pc, state, info) ==
    ping' = [ping EXCEPT ![c] = [pc |-> pc, state |-> state, info |-> info]]

\* The sleep ends; the counts are read before the connection is made.
PingRead(c) ==
    /\ col_up[c] /\ ping[c].pc = "sleep"
    /\ SetPing(c, "connect", ping[c].state,
               [eligible  |-> eligible[c] # {},
                connected |-> peer_count[c] > 0,
                on_target |-> peer_count[c] >= target[c]])
    /\ UNCHANGED <<col_up, eligible, target, peer_count, ctlVars, envVars>>

\* The match on the state, for an iteration that does not register.
NextState(state, info) ==
    CASE state = "Running" -> "ReceivedPeers"
      [] state = "ReceivedPeers" /\ info.connected -> "Connecting"
      [] state = "Connecting" /\ info.on_target -> "Active"
      [] state = "Active" /\ ~info.on_target -> "Connecting"
      [] OTHER -> state

\* Mutant: only an active collector sends heartbeats.
PingSendActive(c) ==
    LET p == ping[c]
        state == IF p.info.eligible THEN NextState(p.state, p.info) ELSE p.state
    IN
    /\ col_up[c] /\ p.pc = "connect"
    /\ ctl_up
    /\ call[c] = "none" /\ reply[c] = 0
    /\ IF ~p.info.eligible \/ state = "Active"
       THEN /\ call' = [call EXCEPT ![c] = IF p.info.eligible THEN "status" ELSE "register"]
            /\ SetPing(c, "wait", state, NoInfo)
       ELSE /\ SetPing(c, "sleep", state, NoInfo)
            /\ UNCHANGED call
    /\ UNCHANGED <<col_up, eligible, target, peer_count, ctl_up, registered, expected, reply,
                   envVars>>

\* Connected: Running without peers registers; another state that finds no peers
\* falls back to Running; anything else advances the state and sends a heartbeat.
PingSend(c) ==
    LET p == ping[c] IN
    /\ col_up[c] /\ p.pc = "connect"
    /\ ctl_up
    /\ call[c] = "none" /\ reply[c] = 0
    /\ IF p.info.eligible
       THEN /\ call' = [call EXCEPT ![c] = "status"]
            /\ SetPing(c, "wait", NextState(p.state, p.info), NoInfo)
       ELSE IF p.state = "Running"
       THEN /\ call' = [call EXCEPT ![c] = "register"]
            /\ SetPing(c, "wait", "Running", NoInfo)
       ELSE /\ SetPing(c, "sleep", "Running", NoInfo)
            /\ UNCHANGED call
    /\ UNCHANGED <<col_up, eligible, target, peer_count, ctl_up, registered, expected, reply,
                   envVars>>

\* No connection to the controller, or a call that fails: logged, and tried again
\* after the next sleep. A request may have been handled, a reply goes on.
Fault ==
    \/ ~ctl_up /\ UNCHANGED faults
    \/ faults < MaxFaults /\ faults' = faults + 1

PingFails(c) ==
    /\ col_up[c] /\ ping[c].pc \in {"connect", "wait"}
    /\ Fault
    /\ SetPing(c, "sleep", ping[c].state, NoInfo)
    /\ call' = [call EXCEPT ![c] = "none"]
    /\ UNCHANGED <<col_up, eligible, target, peer_count, ctl_up, registered, expected, reply,
                   crashes, lost>>

\* The call has returned.
PingReturn(c) ==
    /\ col_up[c] /\ ping[c].pc = "wait"
    /\ ctl_up /\ call[c] = "none" /\ reply[c] = 0
    /\ SetPing(c, "sleep", ping[c].state, NoInfo)
    /\ UNCHANGED <<col_up, eligible, target, peer_count, ctlVars, envVars>>
-----------------------------------------------------------------------------
(* The controller *)

\* Mutant: a restarted collector that is still known gets no reply.
HandleCollectorInfoNew(c) ==
    /\ ctl_up /\ call[c] # "none"
    /\ call' = [call EXCEPT ![c] = "none"]
    /\ registered' = [registered EXCEPT ![c] = "fresh"]
    /\ IF registered[c] = "vacant" /\ c \in Assigned
       THEN reply' = [reply EXCEPT ![c] = 1]
       ELSE UNCHANGED reply
    /\ UNCHANGED <<colVars, ctl_up, expected, envVars>>

\* handle_collector_info, called by both handlers: the heartbeat is recorded, and
\* a new collector, or one that registers, is sent its assignment if it has one.
HandleCollectorInfo(c) ==
    /\ ctl_up /\ call[c] # "none"
    /\ call' = [call EXCEPT ![c] = "none"]
    /\ registered' = [registered EXCEPT ![c] = "fresh"]
    /\ IF (registered[c] = "vacant" \/ call[c] = "register") /\ c \in Assigned
       THEN reply' = [reply EXCEPT ![c] = 1]
       ELSE UNCHANGED reply
    /\ UNCHANGED <<colVars, ctl_up, expected, envVars>>

\* send_eligible_peers sends what it has collected after each peer whose index, from
\* 0, is a multiple of chunk_size: the first peer alone, then chunk_size at a time.
EndsChunk(i) == (i - 1) % ChunkSize = 0

\* post_eligible_peers: a request with peers, after which the reply goes on at next.
Post(c, peers, next) ==
    /\ eligible' = [eligible EXCEPT ![c] = @ \cup peers]
    /\ reply' = [reply EXCEPT ![c] = next]

\* Mutant: what is left after the last full chunk is not sent.
ReplySendEarly(c) ==
    /\ ctl_up /\ reply[c] # 0
    /\ col_up[c]
    /\ \/ /\ \E e \in reply[c]..ListLen :
                /\ EndsChunk(e) /\ \A i \in reply[c]..(e - 1) : ~EndsChunk(i)
                /\ Post(c, reply[c]..e, e + 1)
          /\ UNCHANGED target
       \/ /\ \A i \in reply[c]..ListLen : ~EndsChunk(i)
          /\ target' = [target EXCEPT ![c] = TargetCount]
          /\ reply' = [reply EXCEPT ![c] = 0]
          /\ UNCHANGED eligible
    /\ UNCHANGED <<col_up, ping, peer_count, ctl_up, call, registered, expected, envVars>>

\* Mutant: the last request reaches one peer too far.
ReplySendLate(c) ==
    /\ ctl_up /\ reply[c] # 0
    /\ col_up[c]
    /\ \/ /\ \E e \in reply[c]..ListLen :
                /\ EndsChunk(e) /\ \A i \in reply[c]..(e - 1) : ~EndsChunk(i)
                /\ Post(c, reply[c]..e, e + 1)
          /\ UNCHANGED target
       \/ /\ reply[c] <= ListLen + 1
          /\ \A i \in reply[c]..ListLen : ~EndsChunk(i)
          /\ Post(c, reply[c]..(ListLen + 1), AllSent)
          /\ UNCHANGED target
       \/ /\ reply[c] = AllSent
          /\ target' = [target EXCEPT ![c] = TargetCount]
          /\ reply' = [reply EXCEPT ![c] = 0]
          /\ UNCHANGED eligible
    /\ UNCHANGED <<col_up, ping, peer_count, ctl_up, call, registered, expected, envVars>>

\* collector_registration_reply: the peer list in requests, the last of which takes
\* what is left and may be empty, then the target.
ReplySend(c) ==
    /\ ctl_up /\ reply[c] # 0
    /\ col_up[c]
    /\ \/ /\ \E e \in reply[c]..ListLen :
                /\ EndsChunk(e) /\ \A i \in reply[c]..(e - 1) : ~EndsChunk(i)
                /\ Post(c, reply[c]..e, e + 1)
          /\ UNCHANGED target
       \/ /\ reply[c] <= ListLen + 1
          /\ \A i \in reply[c]..ListLen : ~EndsChunk(i)
          /\ Post(c, reply[c]..ListLen, AllSent)
          /\ UNCHANGED target
       \/ /\ reply[c] = AllSent
          /\ target' = [target EXCEPT ![c] = TargetCount]
          /\ reply' = [reply EXCEPT ![c] = 0]
          /\ UNCHANGED eligible
    /\ UNCHANGED <<col_up, ping, peer_count, ctl_up, call, registered, expected, envVars>>

\* A call of the reply fails: the rest is not sent, and nobody sends it later.
ReplyFails(c) ==
    /\ ctl_up /\ reply[c] # 0
    /\ \/ ~col_up[c] /\ UNCHANGED lost
       \/ lost < MaxLost /\ lost' = lost + 1
    /\ reply' = [reply EXCEPT ![c] = 0]
    /\ UNCHANGED <<colVars, ctl_up, call, registered, expected, crashes, faults>>

\* heartbeat_expiry passes without a heartbeat.
Expire(c) ==
    /\ registered[c] = "fresh"
    /\ registered' = [registered EXCEPT ![c] = "expired"]
    /\ UNCHANGED <<colVars, ctl_up, call, expected, reply, envVars>>

\* SweepHeartbeats: an inactive collector is forgotten, and is not expected any more.
SweepHeartbeats ==
    LET inactive == {c \in Collector : registered[c] = "expired"} IN
    /\ ctl_up
    /\ inactive # {}
    /\ registered' = [c \in Collector |-> IF c \in inactive THEN "vacant" ELSE registered[c]]
    /\ expected' = expected \ inactive
    /\ UNCHANGED <<colVars, ctl_up, call, reply, envVars>>
-----------------------------------------------------------------------------
(* The environment *)

\* The connection manager connects and loses peers.
PeerCountChanges(c) ==
    /\ col_up[c] /\ eligible[c] # {}
    /\ \E n \in 0..target[c] : peer_count' = [peer_count EXCEPT ![c] = n]
    /\ UNCHANGED <<col_up, ping, eligible, target, ctlVars, envVars>>

CollectorCrash(c) ==
    /\ col_up[c]
    /\ crashes < MaxCrashes
    /\ crashes' = crashes + 1
    /\ col_up' = [col_up EXCEPT ![c] = FALSE]
    /\ ping' = [ping EXCEPT ![c] = NewPing]
    /\ eligible' = [eligible EXCEPT ![c] = {}]
    /\ target' = [target EXCEPT ![c] = 0]
    /\ peer_count' = [peer_count EXCEPT ![c] = 0]
    /\ UNCHANGED <<ctlVars, faults, lost>>

\* systemd restarts the collector; what the controller was doing for the old
\* process has failed by then.
CollectorRestart(c) ==
    /\ ~col_up[c]
    /\ call[c] = "none" /\ reply[c] = 0
    /\ col_up' = [col_up EXCEPT ![c] = TRUE]
    /\ UNCHANGED <<ping, eligible, target, peer_count, ctlVars, envVars>>

\* The registry is in memory only; replies under way end.
ControllerCrash ==
    /\ ctl_up
    /\ crashes < MaxCrashes
    /\ crashes' = crashes + 1
    /\ ctl_up' = FALSE
    /\ call' = [c \in Collector |-> "none"]
    /\ registered' = [c \in Collector |-> "vacant"]
    /\ expected' = Assigned
    /\ reply' = [c \in Collector |-> 0]
    /\ UNCHANGED <<colVars, faults, lost>>

\* A call of the old process has failed when the new one listens.
ControllerRestart ==
    /\ ~ctl_up
    /\ \A c \in Collector : ping[c].pc # "wait"
    /\ ctl_up' = TRUE
    /\ UNCHANGED <<colVars, call, registered, expected, reply, envVars>>
-----------------------------------------------------------------------------
RegInit ==
    /\ col_up = [c \in Collector |-> TRUE]
    /\ ping = [c \in Collector |-> NewPing]
    /\ eligible = [c \in Collector |-> {}]
    /\ target = [c \in Collector |-> 0]
    /\ peer_count = [c \in Collector |-> 0]
    /\ ctl_up = TRUE
    /\ call = [c \in Collector |-> "none"]
    /\ registered = [c \in Collector |-> "vacant"]
    /\ expected = Assigned
    /\ reply = [c \in Collector |-> 0]
    /\ crashes = 0 /\ faults = 0 /\ lost = 0

PingStep(c) == PingRead(c) \/ PingSend(c) \/ PingFails(c) \/ PingReturn(c)

ControllerStep(c) == HandleCollectorInfo(c) \/ ReplySend(c) \/ ReplyFails(c)

RegNext ==
    \/ \E c \in Collector :
        \/ PingStep(c) \/ ControllerStep(c)
        \/ Expire(c) \/ PeerCountChanges(c) \/ CollectorCrash(c) \/ CollectorRestart(c)
    \/ SweepHeartbeats
    \/ ControllerCrash \/ ControllerRestart

RegSpec == RegInit /\ [][RegNext]_regVars

\* The tasks of both processes run and systemd restarts what crashed.
RegFairness ==
    /\ \A c \in Collector : /\ WF_regVars(PingStep(c))
                            /\ WF_regVars(ControllerStep(c))
                            /\ WF_regVars(CollectorRestart(c))
    /\ WF_regVars(ControllerRestart)

RegFairSpec == RegSpec /\ RegFairness
-----------------------------------------------------------------------------
(* Properties *)

\* "Send the eligible peers, then set the target peer count": a collector that has
\* a target has its whole peer list, through crashes of either side, failed calls
\* and repeated replies.
TargetAfterPeers ==
    \A c \in Collector : target[c] # 0 => eligible[c] = 1..ListLen

Complete(c) == eligible[c] = 1..ListLen /\ target[c] = TargetCount

\* Whichever process crashes when, and whichever call of a collector fails, in the
\* end every assigned collector has its peer list and its target: by registering
\* again or by the reply to a heartbeat. (Except where a call of a reply failed
\* between two running processes: see SomeRegistrationWorked.)
RegistrationCompletes ==
    \A c \in Assigned : <>[](Complete(c) \/ lost > 0)

\* "If we have any peers, then some previous registration worked": a collector that
\* stops registering because it has peers gets the rest of its assignment.
SomeRegistrationWorked ==
    \A c \in Assigned : eligible[c] # {} ~> Complete(c)

\* A collector never falls silent: it is heard again and again, so the controller
\* lists it as online after a sweep or a restart of its own.
HeartbeatsResume ==
    \A c \in Collector : []<>(registered[c] = "fresh")
=============================================================================
