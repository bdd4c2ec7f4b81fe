------------------------ MODULE Registration_proofs -------------------------
(***************************************************************************)
(* Registration for any number of collectors, crashes and failures, any    *)
(* peer list and any chunk size: type correctness, and no target before    *)
(* the whole peer list; and the controller's status call beside it.        *)
(***************************************************************************)
EXTENDS ControllerStatus, TLAPS

USE RegistrationAssumption DEF AllSent

\* What a reply to a running collector has sent, the collector has. A collector that
\* is down has nothing, and is not restarted before its reply has failed.
Sent ==
    \A c \in Collector : col_up[c] =>
        \A i \in 1..ListLen : i < reply[c] => i \in eligible[c]

RegIInv == RegTypeOK /\ TargetAfterPeers /\ Sent
-----------------------------------------------------------------------------
(* Type correctness *)

\* What the ping task holds, and what its steps make of it.
LEMMA PingMake ==
    ASSUME RegTypeOK, NEW c \in Collector
    PROVE  /\ ping[c].state \in CollectorState
           /\ ping[c].info \in Info
           /\ NoInfo \in Info /\ "Running" \in CollectorState
           /\ \A pc \in {"sleep", "connect", "wait"}, s \in CollectorState, i \in Info :
                SetPing(c, pc, s, i) => ping' \in [Collector -> Ping]
           /\ [ping EXCEPT ![c] = NewPing] \in [Collector -> Ping]
<1>1. ping \in [Collector -> Ping] /\ NoInfo \in Info /\ "Running" \in CollectorState
  BY DEF RegTypeOK, NoInfo, Info, CollectorState
<1>2. ASSUME NEW pc \in {"sleep", "connect", "wait"}, NEW s \in CollectorState, NEW i \in Info
      PROVE  [pc |-> pc, state |-> s, info |-> i] \in Ping
  BY DEF Ping
<1>3. NewPing \in Ping
  BY <1>1, <1>2 DEF NewPing
<1>4. ping[c] \in Ping
  BY <1>1
<1>5. ping[c].state \in CollectorState /\ ping[c].info \in Info
  BY <1>4 DEF Ping
<1>6. \A pc \in {"sleep", "connect", "wait"}, s \in CollectorState, i \in Info :
         SetPing(c, pc, s, i) => ping' \in [Collector -> Ping]
  BY <1>1, <1>2 DEF SetPing
<1> QED BY <1>1, <1>3, <1>5, <1>6

\* The match of ping_controller yields a state.
LEMMA NextStateType ==
    \A s \in CollectorState, i \in Info : NextState(s, i) \in CollectorState
BY DEF NextState, CollectorState

\* The initial state satisfies the invariant.
LEMMA RegIInvInit == RegInit => RegIInv
BY DEF RegInit, RegIInv, RegTypeOK, TargetAfterPeers, Sent, Ping, NewPing, NoInfo, Info,
       CollectorState

\* The ping task keeps the invariant.
LEMMA RegIInvPing == ASSUME RegIInv, NEW c \in Collector, PingStep(c) PROVE RegIInv'
<1> USE DEF RegIInv
<1>1. CASE PingRead(c)
  <2>1. [eligible |-> eligible[c] # {}, connected |-> peer_count[c] > 0,
         on_target |-> peer_count[c] >= target[c]] \in Info
    BY DEF Info
  <2>2. ping' \in [Collector -> Ping]
    BY <1>1, <2>1, PingMake DEF PingRead
  <2> QED BY <1>1, <2>2 DEF PingRead, RegTypeOK, TargetAfterPeers, Sent, ctlVars, envVars
<1>2. CASE PingSend(c)
  <2>1. ping' \in [Collector -> Ping]
    BY <1>2, PingMake, NextStateType DEF PingSend
  <2>2. call' \in [Collector -> {"none", "register", "status"}]
    BY <1>2 DEF PingSend, RegTypeOK
  <2> QED BY <1>2, <2>1, <2>2 DEF PingSend, RegTypeOK, TargetAfterPeers, Sent, envVars
<1>3. CASE PingFails(c)
  <2>1. ping' \in [Collector -> Ping]
    BY <1>3, PingMake DEF PingFails
  <2>2. faults' \in 0..MaxFaults
    BY <1>3 DEF PingFails, Fault, RegTypeOK
  <2> QED BY <1>3, <2>1, <2>2 DEF PingFails, RegTypeOK, TargetAfterPeers, Sent
<1>4. CASE PingReturn(c)
  <2>1. ping' \in [Collector -> Ping]
    BY <1>4, PingMake DEF PingReturn
  <2> QED BY <1>4, <2>1 DEF PingReturn, RegTypeOK, TargetAfterPeers, Sent, ctlVars, envVars
<1> QED BY <1>1, <1>2, <1>3, <1>4 DEF PingStep

\* A request that takes a reply from peer reply[c] to peer e keeps the invariant, when
\* the reply goes on behind e, or e is the last peer.
LEMMA PostKeeps ==
    ASSUME RegIInv, NEW c \in Collector, NEW e \in 0..ListLen, NEW next \in 0..AllSent,
           next <= e + 1 \/ e = ListLen,
           reply[c] # 0,
           Post(c, reply[c]..e, next),
           UNCHANGED <<col_up, ping, target, peer_count, ctl_up, call, registered, expected,
                       envVars>>
    PROVE  RegIInv'
<1> USE DEF RegIInv
<1>1. reply[c] \in 1..AllSent /\ reply[c]..e \subseteq 1..ListLen
  BY DEF RegTypeOK
<1>2. /\ eligible' = [eligible EXCEPT ![c] = eligible[c] \cup (reply[c]..e)]
      /\ reply' = [reply EXCEPT ![c] = next]
  BY DEF Post
<1>3. eligible' \in [Collector -> SUBSET (1..ListLen)] /\ reply' \in [Collector -> 0..AllSent]
  BY <1>1, <1>2 DEF RegTypeOK
<1>4. RegTypeOK'
  BY <1>3 DEF RegTypeOK, envVars
<1>5. TargetAfterPeers'
  <2> SUFFICES ASSUME NEW d \in Collector, target[d] # 0 PROVE eligible'[d] = 1..ListLen
    BY DEF TargetAfterPeers
  <2>1. eligible[d] = 1..ListLen
    BY DEF TargetAfterPeers
  <2>2. eligible'[d] = eligible[d] \/ eligible'[d] = eligible[d] \cup (reply[c]..e)
    BY <1>2 DEF RegTypeOK
  <2> QED BY <1>1, <2>1, <2>2
<1>6. Sent'
  <2> SUFFICES ASSUME NEW d \in Collector, col_up[d], NEW i \in 1..ListLen, i < reply'[d]
               PROVE  i \in eligible'[d]
    BY DEF Sent
  <2>1. CASE d # c
    BY <1>2, <2>1 DEF RegTypeOK, Sent
  <2>2. CASE d = c
    <3>1. reply'[c] = next /\ eligible'[c] = eligible[c] \cup (reply[c]..e)
      BY <1>2 DEF RegTypeOK
    <3>2. i <= e
      BY <2>2, <3>1
    <3>3. CASE i < reply[c]
      BY <2>2, <3>1, <3>3 DEF Sent
    <3>4. CASE i >= reply[c]
      BY <1>1, <2>2, <3>1, <3>2, <3>4
    <3> QED BY <1>1, <3>3, <3>4
  <2> QED BY <2>1, <2>2
<1> QED BY <1>4, <1>5, <1>6

\* The controller's handlers and the reply keep the invariant.
LEMMA RegIInvController ==
    ASSUME RegIInv, NEW c \in Collector, ControllerStep(c) PROVE RegIInv'
<1> USE DEF RegIInv
<1>1. CASE HandleCollectorInfo(c)
  <2>1. reply' \in [Collector -> 0..AllSent]
    BY <1>1 DEF HandleCollectorInfo, RegTypeOK
  <2>2. Sent'
    BY <1>1 DEF HandleCollectorInfo, RegTypeOK, Sent, colVars
  <2> QED BY <1>1, <2>1, <2>2
          DEF HandleCollectorInfo, RegTypeOK, TargetAfterPeers, colVars, envVars
<1>2. CASE ReplySend(c)
  <2>1. ASSUME NEW e \in reply[c]..ListLen, Post(c, reply[c]..e, e + 1), UNCHANGED target
        PROVE  RegIInv'
    <3>1. reply[c] \in 1..ListLen /\ e \in 1..ListLen /\ e + 1 \in 0..AllSent
      BY <1>2, <2>1 DEF ReplySend, RegTypeOK
    <3> QED BY <1>2, <2>1, <3>1, PostKeeps DEF ReplySend
  <2>2. ASSUME reply[c] <= ListLen + 1, Post(c, reply[c]..ListLen, AllSent), UNCHANGED target
        PROVE  RegIInv'
    <3>1. reply[c] \in 1..(ListLen + 1) /\ ListLen \in 0..ListLen /\ AllSent \in 0..AllSent
      BY <1>2, <2>2 DEF ReplySend, RegTypeOK
    <3> QED BY <1>2, <2>2, <3>1, PostKeeps DEF ReplySend
  <2>3. ASSUME reply[c] = AllSent,
               target' = [target EXCEPT ![c] = TargetCount],
               reply' = [reply EXCEPT ![c] = 0],
               UNCHANGED eligible
        PROVE  RegIInv'
    <3>1. eligible[c] = 1..ListLen
      <4>1. 1..ListLen \subseteq eligible[c]
        BY <1>2, <2>3 DEF ReplySend, Sent
      <4>2. eligible[c] \subseteq 1..ListLen
        BY DEF RegTypeOK
      <4> QED BY <4>1, <4>2
    <3>2. TargetAfterPeers'
      BY <2>3, <3>1 DEF RegTypeOK, TargetAfterPeers
    <3>3. Sent'
      BY <1>2, <2>3 DEF ReplySend, RegTypeOK, Sent
    <3>4. RegTypeOK'
      BY <1>2, <2>3 DEF ReplySend, RegTypeOK, envVars
    <3> QED BY <3>2, <3>3, <3>4
  <2> QED BY <1>2, <2>1, <2>2, <2>3 DEF ReplySend
<1>3. CASE ReplyFails(c)
  <2>1. /\ reply' \in [Collector -> 0..AllSent]
        /\ lost' \in 0..MaxLost
    BY <1>3 DEF ReplyFails, RegTypeOK
  <2>2. Sent'
    BY <1>3 DEF ReplyFails, RegTypeOK, Sent, colVars
  <2> QED BY <1>3, <2>1, <2>2 DEF ReplyFails, RegTypeOK, TargetAfterPeers, colVars
<1> QED BY <1>1, <1>2, <1>3 DEF ControllerStep

\* The sweeper, the peers and the restarts keep the invariant.
LEMMA RegIInvEnvironment ==
    ASSUME RegIInv,
           \/ \E c \in Collector : \/ Expire(c) \/ PeerCountChanges(c)
                                   \/ CollectorCrash(c) \/ CollectorRestart(c)
           \/ SweepHeartbeats \/ ControllerCrash \/ ControllerRestart
    PROVE  RegIInv'
<1> USE DEF RegIInv
<1>1. ASSUME NEW c \in Collector, Expire(c) PROVE RegIInv'
  BY <1>1 DEF Expire, RegTypeOK, TargetAfterPeers, Sent, colVars, envVars
<1>2. ASSUME NEW c \in Collector, PeerCountChanges(c) PROVE RegIInv'
  <2>1. peer_count' \in [Collector -> 0..TargetCount]
    BY <1>2 DEF PeerCountChanges, RegTypeOK
  <2> QED BY <1>2, <2>1
          DEF PeerCountChanges, RegTypeOK, TargetAfterPeers, Sent, ctlVars, envVars
<1>3. ASSUME NEW c \in Collector, CollectorCrash(c) PROVE RegIInv'
  <2>1. ping' \in [Collector -> Ping]
    BY <1>3, PingMake DEF CollectorCrash
  <2>2. RegTypeOK'
    BY <1>3, <2>1 DEF CollectorCrash, RegTypeOK, ctlVars
  <2>3. TargetAfterPeers' /\ Sent'
    BY <1>3 DEF CollectorCrash, RegTypeOK, TargetAfterPeers, Sent, ctlVars
  <2> QED BY <2>2, <2>3
<1>4. ASSUME NEW c \in Collector, CollectorRestart(c) PROVE RegIInv'
  <2>1. Sent'
    BY <1>4 DEF CollectorRestart, RegTypeOK, Sent, ctlVars
  <2> QED BY <1>4, <2>1
          DEF CollectorRestart, RegTypeOK, TargetAfterPeers, ctlVars, envVars
<1>5. CASE SweepHeartbeats
  BY <1>5 DEF SweepHeartbeats, RegTypeOK, TargetAfterPeers, Sent, colVars, envVars
<1>6. CASE ControllerCrash
  <2>1. Sent'
    BY <1>6 DEF ControllerCrash, RegTypeOK, Sent, colVars
  <2>2. /\ call' \in [Collector -> {"none", "register", "status"}]
        /\ registered' \in [Collector -> {"vacant", "fresh", "expired"}]
        /\ reply' \in [Collector -> 0..AllSent]
        /\ crashes' \in 0..MaxCrashes
    BY <1>6 DEF ControllerCrash, RegTypeOK
  <2>3. RegTypeOK'
    BY <1>6, <2>2 DEF ControllerCrash, RegTypeOK, colVars
  <2>4. TargetAfterPeers'
    BY <1>6 DEF ControllerCrash, TargetAfterPeers, colVars
  <2> QED BY <2>1, <2>3, <2>4
<1>7. CASE ControllerRestart
  BY <1>7 DEF ControllerRestart, RegTypeOK, TargetAfterPeers, Sent, colVars, envVars
<1> QED BY <1>1, <1>2, <1>3, <1>4, <1>5, <1>6, <1>7

\* Every step, and a stuttering step, keeps the invariant.
LEMMA RegIInvNext == RegIInv /\ [RegNext]_regVars => RegIInv'
<1> SUFFICES ASSUME RegIInv, [RegNext]_regVars PROVE RegIInv'
  OBVIOUS
<1>1. CASE UNCHANGED regVars
  BY <1>1 DEF regVars, colVars, ctlVars, envVars, RegIInv, RegTypeOK, TargetAfterPeers, Sent
<1>2. CASE RegNext
  BY <1>2, RegIInvPing, RegIInvController, RegIInvEnvironment DEF RegNext
<1> QED BY <1>1, <1>2
-----------------------------------------------------------------------------
\* The registry, the calls and the replies stay within their types.
THEOREM RegTypeCorrect == RegSpec => []RegTypeOK
<1>1. RegIInv => RegTypeOK
  BY DEF RegIInv
<1> QED BY <1>1, RegIInvInit, RegIInvNext, PTL DEF RegSpec

\* A collector with a target has its whole peer list, in every reachable state: any
\* number of collectors, of peers, of crashes on either side and of failed calls.
THEOREM TargetLast == RegSpec => []TargetAfterPeers
<1>1. RegIInv => TargetAfterPeers
  BY DEF RegIInv
<1> QED BY <1>1, RegIInvInit, RegIInvNext, PTL DEF RegSpec
-----------------------------------------------------------------------------
(* The status call *)

\* What is not expected any more was swept, and nothing else; a controller that is
\* down has swept nothing.
SweptUnexpected == expected = Assigned \ swept /\ (ctl_up \/ swept = {})

StaIInv == RegTypeOK /\ Sent /\ TargetAfterPeers /\ SweptUnexpected

\* The registry vacates an expired entry only by a sweep, which forgets the collector,
\* or by a crash of the controller.
LEMMA OnlySweepsVacate ==
    ASSUME RegTypeOK, RegNext
    PROVE  \/ ctl_up' = FALSE /\ expected' = (IF ctl_up THEN Assigned ELSE expected)
           \/ /\ ctl_up' = TRUE
              /\ expected' = expected \ {c \in Assigned : registered[c] = "expired"
                                                       /\ registered'[c] = "vacant"}
<1> DEFINE gone == {c \in Assigned : registered[c] = "expired" /\ registered'[c] = "vacant"}
<1>t. registered \in [Collector -> {"vacant", "fresh", "expired"}] /\ ctl_up \in BOOLEAN
      /\ expected \in SUBSET Assigned
  BY DEF RegTypeOK
<1>1. ASSUME UNCHANGED <<ctl_up, expected>>, gone = {}
      PROVE  \/ ctl_up' = FALSE /\ expected' = (IF ctl_up THEN Assigned ELSE expected)
             \/ ctl_up' = TRUE /\ expected' = expected \ gone
  BY <1>t, <1>1
<1>2. ASSUME NEW c \in Collector,
             \/ PingStep(c) \/ PeerCountChanges(c) \/ CollectorCrash(c) \/ CollectorRestart(c)
             \/ ReplySend(c) \/ ReplyFails(c)
      PROVE  UNCHANGED <<ctl_up, expected, registered>>
  BY <1>2 DEF PingStep, PingRead, PingSend, PingFails, PingReturn, PeerCountChanges,
              CollectorCrash, CollectorRestart, ReplySend, ReplyFails, ctlVars
<1>3. ASSUME UNCHANGED registered PROVE gone = {}
  BY <1>3
<1>4. ASSUME NEW c \in Collector, HandleCollectorInfo(c) \/ Expire(c)
      PROVE  UNCHANGED <<ctl_up, expected>> /\ gone = {}
  <2>1. \A d \in Collector : registered'[d] \in {registered[d], "fresh", "expired"}
    BY <1>t, <1>4 DEF HandleCollectorInfo, Expire
  <2> QED BY <1>4, <2>1 DEF HandleCollectorInfo, Expire
<1>5. CASE SweepHeartbeats
  <2>1. gone = {c \in Assigned : registered[c] = "expired"}
    BY <1>5 DEF SweepHeartbeats
  <2>2. expected' = expected \ {c \in Collector : registered[c] = "expired"} /\ ctl_up' = TRUE
    BY <1>5, <1>t DEF SweepHeartbeats
  <2>3. expected' = expected \ gone
    BY <1>t, <2>1, <2>2
  <2> QED BY <2>2, <2>3
<1>6. CASE ControllerCrash
  BY <1>6 DEF ControllerCrash
<1>7. CASE ControllerRestart
  <2>1. ctl_up' = TRUE /\ UNCHANGED <<registered, expected>>
    BY <1>7 DEF ControllerRestart
  <2> QED BY <1>3, <1>t, <2>1
<1> HIDE DEF gone
<1>8. \/ ctl_up' = FALSE /\ expected' = (IF ctl_up THEN Assigned ELSE expected)
      \/ ctl_up' = TRUE /\ expected' = expected \ gone
  BY <1>1, <1>2, <1>3, <1>4, <1>5, <1>6, <1>7 DEF RegNext, ControllerStep, gone
<1> QED BY <1>8 DEF gone

\* Every step of registration and status keeps the invariant.
LEMMA StaIInvNext == StaIInv /\ [StaNext]_staVars => StaIInv'
<1> SUFFICES ASSUME StaIInv, [StaNext]_staVars PROVE StaIInv'
  OBVIOUS
<1>1. CASE RegStep
  <2>1. RegNext
    BY <1>1 DEF RegStep
  <2>2. RegTypeOK' /\ Sent' /\ TargetAfterPeers'
    BY <2>1, RegIInvNext DEF StaIInv, RegIInv
  <2>3. SweptUnexpected'
    BY <1>1, <2>1, OnlySweepsVacate DEF StaIInv, SweptUnexpected, RegStep
  <2> QED BY <2>2, <2>3 DEF StaIInv
<1>2. CASE StatusCall \/ StatusAnswer \/ UNCHANGED staVars
  <2>1. UNCHANGED regVars /\ UNCHANGED swept
    BY <1>2 DEF StatusCall, StatusAnswer, staVars
  <2>2. RegTypeOK' /\ Sent' /\ TargetAfterPeers'
    BY <2>1, RegIInvNext DEF StaIInv, RegIInv
  <2>3. SweptUnexpected'
    BY <2>1 DEF StaIInv, SweptUnexpected, regVars, ctlVars
  <2> QED BY <2>2, <2>3 DEF StaIInv
<1> QED BY <1>1, <1>2 DEF StaNext

\* The status answer accounts for every assigned collector that was not swept, whatever
\* the registry does between its two reads.
THEOREM StatusComplete == StaFairSpec => StatusAccountsForAll
<1>1. StaInit => StaIInv
  BY RegIInvInit DEF StaInit, StaIInv, RegIInv, SweptUnexpected, RegInit
<1>2. StaIInv => (StatusAnswer => Offline = Assigned \ (online \cup swept))
  BY DEF StaIInv, SweptUnexpected, Offline
<1> QED BY <1>1, <1>2, StaIInvNext, PTL DEF StaFairSpec, StatusAccountsForAll
=============================================================================
