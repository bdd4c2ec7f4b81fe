---------------------- MODULE PeerConnManager_proofs ----------------------
(***************************************************************************)
(* Theorems about PeerConnManager, for any set of peers, addresses,        *)
(* attempts and any limits.                                                *)
(***************************************************************************)
EXTENDS PeerConnManager, SequenceTheorems, WellFoundedInduction, TLAPS

\* The monitor holds one permit of the classic semaphore from acquire() to the end
\* of its iteration, and no other task holds one.
PermitHeld ==
    classic_sem = IF monitor.pc \in {"peek", "recheck"} THEN TotalAttempts - 1
                  ELSE TotalAttempts

\* The type invariant is inductive with it: the permit dropped at the end of an
\* iteration is one that was taken.
IInv == TypeOK /\ PermitHeld
-----------------------------------------------------------------------------
(* Messages *)

\* Appending messages to the mailbox keeps its type.
LEMMA SendType ==
    ASSUME NEW msgs \in Seq(ConnManagerMsg), mailbox \in Seq(ConnManagerMsg), Send(msgs)
    PROVE  mailbox' \in Seq(ConnManagerMsg)
BY DEF Send

\* Receiving takes a message of the named type off the mailbox.
LEMMA ReceivesType ==
    ASSUME NEW type, mailbox \in Seq(ConnManagerMsg), Receives(type)
    PROVE  /\ mailbox' \in Seq(ConnManagerMsg)
           /\ Head(mailbox) \in ConnManagerMsg
           /\ Head(mailbox).type = type
BY DEF Receives

\* What a message of each type carries.
LEMMA MsgFields ==
    ASSUME NEW msg \in ConnManagerMsg
    PROVE  /\ msg.type = "AddPendingConn" => msg.peer \in Specifier /\ msg.age \in Age
           /\ msg.type = "RemovePendingConn" => msg.peer \in Specifier
           /\ msg.type = "AddEligiblePeer" => msg.peer \in Peer
BY DEF ConnManagerMsg

\* Each constructor of a message yields a message.
LEMMA MsgMake ==
    /\ \A s \in Specifier, n \in Age :
            [type |-> "AddPendingConn", peer |-> s, age |-> n] \in ConnManagerMsg
    /\ \A s \in Specifier : [type |-> "RemovePendingConn", peer |-> s] \in ConnManagerMsg
    /\ \A p \in Peer : [type |-> "AddEligiblePeer", peer |-> p] \in ConnManagerMsg
    /\ [type |-> "SweepPendingConnections"] \in ConnManagerMsg
    /\ [type |-> "PeekEligiblePeer"] \in ConnManagerMsg
    /\ [type |-> "RotateEligiblePeers"] \in ConnManagerMsg
BY DEF ConnManagerMsg

\* A running attempt has a peer to connect to.
LEMMA AttemptFields ==
    ASSUME NEW t \in Attempt, t.pc # "idle"
    PROVE  t.peer \in Peer /\ t.spec \in Nat /\ t.age \in Age
BY DEF Attempt

\* What the tasks' steps make of an attempt is one.
LEMMA AttemptMake ==
    /\ IdleAttempt \in Attempt
    /\ \A p \in Peer : [pc |-> "spawned", peer |-> p, spec |-> 0, age |-> 0] \in Attempt
    /\ \A t \in Attempt : t.pc # "idle" =>
          /\ [t EXCEPT !.pc = "sleep"] \in Attempt
          /\ \A n \in Nat : [t EXCEPT !.spec = n] \in Attempt
          /\ \A n \in Nat : [t EXCEPT !.pc = "connect", !.spec = n] \in Attempt
          /\ \A n \in Age : [t EXCEPT !.age = n] \in Attempt
<1>1. IdleAttempt \in Attempt
  BY DEF Attempt, IdleAttempt
<1>2. ASSUME NEW p \in Peer
      PROVE  [pc |-> "spawned", peer |-> p, spec |-> 0, age |-> 0] \in Attempt
  BY PCMAssumption DEF Attempt, Age
<1>3. ASSUME NEW t \in Attempt, t.pc # "idle"
      PROVE  /\ [t EXCEPT !.pc = "sleep"] \in Attempt
             /\ \A n \in Nat : [t EXCEPT !.spec = n] \in Attempt
             /\ \A n \in Nat : [t EXCEPT !.pc = "connect", !.spec = n] \in Attempt
             /\ \A n \in Age : [t EXCEPT !.age = n] \in Attempt
  <2>1. t \in [pc : {"spawned", "sleep", "connect"}, peer : Peer, spec : Nat, age : Age]
    BY <1>3 DEF Attempt
  <2> QED BY <2>1 DEF Attempt
<1> QED BY <1>1, <1>2, <1>3

\* Time keeps an age in its range.
LEMMA OlderType == \A n \in Age : Older(n) \in Age
BY PCMAssumption DEF Age, Older

\* Induction over the natural numbers, with a set in place of a predicate.
LEMMA NatSetInduction ==
    ASSUME NEW P, 0 \in P, \A n \in Nat : n \in P => n + 1 \in P
    PROVE  Nat \subseteq P
<1> SUFFICES ASSUME NEW m \in Nat, m \notin P
             PROVE  FALSE
  OBVIOUS
<1> DEFINE T == Nat \ P
           R == OpToRel(<, Nat)
<1>1. T \subseteq Nat /\ T # {}
  OBVIOUS
<1>2. IsWellFoundedOn(R, Nat)
  BY NatLessThanWellFounded
<1>3. PICK x \in T : \A y \in T : ~(<<y, x>> \in R)
  <2> HIDE DEF R, T
  <2> QED
    BY <1>1, <1>2, WFMin
<1>4. \A y \in T : ~(y < x)
  BY <1>3 DEF OpToRel
<1>5. x # 0
  OBVIOUS
<1>6. x - 1 \in Nat /\ x - 1 < x /\ x = (x - 1) + 1
  BY <1>5
<1>7. x - 1 \in P
  BY <1>4, <1>6
<1>8. x \in P
  BY <1>6, <1>7
<1> QED
  BY <1>8

\* One round of the loop of Among.
Keep(acc, x, S) == IF x \in S THEN Append(acc, x) ELSE acc

\* The states f[0], f[1], ... that Among goes through.
LEMMA AmongLoop ==
    ASSUME NEW T, NEW s \in Seq(T), NEW S
    PROVE  \E f : /\ f[0] = << >>
                  /\ \A i \in 1..Len(s) : f[i] = Keep(f[i - 1], s[i], S)
                  /\ Among(s, S) = f[Len(s)]
<1> DEFINE Body(g, i) == Keep(g[i - 1], s[i], S)
           Run(n, g) == g = [i \in 0..n |-> IF i = 0 THEN << >> ELSE Body(g, i)]
           P == {n \in Nat : \E g : Run(n, g)}
<1>1. 0 \in P
  <2> DEFINE g == [i \in 0..0 |-> << >>]
  <2>1. Run(0, g)
    OBVIOUS
  <2> QED
    BY <2>1
<1>2. ASSUME NEW n \in Nat, n \in P
      PROVE  n + 1 \in P
  <2>1. PICK g : Run(n, g)
    BY <1>2
  <2> DEFINE h == [i \in 0..(n + 1) |-> IF i = n + 1 THEN Body(g, n + 1) ELSE g[i]]
  <2>2. Run(n + 1, h)
    <3> SUFFICES ASSUME NEW i \in 0..(n + 1)
                 PROVE  h[i] = IF i = 0 THEN << >> ELSE Body(h, i)
      OBVIOUS
    <3>1. CASE i = 0
      BY <2>1, <3>1
    <3>2. CASE i \in 1..n
      <4>1. h[i] = g[i] /\ h[i - 1] = g[i - 1] /\ g[i] = Body(g, i)
        BY <2>1, <3>2
      <4> QED
        BY <3>2, <4>1
    <3>3. CASE i = n + 1
      <4>1. i - 1 = n /\ (n + 1) - 1 = n /\ i # 0 /\ n # n + 1 /\ n \in 0..(n + 1)
        BY <3>3
      <4>2. h[n] = g[n]
        BY <4>1
      <4>3. h[i] = Body(g, n + 1)
        BY <3>3
      <4> HIDE DEF h
      <4> QED
        BY <3>3, <4>1, <4>2, <4>3
    <3> QED
      BY <3>1, <3>2, <3>3
  <2> HIDE DEF h, Run
  <2> QED
    BY <2>2
<1>3. \E g : Run(Len(s), g)
  <2>1. Nat \subseteq P
    <3> HIDE DEF P
    <3> QED
      BY <1>1, <1>2, NatSetInduction
  <2> QED
    BY <2>1
<1> DEFINE f == CHOOSE g : Run(Len(s), g)
<1>4. Among(s, S) = f[Len(s)]
  BY DEF Among, Keep
<1>5. Run(Len(s), f)
  <2> HIDE DEF Run
  <2> QED
    BY <1>3
<1> HIDE DEF f
<1>6. 0 \in 0..Len(s) /\ \A i \in 1..Len(s) : i # 0 /\ i \in 0..Len(s)
  OBVIOUS
<1>7. f[0] = << >>
  BY <1>5, <1>6, Zenon
<1>8. \A i \in 1..Len(s) : f[i] = Body(f, i)
  BY <1>5, <1>6, Zenon
<1> QED
  BY <1>4, <1>7, <1>8

\* Two lists over T with n elements together.
Halves(a, b, n, T) == a \in Seq(T) /\ b \in Seq(T) /\ Len(b) + Len(a) = n

\* Selecting what is in S and what is not keeps every element.
LEMMA AmongSplit ==
    ASSUME NEW T, NEW s \in Seq(T), NEW S
    PROVE  /\ Among(s, S) \in Seq(T) /\ Among(s, T \ S) \in Seq(T)
           /\ Len(Among(s, T \ S)) + Len(Among(s, S)) = Len(s)
<1>1. PICK f : /\ f[0] = << >>
               /\ \A i \in 1..Len(s) : f[i] = Keep(f[i - 1], s[i], S)
               /\ Among(s, S) = f[Len(s)]
  BY AmongLoop
<1>2. PICK g : /\ g[0] = << >>
               /\ \A i \in 1..Len(s) : g[i] = Keep(g[i - 1], s[i], T \ S)
               /\ Among(s, T \ S) = g[Len(s)]
  BY AmongLoop
<1> DEFINE P == {n \in Nat : n <= Len(s) => Halves(f[n], g[n], n, T)}
<1>3. 0 \in P
  <2>1. Halves(<< >>, << >>, 0, T)
    BY DEF Halves
  <2> QED
    BY <1>1, <1>2, <2>1
<1>4. ASSUME NEW n \in Nat, n \in P
      PROVE  n + 1 \in P
  <2> SUFFICES ASSUME n + 1 <= Len(s)
               PROVE  Halves(f[n + 1], g[n + 1], n + 1, T)
    OBVIOUS
  <2> DEFINE x == s[n + 1]
             a == f[n]
             b == g[n]
  <2>1. n + 1 \in 1..Len(s) /\ (n + 1) - 1 = n /\ n <= Len(s) /\ x \in T
    OBVIOUS
  <2>2. f[n + 1] = Keep(a, x, S) /\ g[n + 1] = Keep(b, x, T \ S)
    BY <1>1, <1>2, <2>1
  <2>3. Halves(a, b, n, T)
    BY <1>4, <2>1
  <2> HIDE DEF x, a, b
  <2>4. CASE x \in S
    <3>1. f[n + 1] = Append(a, x) /\ g[n + 1] = b
      BY <2>2, <2>4 DEF Keep
    <3>2. Halves(Append(a, x), b, n + 1, T)
      BY <2>1, <2>3 DEF Halves
    <3> QED
      BY <3>1, <3>2
  <2>5. CASE x \notin S
    <3>1. f[n + 1] = a /\ g[n + 1] = Append(b, x)
      BY <2>1, <2>2, <2>5 DEF Keep
    <3>2. Halves(a, Append(b, x), n + 1, T)
      BY <2>1, <2>3 DEF Halves
    <3> QED
      BY <3>1, <3>2
  <2> QED
    BY <2>4, <2>5
<1>5. Len(s) \in P
  <2>1. Len(s) \in Nat
    OBVIOUS
  <2> HIDE DEF P
  <2> QED
    BY <1>3, <1>4, <2>1, NatSetInduction
<1>6. Halves(Among(s, S), Among(s, T \ S), Len(s), T)
  BY <1>1, <1>2, <1>5
<1> QED
  BY <1>6 DEF Halves

\* Sorting keeps the peer and drops no address.
LEMMA SortedSpecifiers ==
    ASSUME NEW p \in Peer
    PROVE  PeerSpecifiers(p) \in Seq({p} \X Addr) /\ Len(PeerSpecifiers(p)) = Len(Addrs[p])
<1> DEFINE a == Among(Addrs[p], Addr \ Tor)
           b == Among(Addrs[p], Tor)
           sorted == a \o b
<1>1. Addrs[p] \in Seq(Addr)
  BY PCMAssumption
<1>2. a \in Seq(Addr) /\ b \in Seq(Addr) /\ Len(a) + Len(b) = Len(Addrs[p])
  BY <1>1, AmongSplit
<1> HIDE DEF a, b
<1>3. sorted \in Seq(Addr) /\ Len(sorted) = Len(Addrs[p])
  BY <1>2
<1> HIDE DEF sorted
<1>4. PeerSpecifiers(p) = [i \in 1..Len(sorted) |-> <<p, sorted[i]>>]
  BY DEF PeerSpecifiers, sorted, a, b
<1>5. \A i \in 1..Len(sorted) : <<p, sorted[i]>> \in {p} \X Addr
  BY <1>3
<1> QED
  BY <1>3, <1>4, <1>5

\* The specifiers of a peer are specifiers, at least one.
LEMMA SpecifiersType ==
    ASSUME NEW p \in Peer
    PROVE  /\ PeerSpecifiers(p) \in Seq(Specifier)
           /\ Len(PeerSpecifiers(p)) \in Nat \ {0}
           /\ \A i \in 1..Len(PeerSpecifiers(p)) :
                 PeerSpecifiers(p)[i] \in Specifier /\ PeerSpecifiers(p)[i][1] = p
<1>1. PeerSpecifiers(p) \in Seq({p} \X Addr) /\ Len(PeerSpecifiers(p)) = Len(Addrs[p])
  BY SortedSpecifiers
<1>2. Addrs[p] \in Seq(Addr) /\ Addrs[p] # << >>
  BY PCMAssumption
<1>3. \A i \in 1..Len(PeerSpecifiers(p)) : PeerSpecifiers(p)[i] \in {p} \X Addr
  BY <1>1
<1>4. {p} \X Addr \subseteq Specifier
  BY DEF Specifier
<1> HIDE DEF PeerSpecifiers
<1> QED BY <1>1, <1>2, <1>3, <1>4
-----------------------------------------------------------------------------
(* Type correctness *)

\* The initial state satisfies the invariant.
LEMMA IInvInit == PCMInit => IInv
BY PCMAssumption DEF PCMInit, IInv, TypeOK, PermitHeld, IdleAttempt, Age, Attempt

\* The actor's handlers keep the invariant.
LEMMA IInvHandleMsg == IInv /\ HandleMsg => IInv'
<1> SUFFICES ASSUME IInv, HandleMsg PROVE IInv'
  OBVIOUS
<1> USE DEF IInv, PermitHeld, mgrVars, limiterVars, nodeVars
<1>t. /\ mailbox \in Seq(ConnManagerMsg)
      /\ eligible_peers \in Seq(Peer) /\ eligible_peer_pubkeys \in SUBSET Peer
      /\ pending_conns \in SUBSET PendingConnection
  BY DEF TypeOK
<1>m. monitor \in [pc : {"tick", "acquire", "peek", "recheck"},
                  reply : SUBSET (Peer \cup {NoPeer})]
  BY DEF TypeOK
<1>1. CASE HandleAddPendingConn
  <2>1. /\ mailbox' \in Seq(ConnManagerMsg)
        /\ Head(mailbox).peer \in Specifier /\ Head(mailbox).age \in Age
    BY <1>1, <1>t, ReceivesType, MsgFields DEF HandleAddPendingConn
  <2>2. pending_conns' \in SUBSET PendingConnection
    BY <1>1, <1>t, <2>1 DEF HandleAddPendingConn, PendingConnection
  <2>3. pending_notifier' \in [value : SUBSET Peer, changed : BOOLEAN]
    BY <1>1, <2>2 DEF HandleAddPendingConn, Notify, build_pending_filter, PendingConnection,
                      Specifier
  <2> QED BY <1>1, <2>1, <2>2, <2>3 DEF HandleAddPendingConn, TypeOK
<1>2. CASE HandleRemovePendingConn
  <2>1. mailbox' \in Seq(ConnManagerMsg)
    BY <1>2, <1>t, ReceivesType DEF HandleRemovePendingConn
  <2>2. pending_conns' \in SUBSET PendingConnection
    BY <1>2, <1>t DEF HandleRemovePendingConn
  <2>3. pending_notifier' \in [value : SUBSET Peer, changed : BOOLEAN]
    BY <1>2, <2>2 DEF HandleRemovePendingConn, Notify, build_pending_filter,
                      PendingConnection, Specifier
  <2> QED BY <1>2, <2>1, <2>2, <2>3 DEF HandleRemovePendingConn, TypeOK
<1>3. CASE HandleSweepPendingConnections
  <2>1. mailbox' \in Seq(ConnManagerMsg)
    BY <1>3, <1>t, ReceivesType DEF HandleSweepPendingConnections
  <2>2. pending_conns' \in SUBSET PendingConnection
    BY <1>3, <1>t DEF HandleSweepPendingConnections
  <2>3. pending_notifier' \in [value : SUBSET Peer, changed : BOOLEAN]
    BY <1>3, <2>2 DEF HandleSweepPendingConnections, Notify, build_pending_filter,
                      PendingConnection, Specifier
  <2> QED BY <1>3, <2>1, <2>2, <2>3 DEF HandleSweepPendingConnections, TypeOK
<1>4. CASE HandleAddEligiblePeer
  <2>1. mailbox' \in Seq(ConnManagerMsg) /\ Head(mailbox).peer \in Peer
    BY <1>4, <1>t, ReceivesType, MsgFields DEF HandleAddEligiblePeer
  <2>2. eligible_peers' \in Seq(Peer) /\ eligible_peer_pubkeys' \in SUBSET Peer
    BY <1>4, <1>t, <2>1, SMTT(60) DEF HandleAddEligiblePeer
  <2> QED BY <1>4, <2>1, <2>2 DEF HandleAddEligiblePeer, TypeOK
<1>5. CASE HandlePeekEligiblePeer
  <2>1. mailbox' \in Seq(ConnManagerMsg)
    BY <1>5, <1>t, ReceivesType DEF HandlePeekEligiblePeer
  <2>2. /\ monitor' \in [pc : {"tick", "acquire", "peek", "recheck"},
                         reply : SUBSET (Peer \cup {NoPeer})]
        /\ monitor'.pc = monitor.pc
    BY <1>5, <1>t, <1>m, SMTT(60) DEF HandlePeekEligiblePeer
  <2> QED BY <1>5, <2>1, <2>2 DEF HandlePeekEligiblePeer, TypeOK
<1>6. CASE HandleRotateEligiblePeers
  <2>1. mailbox' \in Seq(ConnManagerMsg)
    BY <1>6, <1>t, ReceivesType DEF HandleRotateEligiblePeers
  <2>2. eligible_peers' \in Seq(Peer)
    BY <1>6, <1>t DEF HandleRotateEligiblePeers
  <2> QED BY <1>6, <2>1, <2>2 DEF HandleRotateEligiblePeers, TypeOK
<1> QED BY <1>1, <1>2, <1>3, <1>4, <1>5, <1>6 DEF HandleMsg

\* The gRPC handlers and the sweeper keep the invariant.
LEMMA IInvSenders ==
    IInv /\ ((\E list \in PeerLists : PostEligiblePeers(list))
             \/ (\E n \in Targets : PostTargetPeerCount(n)) \/ SweeperTick) => IInv'
<1> USE DEF IInv, PermitHeld, mgrVars, limiterVars, nodeVars
<1>1. ASSUME IInv, NEW list \in PeerLists, PostEligiblePeers(list) PROVE IInv'
  <2> DEFINE msgs == [i \in 1..Len(list) |-> [type |-> "AddEligiblePeer", peer |-> list[i]]]
  <2>1. list \in Seq(Peer)
    BY PCMAssumption
  <2>2. msgs \in Seq(ConnManagerMsg)
    BY <2>1, MsgMake
  <2>3. mailbox' \in Seq(ConnManagerMsg)
    BY <1>1, <2>2, SendType DEF TypeOK, PostEligiblePeers
  <2>4. posts' \in 0..MaxPosts
    BY <1>1, PCMAssumption DEF TypeOK, PostEligiblePeers
  <2> QED BY <1>1, <2>3, <2>4 DEF TypeOK, PostEligiblePeers
<1>2. ASSUME IInv, NEW n \in Targets, PostTargetPeerCount(n) PROVE IInv'
  BY <1>2, PCMAssumption DEF TypeOK, PostTargetPeerCount
<1>3. ASSUME IInv, SweeperTick PROVE IInv'
  <2>1. <<[type |-> "SweepPendingConnections"]>> \in Seq(ConnManagerMsg)
    BY MsgMake
  <2>2. mailbox' \in Seq(ConnManagerMsg)
    BY <1>3, <2>1, SendType DEF TypeOK, SweeperTick
  <2> QED BY <1>3, <2>2 DEF TypeOK, SweeperTick
<1> QED BY <1>1, <1>2, <1>3

\* The monitor and the token bucket keep the invariant.
LEMMA IInvMonitor ==
    IInv /\ (RefillBucket \/ MonitorTick \/ MonitorAcquire \/ MonitorReply \/ MonitorRecheck)
        => IInv'
<1> SUFFICES ASSUME IInv,
                    RefillBucket \/ MonitorTick \/ MonitorAcquire \/ MonitorReply
                        \/ MonitorRecheck
             PROVE IInv'
  OBVIOUS
<1> USE DEF IInv, PermitHeld, mgrVars, limiterVars, nodeVars
<1>t. /\ mailbox \in Seq(ConnManagerMsg)
      /\ attempts \in [AttemptId -> Attempt]
  BY DEF TypeOK
<1>m. /\ monitor \in [pc : {"tick", "acquire", "peek", "recheck"},
                     reply : SUBSET (Peer \cup {NoPeer})]
      /\ bucket \in 0..AttemptRate
      /\ classic_sem \in 0..TotalAttempts
  BY DEF TypeOK
<1>1. CASE RefillBucket
  BY <1>1, PCMAssumption DEF RefillBucket, TypeOK
<1>2. CASE MonitorTick
  BY <1>2 DEF MonitorTick, TypeOK
<1>3. CASE MonitorAcquire
  <2>1. <<[type |-> "PeekEligiblePeer"]>> \in Seq(ConnManagerMsg)
    BY MsgMake
  <2>2. mailbox' \in Seq(ConnManagerMsg)
    BY <1>3, <2>1, <1>t, SendType DEF MonitorAcquire
  <2>3. bucket' \in 0..AttemptRate /\ classic_sem' \in 0..TotalAttempts /\ PermitHeld'
    BY <1>3, <1>m, PCMAssumption DEF MonitorAcquire
  <2> QED BY <1>3, <2>2, <2>3 DEF MonitorAcquire, TypeOK
<1>4. CASE MonitorReply
  <2>1. <<[type |-> "RotateEligiblePeers"]>> \in Seq(ConnManagerMsg)
    BY MsgMake
  <2>2. mailbox' \in Seq(ConnManagerMsg)
    BY <1>4, <2>1, <1>t, SendType DEF MonitorReply
  <2>3. attempts' \in [AttemptId -> Attempt]
    BY <1>4, <1>t, <1>m, AttemptMake DEF MonitorReply
  <2> QED BY <1>4, <2>2, <2>3 DEF MonitorReply, TypeOK
<1>5. CASE MonitorRecheck
  <2>1. /\ classic_sem' \in 0..TotalAttempts /\ PermitHeld'
        /\ monitor' \in [pc : {"tick", "acquire", "peek", "recheck"},
                         reply : SUBSET (Peer \cup {NoPeer})]
    BY <1>5, <1>m, PCMAssumption, SMTT(60) DEF MonitorRecheck
  <2> QED BY <1>5, <2>1 DEF MonitorRecheck, TypeOK
<1> QED BY <1>1, <1>2, <1>3, <1>4, <1>5

\* The connection attempts keep the invariant.
LEMMA IInvAttempt ==
    ASSUME IInv, NEW a \in AttemptId, AttemptStep(a)
    PROVE  IInv'
<1> USE DEF IInv, PermitHeld, mgrVars, limiterVars, nodeVars
<1>t. /\ mailbox \in Seq(ConnManagerMsg)
      /\ attempts \in [AttemptId -> Attempt]
  BY DEF TypeOK
<1>1. CASE AttemptStart(a)
  <2> DEFINE specs == PeerSpecifiers(attempts[a].peer)
             msgs  == [i \in 1..Len(specs) |->
                          [type |-> "AddPendingConn", peer |-> specs[i], age |-> 0]]
  <2>1. attempts[a].peer \in Peer
    BY <1>1, <1>t, AttemptFields DEF AttemptStart
  <2>2. specs \in Seq(Specifier) /\ 0 \in Age
    BY <2>1, SpecifiersType, PCMAssumption DEF Age
  <2> HIDE DEF specs
  <2>3. msgs \in Seq(ConnManagerMsg)
    BY <2>2, MsgMake
  <2>4. mailbox' \in Seq(ConnManagerMsg)
    BY <1>1, <2>3, <1>t, SendType DEF AttemptStart, specs
  <2>5. attempts' \in [AttemptId -> Attempt]
    BY <1>1, <1>t, AttemptMake DEF AttemptStart
  <2> QED BY <1>1, <2>4, <2>5 DEF AttemptStart, TypeOK
<1>2. CASE AttemptWake(a)
  <2>1. attempts' \in [AttemptId -> Attempt]
    <3>1. attempts' = [attempts EXCEPT ![a] = [attempts[a] EXCEPT !.pc = "connect", !.spec = 1]]
      BY <1>2 DEF AttemptWake
    <3>2. attempts[a].pc # "idle" /\ attempts[a] \in Attempt
      BY <1>2, <1>t DEF AttemptWake
    <3>3. [attempts[a] EXCEPT !.pc = "connect", !.spec = 1] \in Attempt
      BY <3>2, AttemptMake
    <3> QED BY <3>1, <3>3, <1>t
  <2> QED BY <1>2, <2>1 DEF AttemptWake, TypeOK
<1>3. CASE AttemptConnected(a)
  <2>1. attempts[a].peer \in Peer
    BY <1>3, <1>t, AttemptFields DEF AttemptConnected
  <2>2. attempts' \in [AttemptId -> Attempt]
    BY <1>3, <1>t, AttemptMake DEF AttemptConnected
  <2>3. connected' \in SUBSET Peer /\ conn_age' \in [Peer -> Age]
    BY <1>3, <2>1, <1>t, AttemptFields DEF TypeOK, AttemptConnected
  <2> QED BY <1>3, <2>2, <2>3 DEF AttemptConnected, TypeOK
<1>4. CASE AttemptFailed(a)
  <2> DEFINE specs == PeerSpecifiers(attempts[a].peer)
             msgs  == [i \in 1..Len(specs) |->
                          [type |-> "RemovePendingConn", peer |-> specs[i]]]
  <2>1. attempts[a].peer \in Peer
    BY <1>4, <1>t, AttemptFields DEF AttemptFailed
  <2>2. specs \in Seq(Specifier)
    BY <2>1, SpecifiersType
  <2> HIDE DEF specs
  <2>3. msgs \in Seq(ConnManagerMsg)
    BY <2>2, MsgMake
  <2>4. mailbox' \in Seq(ConnManagerMsg)
    BY <1>4, <2>3, <1>t, SendType DEF AttemptFailed, specs
  <2>5. attempts' \in [AttemptId -> Attempt]
    <3>1. CASE attempts' = [attempts EXCEPT ![a] = IdleAttempt]
      BY <1>t, <3>1, AttemptMake
    <3>2. CASE attempts' = [attempts EXCEPT ![a].spec = @ + 1]
      <4>1. attempts[a].spec + 1 \in Nat
        BY <1>4, <1>t, AttemptFields DEF AttemptFailed
      <4> QED BY <1>4, <3>2, <4>1, <1>t, AttemptMake DEF AttemptFailed
    <3> QED BY <1>4, <3>1, <3>2 DEF AttemptFailed
  <2> QED BY <1>4, <2>4, <2>5 DEF AttemptFailed, TypeOK
<1> QED BY <1>1, <1>2, <1>3, <1>4 DEF AttemptStep

\* A disconnection and the passing of time keep the invariant.
LEMMA IInvEnvironment == IInv /\ ((\E p \in Peer : Disconnect(p)) \/ Tick) => IInv'
<1> USE DEF IInv, PermitHeld, mgrVars, limiterVars, nodeVars
<1>1. ASSUME IInv, NEW p \in Peer, Disconnect(p) PROVE IInv'
  BY <1>1, PCMAssumption DEF Disconnect, Age, TypeOK
<1>2. ASSUME IInv, Tick PROVE IInv'
  <2>1. mailbox' \in Seq(ConnManagerMsg)
    <3> DEFINE Aged(msg) == IF msg.type = "AddPendingConn"
                            THEN [msg EXCEPT !.age = Older(@)] ELSE msg
    <3>1. ASSUME NEW msg \in ConnManagerMsg PROVE Aged(msg) \in ConnManagerMsg
      BY <3>1, OlderType DEF ConnManagerMsg
    <3>2. mailbox' = [i \in DOMAIN mailbox |-> Aged(mailbox[i])]
      BY <1>2 DEF Tick
    <3>3. DOMAIN mailbox = 1..Len(mailbox) /\ \A i \in 1..Len(mailbox) : mailbox[i] \in ConnManagerMsg
      BY <1>2 DEF TypeOK
    <3> HIDE DEF Aged
    <3> QED BY <1>2, <3>1, <3>2, <3>3
  <2>2. pending_conns' \in SUBSET PendingConnection
    <3>1. \A c \in PendingConnection : [c EXCEPT !.age = Older(@)] \in PendingConnection
      BY OlderType DEF PendingConnection
    <3>2. pending_conns \subseteq PendingConnection
      BY <1>2 DEF TypeOK
    <3> QED BY <1>2, <3>1, <3>2 DEF Tick
  <2>3. attempts' \in [AttemptId -> Attempt]
    <3>1. ASSUME NEW a \in AttemptId, attempts[a].pc \in {"sleep", "connect"}
          PROVE  [attempts[a] EXCEPT !.age = Older(@)] \in Attempt
      BY <1>2, <3>1, OlderType, AttemptFields, AttemptMake DEF TypeOK
    <3> QED BY <1>2, <3>1 DEF Tick, TypeOK
  <2>4. conn_age' \in [Peer -> Age]
    BY <1>2, OlderType DEF Tick, TypeOK
  <2> QED BY <1>2, <2>1, <2>2, <2>3, <2>4 DEF Tick, TypeOK
<1> QED BY <1>1, <1>2

\* Every step, and a stuttering step, keeps the invariant.
LEMMA IInvNext == IInv /\ [PCMNext]_pcmVars => IInv'
<1>1. ASSUME IInv, UNCHANGED pcmVars PROVE IInv'
  BY <1>1 DEF IInv, TypeOK, PermitHeld, pcmVars, mgrVars, limiterVars, nodeVars
<1> QED BY <1>1, IInvHandleMsg, IInvSenders, IInvMonitor, IInvAttempt, IInvEnvironment DEF PCMNext

\* The connection manager and the tasks around it stay within their types: every
\* message in the mailbox is one the actor handles, ages stay within the delay, the
\* token bucket and the classic semaphore within their capacities.
THEOREM TypeCorrect == PCMSpec => []TypeOK
<1>1. IInv => TypeOK
  BY DEF IInv
<1> QED BY <1>1, IInvInit, IInvNext, PTL DEF PCMSpec

\* The reachable states satisfy the inductive invariant.
THEOREM Inductive == PCMSpec => []IInv
BY IInvInit, IInvNext, PTL DEF PCMSpec
-----------------------------------------------------------------------------
(* The published filter *)

\* FilterMirrorsPending is kept by every step from a well-typed state.
LEMMA FilterStep == TypeOK /\ FilterMirrorsPending /\ [PCMNext]_pcmVars => FilterMirrorsPending'
<1> SUFFICES ASSUME TypeOK, FilterMirrorsPending, [PCMNext]_pcmVars
             PROVE  FilterMirrorsPending'
  OBVIOUS
<1> USE DEF FilterMirrorsPending
<1>1. CASE HandleAddPendingConn \/ HandleRemovePendingConn \/ HandleSweepPendingConnections
  BY <1>1 DEF HandleAddPendingConn, HandleRemovePendingConn, HandleSweepPendingConnections,
              Notify
<1>2. CASE Tick
  <2> DEFINE Aged(c) == [c EXCEPT !.age = Older(@)]
  <2>1. \A c \in pending_conns : Aged(c).peer = c.peer
    BY DEF TypeOK, PendingConnection
  <2>2. pending_conns' = {Aged(c) : c \in pending_conns}
    BY <1>2 DEF Tick
  <2> HIDE DEF Aged
  <2>3. build_pending_filter(pending_conns') = build_pending_filter(pending_conns)
    BY <2>1, <2>2 DEF build_pending_filter
  <2> QED BY <1>2, <2>3 DEF Tick
<1>3. ASSUME UNCHANGED <<pending_conns, pending_notifier>> PROVE FilterMirrorsPending'
  BY <1>3 DEF build_pending_filter
<1>4. CASE HandleAddEligiblePeer \/ HandlePeekEligiblePeer \/ HandleRotateEligiblePeers
  BY <1>3, <1>4 DEF HandleAddEligiblePeer, HandlePeekEligiblePeer, HandleRotateEligiblePeers,
              mgrVars
<1>5. ASSUME NEW list \in PeerLists, PostEligiblePeers(list) PROVE FilterMirrorsPending'
  BY <1>3, <1>5 DEF PostEligiblePeers, mgrVars
<1>6. ASSUME NEW n \in Targets, PostTargetPeerCount(n) PROVE FilterMirrorsPending'
  BY <1>3, <1>6 DEF PostTargetPeerCount, mgrVars
<1>7. CASE SweeperTick \/ RefillBucket \/ MonitorTick \/ MonitorAcquire \/ MonitorReply
           \/ MonitorRecheck
  BY <1>3, <1>7 DEF SweeperTick, RefillBucket, MonitorTick, MonitorAcquire, MonitorReply,
              MonitorRecheck, mgrVars
<1>8. ASSUME NEW a \in AttemptId, AttemptStep(a) PROVE FilterMirrorsPending'
  BY <1>3, <1>8 DEF AttemptStep, AttemptStart, AttemptWake, AttemptConnected, AttemptFailed,
              mgrVars
<1>9. ASSUME NEW p \in Peer, Disconnect(p) PROVE FilterMirrorsPending'
  BY <1>3, <1>9 DEF Disconnect, mgrVars
<1>10. CASE UNCHANGED pcmVars
  BY <1>3, <1>10 DEF pcmVars, mgrVars
<1> QED BY <1>1, <1>2, <1>4, <1>5, <1>6, <1>7, <1>8, <1>9, <1>10 DEF PCMNext, HandleMsg

\* The filter on the watch channel names exactly the pending connections' keys in
\* every reachable state: no handler of the actor changes one without the other.
THEOREM FilterCorrect == PCMSpec => []FilterMirrorsPending
<1>1. PCMInit => FilterMirrorsPending
  BY DEF PCMInit, FilterMirrorsPending, build_pending_filter
<1> QED BY <1>1, FilterStep, TypeCorrect, PTL DEF PCMSpec
-----------------------------------------------------------------------------
(* The eligible-peer queue *)

\* A new element at the end of a sequence without repetitions.
LEMMA AppendNew ==
    ASSUME NEW S, NEW s \in Seq(S), NEW e \in S, IsInjective(s), e \notin Range(s)
    PROVE  /\ Range(Append(s, e)) = Range(s) \cup {e}
           /\ IsInjective(Append(s, e))
<1> DEFINE t == Append(s, e)
<1>1. /\ t \in Seq(S) /\ Len(t) = Len(s) + 1 /\ t[Len(s) + 1] = e
      /\ \A i \in 1..Len(s) : t[i] = s[i]
  OBVIOUS
<1>2. /\ DOMAIN t = 1..(Len(s) + 1) /\ DOMAIN s = 1..Len(s) /\ Len(s) \in Nat
  BY <1>1
<1> HIDE DEF t
<1>3. Range(t) = Range(s) \cup {e}
  BY <1>1, <1>2 DEF Range
<1>4. IsInjective(t)
  <2> SUFFICES ASSUME NEW i \in DOMAIN t, NEW j \in DOMAIN t, t[i] = t[j] PROVE i = j
    BY DEF IsInjective
  <2>1. \A k \in DOMAIN s : s[k] # e
    BY DEF Range
  <2>2. \A k, l \in DOMAIN s : s[k] = s[l] => k = l
    BY DEF IsInjective
  <2> QED BY <1>1, <1>2, <2>1, <2>2
<1> QED BY <1>3, <1>4 DEF t

\* Moving the first element to the end keeps the elements and adds no repetition.
LEMMA Rotated ==
    ASSUME NEW S, NEW s \in Seq(S), s # << >>, IsInjective(s)
    PROVE  /\ Range(Append(Tail(s), Head(s))) = Range(s)
           /\ IsInjective(Append(Tail(s), Head(s)))
<1> DEFINE t == Append(Tail(s), Head(s))
           n == Len(s)
<1>1. /\ n \in Nat \ {0} /\ DOMAIN s = 1..n
      /\ Tail(s) \in Seq(S) /\ Len(Tail(s)) = n - 1 /\ Head(s) = s[1] /\ Head(s) \in S
      /\ \A i \in 1..(n - 1) : Tail(s)[i] = s[i + 1]
  OBVIOUS
<1>2. /\ t \in Seq(S) /\ Len(t) = n /\ DOMAIN t = 1..n
      /\ t[n] = s[1] /\ \A i \in 1..(n - 1) : t[i] = s[i + 1]
  BY <1>1
<1> HIDE DEF t, n
<1>3. Range(t) = Range(s)
  <2>1. ASSUME NEW x \in Range(s) PROVE x \in Range(t)
    <3>1. PICK i \in 1..n : s[i] = x
      BY <1>1 DEF Range
    <3>2. CASE i = 1
      BY <1>1, <1>2, <3>1, <3>2 DEF Range
    <3>3. CASE i # 1
      <4>1. i - 1 \in 1..(n - 1) /\ t[i - 1] = x
        BY <1>1, <1>2, <3>1, <3>3
      <4> QED BY <1>1, <1>2, <4>1 DEF Range
    <3> QED BY <3>2, <3>3
  <2>2. ASSUME NEW x \in Range(t) PROVE x \in Range(s)
    BY <1>1, <1>2 DEF Range
  <2> QED BY <2>1, <2>2
<1>4. IsInjective(t)
  <2> SUFFICES ASSUME NEW i \in DOMAIN t, NEW j \in DOMAIN t, t[i] = t[j] PROVE i = j
    BY DEF IsInjective
  <2>1. \A k, l \in 1..n : s[k] = s[l] => k = l
    BY <1>1 DEF IsInjective
  <2> QED BY <1>1, <1>2, <2>1
<1> QED BY <1>3, <1>4 DEF t

\* EligibleMirrorsQueue is kept by every step from a well-typed state.
LEMMA EligibleStep == TypeOK /\ EligibleMirrorsQueue /\ [PCMNext]_pcmVars => EligibleMirrorsQueue'
<1> SUFFICES ASSUME TypeOK, EligibleMirrorsQueue, [PCMNext]_pcmVars
             PROVE  EligibleMirrorsQueue'
  OBVIOUS
<1>t. /\ eligible_peers \in Seq(Peer) /\ mailbox \in Seq(ConnManagerMsg)
      /\ eligible_peer_pubkeys = Range(eligible_peers) /\ IsInjective(eligible_peers)
  BY DEF TypeOK, EligibleMirrorsQueue
<1>0. ASSUME UNCHANGED <<eligible_peers, eligible_peer_pubkeys>> PROVE EligibleMirrorsQueue'
  BY <1>0, <1>t DEF EligibleMirrorsQueue
<1>1. CASE HandleAddEligiblePeer
  <2> DEFINE p == Head(mailbox).peer
  <2>1. p \in Peer
    BY <1>1, <1>t, ReceivesType, MsgFields DEF HandleAddEligiblePeer
  <2>2. CASE p \in eligible_peer_pubkeys
    BY <1>0, <1>1, <2>2 DEF HandleAddEligiblePeer
  <2>3. CASE p \notin eligible_peer_pubkeys
    <3>1. /\ eligible_peers' = Append(eligible_peers, p)
          /\ eligible_peer_pubkeys' = eligible_peer_pubkeys \cup {p}
      BY <1>1, <2>3 DEF HandleAddEligiblePeer
    <3> HIDE DEF p
    <3>2. /\ Range(Append(eligible_peers, p)) = Range(eligible_peers) \cup {p}
          /\ IsInjective(Append(eligible_peers, p))
      BY <1>t, <2>1, <2>3, AppendNew
    <3> QED BY <1>t, <3>1, <3>2 DEF EligibleMirrorsQueue
  <2> QED BY <2>2, <2>3
<1>2. CASE HandleRotateEligiblePeers
  <2>1. CASE eligible_peers = << >>
    BY <1>0, <1>2, <2>1 DEF HandleRotateEligiblePeers
  <2>2. CASE eligible_peers # << >>
    <3>1. /\ eligible_peers' = Append(Tail(eligible_peers), Head(eligible_peers))
          /\ eligible_peer_pubkeys' = eligible_peer_pubkeys
      BY <1>2, <2>2 DEF HandleRotateEligiblePeers
    <3>2. /\ Range(Append(Tail(eligible_peers), Head(eligible_peers))) = Range(eligible_peers)
          /\ IsInjective(Append(Tail(eligible_peers), Head(eligible_peers)))
      BY <1>t, <2>2, Rotated
    <3> QED BY <1>t, <3>1, <3>2 DEF EligibleMirrorsQueue
  <2> QED BY <2>1, <2>2
<1>3. CASE HandleAddPendingConn \/ HandleRemovePendingConn \/ HandleSweepPendingConnections
           \/ HandlePeekEligiblePeer
  BY <1>0, <1>3 DEF HandleAddPendingConn, HandleRemovePendingConn,
              HandleSweepPendingConnections, HandlePeekEligiblePeer, mgrVars
<1>4. ASSUME NEW list \in PeerLists, PostEligiblePeers(list) PROVE EligibleMirrorsQueue'
  BY <1>0, <1>4 DEF PostEligiblePeers, mgrVars
<1>5. ASSUME NEW n \in Targets, PostTargetPeerCount(n) PROVE EligibleMirrorsQueue'
  BY <1>0, <1>5 DEF PostTargetPeerCount, mgrVars
<1>6. CASE SweeperTick \/ RefillBucket \/ MonitorTick \/ MonitorAcquire \/ MonitorReply
           \/ MonitorRecheck
  BY <1>0, <1>6 DEF SweeperTick, RefillBucket, MonitorTick, MonitorAcquire, MonitorReply,
              MonitorRecheck, mgrVars
<1>7. ASSUME NEW a \in AttemptId, AttemptStep(a) PROVE EligibleMirrorsQueue'
  BY <1>0, <1>7 DEF AttemptStep, AttemptStart, AttemptWake, AttemptConnected, AttemptFailed,
              mgrVars
<1>8. ASSUME NEW p \in Peer, Disconnect(p) PROVE EligibleMirrorsQueue'
  BY <1>0, <1>8 DEF Disconnect, mgrVars
<1>9. CASE Tick \/ UNCHANGED pcmVars
  BY <1>0, <1>9 DEF Tick, pcmVars, mgrVars
<1> QED BY <1>1, <1>2, <1>3, <1>4, <1>5, <1>6, <1>7, <1>8, <1>9 DEF PCMNext, HandleMsg

\* In every reachable state the set of eligible keys is the set of the keys queued
\* and no key is queued twice, whatever lists the controller posts and however posts,
\* peeks and rotations interleave.
THEOREM EligibleCorrect == PCMSpec => []EligibleMirrorsQueue
<1>1. PCMInit => EligibleMirrorsQueue
  BY DEF PCMInit, EligibleMirrorsQueue, Range, IsInjective
<1> QED BY <1>1, EligibleStep, TypeCorrect, PTL DEF PCMSpec
-----------------------------------------------------------------------------
(* Fresh connections and the filter *)

IsAdd(msg, p) == msg.type = "AddPendingConn" /\ msg.peer[1] = p
IsRemove(msg, p) == msg.type = "RemovePendingConn" /\ msg.peer[1] = p

\* Nothing on its way to the actor takes an entry of p off the pending list.
NoRemove(p) == \A j \in DOMAIN mailbox : ~IsRemove(mailbox[j], p)

\* While n is below the delay, p has an entry that a sweep takes no sooner than
\* something of age n.
Entry(p, n) == n < StartupDelay => \E c \in pending_conns : c.peer[1] = p /\ c.age <= n

\* Such an entry is there for good, or on its way behind all removals.
EntryComing(p, n) ==
    \E i \in DOMAIN mailbox :
        /\ IsAdd(mailbox[i], p) /\ mailbox[i].age <= n
        /\ \A j \in DOMAIN mailbox : IsRemove(mailbox[j], p) => j < i

Lasting(p, n) == Entry(p, n) /\ NoRemove(p)

Covered(p, n) == EntryComing(p, n) \/ Lasting(p, n)

\* Without overlap, a peer has one attempt.
OneAttempt == \A a, b \in InFlight : attempts[a].peer = attempts[b].peer => a = b

\* An attempt that sleeps has its entries pending or on their way, one that connects
\* has them pending, and so has a connection.
AttemptsCovered ==
    \A a \in AttemptId, p \in Peer, n \in Age :
        attempts[a].peer = p /\ attempts[a].age = n =>
            /\ attempts[a].pc = "sleep" => Covered(p, n)
            /\ attempts[a].pc = "connect" => Lasting(p, n)

ConnectionsCovered ==
    \A p \in connected, n \in Age : conn_age[p] = n => Lasting(p, n)

FreshInv == OneAttempt /\ AttemptsCovered /\ ConnectionsCovered

\* A step that keeps the entries of all peers, and changes neither attempts nor
\* connections, keeps the invariant.
LEMMA FreshFrame ==
    ASSUME FreshInv, UNCHANGED <<attempts, connected, conn_age>>,
           connected \in SUBSET Peer,
           \A p \in Peer, n \in Age : /\ Lasting(p, n) => Lasting(p, n)'
                                      /\ Covered(p, n) => Covered(p, n)'
    PROVE  FreshInv'
<1>1. OneAttempt'
  BY DEF FreshInv, OneAttempt, InFlight
<1>2. AttemptsCovered'
  BY DEF FreshInv, AttemptsCovered
<1>3. ConnectionsCovered'
  BY DEF FreshInv, ConnectionsCovered
<1> QED BY <1>1, <1>2, <1>3 DEF FreshInv

\* Taking a message off the mailbox keeps what is said of a peer, if only a removal of
\* its own takes a young entry, and an addition becomes an entry.
LEMMA ReceiveKeeps ==
    ASSUME NEW p \in Peer, NEW n \in Age,
           mailbox \in Seq(ConnManagerMsg), mailbox # << >>, mailbox' = Tail(mailbox),
           pending_conns \in SUBSET PendingConnection,
           \A c \in pending_conns : c.peer[1] = p /\ c.age < StartupDelay
                                    /\ ~IsRemove(Head(mailbox), p) => c \in pending_conns',
           IsAdd(Head(mailbox), p) =>
               \E c \in pending_conns' : c.peer[1] = p /\ c.age = Head(mailbox).age
    PROVE  /\ Lasting(p, n) => Lasting(p, n)'
           /\ Covered(p, n) => Covered(p, n)'
<1> DEFINE box == mailbox'
<1>1. /\ Len(mailbox) \in Nat \ {0} /\ DOMAIN mailbox = 1..Len(mailbox)
      /\ DOMAIN box = 1..(Len(mailbox) - 1)
      /\ \A i \in DOMAIN box : box[i] = mailbox[i + 1]
      /\ Head(mailbox) = mailbox[1]
  OBVIOUS
<1>a. n \in Nat /\ StartupDelay \in Nat /\ (\A m \in Age : m \in Nat)
  BY PCMAssumption DEF Age
<1>2. ASSUME NoRemove(p) PROVE NoRemove(p)' /\ ~IsRemove(Head(mailbox), p)
  BY <1>1, <1>2 DEF NoRemove, IsRemove
<1>3. ASSUME Lasting(p, n) PROVE Lasting(p, n)'
  <2>1. NoRemove(p)' /\ ~IsRemove(Head(mailbox), p)
    BY <1>2, <1>3 DEF Lasting
  <2>2. Entry(p, n)'
    <3> SUFFICES ASSUME n < StartupDelay
                 PROVE  \E c \in pending_conns' : c.peer[1] = p /\ c.age <= n
      BY DEF Entry
    <3>1. PICK c \in pending_conns : c.peer[1] = p /\ c.age <= n
      BY <1>3 DEF Lasting, Entry
    <3>2. c.age \in Nat
      BY <1>a DEF PendingConnection
    <3> QED BY <2>1, <3>1, <3>2, <1>a
  <2> QED BY <2>1, <2>2 DEF Lasting
<1>4. ASSUME EntryComing(p, n) PROVE Covered(p, n)'
  <2>1. PICK i \in DOMAIN mailbox :
            /\ IsAdd(mailbox[i], p) /\ mailbox[i].age <= n
            /\ \A j \in DOMAIN mailbox : IsRemove(mailbox[j], p) => j < i
    BY <1>4 DEF EntryComing
  <2>2. CASE i = 1
    <3>1. \A j \in DOMAIN mailbox : ~IsRemove(mailbox[j], p)
      BY <1>1, <2>1, <2>2
    <3>2. NoRemove(p)'
      BY <1>2, <3>1 DEF NoRemove
    <3>3. Entry(p, n)'
      BY <1>1, <2>1, <2>2 DEF Entry
    <3> QED BY <3>2, <3>3 DEF Covered, Lasting
  <2>3. CASE i # 1
    <3>1. i - 1 \in DOMAIN box /\ box[i - 1] = mailbox[i]
      BY <1>1, <2>3
    <3>2. \A j \in DOMAIN box : IsRemove(box[j], p) => j < i - 1
      <4> TAKE j \in DOMAIN box
      <4>1. j + 1 \in DOMAIN mailbox /\ box[j] = mailbox[j + 1]
        BY <1>1
      <4>2. IsRemove(mailbox[j + 1], p) => j + 1 < i
        BY <2>1, <4>1
      <4> QED BY <1>1, <4>1, <4>2
    <3>3. EntryComing(p, n)'
      BY <2>1, <3>1, <3>2 DEF EntryComing, IsAdd, IsRemove
    <3> QED BY <3>3 DEF Covered
  <2> QED BY <2>2, <2>3
<1> QED BY <1>3, <1>4 DEF Covered
\* Sending keeps what is said of a peer, if no removal of it is sent.
LEMMA SendKeeps ==
    ASSUME NEW p \in Peer, NEW n \in Age,
           mailbox \in Seq(ConnManagerMsg), NEW msgs \in Seq(ConnManagerMsg), Send(msgs),
           UNCHANGED pending_conns,
           \A i \in DOMAIN msgs : ~IsRemove(msgs[i], p)
    PROVE  /\ Lasting(p, n) => Lasting(p, n)'
           /\ Covered(p, n) => Covered(p, n)'
<1> DEFINE box == mailbox'
           k   == Len(mailbox)
<1>1. /\ k \in Nat /\ Len(msgs) \in Nat
      /\ DOMAIN mailbox = 1..k /\ DOMAIN msgs = 1..Len(msgs)
      /\ DOMAIN box = 1..(k + Len(msgs))
      /\ \A i \in 1..k : box[i] = mailbox[i]
      /\ \A i \in (k + 1)..(k + Len(msgs)) : box[i] = msgs[i - k]
  BY DEF Send
<1> HIDE DEF k
<1>2. \A j \in DOMAIN box : IsRemove(box[j], p) => j \in DOMAIN mailbox /\ box[j] = mailbox[j]
  <2> TAKE j \in DOMAIN box
  <2>1. CASE j \in 1..k
    BY <1>1, <2>1
  <2>2. CASE j \notin 1..k
    <3>1. j - k \in DOMAIN msgs /\ box[j] = msgs[j - k]
      BY <1>1, <2>2
    <3> QED BY <3>1
  <2> QED BY <2>1, <2>2
<1>3. ASSUME Lasting(p, n) PROVE Lasting(p, n)'
  <2>1. NoRemove(p)'
    BY <1>2, <1>3 DEF Lasting, NoRemove, IsRemove
  <2> QED BY <1>3, <2>1 DEF Lasting, Entry
<1>4. ASSUME EntryComing(p, n) PROVE EntryComing(p, n)'
  <2>1. PICK i \in DOMAIN mailbox :
            /\ IsAdd(mailbox[i], p) /\ mailbox[i].age <= n
            /\ \A j \in DOMAIN mailbox : IsRemove(mailbox[j], p) => j < i
    BY <1>4 DEF EntryComing
  <2>2. i \in DOMAIN box /\ box[i] = mailbox[i]
    BY <1>1
  <2>3. \A j \in DOMAIN box : IsRemove(box[j], p) => j < i
    BY <1>2, <2>1
  <2> QED BY <2>1, <2>2, <2>3 DEF EntryComing, IsAdd, IsRemove
<1> QED BY <1>3, <1>4 DEF Covered

\* Additions that are sent are behind all removals.
LEMMA SendCovers ==
    ASSUME NEW p \in Peer, NEW n \in Age,
           mailbox \in Seq(ConnManagerMsg), NEW msgs \in Seq(ConnManagerMsg), Send(msgs),
           msgs # << >>,
           \A i \in DOMAIN msgs : IsAdd(msgs[i], p) /\ msgs[i].age <= n
    PROVE  Covered(p, n)'
<1> DEFINE box == mailbox'
           k   == Len(mailbox)
<1>1. /\ k \in Nat /\ Len(msgs) \in Nat \ {0}
      /\ DOMAIN msgs = 1..Len(msgs)
      /\ DOMAIN box = 1..(k + Len(msgs))
      /\ \A i \in (k + 1)..(k + Len(msgs)) : box[i] = msgs[i - k]
  BY DEF Send
<1> HIDE DEF k
<1>2. k + 1 \in DOMAIN box /\ box[k + 1] = msgs[1]
  BY <1>1
<1>3. IsAdd(box[k + 1], p) /\ box[k + 1].age <= n
  BY <1>1, <1>2
<1>4. \A j \in DOMAIN box : IsRemove(box[j], p) => j < k + 1
  <2> SUFFICES ASSUME NEW j \in DOMAIN box, ~(j < k + 1) PROVE ~IsRemove(box[j], p)
    OBVIOUS
  <2>1. j - k \in DOMAIN msgs /\ box[j] = msgs[j - k]
    BY <1>1
  <2> QED BY <2>1 DEF IsAdd, IsRemove
<1>5. EntryComing(p, n)'
  BY <1>2, <1>3, <1>4 DEF EntryComing, IsAdd, IsRemove
<1> QED BY <1>5 DEF Covered
-----------------------------------------------------------------------------
\* The actor's handlers keep the invariant.
LEMMA FreshHandleMsg == TypeOK /\ FreshInv /\ HandleMsg => FreshInv'
<1> SUFFICES ASSUME TypeOK, FreshInv, HandleMsg PROVE FreshInv'
  OBVIOUS
<1>t. /\ mailbox \in Seq(ConnManagerMsg) /\ connected \in SUBSET Peer
      /\ pending_conns \in SUBSET PendingConnection
  BY DEF TypeOK
<1>u. UNCHANGED <<attempts, connected, conn_age>>
  BY DEF HandleMsg, HandleAddPendingConn, HandleRemovePendingConn,
         HandleSweepPendingConnections, HandleAddEligiblePeer, HandlePeekEligiblePeer,
         HandleRotateEligiblePeers, nodeVars
<1>r. mailbox # << >> /\ mailbox' = Tail(mailbox)
  BY DEF HandleMsg, HandleAddPendingConn, HandleRemovePendingConn,
         HandleSweepPendingConnections, HandleAddEligiblePeer, HandlePeekEligiblePeer,
         HandleRotateEligiblePeers, Receives
<1>h. Head(mailbox) \in ConnManagerMsg
  BY <1>t, <1>r
<1>a. StartupDelay \in Nat /\ (\A m \in Age : m \in Nat)
  BY PCMAssumption DEF Age
<1>1. ASSUME NEW p \in Peer, NEW c \in pending_conns, c.peer[1] = p, c.age < StartupDelay,
             ~IsRemove(Head(mailbox), p)
      PROVE  c \in pending_conns'
  <2>1. CASE HandleRemovePendingConn
    BY <1>1, <2>1 DEF HandleRemovePendingConn, Receives, IsRemove
  <2>2. CASE HandleSweepPendingConnections
    BY <1>1, <2>2 DEF HandleSweepPendingConnections
  <2>3. CASE HandleAddPendingConn
    BY <1>1, <2>3 DEF HandleAddPendingConn
  <2>4. CASE HandleAddEligiblePeer \/ HandlePeekEligiblePeer \/ HandleRotateEligiblePeers
    BY <1>1, <2>4 DEF HandleAddEligiblePeer, HandlePeekEligiblePeer,
                      HandleRotateEligiblePeers, mgrVars
  <2> QED BY <2>1, <2>2, <2>3, <2>4 DEF HandleMsg
<1>2. ASSUME NEW p \in Peer, IsAdd(Head(mailbox), p)
      PROVE  \E c \in pending_conns' : c.peer[1] = p /\ c.age = Head(mailbox).age
  <2>1. HandleAddPendingConn
    BY <1>2 DEF HandleMsg, HandleRemovePendingConn, HandleSweepPendingConnections,
                HandleAddEligiblePeer, HandlePeekEligiblePeer, HandleRotateEligiblePeers,
                Receives, IsAdd
  <2>2. [peer |-> Head(mailbox).peer, age |-> Head(mailbox).age] \in pending_conns'
    BY <2>1 DEF HandleAddPendingConn
  <2> QED BY <1>2, <2>2 DEF IsAdd
<1>3. \A p \in Peer, n \in Age : /\ Lasting(p, n) => Lasting(p, n)'
                                 /\ Covered(p, n) => Covered(p, n)'
  BY <1>t, <1>r, <1>1, <1>2, ReceiveKeeps
<1> QED BY <1>t, <1>u, <1>3, FreshFrame
\* Sending anything but additions and removals keeps it too.
LEMMA FreshSend ==
    ASSUME TypeOK, FreshInv, NEW msgs \in Seq(ConnManagerMsg), Send(msgs),
           \A i \in DOMAIN msgs : msgs[i].type # "RemovePendingConn",
           UNCHANGED <<pending_conns, attempts, connected, conn_age>>
    PROVE  FreshInv'
<1>t. mailbox \in Seq(ConnManagerMsg) /\ connected \in SUBSET Peer
  BY DEF TypeOK
<1>1. \A p \in Peer : \A i \in DOMAIN msgs : ~IsRemove(msgs[i], p)
  BY DEF IsRemove
<1>2. \A p \in Peer, n \in Age : /\ Lasting(p, n) => Lasting(p, n)'
                                 /\ Covered(p, n) => Covered(p, n)'
  BY <1>t, <1>1, SendKeeps
<1> QED BY <1>t, <1>2, FreshFrame

\* A step that touches none of the parts keeps it.
LEMMA FreshSame ==
    ASSUME TypeOK, FreshInv, UNCHANGED <<mailbox, pending_conns, attempts, connected, conn_age>>
    PROVE  FreshInv'
<1>t. connected \in SUBSET Peer
  BY DEF TypeOK
<1>1. \A p \in Peer, n \in Age : /\ Lasting(p, n) => Lasting(p, n)'
                                 /\ Covered(p, n) => Covered(p, n)'
  BY DEF Lasting, Covered, Entry, EntryComing, NoRemove, IsAdd, IsRemove
<1> QED BY <1>t, <1>1, FreshFrame

\* The senders outside the monitor.
LEMMA FreshSenders ==
    ASSUME TypeOK, FreshInv,
           \/ \E list \in PeerLists : PostEligiblePeers(list)
           \/ \E n \in Targets : PostTargetPeerCount(n)
           \/ SweeperTick \/ RefillBucket \/ MonitorTick \/ MonitorAcquire \/ MonitorRecheck
    PROVE  FreshInv'
<1> USE DEF mgrVars, nodeVars
<1>1. ASSUME NEW list \in PeerLists, PostEligiblePeers(list) PROVE FreshInv'
  <2> DEFINE msgs == [i \in 1..Len(list) |-> [type |-> "AddEligiblePeer", peer |-> list[i]]]
  <2>1. list \in Seq(Peer)
    BY PCMAssumption
  <2>2. msgs \in Seq(ConnManagerMsg)
    BY <2>1, MsgMake
  <2>3. \A i \in DOMAIN msgs : msgs[i].type # "RemovePendingConn"
    OBVIOUS
  <2>4. Send(msgs) /\ UNCHANGED <<pending_conns, attempts, connected, conn_age>>
    BY <1>1 DEF PostEligiblePeers
  <2> HIDE DEF msgs
  <2> QED BY <2>2, <2>3, <2>4, FreshSend
<1>2. ASSUME NEW n \in Targets, PostTargetPeerCount(n) PROVE FreshInv'
  BY <1>2, FreshSame DEF PostTargetPeerCount
<1>3. CASE SweeperTick \/ MonitorAcquire
  <2>1. PICK type \in {"SweepPendingConnections", "PeekEligiblePeer"} : Send(<<[type |-> type]>>)
    BY <1>3 DEF SweeperTick, MonitorAcquire
  <2>2. <<[type |-> type]>> \in Seq(ConnManagerMsg)
    BY MsgMake
  <2>3. UNCHANGED <<pending_conns, attempts, connected, conn_age>>
    BY <1>3 DEF SweeperTick, MonitorAcquire
  <2>4. \A i \in DOMAIN <<[type |-> type]>> : <<[type |-> type]>>[i].type # "RemovePendingConn"
    OBVIOUS
  <2> QED BY <2>1, <2>2, <2>3, <2>4, FreshSend
<1>4. CASE RefillBucket \/ MonitorTick \/ MonitorRecheck
  BY <1>4, FreshSame DEF RefillBucket, MonitorTick, MonitorRecheck
<1> QED BY <1>1, <1>2, <1>3, <1>4

\* Without overlap, spawning an attempt keeps it.
LEMMA FreshMonitorReply ==
    ASSUME ~Overlap, TypeOK, FreshInv, MonitorReply
    PROVE  FreshInv'
<1> DEFINE msgs == <<[type |-> "RotateEligiblePeers"]>>
<1>t. /\ mailbox \in Seq(ConnManagerMsg) /\ connected \in SUBSET Peer
      /\ attempts \in [AttemptId -> Attempt]
  BY DEF TypeOK
<1>1. msgs \in Seq(ConnManagerMsg)
  BY MsgMake
<1>2. \A p \in Peer : \A i \in DOMAIN msgs : ~IsRemove(msgs[i], p)
  BY DEF IsRemove
<1>3. /\ Send(msgs)
      /\ UNCHANGED <<pending_conns, connected, conn_age>>
  BY DEF MonitorReply, mgrVars, nodeVars
<1> HIDE DEF msgs
<1>4. \A p \in Peer, n \in Age : /\ Lasting(p, n) => Lasting(p, n)'
                                 /\ Covered(p, n) => Covered(p, n)'
  BY <1>t, <1>1, <1>2, <1>3, SendKeeps
<1>5. CASE UNCHANGED attempts
  BY <1>3, <1>4, <1>5, <1>t, FreshFrame
<1>6. ASSUME NEW q, NEW a \in AttemptId \ InFlight,
             \A b \in InFlight : attempts[b].peer # q,
             attempts' = [attempts EXCEPT
                 ![a] = [pc |-> "spawned", peer |-> q, spec |-> 0, age |-> 0]]
      PROVE  FreshInv'
  <2>1. /\ attempts'[a] = [pc |-> "spawned", peer |-> q, spec |-> 0, age |-> 0]
        /\ \A b \in AttemptId \ {a} : attempts'[b] = attempts[b]
    BY <1>6, <1>t
  <2>2. InFlight' = InFlight \cup {a} /\ a \notin InFlight
    BY <1>6, <2>1 DEF InFlight
  <2>3. OneAttempt'
    BY <1>6, <2>1, <2>2 DEF FreshInv, OneAttempt, InFlight
  <2>4. AttemptsCovered'
    BY <1>4, <2>1 DEF FreshInv, AttemptsCovered
  <2>5. ConnectionsCovered'
    BY <1>3, <1>4, <1>t DEF FreshInv, ConnectionsCovered
  <2> QED BY <2>3, <2>4, <2>5 DEF FreshInv
<1> QED BY <1>5, <1>6 DEF MonitorReply
\* The steps of an attempt keep it.
LEMMA FreshAttempt ==
    ASSUME TypeOK, FreshInv, NEW a \in AttemptId, AttemptStep(a)
    PROVE  FreshInv'
<1> USE DEF mgrVars, nodeVars
<1>t. /\ mailbox \in Seq(ConnManagerMsg) /\ connected \in SUBSET Peer
      /\ attempts \in [AttemptId -> Attempt] /\ conn_age \in [Peer -> Age]
  BY DEF TypeOK
<1>0. attempts[a].pc # "idle"
  BY DEF AttemptStep, AttemptStart, AttemptWake, AttemptConnected, AttemptFailed
<1>p. PICK p \in Peer, n \in Age : p = attempts[a].peer /\ n = attempts[a].age
  BY <1>t, <1>0, AttemptFields
<1>o. \A b \in AttemptId : b # a /\ attempts[b].pc # "idle" => attempts[b].peer # p
  BY <1>0, <1>p DEF FreshInv, OneAttempt, InFlight
<1>u. ASSUME UNCHANGED <<mailbox, pending_conns>>
      PROVE  \A q \in Peer, m \in Age : /\ Lasting(q, m) => Lasting(q, m)'
                                        /\ Covered(q, m) => Covered(q, m)'
  BY <1>u DEF Lasting, Covered, Entry, EntryComing, NoRemove, IsAdd, IsRemove
<1>i. IdleAttempt.pc = "idle"
  BY DEF IdleAttempt
<1>1. CASE AttemptStart(a)
  <2> DEFINE specs == PeerSpecifiers(p)
             msgs  == [i \in 1..Len(specs) |->
                          [type |-> "AddPendingConn", peer |-> specs[i], age |-> 0]]
  <2>1. /\ specs \in Seq(Specifier) /\ Len(specs) \in Nat \ {0}
        /\ \A i \in 1..Len(specs) : specs[i] \in Specifier /\ specs[i][1] = p
        /\ 0 \in Age
    BY SpecifiersType, PCMAssumption DEF Age
  <2> HIDE DEF specs
  <2>2. msgs \in Seq(ConnManagerMsg) /\ msgs # << >> /\ DOMAIN msgs = 1..Len(specs)
    BY <2>1, MsgMake
  <2>3. \A i \in DOMAIN msgs : IsAdd(msgs[i], p) /\ msgs[i].age = 0
    BY <2>1, <2>2 DEF IsAdd
  <2>4. Send(msgs) /\ UNCHANGED <<pending_conns, connected, conn_age>>
    BY <1>1, <1>p DEF AttemptStart, specs
  <2>5. 0 <= n
    BY PCMAssumption DEF Age
  <2> HIDE DEF msgs
  <2>6. \A q \in Peer : \A i \in DOMAIN msgs : ~IsRemove(msgs[i], q)
    BY <2>3 DEF IsAdd, IsRemove
  <2>7. \A q \in Peer, m \in Age : /\ Lasting(q, m) => Lasting(q, m)'
                                   /\ Covered(q, m) => Covered(q, m)'
    BY <1>t, <2>2, <2>4, <2>6, SendKeeps
  <2>8. Covered(p, n)'
    BY <1>t, <2>2, <2>3, <2>4, <2>5, SendCovers
  <2>9. /\ attempts'[a].pc = "sleep" /\ attempts'[a].peer = p /\ attempts'[a].age = n
        /\ \A b \in AttemptId \ {a} : attempts'[b] = attempts[b]
    <3>1. attempts' = [attempts EXCEPT ![a] = [attempts[a] EXCEPT !.pc = "sleep"]]
      BY <1>1 DEF AttemptStart
    <3>2. attempts[a] \in [pc : {"spawned", "sleep", "connect"}, peer : Peer, spec : Nat, age : Age]
      BY <1>t, <1>0 DEF Attempt
    <3> QED BY <1>t, <1>p, <3>1, <3>2
  <2>10. OneAttempt'
    BY <1>o, <2>9 DEF FreshInv, OneAttempt, InFlight
  <2>11. AttemptsCovered'
    BY <2>7, <2>8, <2>9 DEF FreshInv, AttemptsCovered
  <2>12. ConnectionsCovered'
    BY <1>t, <2>4, <2>7 DEF FreshInv, ConnectionsCovered
  <2> QED BY <2>10, <2>11, <2>12 DEF FreshInv
<1>2. CASE AttemptWake(a)
  <2>1. Covered(p, n) /\ SleepElapsed(a)
    BY <1>2, <1>p DEF AttemptWake, FreshInv, AttemptsCovered
  <2>2. ~EntryComing(p, n)
    BY <1>p, <2>1 DEF SleepElapsed, EntryComing, IsAdd
  <2>3. Lasting(p, n)
    BY <2>1, <2>2 DEF Covered
  <2>4. UNCHANGED <<mailbox, pending_conns, connected, conn_age>>
    BY <1>2 DEF AttemptWake
  <2>5. /\ attempts'[a].pc = "connect" /\ attempts'[a].peer = p /\ attempts'[a].age = n
        /\ \A b \in AttemptId \ {a} : attempts'[b] = attempts[b]
    <3>1. attempts' = [attempts EXCEPT ![a] = [attempts[a] EXCEPT !.pc = "connect", !.spec = 1]]
      BY <1>2 DEF AttemptWake
    <3>2. attempts[a] \in [pc : {"spawned", "sleep", "connect"}, peer : Peer, spec : Nat, age : Age]
      BY <1>t, <1>0 DEF Attempt
    <3> QED BY <1>t, <1>p, <3>1, <3>2
  <2>6. OneAttempt'
    BY <1>o, <2>5 DEF FreshInv, OneAttempt, InFlight
  <2>7. AttemptsCovered'
    BY <1>u, <2>3, <2>4, <2>5 DEF FreshInv, AttemptsCovered
  <2>8. ConnectionsCovered'
    BY <1>t, <1>u, <2>4 DEF FreshInv, ConnectionsCovered
  <2> QED BY <2>6, <2>7, <2>8 DEF FreshInv
<1>3. CASE AttemptConnected(a)
  <2>1. Lasting(p, n)
    BY <1>3, <1>p DEF AttemptConnected, FreshInv, AttemptsCovered
  <2>2. UNCHANGED <<mailbox, pending_conns>>
    BY <1>3 DEF AttemptConnected
  <2>3. /\ attempts'[a].pc = "idle"
        /\ \A b \in AttemptId \ {a} : attempts'[b] = attempts[b]
    BY <1>3, <1>t, <1>i DEF AttemptConnected
  <2>4. /\ connected' = connected \cup {p}
        /\ \A q \in connected : conn_age'[q] = conn_age[q]
        /\ p \notin connected => conn_age'[p] = n
    BY <1>3, <1>p, <1>t DEF AttemptConnected
  <2>5. OneAttempt'
    BY <2>3 DEF FreshInv, OneAttempt, InFlight
  <2>6. AttemptsCovered'
    BY <1>u, <2>2, <2>3 DEF FreshInv, AttemptsCovered
  <2>7. ConnectionsCovered'
    BY <1>t, <1>u, <2>1, <2>2, <2>4 DEF FreshInv, ConnectionsCovered
  <2> QED BY <2>5, <2>6, <2>7 DEF FreshInv
<1>4. CASE AttemptFailed(a)
  <2> DEFINE specs == PeerSpecifiers(p)
             msgs  == [i \in 1..Len(specs) |->
                          [type |-> "RemovePendingConn", peer |-> specs[i]]]
  <2>1. /\ specs \in Seq(Specifier)
        /\ \A i \in 1..Len(specs) : specs[i] \in Specifier /\ specs[i][1] = p
    BY SpecifiersType
  <2>2. p \notin connected /\ UNCHANGED <<pending_conns, connected, conn_age>>
    BY <1>4, <1>p DEF AttemptFailed
  <2>3. ASSUME Send(msgs), attempts' = [attempts EXCEPT ![a] = IdleAttempt] PROVE FreshInv'
    <3> HIDE DEF specs
    <3>1. msgs \in Seq(ConnManagerMsg) /\ DOMAIN msgs = 1..Len(specs)
      BY <2>1, MsgMake
    <3>2. \A q \in Peer \ {p} : \A i \in DOMAIN msgs : ~IsRemove(msgs[i], q)
      BY <2>1, <3>1 DEF IsRemove
    <3> HIDE DEF msgs
    <3>3. \A q \in Peer \ {p}, m \in Age : /\ Lasting(q, m) => Lasting(q, m)'
                                           /\ Covered(q, m) => Covered(q, m)'
      BY <1>t, <2>2, <2>3, <3>1, <3>2, SendKeeps
    <3>4. /\ attempts'[a].pc = "idle"
          /\ \A b \in AttemptId \ {a} : attempts'[b] = attempts[b]
      BY <1>t, <1>i, <2>3
    <3>5. OneAttempt'
      BY <3>4 DEF FreshInv, OneAttempt, InFlight
    <3>6. AttemptsCovered'
      BY <1>o, <3>3, <3>4 DEF FreshInv, AttemptsCovered
    <3>7. ConnectionsCovered'
      BY <1>t, <2>2, <3>3 DEF FreshInv, ConnectionsCovered
    <3> QED BY <3>5, <3>6, <3>7 DEF FreshInv
  <2>4. ASSUME UNCHANGED mailbox, attempts' = [attempts EXCEPT ![a].spec = @ + 1] PROVE FreshInv'
    <3>1. /\ attempts'[a].pc = attempts[a].pc /\ attempts'[a].peer = p /\ attempts'[a].age = n
          /\ \A b \in AttemptId \ {a} : attempts'[b] = attempts[b]
      <4>1. attempts' = [attempts EXCEPT ![a] = [attempts[a] EXCEPT !.spec = attempts[a].spec + 1]]
        BY <2>4, <1>t
      <4>2. attempts[a] \in [pc : {"spawned", "sleep", "connect"}, peer : Peer, spec : Nat,
                             age : Age]
        BY <1>t, <1>0 DEF Attempt
      <4> QED BY <1>t, <1>p, <4>1, <4>2
    <3>2. OneAttempt'
      BY <1>o, <3>1 DEF FreshInv, OneAttempt, InFlight
    <3>3. AttemptsCovered'
      BY <1>u, <1>p, <2>2, <2>4, <3>1 DEF FreshInv, AttemptsCovered
    <3>4. ConnectionsCovered'
      BY <1>t, <1>u, <2>2, <2>4 DEF FreshInv, ConnectionsCovered
    <3> QED BY <3>2, <3>3, <3>4 DEF FreshInv
  <2> QED BY <1>4, <1>p, <2>3, <2>4 DEF AttemptFailed
<1> QED BY <1>1, <1>2, <1>3, <1>4 DEF AttemptStep

\* The passage of time ages an entry with whatever it covers.
LEMMA TickKeeps ==
    ASSUME TypeOK, Tick, NEW p \in Peer, NEW n \in Age, NEW m \in Age, m = Older(n)
    PROVE  /\ Lasting(p, n) => Lasting(p, m)'
           /\ Covered(p, n) => Covered(p, m)'
<1> DEFINE box == mailbox'
           AgedMsg(msg) == IF msg.type = "AddPendingConn"
                           THEN [msg EXCEPT !.age = Older(@)] ELSE msg
           Aged(c) == [c EXCEPT !.age = Older(@)]
<1>t. mailbox \in Seq(ConnManagerMsg) /\ pending_conns \in SUBSET PendingConnection
  BY DEF TypeOK
<1>a. StartupDelay \in Nat /\ (\A k \in Age : k \in Nat)
  BY PCMAssumption DEF Age
<1>o. \A k \in Age : k <= n => Older(k) <= m
  BY <1>a DEF Older
<1>1. DOMAIN box = DOMAIN mailbox /\ \A i \in DOMAIN mailbox : box[i] = AgedMsg(mailbox[i])
  BY DEF Tick
<1>2. \A i \in DOMAIN mailbox :
          /\ IsRemove(box[i], p) => IsRemove(mailbox[i], p)
          /\ IsAdd(mailbox[i], p) /\ mailbox[i].age <= n => IsAdd(box[i], p) /\ box[i].age <= m
  <2> TAKE i \in DOMAIN mailbox
  <2>1. mailbox[i] \in ConnManagerMsg
    BY <1>t
  <2>2. CASE mailbox[i].type = "AddPendingConn"
    <3>1. mailbox[i] \in [type : {"AddPendingConn"}, peer : Specifier, age : Age]
      BY <2>1, <2>2 DEF ConnManagerMsg
    <3>2. box[i] = [mailbox[i] EXCEPT !.age = Older(mailbox[i].age)]
      BY <1>1, <2>2
    <3>3. /\ box[i].type = "AddPendingConn" /\ box[i].peer = mailbox[i].peer
          /\ box[i].age = Older(mailbox[i].age) /\ mailbox[i].age \in Age
      BY <3>1, <3>2
    <3> QED BY <3>3, <1>o DEF IsAdd, IsRemove
  <2>3. CASE mailbox[i].type # "AddPendingConn"
    BY <1>1, <2>3 DEF IsAdd, IsRemove
  <2> QED BY <2>2, <2>3
<1>3. ASSUME Lasting(p, n) PROVE Lasting(p, m)'
  <2>1. NoRemove(p)'
    BY <1>1, <1>2, <1>3 DEF Lasting, NoRemove, IsRemove
  <2>2. Entry(p, m)'
    <3> SUFFICES ASSUME m < StartupDelay
                 PROVE  \E c \in pending_conns' : c.peer[1] = p /\ c.age <= m
      BY DEF Entry
    <3>1. n < StartupDelay
      BY <1>a DEF Older
    <3>2. PICK c \in pending_conns : c.peer[1] = p /\ c.age <= n
      BY <1>3, <3>1 DEF Lasting, Entry
    <3>3. Aged(c) \in pending_conns'
      BY DEF Tick
    <3>4. Aged(c).peer = c.peer /\ Aged(c).age = Older(c.age) /\ c.age \in Age
      BY <1>t DEF PendingConnection
    <3> HIDE DEF Aged
    <3> QED BY <1>o, <3>2, <3>3, <3>4
  <2> QED BY <2>1, <2>2 DEF Lasting
<1>4. ASSUME EntryComing(p, n) PROVE EntryComing(p, m)'
  <2>1. PICK i \in DOMAIN mailbox :
            /\ IsAdd(mailbox[i], p) /\ mailbox[i].age <= n
            /\ \A j \in DOMAIN mailbox : IsRemove(mailbox[j], p) => j < i
    BY <1>4 DEF EntryComing
  <2>2. i \in DOMAIN box /\ IsAdd(box[i], p) /\ box[i].age <= m
    BY <1>1, <1>2, <2>1
  <2>3. \A j \in DOMAIN box : IsRemove(box[j], p) => j < i
    BY <1>1, <1>2, <2>1
  <2> QED BY <2>2, <2>3 DEF EntryComing, IsAdd, IsRemove
<1> QED BY <1>3, <1>4 DEF Covered

\* Disconnections and the passage of time keep the invariant.
LEMMA FreshEnvironment ==
    ASSUME TypeOK, FreshInv, (\E p \in Peer : Disconnect(p)) \/ Tick
    PROVE  FreshInv'
<1>t. /\ connected \in SUBSET Peer /\ conn_age \in [Peer -> Age]
      /\ attempts \in [AttemptId -> Attempt]
  BY DEF TypeOK
<1>1. ASSUME NEW q \in Peer, Disconnect(q) PROVE FreshInv'
  <2>1. \A p \in Peer, n \in Age : /\ Lasting(p, n) => Lasting(p, n)'
                                   /\ Covered(p, n) => Covered(p, n)'
    BY <1>1 DEF Disconnect, mgrVars, Lasting, Covered, Entry, EntryComing, NoRemove, IsAdd,
                IsRemove
  <2>2. /\ UNCHANGED attempts /\ connected' = connected \ {q}
        /\ \A p \in connected' : p \in connected /\ conn_age'[p] = conn_age[p]
    BY <1>1, <1>t DEF Disconnect
  <2>3. OneAttempt'
    BY <2>2 DEF FreshInv, OneAttempt, InFlight
  <2>4. AttemptsCovered'
    BY <2>1, <2>2 DEF FreshInv, AttemptsCovered
  <2>5. ConnectionsCovered'
    BY <1>t, <2>1, <2>2 DEF FreshInv, ConnectionsCovered
  <2> QED BY <2>3, <2>4, <2>5 DEF FreshInv
<1>2. CASE Tick
  <2>1. \A p \in Peer, n, m \in Age :
            m = Older(n) => /\ Lasting(p, n) => Lasting(p, m)'
                            /\ Covered(p, n) => Covered(p, m)'
    BY <1>2, TickKeeps
  <2>2. \A a \in AttemptId :
            /\ attempts'[a].pc = attempts[a].pc /\ attempts'[a].peer = attempts[a].peer
            /\ attempts[a].pc \in {"sleep", "connect"} =>
                   /\ attempts[a].peer \in Peer /\ attempts[a].age \in Age
                   /\ attempts'[a].age = Older(attempts[a].age)
    <3> TAKE a \in AttemptId
    <3>1. CASE attempts[a].pc \in {"sleep", "connect"}
      <4>1. attempts[a] \in [pc : {"spawned", "sleep", "connect"}, peer : Peer, spec : Nat,
                             age : Age]
        BY <1>t, <3>1 DEF Attempt
      <4>2. attempts'[a] = [attempts[a] EXCEPT !.age = Older(attempts[a].age)]
        BY <1>2, <3>1 DEF Tick
      <4> QED BY <4>1, <4>2
    <3>2. CASE attempts[a].pc \notin {"sleep", "connect"}
      BY <1>2, <3>2 DEF Tick
    <3> QED BY <3>1, <3>2
  <2>3. OneAttempt'
    BY <2>2 DEF FreshInv, OneAttempt, InFlight
  <2>4. AttemptsCovered'
    <3> SUFFICES ASSUME NEW a \in AttemptId, NEW p \in Peer, NEW m \in Age,
                        attempts'[a].peer = p, attempts'[a].age = m
                 PROVE  /\ attempts'[a].pc = "sleep" => Covered(p, m)'
                        /\ attempts'[a].pc = "connect" => Lasting(p, m)'
      BY DEF AttemptsCovered
    <3>1. ASSUME attempts'[a].pc \in {"sleep", "connect"}
          PROVE  \E n \in Age : /\ m = Older(n) /\ attempts[a].age = n
                                /\ attempts[a].peer = p /\ attempts[a].pc = attempts'[a].pc
      BY <2>2, <3>1
    <3> QED BY <2>1, <3>1 DEF FreshInv, AttemptsCovered
  <2>5. ConnectionsCovered'
    <3> SUFFICES ASSUME NEW p \in connected', NEW m \in Age, conn_age'[p] = m
                 PROVE  Lasting(p, m)'
      BY DEF ConnectionsCovered
    <3>1. p \in connected /\ p \in Peer /\ m = Older(conn_age[p]) /\ conn_age[p] \in Age
      BY <1>2, <1>t DEF Tick
    <3>2. PICK q \in Peer, n \in Age : q = p /\ n = conn_age[p]
      BY <3>1
    <3>3. Lasting(q, n)
      BY <3>1, <3>2 DEF FreshInv, ConnectionsCovered
    <3>4. Lasting(q, m)'
      BY <2>1, <3>1, <3>2, <3>3
    <3> QED BY <3>2, <3>4 DEF Lasting, Entry, NoRemove, IsRemove
  <2> QED BY <2>3, <2>4, <2>5 DEF FreshInv
<1> QED BY <1>1, <1>2

\* Without overlap the invariant is inductive.
LEMMA FreshNext ==
    ASSUME ~Overlap, TypeOK, FreshInv, [PCMNext]_pcmVars
    PROVE  FreshInv'
<1>1. CASE UNCHANGED pcmVars
  BY <1>1, FreshSame DEF pcmVars, mgrVars, nodeVars
<1>2. ASSUME NEW a \in AttemptId, AttemptStep(a) PROVE FreshInv'
  BY <1>2, FreshAttempt
<1> QED BY <1>1, <1>2, FreshHandleMsg, FreshSenders, FreshMonitorReply, FreshEnvironment
        DEF PCMNext

\* A connection younger than the delay is covered by a pending entry.
LEMMA FreshImplies ==
    TypeOK /\ FreshInv /\ FilterMirrorsPending => FreshConnectionsFiltered
<1> SUFFICES ASSUME TypeOK, FreshInv, FilterMirrorsPending,
                    NEW p \in connected, conn_age[p] < StartupDelay
             PROVE  p \in pending_notifier.value
  BY DEF FreshConnectionsFiltered
<1>1. PICK q \in Peer, n \in Age : q = p /\ n = conn_age[p]
  BY DEF TypeOK
<1>2. Lasting(q, n)
  BY <1>1 DEF FreshInv, ConnectionsCovered
<1>3. PICK c \in pending_conns : c.peer[1] = q
  BY <1>1, <1>2 DEF Lasting, Entry
<1> QED BY <1>1, <1>3 DEF FilterMirrorsPending, build_pending_filter

\* Where the rotation does not return to a peer with an attempt in flight, a
\* connected peer whose attempt is younger than the delay is named by the published filter
\* in every reachable state, for any peers, addresses, delay and rates, and whichever
\* connect() calls fail. (With overlap it is not: the removals of a failed attempt take a later one's entries.)
THEOREM FreshFiltered ==
    ASSUME ~Overlap PROVE PCMSpec => []FreshConnectionsFiltered
<1>1. PCMInit => FreshInv
  BY DEF PCMInit, FreshInv, OneAttempt, InFlight, AttemptsCovered, ConnectionsCovered,
         IdleAttempt
<1>2. TypeOK /\ FreshInv /\ [PCMNext]_pcmVars => FreshInv'
  BY FreshNext
<1>3. PCMSpec => []FreshInv
  BY <1>1, <1>2, TypeCorrect, PTL DEF PCMSpec
<1> QED BY <1>3, FreshImplies, TypeCorrect, FilterCorrect, PTL
=============================================================================
