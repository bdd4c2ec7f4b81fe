-------------------------- MODULE Archiver_proofs --------------------------
(***************************************************************************)
(* Proofs about the archiver: types and the bound on the timings buffer,   *)
(* that no delivery of a batch becomes two rows, and that nothing that was *)
(* delivered is lost while the archiver runs undisturbed.                  *)
(*                                                                         *)
(* The last two count: the copies of an observation on their way to a      *)
(* table are counted place by place, every step moves copies from one      *)
(* place to the next, and only a cancelled token or a crash drops some.    *)
(***************************************************************************)
EXTENDS Archiver, FiniteSetTheorems, SequenceTheorems, TLAPS

-----------------------------------------------------------------------------
(* Counting the elements of a sequence that are in a set *)

Places(s, S) == {i \in DOMAIN s : s[i] \in S}
CountIn(s, S) == Cardinality(Places(s, S))

\* The places of a sequence are finitely many.
LEMMA CountType ==
    ASSUME NEW T, NEW s \in Seq(T), NEW S
    PROVE  IsFiniteSet(Places(s, S)) /\ CountIn(s, S) \in Nat
<1>1. Len(s) \in Nat /\ DOMAIN s = 1..Len(s)
  OBVIOUS
<1>2. IsFiniteSet(1..Len(s))
  BY <1>1, FS_Interval
<1>3. Places(s, S) \in SUBSET (1..Len(s))
  BY <1>1 DEF Places
<1>4. IsFiniteSet(Places(s, S))
  BY <1>2, <1>3, FS_Subset
<1> QED BY <1>4, FS_CardinalityType DEF CountIn

\* Something is counted exactly if it is there.
LEMMA CountPositive ==
    ASSUME NEW T, NEW s \in Seq(T), NEW S
    PROVE  CountIn(s, S) > 0 <=> \E i \in DOMAIN s : s[i] \in S
<1>1. CountIn(s, S) = 0 <=> Places(s, S) = {}
  BY CountType, FS_EmptySet DEF CountIn
<1>2. Places(s, S) = {} <=> ~\E i \in DOMAIN s : s[i] \in S
  BY DEF Places
<1> QED BY <1>1, <1>2, CountType

LEMMA CountEmpty == \A S : CountIn(<< >>, S) = 0
<1> TAKE S
<1>1. Places(<< >>, S) = {}
  BY DEF Places
<1> QED BY <1>1, FS_EmptySet DEF CountIn

\* The counts of two sequences add up in their concatenation.
LEMMA CountConcat ==
    ASSUME NEW T, NEW a \in Seq(T), NEW b \in Seq(T), NEW S
    PROVE  CountIn(a \o b, S) = CountIn(a, S) + CountIn(b, S)
<1> DEFINE A == Places(a, S)
           B == Places(b, S)
           C == {Len(a) + i : i \in B}
<1>1. /\ Len(a) \in Nat /\ Len(b) \in Nat
      /\ DOMAIN a = 1..Len(a) /\ DOMAIN b = 1..Len(b)
      /\ DOMAIN (a \o b) = 1..(Len(a) + Len(b))
      /\ \A i \in 1..Len(a) : (a \o b)[i] = a[i]
      /\ \A i \in 1..Len(b) : (a \o b)[Len(a) + i] = b[i]
  OBVIOUS
<1>2. B \subseteq 1..Len(b) /\ A \subseteq 1..Len(a)
  BY <1>1 DEF Places
<1>3. ExistsBijection(B, C)
  <2> DEFINE f == [i \in B |-> Len(a) + i]
  <2>1. f \in [B -> C] /\ \A c \in C : \E i \in B : f[i] = c
    OBVIOUS
  <2>2. \A i, j \in B : f[i] = f[j] => i = j
    BY <1>1, <1>2
  <2> QED BY <2>1, <2>2 DEF ExistsBijection, Bijection, Injection, Surjection, IsInjective
<1>4. IsFiniteSet(C) /\ Cardinality(C) = Cardinality(B)
  BY <1>3, CountType, FS_Bijection
<1>5. Places(a \o b, S) = A \cup C
  <2>1. ASSUME NEW i \in Places(a \o b, S) PROVE i \in A \cup C
    <3>1. i \in 1..(Len(a) + Len(b)) /\ (a \o b)[i] \in S
      BY <1>1 DEF Places
    <3>2. CASE i <= Len(a)
      BY <1>1, <3>1, <3>2 DEF Places
    <3>3. CASE i > Len(a)
      <4>1. i - Len(a) \in 1..Len(b) /\ i = Len(a) + (i - Len(a))
        BY <1>1, <3>1, <3>3
      <4>2. i - Len(a) \in B
        BY <1>1, <3>1, <4>1 DEF Places
      <4> QED BY <4>1, <4>2
    <3> QED BY <1>1, <3>1, <3>2, <3>3
  <2>2. ASSUME NEW i \in A PROVE i \in Places(a \o b, S)
    BY <1>1 DEF Places
  <2>3. ASSUME NEW i \in B PROVE Len(a) + i \in Places(a \o b, S)
    BY <1>1 DEF Places
  <2> QED BY <2>1, <2>2, <2>3
<1>6. A \cap C = {}
  BY <1>1, <1>2
<1>7. Cardinality(A \cup C) = Cardinality(A) + Cardinality(C) - Cardinality(A \cap C)
  BY <1>4, CountType, FS_Union
<1>8. Cardinality(A) \in Nat /\ Cardinality(B) \in Nat
  BY CountType DEF CountIn
<1>9. Cardinality(A \cap C) = 0
  BY <1>6, FS_EmptySet
<1>10. CountIn(a \o b, S) = Cardinality(A \cup C) /\ CountIn(a, S) = Cardinality(A)
       /\ CountIn(b, S) = Cardinality(B)
  BY <1>5 DEF CountIn
<1> HIDE DEF A, B, C
<1> QED BY <1>4, <1>7, <1>8, <1>9, <1>10

LEMMA CountOne ==
    \A x, S : CountIn(<<x>>, S) = IF x \in S THEN 1 ELSE 0
<1> TAKE x, S
<1>1. CASE x \in S
  <2>1. Places(<<x>>, S) = {1}
    BY <1>1 DEF Places
  <2> QED BY <1>1, <2>1, FS_Singleton DEF CountIn
<1>2. CASE x \notin S
  <2>1. Places(<<x>>, S) = {}
    BY <1>2 DEF Places
  <2> QED BY <1>2, <2>1, FS_EmptySet DEF CountIn
<1> QED BY <1>1, <1>2

LEMMA CountAppend ==
    ASSUME NEW T, NEW s \in Seq(T), NEW x \in T, NEW S
    PROVE  CountIn(Append(s, x), S) = CountIn(s, S) + IF x \in S THEN 1 ELSE 0
<1>1. Append(s, x) = s \o <<x>> /\ <<x>> \in Seq(T)
  OBVIOUS
<1>2. CountIn(s \o <<x>>, S) = CountIn(s, S) + CountIn(<<x>>, S)
  BY <1>1, CountConcat
<1>3. CountIn(<<x>>, S) = IF x \in S THEN 1 ELSE 0
  BY CountOne
<1> QED BY <1>1, <1>2, <1>3

LEMMA CountTail ==
    ASSUME NEW T, NEW s \in Seq(T), s # << >>, NEW S
    PROVE  /\ Head(s) \in T /\ Tail(s) \in Seq(T)
           /\ CountIn(s, S) = CountIn(Tail(s), S) + IF Head(s) \in S THEN 1 ELSE 0
<1>1. Head(s) \in T /\ Tail(s) \in Seq(T) /\ <<Head(s)>> \in Seq(T)
  OBVIOUS
<1>2. s = <<Head(s)>> \o Tail(s)
  OBVIOUS
<1>3. CountIn(<<Head(s)>> \o Tail(s), S) = CountIn(<<Head(s)>>, S) + CountIn(Tail(s), S)
  BY <1>1, CountConcat
<1>4. CountIn(Tail(s), S) \in Nat
  BY <1>1, CountType
<1>5. CountIn(<<Head(s)>>, S) = IF Head(s) \in S THEN 1 ELSE 0
  BY CountOne
<1>6. CountIn(s, S) = CountIn(<<Head(s)>>, S) + CountIn(Tail(s), S)
  BY <1>2, <1>3
<1> QED BY <1>1, <1>4, <1>5, <1>6

-----------------------------------------------------------------------------
(* The observations of a batch *)

LEMMA LeastElement ==
    ASSUME NEW S, S \subseteq Nat, S # {}
    PROVE  \E m \in S : \A j \in S : m <= j
<1> DEFINE R == OpToRel(<, Nat)
<1>1. \A i, j \in Nat : <<i, j>> \in R <=> i < j
  BY DEF OpToRel
<1>2. IsWellFoundedOn(R, Nat)
  BY NatLessThanWellFounded
<1> HIDE DEF R
<1>3. \E m \in S : \A j \in S : ~(<<j, m>> \in R)
  BY <1>2, WFMin
<1>4. PICK m \in S : \A j \in S : ~(<<j, m>> \in R)
  BY <1>3
<1>5. \A j \in S : ~(j < m)
  BY <1>1, <1>4
<1> QED BY <1>5

\* The first k elements count no more than all of them.
LEMMA CountPrefix ==
    ASSUME NEW T, NEW s \in Seq(T), NEW k \in 0..Len(s), NEW S
    PROVE  SubSeq(s, 1, k) \in Seq(T) /\ CountIn(SubSeq(s, 1, k), S) <= CountIn(s, S)
<1>1. Len(s) \in Nat /\ DOMAIN s = 1..Len(s) /\ \A i \in 1..Len(s) : s[i] \in T
  OBVIOUS
<1>2. /\ SubSeq(s, 1, k) \in Seq(T) /\ DOMAIN SubSeq(s, 1, k) = 1..k
      /\ \A i \in 1..k : SubSeq(s, 1, k)[i] = s[i]
  BY <1>1
<1>3. Places(SubSeq(s, 1, k), S) \in SUBSET Places(s, S)
  BY <1>1, <1>2 DEF Places
<1>4. IsFiniteSet(Places(s, S))
  BY CountType
<1> QED BY <1>2, <1>3, <1>4, FS_Subset DEF CountIn

\* The batch an observation is in, and that it is there once.
Carriers(o) == {b \in BatchId : o \in Range(Batch[b])}
BatchOf(o) == CHOOSE b \in BatchId : o \in Range(Batch[b])

LEMMA BatchType ==
    /\ BatchId = 1..Len(Batch) /\ Len(Batch) \in Nat
    /\ \A b \in BatchId : Batch[b] \in Seq(Observation)
  BY ArchiverAssumption DEF BatchId

LEMMA OneCarrier ==
    ASSUME NEW o \in Observation
    PROVE  BatchOf(o) \in BatchId /\ Carriers(o) = {BatchOf(o)}
<1>1. BatchOf(o) \in BatchId /\ o \in Range(Batch[BatchOf(o)])
  BY SightingAssumption DEF BatchOf
<1>2. ASSUME NEW b \in Carriers(o) PROVE b = BatchOf(o)
  <2>1. b \in BatchId /\ o \in Range(Batch[b])
    BY DEF Carriers
  <2>2. PICK i \in DOMAIN Batch[b] : Batch[b][i] = o
    BY <2>1 DEF Range
  <2>3. PICK j \in DOMAIN Batch[BatchOf(o)] : Batch[BatchOf(o)][j] = o
    BY <1>1 DEF Range
  <2> QED BY <1>1, <2>1, <2>2, <2>3, SightingAssumption
<1>3. BatchOf(o) \in Carriers(o)
  BY <1>1 DEF Carriers
<1> QED BY <1>1, <1>2, <1>3

LEMMA OnceInItsBatch ==
    ASSUME NEW o \in Observation, NEW b \in BatchId
    PROVE  CountIn(Batch[b], {o}) = IF b \in Carriers(o) THEN 1 ELSE 0
<1>1. CASE b \in Carriers(o)
  <2>1. PICK i \in DOMAIN Batch[b] : Batch[b][i] = o
    BY <1>1 DEF Carriers, Range
  <2>2. Places(Batch[b], {o}) = {i}
    BY <2>1, SightingAssumption DEF Places
  <2> QED BY <1>1, <2>2, FS_Singleton DEF CountIn
<1>2. CASE b \notin Carriers(o)
  <2>1. Places(Batch[b], {o}) = {}
    BY <1>2 DEF Places, Carriers, Range
  <2> QED BY <1>2, <2>1, FS_EmptySet DEF CountIn
<1> QED BY <1>1, <1>2

\* What the decoder passes on of a batch: each observation of it at most once.
LEMMA GoodPrefixType ==
    ASSUME NEW b \in BatchId
    PROVE  /\ GoodPrefix(b) \in Seq(Observation)
           /\ \A o \in Observation :
                 CountIn(GoodPrefix(b), {o}) <= IF b \in Carriers(o) THEN 1 ELSE 0
<1> DEFINE s == Batch[b]
           bad == {i \in DOMAIN s : s[i] \in Undecodable}
<1>1. s \in Seq(Observation) /\ DOMAIN s = 1..Len(s) /\ Len(s) \in Nat
  BY BatchType
<1>2. CASE bad = {}
  <2>1. GoodPrefix(b) = s
    BY <1>2 DEF GoodPrefix
  <2>2. ASSUME NEW o \in Observation
        PROVE  CountIn(GoodPrefix(b), {o}) <= IF b \in Carriers(o) THEN 1 ELSE 0
    <3>1. CountIn(s, {o}) = IF b \in Carriers(o) THEN 1 ELSE 0
      BY OnceInItsBatch
    <3> HIDE DEF s
    <3> QED BY <2>1, <3>1
  <2> QED BY <1>1, <2>1, <2>2
<1>3. CASE bad # {}
  <2> DEFINE m == CHOOSE i \in bad : \A j \in bad : i <= j
  <2>1. bad \subseteq Nat
    BY <1>1
  <2>2. m \in bad
    BY <1>3, <2>1, LeastElement
  <2>3. m \in 1..Len(s)
    BY <1>1, <2>2
  <2>4. GoodPrefix(b) = SubSeq(s, 1, m - 1)
    BY <1>3 DEF GoodPrefix
  <2> HIDE DEF m, s
  <2>5. m - 1 \in 0..Len(s)
    BY <1>1, <2>3
  <2>6. /\ SubSeq(s, 1, m - 1) \in Seq(Observation)
        /\ \A o \in Observation : CountIn(SubSeq(s, 1, m - 1), {o}) <= CountIn(s, {o})
    BY <1>1, <2>5, CountPrefix
  <2>7. \A o \in Observation : CountIn(s, {o}) = IF b \in Carriers(o) THEN 1 ELSE 0
    BY OnceInItsBatch DEF s
  <2> QED BY <2>4, <2>6, <2>7
<1> QED BY <1>2, <1>3

-----------------------------------------------------------------------------
(* Types and the timings buffer *)

\* Between a full batch and its flush the ticker holds one message, else none.
HeldWhileFull ==
    IF ticker.pc = "full" THEN \E o \in Observation : ticker.held = <<o>>
    ELSE ticker.held = << >>

\* A task that has ended has cancelled the token, or ended because of it.
EndedIsCancelled ==
    reader.pc \in Done \/ decoder \in Done \/ ticker.pc \in Done \/ writer \in Done => cancel

\* Only a running db_batch_write has rows to insert.
InsertingWhileWriting == writer # "write" => inserting = Empty

ArcIInv ==
    TypeOK /\ TimingsBufferBounded /\ HeldWhileFull /\ EndedIsCancelled /\ InsertingWhileWriting

LEMMA EmptyType ==
    /\ Empty \in [Tables -> Seq(Observation)]
    /\ \A t \in Tables : Empty[t] = << >>
    /\ Len(Empty["timings"]) = 0
  BY DEF Empty, Tables

LEMMA Deliverables ==
    ASSUME TypeOK, restarts' = restarts + 1, NEW b \in BatchId
    PROVE  /\ Deliverable(b) \in Nat /\ Deliverable(b)' \in Nat
           /\ Deliverable(b) <= Deliverable(b)'
<1>1. MaxDeliveries[b] \in Nat /\ PerRestart \in Nat /\ restarts \in Nat
  BY ArchiverAssumption DEF TypeOK
<1>2. \A m, n \in Nat : m * n \in Nat /\ m * (n + 1) = m * n + m
  OBVIOUS
<1>3. PerRestart * restarts \in Nat /\ PerRestart * (restarts + 1) = PerRestart * restarts + PerRestart
  BY <1>1, <1>2
<1> QED BY <1>1, <1>3 DEF Deliverable

\* What an INSERT leaves in the database has the types of the tables.
LEMMA CommitType ==
    ASSUME TypeOK, NEW T, Commit(T)
    PROVE  /\ rows' \in [Tables \ {"timings"} -> SUBSET {Hash[o] : o \in Observation}]
           /\ timings' \in [Observation -> Nat]
           /\ \A o \in Observation :
                 timings'[o] = timings[o] + IF "timings" \in T
                                            THEN CountIn(inserting["timings"], {o}) ELSE 0
<1>1. \A t \in Tables : inserting[t] \in Seq(Observation)
  BY DEF TypeOK
<1>2. "timings" \in Tables
  BY DEF Tables
<1>3. \A t \in Tables : Range(inserting[t]) \subseteq Observation
  BY <1>1 DEF Range
<1>4. rows' \in [Tables \ {"timings"} -> SUBSET {Hash[o] : o \in Observation}]
  BY <1>3 DEF Commit, TypeOK
<1>5. ASSUME NEW o \in Observation
      PROVE  /\ timings'[o] \in Nat
             /\ timings'[o] = timings[o] + IF "timings" \in T
                                            THEN CountIn(inserting["timings"], {o}) ELSE 0
  <2>1. CountIn(inserting["timings"], {o}) \in Nat
    BY <1>1, <1>2, CountType
  <2>2. Places(inserting["timings"], {o})
          = {i \in DOMAIN inserting["timings"] : inserting["timings"][i] = o}
    BY DEF Places
  <2>3. timings[o] \in Nat
    BY DEF TypeOK
  <2>4. timings'[o] = IF "timings" \in T
                      THEN timings[o] + Cardinality({i \in DOMAIN inserting["timings"] :
                                                     inserting["timings"][i] = o})
                      ELSE timings[o]
    BY DEF Commit
  <2>5. timings'[o] = IF "timings" \in T THEN timings[o] + CountIn(inserting["timings"], {o})
                      ELSE timings[o]
    BY <2>2, <2>4 DEF CountIn
  <2> QED BY <2>1, <2>3, <2>5
<1>6. timings' \in [Observation -> Nat]
  <2>1. timings' = [o \in Observation |-> timings'[o]]
    BY DEF Commit
  <2> QED BY <1>5, <2>1
<1> QED BY <1>4, <1>5, <1>6

LEMMA ArcInit == Init => ArcIInv
<1> SUFFICES ASSUME Init PROVE ArcIInv
  OBVIOUS
<1>1. TypeOK
  <2>1. \A b \in BatchId : deliveries[b] <= Deliverable(b)
    <3> TAKE b \in BatchId
    <3>1. MaxDeliveries[b] \in Nat /\ PerRestart * 0 = 0
      BY ArchiverAssumption
    <3> QED BY <3>1 DEF Init, Deliverable
  <2>2. published \in 0..Len(Batch) /\ deliveries \in [BatchId -> Nat] /\ restarts \in 0..MaxRestarts
    BY ArchiverAssumption, BatchType DEF Init
  <2>3. reader \in [pc : {"setup", "next", "ack"} \cup Done, batch : BatchId \cup {NoBatch}]
    BY DEF Init
  <2>4. ticker \in [pc : {"select", "tick", "full"} \cup Done, held : Seq(Observation),
                    msg_counter : 0..BatchSize]
    BY ArchiverAssumption DEF Init
  <2>5. raw_q \in Seq(BatchId) /\ msg_q \in Seq(Observation)
    BY DEF Init
  <2>6. /\ rows \in [Tables \ {"timings"} -> SUBSET {Hash[o] : o \in Observation}]
        /\ timings \in [Observation -> Nat]
    BY DEF Init
  <2>7. /\ unacked \in SUBSET BatchId /\ outstanding \in SUBSET BatchId
        /\ up \in BOOLEAN /\ cancel \in BOOLEAN /\ decoder \in {"recv"} \cup Done
        /\ writer \in {"select", "write"} \cup Done
    BY Zenon DEF Init
  <2>9. tick_chan \in 0..1
    BY DEF Init
  <2>8. /\ chans \in [Tables -> Seq(Observation)] /\ bufs \in [Tables -> Seq(Observation)]
        /\ inserting \in [Tables -> Seq(Observation)]
    BY EmptyType DEF Init
  <2> QED BY <2>1, <2>2, <2>3, <2>4, <2>5, <2>6, <2>7, <2>8, <2>9 DEF TypeOK
<1>2. TimingsBufferBounded
  BY ArchiverAssumption, EmptyType DEF Init, TimingsBufferBounded
<1>3. HeldWhileFull /\ EndedIsCancelled /\ InsertingWhileWriting
  BY DEF Init, HeldWhileFull, EndedIsCancelled, InsertingWhileWriting, Done
<1> QED BY <1>1, <1>2, <1>3 DEF ArcIInv

LEMMA QueueKeeps ==
    ASSUME ArcIInv, PublishBatch \/ \E b \in BatchId : AckTimeout(b)
    PROVE  ArcIInv'
<1>1. TypeOK'
  <2>1. \A b \in BatchId : Deliverable(b)' = Deliverable(b)
    BY DEF Deliverable, PublishBatch, AckTimeout
  <2>2. CASE PublishBatch
    <3>1. published' \in 1..Len(Batch)
      BY <2>2, BatchType DEF ArcIInv, TypeOK, PublishBatch
    <3> QED BY <2>1, <2>2, <3>1, BatchType, SMTT(60) DEF ArcIInv, TypeOK, PublishBatch, taskVars, dbVars
  <2>3. CASE \E b \in BatchId : AckTimeout(b)
    BY <2>1, <2>3 DEF ArcIInv, TypeOK, AckTimeout, taskVars, dbVars
  <2> QED BY <2>2, <2>3
<1> QED BY <1>1 DEF ArcIInv, TimingsBufferBounded, HeldWhileFull, EndedIsCancelled,
                    InsertingWhileWriting, PublishBatch, AckTimeout, taskVars, dbVars

LEMMA ReaderKeeps ==
    ASSUME ArcIInv, Reader \/ ReaderStreamClosed \/ ReaderFails
    PROVE  ArcIInv'
<1> USE DEF Done, queueVars, ReaderVars, dbVars
<1>1. TimingsBufferBounded' /\ HeldWhileFull' /\ InsertingWhileWriting'
  BY DEF ArcIInv, TimingsBufferBounded, HeldWhileFull, InsertingWhileWriting, Reader,
         ReaderSetup, ReaderNext, ReaderAck, ReaderStreamClosed, ReaderFails
<1>2. \A b \in BatchId : Deliverable(b)' = Deliverable(b)
  BY DEF Deliverable, Reader, ReaderSetup, ReaderNext, ReaderAck, ReaderStreamClosed,
         ReaderFails
<1>3. CASE ReaderSetup
  BY <1>1, <1>2, <1>3 DEF ArcIInv, TypeOK, EndedIsCancelled, ReaderSetup
<1>4. ASSUME NEW b \in BatchId, ReaderNext(b) PROVE ArcIInv'
  <2>1. deliveries[b] \in Nat /\ Deliverable(b) \in Int /\ deliveries[b] + 1 <= Deliverable(b)
    <3>1. MaxDeliveries[b] \in Nat /\ PerRestart \in Nat /\ restarts \in Nat
      BY ArchiverAssumption DEF ArcIInv, TypeOK
    <3>2. \A m, n \in Nat : m * n \in Nat
      OBVIOUS
    <3>3. PerRestart * restarts \in Nat
      BY <3>1, <3>2
    <3>4. Deliverable(b) \in Nat
      BY <3>1, <3>3 DEF Deliverable
    <3> QED BY <1>4, <3>4 DEF ArcIInv, TypeOK, ReaderNext
  <2>2. /\ deliveries' \in [BatchId -> Nat]
        /\ \A c \in BatchId : deliveries'[c] <= Deliverable(c)'
    <3>1. deliveries \in [BatchId -> Nat] /\ deliveries' = [deliveries EXCEPT ![b] = @ + 1]
      BY <1>4 DEF ArcIInv, TypeOK, ReaderNext
    <3>2. \A c \in BatchId : deliveries[c] <= Deliverable(c)
      BY DEF ArcIInv, TypeOK
    <3>3. /\ deliveries' \in [BatchId -> Nat]
          /\ \A c \in BatchId : deliveries'[c] = IF c = b THEN deliveries[c] + 1 ELSE deliveries[c]
      BY <3>1
    <3> QED BY <1>2, <2>1, <3>2, <3>3
  <2>3. raw_q' \in Seq(BatchId)
    <3>1. raw_q \in Seq(BatchId) /\ (raw_q' = raw_q \/ raw_q' = Append(raw_q, b))
      BY <1>4 DEF ArcIInv, TypeOK, ReaderNext
    <3> QED BY <3>1
  <2>4. reader' \in [pc : {"setup", "next", "ack"} \cup Done, batch : BatchId \cup {NoBatch}]
    BY <1>4 DEF ReaderNext
  <2>5. TypeOK'
    BY <1>4, <2>2, <2>3, <2>4 DEF ArcIInv, TypeOK, ReaderNext
  <2>6. EndedIsCancelled'
    BY <1>4 DEF ArcIInv, EndedIsCancelled, ReaderNext
  <2> QED BY <1>1, <2>5, <2>6 DEF ArcIInv
<1>5. CASE ReaderAck
  BY <1>1, <1>2, <1>5 DEF ArcIInv, TypeOK, EndedIsCancelled, ReaderAck
<1>6. CASE ReaderStreamClosed
  BY <1>1, <1>2, <1>6 DEF ArcIInv, TypeOK, EndedIsCancelled, ReaderStreamClosed
<1>7. CASE ReaderFails
  BY <1>1, <1>2, <1>7 DEF ArcIInv, TypeOK, EndedIsCancelled, ReaderFails
<1> QED BY <1>3, <1>4, <1>5, <1>6, <1>7 DEF Reader

LEMMA DecoderKeeps ==
    ASSUME ArcIInv, Decoder
    PROVE  ArcIInv'
<1> USE DEF Done, queueVars, DecoderVars, dbVars
<1>1. TimingsBufferBounded' /\ HeldWhileFull' /\ InsertingWhileWriting'
  BY DEF ArcIInv, TimingsBufferBounded, HeldWhileFull, InsertingWhileWriting, Decoder,
         Decode, DecoderClosed
<1>2. \A b \in BatchId : Deliverable(b)' = Deliverable(b)
  BY DEF Deliverable, Decoder, Decode, DecoderClosed
<1>3. CASE Decode
  <2>1. raw_q \in Seq(BatchId) /\ msg_q \in Seq(Observation) /\ raw_q # << >>
    BY <1>3 DEF ArcIInv, TypeOK, Decode
  <2>2. Head(raw_q) \in BatchId /\ Tail(raw_q) \in Seq(BatchId) /\ << >> \in Seq(BatchId)
    BY <2>1
  <2>3. GoodPrefix(Head(raw_q)) \in Seq(Observation)
    BY <2>2, GoodPrefixType
  <2>4. /\ msg_q' = msg_q \/ msg_q' = msg_q \o GoodPrefix(Head(raw_q))
        /\ raw_q' = << >> \/ raw_q' = Tail(raw_q)
    BY <1>3 DEF Decode
  <2>5. msg_q' \in Seq(Observation) /\ raw_q' \in Seq(BatchId)
    <3>1. msg_q \o GoodPrefix(Head(raw_q)) \in Seq(Observation)
      BY ONLY <2>1, <2>3
    <3> QED BY <2>1, <2>2, <2>4, <3>1, Zenon
  <2>6. decoder' \in {"recv"} \cup Done /\ cancel' \in BOOLEAN /\ EndedIsCancelled'
    BY <1>3 DEF ArcIInv, TypeOK, EndedIsCancelled, Decode
  <2>7. TypeOK'
    BY <1>2, <1>3, <2>5, <2>6 DEF ArcIInv, TypeOK, Decode
  <2> QED BY <1>1, <2>6, <2>7 DEF ArcIInv
<1>4. CASE DecoderClosed
  BY <1>1, <1>2, <1>4 DEF ArcIInv, TypeOK, EndedIsCancelled, DecoderClosed
<1> QED BY <1>3, <1>4 DEF Decoder

TickerPc == {"select", "tick", "full"} \cup Done
TickerType == [pc : TickerPc, held : Seq(Observation), msg_counter : 0..BatchSize]

LEMMA TickerUpdate ==
    ASSUME ticker \in TickerType, NEW p \in TickerPc, NEW h \in Seq(Observation),
           ticker' = [ticker EXCEPT !.pc = p, !.held = h]
    PROVE  ticker' \in TickerType /\ ticker'.pc = p /\ ticker'.held = h
<1>1. ticker' \in TickerType
  BY DEF TickerType
<1>2. ticker'.pc = p
  BY DEF TickerType
<1>3. ticker'.held = h
  BY DEF TickerType
<1> QED BY <1>1, <1>2, <1>3

\* What every step of the ticker leaves alone.
LEMMA TickerFrame ==
    ASSUME ArcIInv, UNCHANGED TickerVars,
           msg_q' \in Seq(Observation), ticker' \in TickerType, tick_chan' \in 0..1,
           chans' \in [Tables -> Seq(Observation)], cancel' \in BOOLEAN,
           cancel => cancel', ticker'.pc \in Done => cancel', HeldWhileFull'
    PROVE  ArcIInv'
<1> USE DEF queueVars, TickerVars, dbVars
<1>1. TimingsBufferBounded' /\ InsertingWhileWriting'
  BY DEF ArcIInv, TimingsBufferBounded, InsertingWhileWriting
<1>2. EndedIsCancelled'
  BY DEF ArcIInv, EndedIsCancelled
<1>3. \A b \in BatchId : Deliverable(b)' = Deliverable(b)
  BY DEF Deliverable
<1>4. TypeOK'
  BY <1>3 DEF ArcIInv, TypeOK, TickerPc, TickerType
<1> QED BY <1>1, <1>2, <1>4 DEF ArcIInv

LEMMA TickerForwardKeeps ==
    ASSUME ArcIInv, NEW o \in Observation, NEW n \in 0..(BatchSize - 1), TickerForward(o, n)
    PROVE  /\ chans' \in [Tables -> Seq(Observation)]
           /\ ticker' \in TickerType
           /\ cancel' \in BOOLEAN /\ (cancel => cancel') /\ (ticker'.pc \in Done => cancel')
           /\ HeldWhileFull'
           /\ writer \in Done => msg_q' = << >>
<1> USE DEF Done
<1>1. /\ chans \in [Tables -> Seq(Observation)] /\ ticker \in TickerType
      /\ cancel \in BOOLEAN /\ BatchSize \in Nat \ {0}
  BY ArchiverAssumption DEF ArcIInv, TypeOK, TickerPc, TickerType
<1>2. CASE writer \in Done
  <2>1. /\ ticker' = [ticker EXCEPT !.pc = "err", !.held = << >>]
        /\ cancel' = TRUE /\ msg_q' = << >> /\ chans' = chans
    BY <1>2 DEF TickerForward
  <2>2. ticker' \in TickerType /\ ticker'.pc = "err" /\ ticker'.held = << >>
    <3>1. << >> \in Seq(Observation) /\ "err" \in TickerPc
      BY DEF TickerPc
    <3> QED BY <1>1, <2>1, <3>1, TickerUpdate
  <2> QED BY <1>1, <2>1, <2>2 DEF HeldWhileFull
<1>3. CASE writer \notin Done
  <2>1. /\ chans' = [t \in Tables |-> Append(chans[t], o)]
        /\ ticker' = [pc |-> "select", held |-> << >>, msg_counter |-> n + 1]
        /\ cancel' = cancel
    BY <1>3 DEF TickerForward
  <2>2. chans' \in [Tables -> Seq(Observation)]
    <3>1. \A t \in Tables : Append(chans[t], o) \in Seq(Observation)
      BY <1>1
    <3> QED BY <2>1, <3>1
  <2>3. ticker' \in TickerType
    BY <1>1, <2>1 DEF TickerPc, TickerType
  <2> QED BY <1>1, <1>3, <2>1, <2>2, <2>3 DEF HeldWhileFull
<1> QED BY <1>2, <1>3

LEMMA TickerExitKeeps ==
    ASSUME ArcIInv, NEW how \in Done, TickerExit(how)
    PROVE  ArcIInv'
<1>1. /\ ticker \in TickerType /\ chans \in [Tables -> Seq(Observation)]
      /\ tick_chan \in 0..1 /\ cancel \in BOOLEAN
  BY DEF ArcIInv, TypeOK, TickerPc, TickerType
<1>2. /\ ticker' = [ticker EXCEPT !.pc = how, !.held = << >>] /\ cancel' = TRUE
      /\ msg_q' = << >> /\ tick_chan' = tick_chan /\ chans' = chans /\ UNCHANGED TickerVars
  BY DEF TickerExit
<1>3. ticker' \in TickerType /\ ticker'.pc = how /\ ticker'.held = << >>
  <2>1. << >> \in Seq(Observation) /\ how \in TickerPc
    BY DEF TickerPc
  <2> QED BY ONLY <1>1, <1>2, <2>1, TickerUpdate, Zenon
<1>5. HeldWhileFull'
  BY <1>3 DEF HeldWhileFull, Done
<1>4. msg_q' \in Seq(Observation)
  BY <1>2
<1> QED BY <1>1, <1>2, <1>3, <1>4, <1>5, TickerFrame

LEMMA TickerKeeps ==
    ASSUME ArcIInv, Ticker
    PROVE  ArcIInv'
<1> USE DEF Done
<1>1. /\ ticker \in TickerType /\ chans \in [Tables -> Seq(Observation)]
      /\ tick_chan \in 0..1 /\ cancel \in BOOLEAN /\ msg_q \in Seq(Observation)
      /\ HeldWhileFull /\ BatchSize \in Nat \ {0}
  BY ArchiverAssumption DEF ArcIInv, TypeOK, TickerPc, TickerType
<1>2. CASE TickerCancel
  BY <1>2, TickerExitKeeps DEF TickerCancel
<1>3. CASE TickerFlushTick
  <2>1. ticker' \in TickerType /\ HeldWhileFull' /\ ticker'.pc \notin Done
    BY <1>1, <1>3 DEF TickerFlushTick, TickerPc, TickerType, HeldWhileFull
  <2>2. UNCHANGED <<cancel, msg_q, tick_chan, chans, TickerVars>>
    BY <1>3 DEF TickerFlushTick
  <2> QED BY <1>1, <2>1, <2>2, TickerFrame
<1>4. CASE TickerRecv
  <2>1. /\ UNCHANGED tick_chan /\ UNCHANGED TickerVars /\ msg_q # << >> /\ ticker.pc = "select"
    BY <1>4 DEF TickerRecv
  <2>2. Head(msg_q) \in Observation /\ Tail(msg_q) \in Seq(Observation)
    BY <1>1, <2>1
  <2>3. CASE ticker.msg_counter >= BatchSize
    <3>1. /\ ticker' = [ticker EXCEPT !.pc = "full", !.held = <<Head(msg_q)>>]
          /\ msg_q' = Tail(msg_q) /\ UNCHANGED <<chans, cancel>>
      BY <1>4, <2>3 DEF TickerRecv
    <3>2. ticker' \in TickerType /\ ticker'.pc = "full" /\ ticker'.held = <<Head(msg_q)>>
      <4>1. <<Head(msg_q)>> \in Seq(Observation) /\ "full" \in TickerPc
        BY <2>2 DEF TickerPc
      <4> QED BY ONLY <1>1, <3>1, <4>1, TickerUpdate, Zenon
    <3>3. HeldWhileFull' /\ ticker'.pc \notin Done
      BY <2>2, <3>2 DEF HeldWhileFull
    <3> QED BY <1>1, <2>1, <2>2, <3>1, <3>2, <3>3, TickerFrame
  <2>4. CASE ~(ticker.msg_counter >= BatchSize)
    <3>1. /\ TickerForward(Head(msg_q), ticker.msg_counter)
          /\ writer \notin Done => msg_q' = Tail(msg_q)
      BY <1>4, <2>4 DEF TickerRecv
    <3>2. ticker.msg_counter \in 0..(BatchSize - 1)
      BY <1>1, <2>4 DEF TickerPc, TickerType
    <3>3. /\ chans' \in [Tables -> Seq(Observation)]
          /\ ticker' \in TickerType
          /\ cancel' \in BOOLEAN /\ (cancel => cancel') /\ (ticker'.pc \in Done => cancel')
          /\ HeldWhileFull'
          /\ writer \in Done => msg_q' = << >>
      BY <2>2, <3>1, <3>2, TickerForwardKeeps
    <3>4. msg_q' \in Seq(Observation)
      <4>1. << >> \in Seq(Observation)
        OBVIOUS
      <4> QED BY ONLY <2>2, <3>1, <3>3, <4>1, Zenon
    <3> QED BY <1>1, <2>1, <3>3, <3>4, TickerFrame
  <2> QED BY <2>3, <2>4
<1>5. CASE TickerMsgClosed
  BY <1>5, TickerExitKeeps DEF TickerMsgClosed
<1>6. CASE TickerSignal
  <2>1. /\ UNCHANGED TickerVars /\ tick_chan' = 1 /\ UNCHANGED msg_q
        /\ ticker.pc \in {"tick", "full"}
    BY <1>6 DEF TickerSignal
  <2>2. CASE ticker.pc = "full"
    <3>1. TickerForward(ticker.held[1], 0)
      BY <1>6, <2>2 DEF TickerSignal
    <3>2. ticker.held[1] \in Observation /\ 0 \in 0..(BatchSize - 1)
      BY <1>1, <2>2 DEF HeldWhileFull
    <3>3. /\ chans' \in [Tables -> Seq(Observation)]
          /\ ticker' \in TickerType
          /\ cancel' \in BOOLEAN /\ (cancel => cancel') /\ (ticker'.pc \in Done => cancel')
          /\ HeldWhileFull'
      BY <3>1, <3>2, TickerForwardKeeps
    <3> QED BY <1>1, <2>1, <3>3, TickerFrame
  <2>3. CASE ticker.pc # "full"
    <3>1. /\ ticker' = [pc |-> "select", held |-> << >>, msg_counter |-> 0]
          /\ UNCHANGED <<chans, cancel>>
      BY <1>6, <2>3 DEF TickerSignal
    <3>2. ticker' \in TickerType /\ HeldWhileFull' /\ ticker'.pc \notin Done
      BY <1>1, <3>1 DEF TickerPc, TickerType, HeldWhileFull
    <3> QED BY <1>1, <2>1, <3>1, <3>2, TickerFrame
  <2> QED BY <2>2, <2>3
<1>7. CASE TickerSignalFails
  BY <1>7, TickerExitKeeps DEF TickerSignalFails
<1> QED BY <1>2, <1>3, <1>4, <1>5, <1>6, <1>7 DEF Ticker

Buffers == [Tables -> Seq(Observation)]

\* What every step of the writer leaves alone.
LEMMA WriterFrame ==
    ASSUME ArcIInv, UNCHANGED WriterVars,
           chans' \in Buffers, bufs' \in Buffers, inserting' \in Buffers,
           tick_chan' \in 0..1, writer' \in {"select", "write"} \cup Done,
           cancel' \in BOOLEAN, cancel => cancel', writer' \in Done => cancel',
           rows' \in [Tables \ {"timings"} -> SUBSET {Hash[o] : o \in Observation}],
           timings' \in [Observation -> Nat],
           Len(bufs'["timings"]) < BatchSize, writer' # "write" => inserting' = Empty
    PROVE  ArcIInv'
<1> USE DEF queueVars, WriterVars
<1>1. TimingsBufferBounded' /\ InsertingWhileWriting'
  BY DEF TimingsBufferBounded, InsertingWhileWriting, Empty
<1>2. EndedIsCancelled'
  BY DEF ArcIInv, EndedIsCancelled
<1>3. HeldWhileFull'
  BY DEF ArcIInv, HeldWhileFull
<1>4. \A b \in BatchId : Deliverable(b)' = Deliverable(b)
  BY DEF Deliverable
<1>5. TypeOK'
  BY <1>4 DEF ArcIInv, TypeOK, Buffers
<1> QED BY <1>1, <1>2, <1>3, <1>5 DEF ArcIInv

\* After a flush the buffers are empty; without one they may not be full.
LEMMA WriterFlushKeeps ==
    ASSUME ArcIInv, writer = "select", NEW flush, NEW buffers \in Buffers,
           WriterFlushOr(flush, buffers), flush \/ Len(buffers["timings"]) < BatchSize
    PROVE  /\ bufs' \in Buffers /\ inserting' \in Buffers
           /\ writer' \in {"select", "write"}
           /\ Len(bufs'["timings"]) < BatchSize
           /\ writer' # "write" => inserting' = Empty
<1>1. /\ inserting \in Buffers /\ inserting = Empty /\ BatchSize \in Nat \ {0}
      /\ Empty \in Buffers /\ Len(Empty["timings"]) = 0
  BY ArchiverAssumption, EmptyType DEF ArcIInv, TypeOK, InsertingWhileWriting, Buffers
<1>2. CASE flush /\ buffers # Empty
  BY <1>1, <1>2 DEF WriterFlushOr
<1>3. CASE ~(flush /\ buffers # Empty)
  <2>1. bufs' = buffers /\ inserting' = inserting /\ writer' = writer
    BY <1>3 DEF WriterFlushOr
  <2>2. Len(buffers["timings"]) < BatchSize
    BY <1>1, <1>3
  <2> QED BY <1>1, <2>1, <2>2
<1> QED BY <1>2, <1>3

LEMMA WriterExitTypes ==
    ASSUME ArcIInv, NEW how \in Done, WriterExit(how),
           rows' \in [Tables \ {"timings"} -> SUBSET {Hash[o] : o \in Observation}],
           timings' \in [Observation -> Nat]
    PROVE  ArcIInv'
<1>1. Empty \in Buffers /\ Len(Empty["timings"]) = 0 /\ BatchSize \in Nat \ {0}
  BY ArchiverAssumption, EmptyType DEF Buffers
<1>2. /\ writer' = how /\ bufs' = Empty /\ inserting' = Empty /\ chans' = Empty
      /\ tick_chan' = 0 /\ cancel' = TRUE /\ UNCHANGED WriterVars
  BY DEF WriterExit
<1> QED BY <1>1, <1>2, WriterFrame

LEMMA WriterKeeps ==
    ASSUME ArcIInv, Writer \/ \E t \in Tables : InsertFails(t)
    PROVE  ArcIInv'
<1>1. /\ chans \in Buffers /\ bufs \in Buffers /\ inserting \in Buffers
      /\ tick_chan \in 0..1 /\ cancel \in BOOLEAN
      /\ rows \in [Tables \ {"timings"} -> SUBSET {Hash[o] : o \in Observation}]
      /\ timings \in [Observation -> Nat]
      /\ BatchSize \in Nat \ {0} /\ Len(bufs["timings"]) < BatchSize
      /\ writer # "write" => inserting = Empty
  BY ArchiverAssumption DEF ArcIInv, TypeOK, Buffers, TimingsBufferBounded, InsertingWhileWriting
<1>2. "timings" \in Tables /\ "select" \notin Done /\ "write" \notin Done
  BY DEF Tables, Done
<1>3. ASSUME NEW t \in Tables, WriterRecv(t) PROVE ArcIInv'
  <2> DEFINE buffers == [bufs EXCEPT ![t] = Append(@, Head(chans[t]))]
  <2>1. /\ writer = "select" /\ chans[t] # << >>
        /\ chans' = [chans EXCEPT ![t] = Tail(@)]
        /\ WriterFlushOr(Len(buffers["timings"]) >= BatchSize, buffers)
        /\ cancel' = cancel /\ tick_chan' = tick_chan /\ rows' = rows /\ timings' = timings
        /\ UNCHANGED WriterVars
    BY <1>3 DEF WriterRecv, dbVars
  <2>2. chans[t] \in Seq(Observation) /\ bufs[t] \in Seq(Observation)
    BY <1>1 DEF Buffers
  <2>3. Head(chans[t]) \in Observation /\ Tail(chans[t]) \in Seq(Observation)
    BY <2>1, <2>2
  <2>4. Append(bufs[t], Head(chans[t])) \in Seq(Observation)
    BY <2>2, <2>3
  <2>5. buffers \in Buffers /\ chans' \in Buffers
    BY <1>1, <2>1, <2>3, <2>4 DEF Buffers
  <2> HIDE DEF buffers
  <2>6. Len(buffers["timings"]) \in Nat
    BY <1>2, <2>5 DEF Buffers
  <2>7. Len(buffers["timings"]) >= BatchSize \/ Len(buffers["timings"]) < BatchSize
    BY <1>1, <2>6
  <2>8. /\ bufs' \in Buffers /\ inserting' \in Buffers
        /\ writer' \in {"select", "write"}
        /\ Len(bufs'["timings"]) < BatchSize
        /\ writer' # "write" => inserting' = Empty
    BY <2>1, <2>5, <2>7, WriterFlushKeeps
  <2> QED BY <1>1, <1>2, <2>1, <2>5, <2>8, WriterFrame
<1>4. ASSUME NEW t \in Tables, Insert(t) PROVE ArcIInv'
  <2>1. /\ Commit({t}) /\ inserting' = [inserting EXCEPT ![t] = << >>]
        /\ writer' = IF inserting' = Empty THEN "select" ELSE "write"
        /\ cancel' = cancel /\ tick_chan' = tick_chan /\ chans' = chans /\ bufs' = bufs
        /\ UNCHANGED WriterVars
    BY <1>4 DEF Insert
  <2>2. /\ rows' \in [Tables \ {"timings"} -> SUBSET {Hash[o] : o \in Observation}]
        /\ timings' \in [Observation -> Nat]
    BY <2>1, CommitType DEF ArcIInv
  <2>3. inserting' \in Buffers
    <3>1. << >> \in Seq(Observation)
      OBVIOUS
    <3> QED BY <1>1, <2>1, <3>1 DEF Buffers
  <2> QED BY <1>1, <1>2, <2>1, <2>2, <2>3, WriterFrame
<1>5. CASE WriterTick
  <2>1. tick_chan' \in 0..1
    BY <1>1, <1>5 DEF WriterTick
  <2>2. /\ writer = "select" /\ WriterFlushOr(TRUE, bufs)
        /\ cancel' = cancel /\ chans' = chans /\ rows' = rows /\ timings' = timings
        /\ UNCHANGED WriterVars
    BY <1>5, Zenon DEF WriterTick, dbVars
  <2>3. /\ bufs' \in Buffers /\ inserting' \in Buffers
        /\ writer' \in {"select", "write"}
        /\ Len(bufs'["timings"]) < BatchSize
        /\ writer' # "write" => inserting' = Empty
    BY <1>1, <2>2, WriterFlushKeeps
  <2> QED BY <1>1, <1>2, <2>1, <2>2, <2>3, WriterFrame
<1>6. CASE WriterCancel
  <2>1. WriterExit("ok") /\ rows' = rows /\ timings' = timings /\ "ok" \in Done
    BY <1>6 DEF WriterCancel, dbVars, Done
  <2> QED BY <1>1, <2>1, WriterExitTypes
<1>7. CASE WriterClosed
  <2>1. WriterExit("err") /\ rows' = rows /\ timings' = timings /\ "err" \in Done
    BY <1>7 DEF WriterClosed, dbVars, Done
  <2> QED BY <1>1, <2>1, WriterExitTypes
<1>8. ASSUME NEW t \in Tables, InsertFails(t) PROVE ArcIInv'
  <2>1. PICK T \in SUBSET (Tables \ {t}) : Commit(T)
    BY <1>8 DEF InsertFails
  <2>2. /\ rows' \in [Tables \ {"timings"} -> SUBSET {Hash[o] : o \in Observation}]
        /\ timings' \in [Observation -> Nat]
    BY <2>1, CommitType DEF ArcIInv
  <2>3. WriterExit("err") /\ "err" \in Done
    BY <1>8 DEF InsertFails, Done
  <2> QED BY <2>2, <2>3, WriterExitTypes
<1> QED BY <1>3, <1>4, <1>5, <1>6, <1>7, <1>8 DEF Writer

LEMMA FreshTypes ==
    ASSUME ArcIInv, Fresh, UNCHANGED queueVars,
           up' \in BOOLEAN, restarts' \in 0..MaxRestarts,
           \A b \in BatchId : deliveries[b] <= Deliverable(b)',
           rows' \in [Tables \ {"timings"} -> SUBSET {Hash[o] : o \in Observation}],
           timings' \in [Observation -> Nat]
    PROVE  ArcIInv'
<1>1. Empty \in Buffers /\ Len(Empty["timings"]) = 0 /\ BatchSize \in Nat \ {0} /\ Empty' = Empty
  BY ArchiverAssumption, EmptyType DEF Buffers, Empty
<1>2. reader' \in [pc : {"setup", "next", "ack"} \cup Done, batch : BatchId \cup {NoBatch}]
  BY DEF Fresh
<1>3. ticker' \in TickerType
  BY <1>1 DEF Fresh, TickerType, TickerPc
<1>4. raw_q' \in Seq(BatchId) /\ msg_q' \in Seq(Observation)
  BY DEF Fresh
<1>5. /\ decoder' \in {"recv"} \cup Done /\ writer' \in {"select", "write"} \cup Done
      /\ cancel' \in BOOLEAN
  BY Zenon DEF Fresh
<1>6. /\ chans' \in Buffers /\ bufs' \in Buffers /\ inserting' \in Buffers
      /\ tick_chan' \in 0..1
  BY <1>1 DEF Fresh
<1>7. /\ published' \in 0..Len(Batch) /\ unacked' \in SUBSET BatchId
      /\ outstanding' \in SUBSET BatchId /\ deliveries' \in [BatchId -> Nat]
      /\ \A b \in BatchId : deliveries'[b] <= Deliverable(b)'
  BY DEF ArcIInv, TypeOK, queueVars
<1>8. TypeOK'
  BY <1>2, <1>3, <1>4, <1>5, <1>6, <1>7 DEF TypeOK, TickerType, TickerPc, Buffers
<1>9. TimingsBufferBounded'
  BY <1>1 DEF Fresh, TimingsBufferBounded
<1>10. HeldWhileFull'
  BY DEF Fresh, HeldWhileFull
<1>11. EndedIsCancelled'
  BY DEF Fresh, EndedIsCancelled, Done
<1>12. InsertingWhileWriting'
  BY <1>1 DEF Fresh, InsertingWhileWriting
<1> QED BY <1>8, <1>9, <1>10, <1>11, <1>12 DEF ArcIInv

LEMMA ProcessKeeps ==
    ASSUME ArcIInv, Exit \/ Crash \/ Restart
    PROVE  ArcIInv'
<1>1. CASE Exit
  <2>1. \A b \in BatchId : Deliverable(b)' = Deliverable(b)
    BY <1>1 DEF Deliverable, Exit
  <2>2. TypeOK'
    BY <1>1, <2>1 DEF ArcIInv, TypeOK, Exit, queueVars, taskVars, dbVars
  <2> QED BY <1>1, <2>2 DEF ArcIInv, TimingsBufferBounded, HeldWhileFull, EndedIsCancelled,
                            InsertingWhileWriting, Exit, queueVars, taskVars, dbVars, Empty
<1>2. CASE Crash
  <2>1. /\ Fresh /\ UNCHANGED queueVars /\ up' = FALSE /\ restarts' = restarts
    BY <1>2 DEF Crash
  <2>2. PICK T \in SUBSET Tables : Commit(T)
    BY <1>2 DEF Crash
  <2>3. /\ rows' \in [Tables \ {"timings"} -> SUBSET {Hash[o] : o \in Observation}]
        /\ timings' \in [Observation -> Nat]
    BY <2>2, CommitType DEF ArcIInv
  <2>4. \A b \in BatchId : deliveries[b] <= Deliverable(b)'
    BY <2>1 DEF ArcIInv, TypeOK, Deliverable
  <2>5. restarts' \in 0..MaxRestarts /\ up' \in BOOLEAN
    BY <2>1 DEF ArcIInv, TypeOK
  <2> QED BY <2>1, <2>3, <2>4, <2>5, FreshTypes
<1>3. CASE Restart
  <2>1. /\ Fresh /\ UNCHANGED queueVars /\ rows' = rows /\ timings' = timings
        /\ up' = TRUE /\ restarts' = restarts + 1 /\ restarts < MaxRestarts
    BY <1>3 DEF Restart, dbVars
  <2>2. \A b \in BatchId : deliveries[b] <= Deliverable(b)'
    <3> TAKE b \in BatchId
    <3>1. Deliverable(b) <= Deliverable(b)' /\ Deliverable(b) \in Int /\ Deliverable(b)' \in Int
      BY <2>1, Deliverables DEF ArcIInv
    <3>2. deliveries[b] \in Nat /\ deliveries[b] <= Deliverable(b)
      BY DEF ArcIInv, TypeOK
    <3> HIDE DEF Deliverable
    <3> QED BY <3>1, <3>2
  <2>3. restarts' \in 0..MaxRestarts /\ up' \in BOOLEAN
    BY <2>1, ArchiverAssumption DEF ArcIInv, TypeOK
  <2>4. /\ rows' \in [Tables \ {"timings"} -> SUBSET {Hash[o] : o \in Observation}]
        /\ timings' \in [Observation -> Nat]
    BY <2>1 DEF ArcIInv, TypeOK
  <2> QED BY <2>1, <2>2, <2>3, <2>4, FreshTypes
<1> QED BY <1>1, <1>2, <1>3

LEMMA ArcStutters == ASSUME ArcIInv, UNCHANGED vars PROVE ArcIInv'
<1>1. \A b \in BatchId : Deliverable(b)' = Deliverable(b)
  BY DEF Deliverable, vars
<1>2. TypeOK'
  BY <1>1 DEF ArcIInv, TypeOK, vars, queueVars, taskVars, dbVars
<1> QED BY <1>2 DEF ArcIInv, TimingsBufferBounded, HeldWhileFull, EndedIsCancelled,
                    InsertingWhileWriting, vars, queueVars, taskVars, dbVars, Empty

\* The inductive invariant of the archiver: types, at most one message held, and a
\* timings buffer that is flushed before it exceeds database.batch_size.
THEOREM ArcInductive == Spec => []ArcIInv
<1>1. ArcIInv /\ [Next]_vars => ArcIInv'
  BY QueueKeeps, ReaderKeeps, DecoderKeeps, TickerKeeps, WriterKeeps, ProcessKeeps,
     ArcStutters DEF Next
<1> QED BY ArcInit, <1>1, PTL DEF Spec

\* Type correctness of the queue, the four tasks, their channels and the tables.
THEOREM ArcTypeCorrect == Spec => []TypeOK
<1>1. ArcIInv => TypeOK
  BY DEF ArcIInv
<1> QED BY <1>1, ArcInductive, PTL

\* db_write_handler's own check bounds its buffer, whatever the ticker signals.
THEOREM BufferBounded == Spec => []TimingsBufferBounded
<1>1. ArcIInv => TimingsBufferBounded
  BY DEF ArcIInv
<1> QED BY <1>1, ArcInductive, PTL
-----------------------------------------------------------------------------
(* Copies on their way *)

Raw(o) == CountIn(raw_q, Carriers(o))

Copies(t, o) ==
    Raw(o) + CountIn(msg_q, {o}) + CountIn(ticker.held, {o}) + CountIn(chans[t], {o})
        + CountIn(bufs[t], {o}) + CountIn(inserting[t], {o})

Counts(t, o) ==
    /\ Raw(o) \in Nat /\ CountIn(msg_q, {o}) \in Nat /\ CountIn(ticker.held, {o}) \in Nat
    /\ CountIn(chans[t], {o}) \in Nat /\ CountIn(bufs[t], {o}) \in Nat
    /\ CountIn(inserting[t], {o}) \in Nat
    /\ deliveries[BatchOf(o)] \in Nat

LEMMA CountsAreNat == ArcIInv => \A t \in Tables, o \in Observation : Counts(t, o)
<1> SUFFICES ASSUME ArcIInv, NEW t \in Tables, NEW o \in Observation PROVE Counts(t, o)
  OBVIOUS
<1>1. /\ raw_q \in Seq(BatchId) /\ msg_q \in Seq(Observation)
      /\ ticker.held \in Seq(Observation) /\ chans[t] \in Seq(Observation)
      /\ bufs[t] \in Seq(Observation) /\ inserting[t] \in Seq(Observation)
      /\ deliveries \in [BatchId -> Nat]
  BY DEF ArcIInv, TypeOK
<1>2. BatchOf(o) \in BatchId
  BY OneCarrier
<1> QED BY <1>1, <1>2, CountType DEF Counts, Raw

\* The counts of the model are the ones used here.
LEMMA CopiesUnderway ==
    ArcIInv => \A t \in Tables, o \in Observation :
                  Underway(t, o) = Copies(t, o) /\ Deliveries(o) = deliveries[BatchOf(o)]
<1> SUFFICES ASSUME ArcIInv, NEW t \in Tables, NEW o \in Observation
             PROVE  Underway(t, o) = Copies(t, o) /\ Deliveries(o) = deliveries[BatchOf(o)]
  OBVIOUS
<1>1. ASSUME NEW s PROVE Count(s, o) = CountIn(s, {o})
  <2>1. Places(s, {o}) = {i \in DOMAIN s : s[i] = o}
    BY DEF Places
  <2> QED BY <2>1 DEF Count, CountIn
<1>2. {i \in DOMAIN raw_q : o \in Range(Batch[raw_q[i]])} = Places(raw_q, Carriers(o))
  <2>1. \A i \in DOMAIN raw_q : raw_q[i] \in BatchId
    BY DEF ArcIInv, TypeOK
  <2> QED BY <2>1 DEF Places, Carriers
<1>3. Cardinality({i \in DOMAIN raw_q : o \in Range(Batch[raw_q[i]])}) = Raw(o)
  BY <1>2 DEF Raw, CountIn
<1>4. Underway(t, o) = Copies(t, o)
  BY <1>1, <1>3 DEF Underway, Copies
<1> QED BY <1>4 DEF Deliveries, BatchOf

\* A step moves copies. It may drop some when it cancels the token or ends the process.
Conserves ==
    \A t \in Tables, o \in Observation :
        LET before == Copies(t, o) + deliveries'[BatchOf(o)]
            after  == Copies(t, o)' + deliveries[BatchOf(o)]
        IN  after <= before /\ (up' /\ ~cancel' => after = before)

LEMMA QueueConserves ==
    ASSUME ArcIInv, PublishBatch \/ \E b \in BatchId : AckTimeout(b)
    PROVE  Conserves
<1> SUFFICES ASSUME NEW t \in Tables, NEW o \in Observation
             PROVE  /\ Copies(t, o)' = Copies(t, o)
                    /\ deliveries'[BatchOf(o)] = deliveries[BatchOf(o)]
                    /\ Copies(t, o) \in Nat /\ deliveries[BatchOf(o)] \in Nat
  BY DEF Conserves
<1>1. Counts(t, o)
  BY CountsAreNat
<1>2. UNCHANGED taskVars /\ UNCHANGED deliveries
  BY DEF PublishBatch, AckTimeout
<1> QED BY <1>1, <1>2 DEF Copies, Raw, Counts, taskVars

LEMMA ReaderConserves ==
    ASSUME ArcIInv, Reader \/ ReaderStreamClosed \/ ReaderFails
    PROVE  Conserves
<1> SUFFICES ASSUME NEW t \in Tables, NEW o \in Observation
             PROVE  LET before == Copies(t, o) + deliveries'[BatchOf(o)]
                        after  == Copies(t, o)' + deliveries[BatchOf(o)]
                    IN  after <= before /\ (up' /\ ~cancel' => after = before)
  BY DEF Conserves
<1>1. Counts(t, o)
  BY CountsAreNat
<1>2. UNCHANGED <<msg_q, ticker, chans, bufs, inserting>>
  BY DEF Reader, ReaderSetup, ReaderNext, ReaderAck, ReaderStreamClosed, ReaderFails, ReaderVars
<1>3. CASE UNCHANGED <<raw_q, deliveries>>
  BY <1>1, <1>2, <1>3 DEF Copies, Raw, Counts
<1>4. ASSUME NEW b \in BatchId, ReaderNext(b)
      PROVE  LET before == Copies(t, o) + deliveries'[BatchOf(o)]
                 after  == Copies(t, o)' + deliveries[BatchOf(o)]
             IN  after <= before /\ (up' /\ ~cancel' => after = before)
  <2>1. raw_q \in Seq(BatchId) /\ deliveries \in [BatchId -> Nat]
    BY DEF ArcIInv, TypeOK
  <2>2. Carriers(o) = {BatchOf(o)} /\ BatchOf(o) \in BatchId
    BY OneCarrier
  <2>3. deliveries'[BatchOf(o)] = deliveries[BatchOf(o)] + IF b \in Carriers(o) THEN 1 ELSE 0
    BY <1>4, <2>1, <2>2 DEF ReaderNext
  <2>4. CASE decoder \in Done
    <3>1. raw_q' = raw_q /\ cancel' = TRUE
      BY <1>4, <2>4 DEF ReaderNext
    <3> QED BY <1>1, <1>2, <2>3, <3>1 DEF Copies, Raw, Counts
  <2>5. CASE decoder \notin Done
    <3>1. raw_q' = Append(raw_q, b)
      BY <1>4, <2>5 DEF ReaderNext
    <3>2. Raw(o)' = Raw(o) + IF b \in Carriers(o) THEN 1 ELSE 0
      BY <2>1, <3>1, CountAppend DEF Raw
    <3> QED BY <1>1, <1>2, <2>3, <3>2 DEF Copies, Counts
  <2> QED BY <2>4, <2>5
<1> QED BY <1>3, <1>4 DEF Reader, ReaderSetup, ReaderAck, ReaderStreamClosed, ReaderFails, queueVars

LEMMA DecoderConserves ==
    ASSUME ArcIInv, Decoder
    PROVE  Conserves
<1> SUFFICES ASSUME NEW t \in Tables, NEW o \in Observation
             PROVE  LET before == Copies(t, o) + deliveries'[BatchOf(o)]
                        after  == Copies(t, o)' + deliveries[BatchOf(o)]
                    IN  after <= before /\ (up' /\ ~cancel' => after = before)
  BY DEF Conserves
<1>1. Counts(t, o)
  BY CountsAreNat
<1>2. UNCHANGED <<deliveries, ticker, chans, bufs, inserting>>
  BY DEF Decoder, Decode, DecoderClosed, DecoderVars, queueVars
<1>3. CASE Decode
  <2> DEFINE b == Head(raw_q)
             one == IF b \in Carriers(o) THEN 1 ELSE 0
  <2>1. raw_q \in Seq(BatchId) /\ raw_q # << >> /\ msg_q \in Seq(Observation)
    BY <1>3 DEF ArcIInv, TypeOK, Decode
  <2>2. b \in BatchId /\ Raw(o) = CountIn(Tail(raw_q), Carriers(o)) + one
    BY <2>1, CountTail DEF Raw
  <2>3. CountIn(Tail(raw_q), Carriers(o)) \in Nat
    BY <2>1, CountTail, CountType
  <2>4. GoodPrefix(b) \in Seq(Observation) /\ CountIn(GoodPrefix(b), {o}) <= one
    BY <2>2, GoodPrefixType
  <2>5. CountIn(GoodPrefix(b), {o}) \in Nat
    BY <2>4, CountType
  <2>6. CountIn(msg_q \o GoodPrefix(b), {o}) = CountIn(msg_q, {o}) + CountIn(GoodPrefix(b), {o})
    BY <2>1, <2>4, CountConcat
  <2>7. CountIn(<< >>, Carriers(o)) = 0
    BY CountEmpty
  <2>8. msg_q' = msg_q \/ msg_q' = msg_q \o GoodPrefix(b)
    BY <1>3 DEF Decode
  <2>9. CASE cancel' = TRUE
    <3>1. raw_q' = << >> \/ raw_q' = Tail(raw_q)
      BY <1>3 DEF Decode
    <3>2. Raw(o)' = 0 \/ Raw(o)' = CountIn(Tail(raw_q), Carriers(o))
      BY <2>7, <3>1 DEF Raw
    <3>3. \/ CountIn(msg_q', {o}) = CountIn(msg_q, {o})
          \/ CountIn(msg_q', {o}) = CountIn(msg_q, {o}) + CountIn(GoodPrefix(b), {o})
      BY <2>6, <2>8
    <3>4. one \in Nat
      OBVIOUS
    <3> HIDE DEF b, one
    <3>5. Raw(o)' + CountIn(msg_q', {o}) <= Raw(o) + CountIn(msg_q, {o}) /\ Raw(o)' \in Nat
          /\ CountIn(msg_q', {o}) \in Nat
      BY <1>1, <2>2, <2>3, <2>4, <2>5, <3>2, <3>3, <3>4, SMTT(60) DEF Counts
    <3>6. Copies(t, o)' + deliveries[BatchOf(o)] <= Copies(t, o) + deliveries'[BatchOf(o)]
      BY <1>1, <1>2, <3>5 DEF Copies, Counts
    <3> QED BY <2>9, <3>6, Zenon
  <2>10. CASE cancel' # TRUE
    <3>1. raw_q' = Tail(raw_q) /\ msg_q' = msg_q \o GoodPrefix(b) /\ GoodPrefix(b) = Batch[b]
      BY <1>3, <2>10 DEF Decode
    <3>2. Raw(o)' = CountIn(Tail(raw_q), Carriers(o))
      BY <3>1 DEF Raw
    <3>3. CountIn(GoodPrefix(b), {o}) = one
      BY <2>2, <3>1, OnceInItsBatch
    <3>4. CountIn(msg_q', {o}) = CountIn(msg_q, {o}) + one
      BY <2>6, <3>1, <3>3
    <3> HIDE DEF b
    <3> QED BY <1>1, <1>2, <2>2, <2>3, <3>2, <3>4 DEF Copies, Counts
  <2> QED BY <2>9, <2>10
<1>4. CASE DecoderClosed
  BY <1>1, <1>2, <1>4 DEF DecoderClosed, Copies, Raw, Counts
<1> QED BY <1>3, <1>4 DEF Decoder

\* The three places a step of the ticker may change.
TickerCopies(t, o) == CountIn(msg_q, {o}) + CountIn(ticker.held, {o}) + CountIn(chans[t], {o})

LEMMA TickerConservesBy ==
    ASSUME ArcIInv, UNCHANGED TickerVars,
           \A t \in Tables, o \in Observation :
              /\ CountIn(msg_q', {o}) \in Nat /\ CountIn(ticker'.held, {o}) \in Nat
              /\ CountIn(chans'[t], {o}) \in Nat
              /\ TickerCopies(t, o)' <= TickerCopies(t, o)
              /\ up' /\ ~cancel' => TickerCopies(t, o)' = TickerCopies(t, o)
    PROVE  Conserves
<1> SUFFICES ASSUME NEW t \in Tables, NEW o \in Observation
             PROVE  LET before == Copies(t, o) + deliveries'[BatchOf(o)]
                        after  == Copies(t, o)' + deliveries[BatchOf(o)]
                    IN  after <= before /\ (up' /\ ~cancel' => after = before)
  BY DEF Conserves
<1>1. Counts(t, o)
  BY CountsAreNat
<1>2. raw_q' = raw_q /\ bufs' = bufs /\ inserting' = inserting /\ deliveries' = deliveries
  BY DEF TickerVars, queueVars
<1>3. /\ Raw(o)' = Raw(o)
      /\ TickerCopies(t, o) \in Nat /\ TickerCopies(t, o)' \in Nat
      /\ Copies(t, o) = Raw(o) + TickerCopies(t, o) + CountIn(bufs[t], {o}) + CountIn(inserting[t], {o})
      /\ Copies(t, o)' = Raw(o)' + TickerCopies(t, o)' + CountIn(bufs[t], {o}) + CountIn(inserting[t], {o})
  BY <1>1, <1>2 DEF Raw, Copies, TickerCopies, Counts
<1>4. /\ TickerCopies(t, o)' <= TickerCopies(t, o)
      /\ up' /\ ~cancel' => TickerCopies(t, o)' = TickerCopies(t, o)
  OBVIOUS
<1>5. Copies(t, o)' + deliveries[BatchOf(o)] <= Copies(t, o) + deliveries'[BatchOf(o)]
  BY <1>1, <1>2, <1>3, <1>4 DEF Counts
<1>6. ASSUME up' /\ ~cancel'
      PROVE  Copies(t, o)' + deliveries[BatchOf(o)] = Copies(t, o) + deliveries'[BatchOf(o)]
  BY <1>2, <1>3, <1>4, <1>6
<1> QED BY <1>5, <1>6

\* With all counts natural numbers, equality of the three is enough.
TickerMoves ==
    \A t \in Tables, o \in Observation :
        /\ CountIn(msg_q', {o}) \in Nat /\ CountIn(ticker'.held, {o}) \in Nat
        /\ CountIn(chans'[t], {o}) \in Nat
        /\ CountIn(msg_q', {o}) + CountIn(ticker'.held, {o}) + CountIn(chans'[t], {o})
             = CountIn(msg_q, {o}) + CountIn(ticker.held, {o}) + CountIn(chans[t], {o})

LEMMA TickerMovesConserves ==
    ASSUME ArcIInv, UNCHANGED TickerVars, TickerMoves
    PROVE  Conserves
<1>1. ASSUME NEW t \in Tables, NEW o \in Observation
      PROVE  /\ CountIn(msg_q', {o}) \in Nat /\ CountIn(ticker'.held, {o}) \in Nat
             /\ CountIn(chans'[t], {o}) \in Nat
             /\ TickerCopies(t, o)' <= TickerCopies(t, o)
             /\ TickerCopies(t, o)' = TickerCopies(t, o)
  <2>1. Counts(t, o)
    BY CountsAreNat
  <2> QED BY <2>1 DEF TickerMoves, TickerCopies, Counts
<1>2. \A t \in Tables, o \in Observation :
        /\ CountIn(msg_q', {o}) \in Nat /\ CountIn(ticker'.held, {o}) \in Nat
        /\ CountIn(chans'[t], {o}) \in Nat
        /\ TickerCopies(t, o)' <= TickerCopies(t, o)
        /\ up' /\ ~cancel' => TickerCopies(t, o)' = TickerCopies(t, o)
  BY <1>1, Zenon
<1> QED BY <1>2, TickerConservesBy

\* The ticker ends: the messages of its channel and the one it holds are dropped.
LEMMA TickerDropConserves ==
    ASSUME ArcIInv, UNCHANGED TickerVars, msg_q' = << >>, ticker'.held = << >>,
           chans' = chans, cancel' = TRUE
    PROVE  Conserves
<1>1. ASSUME NEW t \in Tables, NEW o \in Observation
      PROVE  /\ CountIn(msg_q', {o}) \in Nat /\ CountIn(ticker'.held, {o}) \in Nat
             /\ CountIn(chans'[t], {o}) \in Nat
             /\ TickerCopies(t, o)' <= TickerCopies(t, o)
  <2>1. Counts(t, o)
    BY CountsAreNat
  <2>2. CountIn(msg_q', {o}) = 0 /\ CountIn(ticker'.held, {o}) = 0
    BY CountEmpty
  <2> QED BY <2>1, <2>2 DEF TickerCopies, Counts
<1> QED BY <1>1, TickerConservesBy

\* A message is forwarded: it is in each of the four channels, and nowhere before.
LEMMA ForwardCounts ==
    ASSUME ArcIInv, writer \notin Done, NEW x \in Observation, NEW n, TickerForward(x, n)
    PROVE  /\ ticker'.held = << >>
           /\ \A t \in Tables, o \in Observation :
                 CountIn(chans'[t], {o}) = CountIn(chans[t], {o}) + CountIn(<<x>>, {o})
<1>1. /\ chans' = [t \in Tables |-> Append(chans[t], x)]
      /\ ticker' = [pc |-> "select", held |-> << >>, msg_counter |-> n + 1]
  BY DEF TickerForward
<1>2. ASSUME NEW t \in Tables, NEW o \in Observation
      PROVE  CountIn(chans'[t], {o}) = CountIn(chans[t], {o}) + CountIn(<<x>>, {o})
  <2>1. chans[t] \in Seq(Observation) /\ chans'[t] = Append(chans[t], x)
    BY <1>1 DEF ArcIInv, TypeOK
  <2>2. CountIn(Append(chans[t], x), {o}) = CountIn(chans[t], {o}) + IF x \in {o} THEN 1 ELSE 0
    BY <2>1, CountAppend
  <2>3. CountIn(<<x>>, {o}) = IF x \in {o} THEN 1 ELSE 0
    BY CountOne
  <2> QED BY <2>1, <2>2, <2>3
<1> QED BY <1>1, <1>2

LEMMA TickerConserves ==
    ASSUME ArcIInv, Ticker
    PROVE  Conserves
<1>1. \A t \in Tables, o \in Observation : Counts(t, o)
  BY CountsAreNat
<1>2. /\ ticker \in TickerType /\ msg_q \in Seq(Observation) /\ HeldWhileFull
  BY DEF ArcIInv, TypeOK, TickerType, TickerPc
<1>3. ASSUME NEW x \in Observation, NEW o PROVE CountIn(<<x>>, {o}) \in Nat
  <2>1. <<x>> \in Seq(Observation)
    OBVIOUS
  <2> QED BY <2>1, CountType
<1>4. ASSUME NEW how \in Done, TickerExit(how) PROVE Conserves
  <2>1. /\ UNCHANGED TickerVars /\ msg_q' = << >> /\ chans' = chans /\ cancel' = TRUE
        /\ ticker' = [ticker EXCEPT !.pc = how, !.held = << >>]
    BY <1>4 DEF TickerExit
  <2>2. ticker'.held = << >>
    BY <1>2, <2>1 DEF TickerType
  <2> QED BY <2>1, <2>2, TickerDropConserves
<1>5. CASE TickerCancel
  BY <1>4, <1>5 DEF TickerCancel, Done
<1>6. CASE TickerFlushTick
  <2>1. UNCHANGED TickerVars /\ msg_q' = msg_q /\ chans' = chans
        /\ ticker' = [ticker EXCEPT !.pc = "tick"]
    BY <1>6 DEF TickerFlushTick
  <2>2. ticker'.held = ticker.held
    BY <1>2, <2>1 DEF TickerType
  <2>3. TickerMoves
    <3> SUFFICES ASSUME NEW t \in Tables, NEW o \in Observation
                  PROVE  /\ CountIn(msg_q', {o}) \in Nat /\ CountIn(ticker'.held, {o}) \in Nat
                         /\ CountIn(chans'[t], {o}) \in Nat
                         /\ CountIn(msg_q', {o}) + CountIn(ticker'.held, {o}) + CountIn(chans'[t], {o})
                              = CountIn(msg_q, {o}) + CountIn(ticker.held, {o}) + CountIn(chans[t], {o})
      BY DEF TickerMoves
    <3>0. Counts(t, o)
      BY <1>1
    <3> QED BY <2>1, <2>2, <3>0 DEF Counts
  <2> QED BY <2>1, <2>3, TickerMovesConserves
<1>7. CASE TickerRecv
  <2>1. UNCHANGED TickerVars /\ msg_q # << >> /\ ticker.pc = "select"
    BY <1>7 DEF TickerRecv
  <2>2. Head(msg_q) \in Observation /\ Tail(msg_q) \in Seq(Observation) /\ ticker.held = << >>
    BY <1>2, <2>1 DEF HeldWhileFull
  <2>3. ASSUME NEW o \in Observation
        PROVE  /\ CountIn(msg_q, {o}) = CountIn(Tail(msg_q), {o}) + CountIn(<<Head(msg_q)>>, {o})
               /\ CountIn(Tail(msg_q), {o}) \in Nat
    <3>1. /\ CountIn(msg_q, {o}) = CountIn(Tail(msg_q), {o})
                                      + IF Head(msg_q) \in {o} THEN 1 ELSE 0
      BY <1>2, <2>1, CountTail
    <3>2. CountIn(<<Head(msg_q)>>, {o}) = IF Head(msg_q) \in {o} THEN 1 ELSE 0
      BY CountOne
    <3>3. CountIn(Tail(msg_q), {o}) \in Nat
      BY <2>2, CountType
    <3> QED BY <3>1, <3>2, <3>3
  <2>4. CASE ticker.msg_counter >= BatchSize
    <3>1. /\ ticker' = [ticker EXCEPT !.pc = "full", !.held = <<Head(msg_q)>>]
          /\ msg_q' = Tail(msg_q) /\ chans' = chans
      BY <1>7, <2>4 DEF TickerRecv
    <3>2. ticker'.held = <<Head(msg_q)>>
      BY <1>2, <3>1 DEF TickerType
    <3>3. TickerMoves
      <4> SUFFICES ASSUME NEW t \in Tables, NEW o \in Observation
                    PROVE  /\ CountIn(msg_q', {o}) \in Nat /\ CountIn(ticker'.held, {o}) \in Nat
                           /\ CountIn(chans'[t], {o}) \in Nat
                           /\ CountIn(msg_q', {o}) + CountIn(ticker'.held, {o}) + CountIn(chans'[t], {o})
                                = CountIn(msg_q, {o}) + CountIn(ticker.held, {o}) + CountIn(chans[t], {o})
        BY DEF TickerMoves
      <4>0. Counts(t, o)
        BY <1>1
      <4>1. CountIn(ticker.held, {o}) = 0
        BY <2>2, CountEmpty
      <4>2. CountIn(<<Head(msg_q)>>, {o}) \in Nat
        BY <1>3, <2>2
      <4>3. /\ CountIn(msg_q, {o}) = CountIn(Tail(msg_q), {o}) + CountIn(<<Head(msg_q)>>, {o})
            /\ CountIn(Tail(msg_q), {o}) \in Nat
        BY <2>3
      <4> QED BY <3>1, <3>2, <4>0, <4>1, <4>2, <4>3 DEF Counts
    <3> QED BY <2>1, <3>3, TickerMovesConserves
  <2>5. CASE ~(ticker.msg_counter >= BatchSize)
    <3>1. /\ TickerForward(Head(msg_q), ticker.msg_counter)
          /\ writer \notin Done => msg_q' = Tail(msg_q)
      BY <1>7, <2>5 DEF TickerRecv
    <3>2. CASE writer \in Done
      <4>1. /\ ticker' = [ticker EXCEPT !.pc = "err", !.held = << >>]
            /\ msg_q' = << >> /\ cancel' = TRUE /\ chans' = chans
        BY <3>1, <3>2 DEF TickerForward
      <4>2. ticker'.held = << >>
        BY <1>2, <4>1 DEF TickerType
      <4> QED BY <2>1, <4>1, <4>2, TickerDropConserves
    <3>3. CASE writer \notin Done
      <4>1. /\ ticker'.held = << >>
            /\ \A t \in Tables, o \in Observation :
                  CountIn(chans'[t], {o}) = CountIn(chans[t], {o}) + CountIn(<<Head(msg_q)>>, {o})
        BY <2>2, <3>1, <3>3, ForwardCounts
      <4>2. TickerMoves
        <5> SUFFICES ASSUME NEW t \in Tables, NEW o \in Observation
                      PROVE  /\ CountIn(msg_q', {o}) \in Nat /\ CountIn(ticker'.held, {o}) \in Nat
                             /\ CountIn(chans'[t], {o}) \in Nat
                             /\ CountIn(msg_q', {o}) + CountIn(ticker'.held, {o}) + CountIn(chans'[t], {o})
                                  = CountIn(msg_q, {o}) + CountIn(ticker.held, {o}) + CountIn(chans[t], {o})
          BY DEF TickerMoves
        <5>0. Counts(t, o)
          BY <1>1
        <5>1. CountIn(ticker.held, {o}) = 0 /\ CountIn(ticker'.held, {o}) = 0
          BY <2>2, <4>1, CountEmpty
        <5>2. CountIn(<<Head(msg_q)>>, {o}) \in Nat
          BY <1>3, <2>2
        <5>3. /\ CountIn(msg_q, {o}) = CountIn(Tail(msg_q), {o}) + CountIn(<<Head(msg_q)>>, {o})
              /\ CountIn(Tail(msg_q), {o}) \in Nat
          BY <2>3
        <5>4. CountIn(chans'[t], {o}) = CountIn(chans[t], {o}) + CountIn(<<Head(msg_q)>>, {o})
          BY <4>1
        <5>5. msg_q' = Tail(msg_q)
          BY <3>1, <3>3
        <5> QED BY <5>0, <5>1, <5>2, <5>3, <5>4, <5>5 DEF Counts
      <4> QED BY <2>1, <4>2, TickerMovesConserves
    <3> QED BY <3>2, <3>3
  <2> QED BY <2>4, <2>5
<1>8. CASE TickerMsgClosed
  BY <1>4, <1>8 DEF TickerMsgClosed, Done
<1>9. CASE TickerSignal
  <2>1. /\ UNCHANGED TickerVars /\ msg_q' = msg_q /\ ticker.pc \in {"tick", "full"}
        /\ writer \notin Done
    BY <1>9 DEF TickerSignal
  <2>2. CASE ticker.pc = "full"
    <3>1. PICK x \in Observation : ticker.held = <<x>>
      BY <1>2, <2>2 DEF HeldWhileFull
    <3>2. TickerForward(x, 0)
      BY <1>9, <2>2, <3>1 DEF TickerSignal
    <3>3. /\ ticker'.held = << >>
          /\ \A t \in Tables, o \in Observation :
                CountIn(chans'[t], {o}) = CountIn(chans[t], {o}) + CountIn(<<x>>, {o})
      BY <2>1, <3>2, ForwardCounts
    <3>4. TickerMoves
      <4> SUFFICES ASSUME NEW t \in Tables, NEW o \in Observation
                    PROVE  /\ CountIn(msg_q', {o}) \in Nat /\ CountIn(ticker'.held, {o}) \in Nat
                           /\ CountIn(chans'[t], {o}) \in Nat
                           /\ CountIn(msg_q', {o}) + CountIn(ticker'.held, {o}) + CountIn(chans'[t], {o})
                                = CountIn(msg_q, {o}) + CountIn(ticker.held, {o}) + CountIn(chans[t], {o})
        BY DEF TickerMoves
      <4>0. Counts(t, o)
        BY <1>1
      <4>1. CountIn(ticker'.held, {o}) = 0 /\ CountIn(ticker.held, {o}) = CountIn(<<x>>, {o})
        BY <3>1, <3>3, CountEmpty
      <4>2. CountIn(<<x>>, {o}) \in Nat
        BY <1>3
      <4>3. CountIn(chans'[t], {o}) = CountIn(chans[t], {o}) + CountIn(<<x>>, {o})
        BY <3>3
      <4> QED BY <2>1, <4>0, <4>1, <4>2, <4>3 DEF Counts
    <3> QED BY <2>1, <3>4, TickerMovesConserves
  <2>3. CASE ticker.pc # "full"
    <3>1. /\ ticker' = [pc |-> "select", held |-> << >>, msg_counter |-> 0] /\ chans' = chans
      BY <1>9, <2>3 DEF TickerSignal
    <3>2. ticker'.held = ticker.held
      BY <1>2, <2>3, <3>1 DEF HeldWhileFull
    <3>3. TickerMoves
      <4> SUFFICES ASSUME NEW t \in Tables, NEW o \in Observation
                    PROVE  /\ CountIn(msg_q', {o}) \in Nat /\ CountIn(ticker'.held, {o}) \in Nat
                           /\ CountIn(chans'[t], {o}) \in Nat
                           /\ CountIn(msg_q', {o}) + CountIn(ticker'.held, {o}) + CountIn(chans'[t], {o})
                                = CountIn(msg_q, {o}) + CountIn(ticker.held, {o}) + CountIn(chans[t], {o})
        BY DEF TickerMoves
      <4>0. Counts(t, o)
        BY <1>1
      <4> QED BY <2>1, <3>1, <3>2, <4>0 DEF Counts
    <3> QED BY <2>1, <3>3, TickerMovesConserves
  <2> QED BY <2>2, <2>3
<1>10. CASE TickerSignalFails
  BY <1>4, <1>10 DEF TickerSignalFails, Done
<1> QED BY <1>5, <1>6, <1>7, <1>8, <1>9, <1>10 DEF Ticker

\* The end of an iteration of the writer keeps the copies that were in the buffers.
LEMMA FlushCounts ==
    ASSUME ArcIInv, writer = "select", NEW flush, NEW buffers \in Buffers,
           WriterFlushOr(flush, buffers), NEW t \in Tables, NEW o \in Observation
    PROVE  /\ CountIn(bufs'[t], {o}) \in Nat /\ CountIn(inserting'[t], {o}) \in Nat
           /\ CountIn(bufs'[t], {o}) + CountIn(inserting'[t], {o}) = CountIn(buffers[t], {o})
           /\ CountIn(inserting[t], {o}) = 0
<1>1. inserting = Empty /\ Empty[t] = << >>
  BY EmptyType DEF ArcIInv, InsertingWhileWriting
<1>2. CountIn(Empty[t], {o}) = 0
  BY <1>1, CountEmpty
<1>3. CountIn(buffers[t], {o}) \in Nat
  <2>1. buffers[t] \in Seq(Observation)
    BY DEF Buffers
  <2> QED BY <2>1, CountType
<1>4. CASE flush /\ buffers # Empty
  <2>1. inserting' = buffers /\ bufs' = Empty
    BY <1>4 DEF WriterFlushOr
  <2> QED BY <1>1, <1>2, <1>3, <2>1
<1>5. CASE ~(flush /\ buffers # Empty)
  <2>1. inserting' = inserting /\ bufs' = buffers
    BY <1>5 DEF WriterFlushOr
  <2> QED BY <1>1, <1>2, <1>3, <2>1
<1> QED BY <1>4, <1>5

\* The writer ends: what it had is dropped, what it was inserting included.
LEMMA WriterExitCounts ==
    ASSUME ArcIInv, NEW how, WriterExit(how), NEW t \in Tables, NEW o \in Observation
    PROVE  /\ Copies(t, o)' + CountIn(inserting[t], {o}) <= Copies(t, o)
           /\ Copies(t, o)' \in Nat
           /\ deliveries' = deliveries
<1>1. /\ bufs' = Empty /\ inserting' = Empty /\ chans' = Empty
      /\ raw_q' = raw_q /\ msg_q' = msg_q /\ ticker' = ticker /\ deliveries' = deliveries
  BY DEF WriterExit, WriterVars, queueVars
<1>2. CountIn(Empty[t], {o}) = 0
  BY EmptyType, CountEmpty
<1>3. Counts(t, o)
  BY CountsAreNat
<1>4. Copies(t, o)' = Raw(o) + CountIn(msg_q, {o}) + CountIn(ticker.held, {o})
  BY <1>1, <1>2, <1>3 DEF Copies, Raw, Counts
<1> QED BY <1>1, <1>3, <1>4 DEF Copies, Counts

LEMMA WriterConserves ==
    ASSUME ArcIInv,
           (\E t \in Tables : WriterRecv(t)) \/ WriterTick \/ WriterCancel \/ WriterClosed
    PROVE  Conserves
<1> SUFFICES ASSUME NEW t \in Tables, NEW o \in Observation
             PROVE  LET before == Copies(t, o) + deliveries'[BatchOf(o)]
                        after  == Copies(t, o)' + deliveries[BatchOf(o)]
                    IN  after <= before /\ (up' /\ ~cancel' => after = before)
  BY DEF Conserves
<1>1. Counts(t, o)
  BY CountsAreNat
<1>2. chans \in Buffers /\ bufs \in Buffers
  BY DEF ArcIInv, TypeOK, Buffers
<1>3. ASSUME NEW how, WriterExit(how)
      PROVE  LET before == Copies(t, o) + deliveries'[BatchOf(o)]
                 after  == Copies(t, o)' + deliveries[BatchOf(o)]
             IN  after <= before /\ (up' /\ ~cancel' => after = before)
  <2>1. /\ Copies(t, o)' + CountIn(inserting[t], {o}) <= Copies(t, o)
        /\ Copies(t, o)' \in Nat /\ deliveries' = deliveries
    BY <1>3, WriterExitCounts
  <2>2. CountIn(inserting[t], {o}) \in Nat /\ deliveries[BatchOf(o)] \in Nat /\ Copies(t, o) \in Nat
    BY <1>1 DEF Counts, Copies
  <2>3. Copies(t, o)' + deliveries[BatchOf(o)] <= Copies(t, o) + deliveries'[BatchOf(o)]
    BY <2>1, <2>2
  <2>4. cancel' = TRUE
    BY <1>3 DEF WriterExit
  <2> QED BY <2>3, <2>4, Zenon
<1>4. ASSUME NEW x \in Tables, WriterRecv(x)
      PROVE  Copies(t, o)' = Copies(t, o) /\ deliveries' = deliveries
  <2> DEFINE buffers == [bufs EXCEPT ![x] = Append(@, Head(chans[x]))]
  <2>1. /\ writer = "select" /\ chans[x] # << >>
        /\ chans' = [chans EXCEPT ![x] = Tail(@)]
        /\ WriterFlushOr(Len(buffers["timings"]) >= BatchSize, buffers)
        /\ raw_q' = raw_q /\ msg_q' = msg_q /\ ticker' = ticker /\ deliveries' = deliveries
    BY <1>4 DEF WriterRecv, WriterVars, queueVars
  <2>2. chans[x] \in Seq(Observation) /\ bufs[x] \in Seq(Observation)
    BY <1>2 DEF Buffers
  <2>3. /\ Head(chans[x]) \in Observation /\ Tail(chans[x]) \in Seq(Observation)
        /\ CountIn(chans[x], {o}) = CountIn(Tail(chans[x]), {o})
                                      + IF Head(chans[x]) \in {o} THEN 1 ELSE 0
    BY <2>1, <2>2, CountTail
  <2>4. /\ Append(bufs[x], Head(chans[x])) \in Seq(Observation)
        /\ CountIn(Append(bufs[x], Head(chans[x])), {o})
             = CountIn(bufs[x], {o}) + IF Head(chans[x]) \in {o} THEN 1 ELSE 0
    <3>1. Append(bufs[x], Head(chans[x])) \in Seq(Observation)
      BY <2>2, <2>3
    <3> QED BY <2>2, <2>3, <3>1, CountAppend
  <2>5. buffers \in Buffers
    BY <1>2, <2>4 DEF Buffers
  <2>6. /\ buffers[t] = IF t = x THEN Append(bufs[x], Head(chans[x])) ELSE bufs[t]
        /\ chans'[t] = IF t = x THEN Tail(chans[x]) ELSE chans[t]
    BY <1>2, <2>1 DEF Buffers
  <2>7. CountIn(Tail(chans[x]), {o}) \in Nat
    BY <2>3, CountType
  <2>8. /\ CountIn(buffers[t], {o}) + CountIn(chans'[t], {o})
             = CountIn(bufs[t], {o}) + CountIn(chans[t], {o})
        /\ CountIn(chans'[t], {o}) \in Nat
    <3> HIDE DEF buffers
    <3>1. CountIn(bufs[t], {o}) \in Nat /\ CountIn(chans[t], {o}) \in Nat
      BY <1>1 DEF Counts
    <3>2. CASE t = x
      BY <2>3, <2>4, <2>6, <2>7, <3>1, <3>2
    <3>3. CASE t # x
      BY <2>6, <3>1, <3>3
    <3> QED BY <3>2, <3>3
  <2> HIDE DEF buffers
  <2>9. /\ CountIn(bufs'[t], {o}) \in Nat /\ CountIn(inserting'[t], {o}) \in Nat
        /\ CountIn(bufs'[t], {o}) + CountIn(inserting'[t], {o}) = CountIn(buffers[t], {o})
        /\ CountIn(inserting[t], {o}) = 0
    BY <2>1, <2>5, FlushCounts
  <2>10. Raw(o)' = Raw(o)
    BY <2>1 DEF Raw
  <2>11. raw_q' = raw_q /\ msg_q' = msg_q /\ ticker' = ticker /\ deliveries' = deliveries
    BY <2>1
  <2>12. /\ CountIn(bufs[t], {o}) \in Nat /\ CountIn(chans[t], {o}) \in Nat
         /\ CountIn(buffers[t], {o}) \in Nat
    BY <1>1, <2>9 DEF Counts
  <2>13. CountIn(chans'[t], {o}) + CountIn(bufs'[t], {o}) + CountIn(inserting'[t], {o})
          = CountIn(chans[t], {o}) + CountIn(bufs[t], {o}) + CountIn(inserting[t], {o})
    BY <2>8, <2>9, <2>12
  <2>14. Copies(t, o)' = Copies(t, o)
    BY <1>1, <2>8, <2>9, <2>10, <2>11, <2>13 DEF Copies, Counts
  <2> QED BY <2>11, <2>14
<1>5. CASE WriterTick
  <2>1. /\ writer = "select" /\ WriterFlushOr(TRUE, bufs) /\ chans' = chans
        /\ raw_q' = raw_q /\ msg_q' = msg_q /\ ticker' = ticker /\ deliveries' = deliveries
    BY <1>5, Zenon DEF WriterTick, WriterVars, queueVars
  <2>2. /\ CountIn(bufs'[t], {o}) \in Nat /\ CountIn(inserting'[t], {o}) \in Nat
        /\ CountIn(bufs'[t], {o}) + CountIn(inserting'[t], {o}) = CountIn(bufs[t], {o})
        /\ CountIn(inserting[t], {o}) = 0
    BY <1>2, <2>1, FlushCounts
  <2>3. Raw(o)' = Raw(o)
    BY <2>1 DEF Raw
  <2>4. Copies(t, o)' = Copies(t, o)
    BY <1>1, <2>1, <2>2, <2>3 DEF Copies, Counts
  <2>5. Copies(t, o) \in Nat /\ deliveries[BatchOf(o)] \in Nat
    BY <1>1 DEF Copies, Counts
  <2>6. deliveries' = deliveries
    BY <2>1
  <2> QED BY <2>4, <2>5, <2>6
<1>6. Copies(t, o) \in Nat /\ deliveries[BatchOf(o)] \in Nat
  BY <1>1 DEF Copies, Counts
<1>7. ASSUME NEW x \in Tables, WriterRecv(x)
      PROVE  LET before == Copies(t, o) + deliveries'[BatchOf(o)]
                 after  == Copies(t, o)' + deliveries[BatchOf(o)]
             IN  after <= before /\ (up' /\ ~cancel' => after = before)
  <2>1. Copies(t, o)' = Copies(t, o) /\ deliveries' = deliveries
    BY <1>4, <1>7
  <2> QED BY <1>6, <2>1
<1> QED BY <1>3, <1>5, <1>7 DEF WriterCancel, WriterClosed
-----------------------------------------------------------------------------
(* Rows *)

\* A step that drops copies and may commit some of them, when the process is killed,
\* restarted, or the writer fails.
Drops ==
    /\ ~(up' /\ ~cancel' /\ restarts' = 0)
    /\ \A o \in Observation :
          timings'[o] + Copies("timings", o)' <= timings[o] + Copies("timings", o)
    /\ deliveries' = deliveries

\* No step brings an undisturbed archiver back.
Undisturbed == up /\ ~cancel /\ restarts = 0

LEMMA ConservingSteps ==
    ASSUME ArcIInv,
           \/ PublishBatch \/ \E b \in BatchId : AckTimeout(b)
           \/ Reader \/ ReaderStreamClosed \/ ReaderFails \/ Decoder \/ Ticker
           \/ (\E t \in Tables : WriterRecv(t)) \/ WriterTick \/ WriterCancel \/ WriterClosed
    PROVE  Conserves /\ UNCHANGED dbVars /\ (Undisturbed' => Undisturbed)
<1>1. Conserves
  BY QueueConserves, ReaderConserves, DecoderConserves, TickerConserves, WriterConserves
<1>2. UNCHANGED dbVars
  BY Zenon DEF PublishBatch, AckTimeout, Reader, ReaderSetup, ReaderNext, ReaderAck, ReaderStreamClosed,
         ReaderFails, ReaderVars, Decoder, Decode, DecoderClosed, DecoderVars, Ticker,
         TickerCancel, TickerFlushTick, TickerRecv, TickerMsgClosed, TickerSignal,
         TickerSignalFails, TickerExit, TickerVars, WriterRecv, WriterTick, WriterCancel,
         WriterClosed
<1>3. up' = up /\ restarts' = restarts
  BY Zenon DEF PublishBatch, AckTimeout, Reader, ReaderSetup, ReaderNext, ReaderAck, ReaderStreamClosed,
         ReaderFails, ReaderVars, Decoder, Decode, DecoderClosed, DecoderVars, Ticker,
         TickerCancel, TickerFlushTick, TickerRecv, TickerMsgClosed, TickerSignal,
         TickerSignalFails, TickerExit, TickerVars, WriterRecv, WriterTick, WriterCancel,
         WriterClosed, WriterExit, WriterVars
<1>4. cancel => cancel'
  BY Zenon DEF PublishBatch, AckTimeout, Reader, ReaderSetup, ReaderNext, ReaderAck, ReaderStreamClosed,
         ReaderFails, ReaderVars, Decoder, Decode, DecoderClosed, DecoderVars, Ticker,
         TickerCancel, TickerFlushTick, TickerRecv, TickerMsgClosed, TickerSignal, TickerForward,
         TickerSignalFails, TickerExit, TickerVars, WriterRecv, WriterTick, WriterCancel,
         WriterClosed, WriterExit
<1> QED BY <1>1, <1>2, <1>3, <1>4 DEF Undisturbed

\* An INSERT turns the copies it was given into rows.
LEMMA InsertCounts ==
    ASSUME ArcIInv, NEW x \in Tables, Insert(x), NEW o \in Observation
    PROVE  /\ timings'[o] + Copies("timings", o)' = timings[o] + Copies("timings", o)
           /\ deliveries' = deliveries /\ (Undisturbed' => Undisturbed)
           /\ \A t \in Tables \ {"timings"} :
                 Hash[o] \in rows[t] \/ Copies(t, o) > 0 => Hash[o] \in rows'[t] \/ Copies(t, o)' > 0
<1>1. /\ Commit({x}) /\ inserting' = [inserting EXCEPT ![x] = << >>]
      /\ raw_q' = raw_q /\ msg_q' = msg_q /\ ticker' = ticker /\ deliveries' = deliveries
      /\ chans' = chans /\ bufs' = bufs /\ up' = up /\ restarts' = restarts /\ cancel' = cancel
  BY DEF Insert, WriterVars, queueVars
<1>2. Raw(o)' = Raw(o)
  BY <1>1 DEF Raw
<1>3. inserting \in [Tables -> Seq(Observation)] /\ "timings" \in Tables
  BY DEF ArcIInv, TypeOK, Tables
<1>4. ASSUME NEW t \in Tables
      PROVE  IF t = x THEN Copies(t, o) = Copies(t, o)' + CountIn(inserting[t], {o})
             ELSE Copies(t, o)' = Copies(t, o)
  <2>1. Counts(t, o)
    BY CountsAreNat
  <2>2. CASE t = x
    <3>1. inserting'[t] = << >>
      BY <1>1, <1>3, <2>2
    <3>2. CountIn(inserting'[t], {o}) = 0
      BY <3>1, CountEmpty
    <3> QED BY <1>1, <1>2, <2>1, <2>2, <3>2 DEF Copies, Counts
  <2>3. CASE t # x
    <3>1. inserting'[t] = inserting[t]
      BY <1>1, <1>3, <2>3
    <3> QED BY <1>1, <1>2, <2>3, <3>1 DEF Copies
  <2> QED BY <2>2, <2>3
<1>5. timings'[o] = timings[o] + IF "timings" \in {x} THEN CountIn(inserting["timings"], {o}) ELSE 0
  BY <1>1, CommitType DEF ArcIInv
<1>6. /\ timings[o] \in Nat /\ Copies("timings", o) \in Nat
      /\ CountIn(inserting["timings"], {o}) \in Nat
  <2>1. Counts("timings", o)
    BY <1>3, CountsAreNat
  <2>2. timings[o] \in Nat
    BY DEF ArcIInv, TypeOK
  <2> QED BY <2>1, <2>2 DEF Counts, Copies
<1>7. timings'[o] + Copies("timings", o)' = timings[o] + Copies("timings", o)
  <2>1. CASE x = "timings"
    <3>1. Copies("timings", o) = Copies("timings", o)' + CountIn(inserting["timings"], {o})
      BY <1>3, <1>4, <2>1
    <3>2. timings'[o] = timings[o] + CountIn(inserting["timings"], {o})
      BY <1>5, <2>1
    <3>3. Copies("timings", o)' \in Nat
      <4>1. inserting'["timings"] = << >>
        BY <1>1, <1>3, <2>1
      <4>2. CountIn(inserting'["timings"], {o}) = 0
        BY <4>1, CountEmpty
      <4>3. Counts("timings", o)
        BY <1>3, CountsAreNat
      <4> QED BY <1>1, <1>2, <4>2, <4>3 DEF Copies, Counts
    <3> QED BY <1>6, <3>1, <3>2, <3>3
  <2>2. CASE x # "timings"
    <3>1. Copies("timings", o)' = Copies("timings", o)
      BY <1>3, <1>4, <2>2
    <3>2. timings'[o] = timings[o]
      BY <1>5, <1>6, <2>2
    <3> QED BY <3>1, <3>2
  <2> QED BY <2>1, <2>2
<1>8. ASSUME NEW t \in Tables \ {"timings"}, Hash[o] \in rows[t] \/ Copies(t, o) > 0
      PROVE  Hash[o] \in rows'[t] \/ Copies(t, o)' > 0
  <2>1. rows'[t] = IF t \in {x} THEN rows[t] \cup {Hash[p] : p \in Range(inserting[t])} ELSE rows[t]
    BY <1>1 DEF Commit
  <2>2. CASE Hash[o] \in rows[t]
    BY <2>1, <2>2
  <2>3. CASE Copies(t, o) > 0 /\ t # x
    <3>1. Copies(t, o)' = Copies(t, o)
      BY <1>4, <2>3
    <3> QED BY <2>3, <3>1
  <2>4. CASE Copies(t, o) > 0 /\ t = x
    <3>1. Copies(t, o) = Copies(t, o)' + CountIn(inserting[t], {o})
      BY <1>4, <2>4
    <3>2. CASE CountIn(inserting[t], {o}) > 0
      <4>1. PICK i \in DOMAIN inserting[t] : inserting[t][i] \in {o}
        BY <1>3, <3>2, CountPositive
      <4>2. o \in Range(inserting[t])
        BY <4>1 DEF Range
      <4> QED BY <2>1, <2>4, <4>2
    <3>3. CASE ~(CountIn(inserting[t], {o}) > 0)
      <4>1. Counts(t, o)
        BY CountsAreNat
      <4>2. CountIn(inserting[t], {o}) = 0
        BY <3>3, <4>1 DEF Counts
      <4>3. inserting'[t] = << >>
        BY <1>1, <1>3, <2>4
      <4>4. CountIn(inserting'[t], {o}) = 0
        BY <4>3, CountEmpty
      <4>5. Copies(t, o)' = Copies(t, o)
        BY <1>1, <1>2, <4>1, <4>2, <4>4 DEF Copies, Counts
      <4> QED BY <2>4, <4>5
    <3> QED BY <3>2, <3>3
  <2> QED BY <1>8, <2>2, <2>3, <2>4, Zenon
<1>9. Undisturbed' => Undisturbed
  BY <1>1 DEF Undisturbed
<1> QED BY <1>1, <1>7, <1>8, <1>9

\* A crash or a restart leaves no copy.
LEMMA FreshCounts ==
    ASSUME Fresh, NEW t \in Tables, NEW o \in Observation
    PROVE  Copies(t, o)' = 0
<1>1. /\ raw_q' = << >> /\ msg_q' = << >> /\ ticker'.held = << >>
      /\ chans'[t] = << >> /\ bufs'[t] = << >> /\ inserting'[t] = << >>
  BY EmptyType DEF Fresh
<1>2. /\ CountIn(raw_q', Carriers(o)) = 0 /\ CountIn(msg_q', {o}) = 0
      /\ CountIn(ticker'.held, {o}) = 0 /\ CountIn(chans'[t], {o}) = 0
      /\ CountIn(bufs'[t], {o}) = 0 /\ CountIn(inserting'[t], {o}) = 0
  BY <1>1, CountEmpty
<1> QED BY <1>2 DEF Copies, Raw

LEMMA DroppingSteps ==
    ASSUME ArcIInv, (\E t \in Tables : InsertFails(t)) \/ Exit \/ Crash \/ Restart
    PROVE  Drops
<1>1. "timings" \in Tables
  BY DEF Tables
<1>2. \A o \in Observation :
        /\ timings[o] \in Nat /\ Copies("timings", o) \in Nat
        /\ CountIn(inserting["timings"], {o}) \in Nat
        /\ CountIn(inserting["timings"], {o}) <= Copies("timings", o)
  <2> TAKE o \in Observation
  <2>1. Counts("timings", o)
    BY <1>1, CountsAreNat
  <2>2. timings[o] \in Nat
    BY DEF ArcIInv, TypeOK
  <2> QED BY <2>1, <2>2 DEF Counts, Copies
<1>3. ASSUME NEW t \in Tables, InsertFails(t) PROVE Drops
  <2>1. PICK T \in SUBSET (Tables \ {t}) : Commit(T)
    BY <1>3 DEF InsertFails
  <2>2. WriterExit("err")
    BY <1>3 DEF InsertFails
  <2>3. ASSUME NEW o \in Observation
        PROVE  timings'[o] + Copies("timings", o)' <= timings[o] + Copies("timings", o)
    <3>1. timings'[o] = timings[o] + IF "timings" \in T
                                     THEN CountIn(inserting["timings"], {o}) ELSE 0
      BY <2>1, CommitType DEF ArcIInv
    <3>2. /\ Copies("timings", o)' + CountIn(inserting["timings"], {o}) <= Copies("timings", o)
          /\ Copies("timings", o)' \in Nat
      BY <1>1, <2>2, WriterExitCounts
    <3>3. /\ timings[o] \in Nat /\ Copies("timings", o) \in Nat
          /\ CountIn(inserting["timings"], {o}) \in Nat
      BY <1>2
    <3> QED BY <3>1, <3>2, <3>3
  <2>4. cancel' = TRUE /\ deliveries' = deliveries
    BY <2>2 DEF WriterExit, WriterVars, queueVars
  <2> QED BY <2>3, <2>4 DEF Drops
<1>4. CASE Exit
  <2>1. /\ up' = FALSE /\ UNCHANGED taskVars /\ timings' = timings /\ deliveries' = deliveries
    BY <1>4 DEF Exit, queueVars, dbVars
  <2>2. \A o \in Observation : Copies("timings", o)' = Copies("timings", o)
    BY <2>1 DEF Copies, Raw, taskVars
  <2>3. ASSUME NEW o \in Observation
        PROVE  timings'[o] + Copies("timings", o)' <= timings[o] + Copies("timings", o)
    <3>1. timings'[o] = timings[o] /\ timings[o] \in Nat /\ Copies("timings", o) \in Nat
      BY <1>2, <2>1
    <3> QED BY <2>2, <3>1
  <2> QED BY <2>1, <2>3 DEF Drops
<1>5. CASE Crash
  <2>1. /\ up' = FALSE /\ Fresh /\ deliveries' = deliveries
    BY <1>5 DEF Crash, queueVars
  <2>2. PICK T \in SUBSET Tables : Commit(T)
    BY <1>5 DEF Crash
  <2>3. ASSUME NEW o \in Observation
        PROVE  timings'[o] + Copies("timings", o)' <= timings[o] + Copies("timings", o)
    <3>1. timings'[o] = timings[o] + IF "timings" \in T
                                     THEN CountIn(inserting["timings"], {o}) ELSE 0
      BY <2>2, CommitType DEF ArcIInv
    <3>2. Copies("timings", o)' = 0
      BY <1>1, <2>1, FreshCounts
    <3> QED BY <1>2, <3>1, <3>2
  <2> QED BY <2>1, <2>3 DEF Drops
<1>6. CASE Restart
  <2>1. /\ Fresh /\ restarts' = restarts + 1 /\ timings' = timings /\ deliveries' = deliveries
    BY <1>6 DEF Restart, queueVars, dbVars
  <2>2. restarts' # 0
    BY <2>1 DEF ArcIInv, TypeOK
  <2>3. ASSUME NEW o \in Observation
        PROVE  timings'[o] + Copies("timings", o)' <= timings[o] + Copies("timings", o)
    <3>1. Copies("timings", o)' = 0
      BY <1>1, <2>1, FreshCounts
    <3>2. timings'[o] = timings[o] /\ timings[o] \in Nat /\ Copies("timings", o) \in Nat
      BY <1>2, <2>1
    <3> QED BY <3>1, <3>2
  <2> QED BY <2>1, <2>2, <2>3 DEF Drops
<1> QED BY <1>3, <1>4, <1>5, <1>6

\* The history of deliveries only grows.
LEMMA DeliveriesGrow ==
    ASSUME ArcIInv, Next, NEW o \in Observation
    PROVE  deliveries'[BatchOf(o)] >= deliveries[BatchOf(o)]
<1>1. BatchOf(o) \in BatchId
  BY OneCarrier
<1>2. deliveries \in [BatchId -> Nat]
  BY DEF ArcIInv, TypeOK
<1>3. CASE deliveries' = deliveries
  BY <1>1, <1>2, <1>3
<1>4. ASSUME NEW b \in BatchId, ReaderNext(b)
      PROVE  deliveries'[BatchOf(o)] >= deliveries[BatchOf(o)]
  <2>1. deliveries' = [deliveries EXCEPT ![b] = @ + 1]
    BY <1>4 DEF ReaderNext
  <2> QED BY <1>1, <1>2, <2>1
<1>5. deliveries' = deliveries \/ \E b \in BatchId : ReaderNext(b)
  BY Zenon DEF Next, PublishBatch, AckTimeout, Reader, ReaderSetup, ReaderAck, ReaderStreamClosed,
         ReaderFails, ReaderVars, Decoder, Decode, DecoderClosed, DecoderVars, Ticker,
         TickerCancel, TickerFlushTick, TickerRecv, TickerMsgClosed, TickerSignal,
         TickerSignalFails, TickerExit, TickerVars, Writer, WriterRecv, WriterTick, WriterCancel,
         WriterClosed, WriterExit, WriterVars, Insert, InsertFails, Exit, Crash, Restart, queueVars
<1> QED BY <1>3, <1>4, <1>5

\* Every step is of one of three kinds.
LEMMA StepKinds ==
    ASSUME ArcIInv, Next
    PROVE  \/ Conserves /\ UNCHANGED dbVars /\ (Undisturbed' => Undisturbed)
           \/ \E t \in Tables : Insert(t)
           \/ Drops
  BY ConservingSteps, DroppingSteps DEF Next, Writer

\* The invariant of the counts.
RowsInv ==
    \A o \in Observation : timings[o] + Copies("timings", o) <= deliveries[BatchOf(o)]

StoredInv ==
    Undisturbed =>
        \A o \in Observation :
            /\ timings[o] + Copies("timings", o) = deliveries[BatchOf(o)]
            /\ \A t \in Tables \ {"timings"} :
                  deliveries[BatchOf(o)] > 0 => Hash[o] \in rows[t] \/ Copies(t, o) > 0

\* The numbers of an observation in two successive states.
Numbers(o) ==
    /\ timings[o] \in Nat /\ deliveries[BatchOf(o)] \in Nat
    /\ \A t \in Tables : Copies(t, o) \in Nat

AllNumbers == \A o \in Observation : Numbers(o)

LEMMA NumbersAreNat == ArcIInv => AllNumbers
<1> SUFFICES ASSUME ArcIInv, NEW o \in Observation PROVE Numbers(o)
  BY DEF AllNumbers
<1>1. timings[o] \in Nat /\ "timings" \in Tables
  BY DEF ArcIInv, TypeOK, Tables
<1>2. \A t \in Tables : Counts(t, o)
  BY CountsAreNat
<1> QED BY <1>1, <1>2 DEF Numbers, Counts, Copies

LEMMA NumbersStayNat == ArcIInv' => AllNumbers'
  BY NumbersAreNat, PTL

LEMMA RowsNext ==
    ASSUME ArcIInv, ArcIInv', RowsInv, Next
    PROVE  RowsInv'
<1> SUFFICES ASSUME NEW o \in Observation
             PROVE  timings'[o] + Copies("timings", o)' <= deliveries'[BatchOf(o)]
  BY DEF RowsInv
<1>1. Numbers(o) /\ Numbers(o)' /\ "timings" \in Tables
  BY NumbersAreNat, NumbersStayNat DEF AllNumbers, Tables
<1>2. /\ timings[o] \in Nat /\ timings'[o] \in Nat /\ Copies("timings", o) \in Nat
      /\ Copies("timings", o)' \in Nat /\ deliveries[BatchOf(o)] \in Nat
      /\ deliveries'[BatchOf(o)] \in Nat
  BY <1>1 DEF Numbers
<1>3. timings[o] + Copies("timings", o) <= deliveries[BatchOf(o)]
  BY DEF RowsInv
<1>4. CASE Conserves /\ UNCHANGED dbVars
  <2>1. Copies("timings", o)' + deliveries[BatchOf(o)]
          <= Copies("timings", o) + deliveries'[BatchOf(o)]
    BY <1>1, <1>4 DEF Conserves
  <2>2. timings'[o] = timings[o]
    BY <1>4 DEF dbVars
  <2> QED BY <1>2, <1>3, <2>1, <2>2
<1>5. ASSUME NEW t \in Tables, Insert(t)
      PROVE  timings'[o] + Copies("timings", o)' <= deliveries'[BatchOf(o)]
  BY <1>3, <1>5, InsertCounts
<1>6. CASE Drops
  <2>1. timings'[o] + Copies("timings", o)' <= timings[o] + Copies("timings", o)
    BY <1>6 DEF Drops
  <2>2. deliveries' = deliveries
    BY <1>6 DEF Drops
  <2> QED BY <1>2, <1>3, <2>1, <2>2
<1> QED BY <1>4, <1>5, <1>6, StepKinds

LEMMA StoredNext ==
    ASSUME ArcIInv, ArcIInv', StoredInv, Next
    PROVE  StoredInv'
<1> SUFFICES ASSUME Undisturbed', NEW o \in Observation
             PROVE  /\ timings'[o] + Copies("timings", o)' = deliveries'[BatchOf(o)]
                    /\ \A t \in Tables \ {"timings"} :
                          deliveries'[BatchOf(o)] > 0 => Hash[o] \in rows'[t] \/ Copies(t, o)' > 0
  BY DEF StoredInv
<1>1. Numbers(o) /\ Numbers(o)' /\ "timings" \in Tables
  BY NumbersAreNat, NumbersStayNat DEF AllNumbers, Tables
<1>2. ~Drops
  BY DEF Drops, Undisturbed
<1>3. Undisturbed
  BY <1>2, StepKinds, InsertCounts
<1>4. /\ timings[o] + Copies("timings", o) = deliveries[BatchOf(o)]
      /\ \A t \in Tables \ {"timings"} :
            deliveries[BatchOf(o)] > 0 => Hash[o] \in rows[t] \/ Copies(t, o) > 0
  BY <1>3 DEF StoredInv
<1>5. CASE Conserves /\ UNCHANGED dbVars
  <2>1. ASSUME NEW t \in Tables
        PROVE  Copies(t, o)' + deliveries[BatchOf(o)] = Copies(t, o) + deliveries'[BatchOf(o)]
    BY <1>5 DEF Conserves, Undisturbed
  <2>2. timings' = timings /\ rows' = rows
    BY <1>5 DEF dbVars
  <2>3. timings'[o] + Copies("timings", o)' = deliveries'[BatchOf(o)]
    <3>1. Copies("timings", o)' + deliveries[BatchOf(o)]
            = Copies("timings", o) + deliveries'[BatchOf(o)]
      BY <1>1, <2>1
    <3>2. /\ timings[o] \in Nat /\ Copies("timings", o) \in Nat
          /\ Copies("timings", o)' \in Nat /\ deliveries[BatchOf(o)] \in Nat
          /\ deliveries'[BatchOf(o)] \in Nat
      BY <1>1 DEF Numbers
    <3> QED BY <1>4, <2>2, <3>1, <3>2
  <2>4. ASSUME NEW t \in Tables \ {"timings"}, deliveries'[BatchOf(o)] > 0
        PROVE  Hash[o] \in rows'[t] \/ Copies(t, o)' > 0
    <3>1. /\ Copies(t, o) \in Nat /\ Copies(t, o)' \in Nat
          /\ deliveries[BatchOf(o)] \in Nat /\ deliveries'[BatchOf(o)] \in Nat
      BY <1>1 DEF Numbers
    <3>2. Copies(t, o)' + deliveries[BatchOf(o)] = Copies(t, o) + deliveries'[BatchOf(o)]
      BY <2>1
    <3>3. deliveries'[BatchOf(o)] >= deliveries[BatchOf(o)]
      BY DeliveriesGrow
    <3>4. CASE deliveries[BatchOf(o)] > 0
      <4>1. Hash[o] \in rows[t] \/ Copies(t, o) > 0
        BY <1>4, <3>4
      <4>2. Copies(t, o) > 0 => Copies(t, o)' > 0
        BY <3>1, <3>2, <3>3
      <4> QED BY <2>2, <4>1, <4>2
    <3>5. CASE ~(deliveries[BatchOf(o)] > 0)
      BY <2>4, <3>1, <3>2, <3>5
    <3> QED BY <3>4, <3>5
  <2> QED BY <2>3, <2>4
<1>6. ASSUME NEW x \in Tables, Insert(x)
      PROVE  /\ timings'[o] + Copies("timings", o)' = deliveries'[BatchOf(o)]
             /\ \A t \in Tables \ {"timings"} :
                   deliveries'[BatchOf(o)] > 0 => Hash[o] \in rows'[t] \/ Copies(t, o)' > 0
  BY <1>4, <1>6, InsertCounts
<1> QED BY <1>2, <1>5, <1>6, StepKinds

LEMMA CountsInit == Init => RowsInv /\ StoredInv
<1> SUFFICES ASSUME Init PROVE RowsInv /\ StoredInv
  OBVIOUS
<1>1. ASSUME NEW o \in Observation, NEW t \in Tables
      PROVE  Copies(t, o) = 0
  <2>1. /\ raw_q = << >> /\ msg_q = << >> /\ ticker.held = << >>
        /\ chans[t] = << >> /\ bufs[t] = << >> /\ inserting[t] = << >>
    BY EmptyType DEF Init
  <2>2. /\ CountIn(raw_q, Carriers(o)) = 0 /\ CountIn(msg_q, {o}) = 0
        /\ CountIn(ticker.held, {o}) = 0 /\ CountIn(chans[t], {o}) = 0
        /\ CountIn(bufs[t], {o}) = 0 /\ CountIn(inserting[t], {o}) = 0
    BY <2>1, CountEmpty
  <2> QED BY <2>2 DEF Copies, Raw
<1>2. ASSUME NEW o \in Observation
      PROVE  timings[o] = 0 /\ deliveries[BatchOf(o)] = 0 /\ Copies("timings", o) = 0
  <2>1. BatchOf(o) \in BatchId /\ "timings" \in Tables
    BY OneCarrier DEF Tables
  <2>2. Copies("timings", o) = 0
    BY <1>1, <2>1
  <2>3. timings[o] = 0 /\ deliveries[BatchOf(o)] = 0
    BY <2>1 DEF Init
  <2> QED BY <2>2, <2>3
<1> QED BY <1>2 DEF RowsInv, StoredInv

LEMMA CountsStutter ==
    ASSUME UNCHANGED vars
    PROVE  (RowsInv => RowsInv') /\ (StoredInv => StoredInv')
<1>1. /\ timings' = timings /\ rows' = rows /\ deliveries' = deliveries
      /\ raw_q' = raw_q /\ msg_q' = msg_q /\ ticker' = ticker /\ chans' = chans
      /\ bufs' = bufs /\ inserting' = inserting
      /\ up' = up /\ cancel' = cancel /\ restarts' = restarts
  BY DEF vars, queueVars, taskVars, dbVars
<1>2. \A t, o : Copies(t, o)' = Copies(t, o)
  BY <1>1 DEF Copies, Raw
<1> QED BY <1>1, <1>2 DEF RowsInv, StoredInv, Undisturbed

\* The archiver itself never multiplies an observation, through redeliveries, failed
\* writes, crashes and restarts: copies only move forward, a flush moves the buffers
\* it takes, and an INSERT turns a copy into one row.
THEOREM RowsPerDelivery == Spec => []OneRowPerDelivery
<1>1. ArcIInv /\ ArcIInv' /\ RowsInv /\ [Next]_vars => RowsInv'
  BY RowsNext, CountsStutter
<1>2. ArcIInv /\ RowsInv => OneRowPerDelivery
  <2> SUFFICES ASSUME ArcIInv, RowsInv, NEW o \in Observation
               PROVE  timings[o] + Underway("timings", o) <= Deliveries(o)
    BY DEF OneRowPerDelivery
  <2>1. "timings" \in Tables
    BY DEF Tables
  <2> QED BY <2>1, CopiesUnderway DEF RowsInv
<1> QED BY <1>1, <1>2, ArcInductive, CountsInit, PTL DEF Spec

\* Until something cancels the token or kills the process, a delivered observation is
\* stored or on its way to each of the four tables.
THEOREM NothingLost == Spec => []NothingLostWhileUp
<1>1. ArcIInv /\ ArcIInv' /\ StoredInv /\ [Next]_vars => StoredInv'
  BY StoredNext, CountsStutter
<1>2. ArcIInv /\ StoredInv => NothingLostWhileUp
  <2> SUFFICES ASSUME ArcIInv, StoredInv, up /\ ~cancel /\ restarts = 0, NEW o \in Observation
               PROVE  /\ timings[o] + Underway("timings", o) = Deliveries(o)
                      /\ \A t \in Tables \ {"timings"} :
                            Deliveries(o) > 0 => Hash[o] \in rows[t] \/ Underway(t, o) > 0
    BY DEF NothingLostWhileUp
  <2>1. "timings" \in Tables
    BY DEF Tables
  <2>2. /\ timings[o] + Copies("timings", o) = deliveries[BatchOf(o)]
        /\ \A t \in Tables \ {"timings"} :
              deliveries[BatchOf(o)] > 0 => Hash[o] \in rows[t] \/ Copies(t, o) > 0
    BY DEF StoredInv, Undisturbed
  <2>3. \A t \in Tables : Underway(t, o) = Copies(t, o) /\ Deliveries(o) = deliveries[BatchOf(o)]
    BY CopiesUnderway
  <2> QED BY <2>1, <2>2, <2>3
<1> QED BY <1>1, <1>2, ArcInductive, CountsInit, PTL DEF Spec
=============================================================================
