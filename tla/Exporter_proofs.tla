-------------------------- MODULE Exporter_proofs --------------------------
(***************************************************************************)
(* Proofs about the exporter: back-pressure and types, order and           *)
(* uniqueness of the messages, that none is lost while the collector runs, *)
(* and that the exporter implements ExportLog.                             *)
(*                                                                         *)
(* Every step leaves the pipeline as it is, appends one message to it, or  *)
(* cuts one run of messages out of it. The proofs name the run, show what  *)
(* a cut does to order and contents, and do it once for all steps.         *)
(***************************************************************************)
EXTENDS Exporter, SequenceTheorems, TLAPS

-----------------------------------------------------------------------------
(* Sequences *)

\* The ids of a sequence of messages, and that they increase.
Ids(s) == {s[i].id : i \in DOMAIN s}
Increasing(s) == \A i, j \in DOMAIN s : i < j => s[i].id < s[j].id

\* Concatenation of three sequences, place by place.
LEMMA ConcatThree ==
    ASSUME NEW S, NEW a \in Seq(S), NEW b \in Seq(S), NEW c \in Seq(S)
    PROVE  /\ a \o (b \o c) \in Seq(S)
           /\ Len(a \o (b \o c)) = Len(a) + Len(b) + Len(c)
           /\ \A i \in 1..Len(a) : (a \o (b \o c))[i] = a[i]
           /\ \A i \in 1..Len(b) : (a \o (b \o c))[Len(a) + i] = b[i]
           /\ \A i \in 1..Len(c) : (a \o (b \o c))[Len(a) + Len(b) + i] = c[i]
<1>1. /\ Len(a) \in Nat /\ Len(b) \in Nat /\ Len(c) \in Nat
      /\ b \o c \in Seq(S) /\ Len(b \o c) = Len(b) + Len(c)
      /\ \A i \in 1..Len(b) : (b \o c)[i] = b[i]
      /\ \A i \in 1..Len(c) : (b \o c)[Len(b) + i] = c[i]
  OBVIOUS
<1> DEFINE d == b \o c
<1>2. /\ a \o d \in Seq(S) /\ Len(a \o d) = Len(a) + Len(d)
      /\ \A i \in 1..Len(a) : (a \o d)[i] = a[i]
      /\ \A i \in 1..Len(d) : (a \o d)[Len(a) + i] = d[i]
  BY <1>1
<1> HIDE DEF d
<1>3. \A i \in 1..Len(b) : (a \o d)[Len(a) + i] = b[i]
  BY <1>1, <1>2 DEF d
<1>4. \A i \in 1..Len(c) : (a \o d)[Len(a) + Len(b) + i] = c[i]
  <2> TAKE i \in 1..Len(c)
  <2>1. Len(b) + i \in 1..Len(d) /\ d[Len(b) + i] = c[i]
    BY <1>1 DEF d
  <2>2. (a \o d)[Len(a) + (Len(b) + i)] = d[Len(b) + i]
    BY <1>2, <2>1
  <2>3. Len(a) + (Len(b) + i) = Len(a) + Len(b) + i
    BY <1>1
  <2> QED BY <2>1, <2>2, <2>3
<1>5. Len(a \o d) = Len(a) + Len(b) + Len(c)
  BY <1>1, <1>2 DEF d
<1> QED BY <1>2, <1>3, <1>4, <1>5 DEF d

\* Cutting a run out of a sequence of messages loses its ids, and no others.
LEMMA CutIds ==
    ASSUME NEW S, NEW a \in Seq(S), NEW b \in Seq(S), NEW c \in Seq(S)
    PROVE  Ids(a \o (b \o c)) = Ids(a \o c) \cup Ids(b)
<1> DEFINE s == a \o (b \o c)
           t == a \o c
<1>1. /\ Len(a) \in Nat /\ Len(b) \in Nat /\ Len(c) \in Nat
      /\ DOMAIN a = 1..Len(a) /\ DOMAIN b = 1..Len(b)
      /\ DOMAIN s = 1..(Len(a) + Len(b) + Len(c))
      /\ \A i \in 1..Len(a) : s[i] = a[i]
      /\ \A i \in 1..Len(b) : s[Len(a) + i] = b[i]
      /\ \A i \in 1..Len(c) : s[Len(a) + Len(b) + i] = c[i]
  BY ConcatThree
<1>2. /\ DOMAIN t = 1..(Len(a) + Len(c))
      /\ \A i \in 1..Len(a) : t[i] = a[i]
      /\ \A i \in 1..Len(c) : t[Len(a) + i] = c[i]
  OBVIOUS
<1> HIDE DEF s, t
<1>3. ASSUME NEW i \in DOMAIN s PROVE s[i].id \in Ids(t) \cup Ids(b)
  <2>1. CASE i <= Len(a)
    BY <1>1, <1>2, <2>1 DEF Ids
  <2>2. CASE i > Len(a) /\ i <= Len(a) + Len(b)
    <3>1. i - Len(a) \in DOMAIN b /\ s[i] = b[i - Len(a)]
      BY <1>1, <2>2
    <3> QED BY <3>1 DEF Ids
  <2>3. CASE i > Len(a) + Len(b)
    <3> DEFINE k == i - Len(a) - Len(b)
    <3>1. k \in 1..Len(c) /\ i = Len(a) + Len(b) + k /\ Len(a) + k \in DOMAIN t
      BY <1>1, <1>2, <2>3
    <3>2. s[i] = t[Len(a) + k]
      BY <1>1, <1>2, <3>1
    <3> QED BY <3>1, <3>2 DEF Ids
  <2> QED BY <1>1, <2>1, <2>2, <2>3
<1>4. ASSUME NEW i \in DOMAIN t PROVE t[i].id \in Ids(s)
  <2>1. CASE i <= Len(a)
    BY <1>1, <1>2, <2>1 DEF Ids
  <2>2. CASE i > Len(a)
    <3> DEFINE k == i - Len(a)
    <3>1. k \in 1..Len(c) /\ i = Len(a) + k /\ Len(a) + Len(b) + k \in DOMAIN s
      BY <1>1, <1>2, <2>2
    <3>2. t[i] = s[Len(a) + Len(b) + k]
      BY <1>1, <1>2, <3>1
    <3> QED BY <3>1, <3>2 DEF Ids
  <2> QED BY <1>1, <1>2, <2>1, <2>2
<1>5. ASSUME NEW i \in DOMAIN b PROVE b[i].id \in Ids(s)
  <2>1. Len(a) + i \in DOMAIN s /\ s[Len(a) + i] = b[i]
    BY <1>1
  <2> QED BY <2>1 DEF Ids
<1>6. Ids(s) \subseteq Ids(t) \cup Ids(b)
  BY <1>3 DEF Ids
<1>7. Ids(t) \subseteq Ids(s) /\ Ids(b) \subseteq Ids(s)
  BY <1>4, <1>5 DEF Ids
<1> QED BY <1>6, <1>7 DEF s, t

\* Cutting a run out of a sequence keeps its order.
LEMMA CutIncreasing ==
    ASSUME NEW S, NEW a \in Seq(S), NEW b \in Seq(S), NEW c \in Seq(S),
           Increasing(a \o (b \o c))
    PROVE  Increasing(a \o c)
<1> DEFINE s == a \o (b \o c)
           t == a \o c
           At(i) == IF i <= Len(a) THEN i ELSE i + Len(b)
<1>1. /\ Len(a) \in Nat /\ Len(b) \in Nat /\ Len(c) \in Nat
      /\ DOMAIN s = 1..(Len(a) + Len(b) + Len(c))
      /\ \A i \in 1..Len(a) : s[i] = a[i]
      /\ \A i \in 1..Len(c) : s[Len(a) + Len(b) + i] = c[i]
  BY ConcatThree
<1>2. /\ DOMAIN t = 1..(Len(a) + Len(c))
      /\ \A i \in 1..Len(a) : t[i] = a[i]
      /\ \A i \in 1..Len(c) : t[Len(a) + i] = c[i]
  OBVIOUS
<1> HIDE DEF s, t
<1>3. \A i \in DOMAIN t : At(i) \in DOMAIN s /\ t[i] = s[At(i)]
  <2> TAKE i \in DOMAIN t
  <2>1. CASE i <= Len(a)
    BY <1>1, <1>2, <2>1
  <2>2. CASE i > Len(a)
    <3> DEFINE k == i - Len(a)
    <3>1. k \in 1..Len(c) /\ i = Len(a) + k /\ At(i) = Len(a) + Len(b) + k
      BY <1>1, <1>2, <2>2
    <3>2. t[i] = s[Len(a) + Len(b) + k] /\ Len(a) + Len(b) + k \in DOMAIN s
      BY <1>1, <1>2, <3>1
    <3> QED BY <3>1, <3>2
  <2> QED BY <1>1, <1>2, <2>1, <2>2
<1>4. \A i, j \in DOMAIN t : i < j => At(i) < At(j)
  BY <1>1, <1>2
<1> HIDE DEF At
<1>5. Increasing(s)
  BY DEF s
<1>6. Increasing(t)
  BY <1>3, <1>4, <1>5 DEF Increasing
<1> QED BY <1>6 DEF t

\* Appending a message adds its id, and keeps the order if it is the largest.
LEMMA AppendIds ==
    ASSUME NEW S, NEW s \in Seq(S), NEW m \in S, NEW t, t = s \o <<m>>
    PROVE  /\ Ids(t) = Ids(s) \cup {m.id}
           /\ Increasing(s) /\ (\A n \in Ids(s) : n < m.id) => Increasing(t)
<1>1. /\ Len(s) \in Nat /\ DOMAIN s = 1..Len(s) /\ DOMAIN t = 1..(Len(s) + 1)
      /\ \A i \in 1..Len(s) : t[i] = s[i]
      /\ t[Len(s) + 1] = m
  OBVIOUS
<1>2. \A i \in DOMAIN t : i \in DOMAIN s \/ i = Len(s) + 1
  BY <1>1
<1>3. Ids(t) = Ids(s) \cup {m.id}
  BY <1>1, <1>2 DEF Ids
<1>4. ASSUME Increasing(s), \A n \in Ids(s) : n < m.id, NEW i \in DOMAIN t, NEW j \in DOMAIN t,
             i < j
      PROVE  t[i].id < t[j].id
  <2>1. i \in DOMAIN s
    BY <1>1, <1>4
  <2>2. CASE j \in DOMAIN s
    BY <1>1, <1>4, <2>1, <2>2 DEF Increasing
  <2>3. CASE j = Len(s) + 1
    BY <1>1, <1>4, <2>1, <2>3 DEF Ids
  <2> QED BY <1>2, <2>2, <2>3
<1>5. Increasing(s) /\ (\A n \in Ids(s) : n < m.id) => Increasing(t)
  BY <1>4 DEF Increasing
<1> QED BY <1>3, <1>5
-----------------------------------------------------------------------------
(* The inductive invariant *)

\* What the two tasks hold where: the queue task holds a message only while it waits for
\* room, a batch is filled, then full, then in flight, and a task that has ended left
\* nothing behind it and cancelled the token.
Phases ==
    /\ Len(held) <= 1
    /\ queue_task # "reserve" => held = << >>
    /\ Len(nats_chan) <= BatchSize
    /\ QueueDone => export_q = << >> /\ stop_signal
    /\ PublishDone => nats_chan = << >> /\ msg_batch = << >> /\ stop_signal
    /\ publish_task \in {"barrier", "recv", "publish"} => in_flight = << >>
    /\ in_flight # << >> => Len(in_flight) = BatchSize
    /\ publish_task \in {"barrier", "ack"} => msg_batch = << >>
    /\ publish_task = "recv" => Len(msg_batch) < BatchSize
    /\ publish_task = "publish" => Len(msg_batch) = BatchSize

\* The ids given out are those of the messages LDK exported.
Known == Ids(Pipeline) \subseteq 1..received

ExpIInv == ExpTypeOK /\ Phases /\ Known

LEMMA ExpIInvInit == ExpInit => ExpIInv
<1> SUFFICES ASSUME ExpInit PROVE ExpIInv
  OBVIOUS
<1>a. /\ export_q \in Seq(Message) /\ held \in Seq(Message) /\ nats_chan \in Seq(Message)
      /\ msg_batch \in Seq(Message) /\ in_flight \in Seq(Message) /\ stream \in Seq(Message)
  BY DEF ExpInit, ExporterInit
<1>b. Len(held) = 0 /\ Len(nats_chan) = 0 /\ Len(in_flight) = 0 /\ Len(msg_batch) = 0
  BY DEF ExpInit, ExporterInit
<1>c. Len(nats_chan \o held) <= BatchSize + 1 /\ Len(in_flight \o msg_batch) <= BatchSize
  BY <1>a, <1>b, ConcatProperties, ExporterAssumption
<1>d. /\ pending_notifier \in [value : SUBSET Peer, changed : BOOLEAN]
      /\ received \in 0..MaxMsgs /\ filtered = {} /\ msg_filter_rules = {}
      /\ queue_task = "barrier" /\ publish_task = "barrier" /\ stop_signal = FALSE
  BY ExporterAssumption DEF ExpInit, ExporterInit
<1>1. ExpTypeOK
  BY <1>a, <1>c, <1>d DEF ExpTypeOK
<1>2. Phases
  BY ExporterAssumption DEF ExpInit, ExporterInit, Phases, QueueDone, PublishDone
<1>3. Pipeline = << >>
  BY DEF ExpInit, ExporterInit, Pipeline
<1> QED BY <1>1, <1>2, <1>3 DEF ExpIInv, Known, Ids

\* The queued messages are known ones.
LEMMA QueuedKnown ==
    ASSUME ExpTypeOK, Known, export_q # << >>
    PROVE  Head(export_q) \in Message /\ Head(export_q).id \in 1..received
<1> DEFINE front == stream \o in_flight \o msg_batch \o nats_chan \o held
<1>1. front \in Seq(Message) /\ export_q \in Seq(Message)
  BY DEF ExpTypeOK
<1>2. Pipeline = front \o export_q
  BY DEF Pipeline
<1> HIDE DEF front
<1>3. /\ Len(front) + 1 \in DOMAIN (front \o export_q)
      /\ (front \o export_q)[Len(front) + 1] = Head(export_q)
      /\ Head(export_q) \in Message
  BY <1>1
<1>4. Head(export_q).id \in Ids(Pipeline)
  BY <1>2, <1>3 DEF Ids
<1> QED BY <1>3, <1>4 DEF Known

\* Types and phases are preserved: the startup and the environment.
LEMMA TypesEnvironment ==
    ASSUME ExpIInv,
           \/ \E p \in Peer : Export(p)
           \/ \E rules \in SUBSET Peer : FilterUpdate(rules)
           \/ BarrierRelease \/ Shutdown \/ StreamStore \/ StreamLose
    PROVE  ExpTypeOK' /\ Phases'
<1> USE ExporterAssumption DEF ExpIInv, queueVars, publishVars, natsVars, exporterVars
<1>1. ASSUME NEW p \in Peer, Export(p) PROVE ExpTypeOK' /\ Phases'
  <2>1. received' = received + 1 /\ received' \in 0..MaxMsgs
    BY <1>1 DEF Export, ExpTypeOK
  <2> DEFINE m == [peer |-> p, id |-> received']
  <2>2. m \in Message
    BY <2>1 DEF Message
  <2>a. export_q \in Seq(Message) /\ (export_q' = export_q \/ export_q' = Append(export_q, m))
    BY <1>1 DEF Export, ExpTypeOK
  <2> HIDE DEF m
  <2>3. export_q' \in Seq(Message)
    BY <2>2, <2>a
  <2> QED BY <1>1, <2>1, <2>3 DEF Export, ExpTypeOK, Phases, QueueDone, PublishDone
<1>2. ASSUME NEW rules \in SUBSET Peer, FilterUpdate(rules) PROVE ExpTypeOK' /\ Phases'
  BY <1>2 DEF FilterUpdate, ExpTypeOK, Phases, QueueDone, PublishDone
<1>3. CASE BarrierRelease
  <2>1. pending_notifier' \in [value : SUBSET Peer, changed : BOOLEAN]
    BY <1>3 DEF BarrierRelease, ExpTypeOK
  <2>2. msg_filter_rules' \in SUBSET Peer
    BY <1>3 DEF BarrierRelease, ExpTypeOK
  <2>3. ExpTypeOK'
    BY <1>3, <2>1, <2>2 DEF BarrierRelease, ExpTypeOK
  <2>4. Phases'
    BY <1>3 DEF BarrierRelease, ExpTypeOK, Phases, QueueDone, PublishDone
  <2> QED BY <2>3, <2>4
<1>4. CASE Shutdown
  BY <1>4 DEF Shutdown, ExpTypeOK, Phases, QueueDone, PublishDone
<1>5. CASE StreamStore
  <2>1. stream' \in Seq(Message) /\ in_flight' = << >> /\ Len(msg_batch) <= BatchSize
    BY <1>5 DEF StreamStore, ExpTypeOK, Phases, PublishDone
  <2>2. ExpTypeOK'
    BY <1>5, <2>1 DEF StreamStore, ExpTypeOK
  <2>3. Phases'
    BY <1>5, <2>1 DEF StreamStore, Phases, QueueDone, PublishDone
  <2> QED BY <2>2, <2>3
<1>6. CASE StreamLose
  BY <1>6 DEF StreamLose, ExpTypeOK, Phases, QueueDone, PublishDone
<1> QED BY <1>1, <1>2, <1>3, <1>4, <1>5, <1>6

\* And the two tasks.
LEMMA TypesTasks ==
    ASSUME ExpIInv, QueueTask \/ PublishTask \/ PublishPanic
    PROVE  ExpTypeOK' /\ Phases'
<1> USE ExporterAssumption DEF ExpIInv, queueVars, publishVars, natsVars
<1>1. CASE QueueStop
  BY <1>1 DEF QueueStop, QueueExit, ExpTypeOK, Phases, QueueDone, PublishDone
<1>2. CASE QueueFilterChanged
  BY <1>2 DEF QueueFilterChanged, ExpTypeOK, Phases, QueueDone, PublishDone
<1>3. CASE QueueDiscard
  <2>1. Head(export_q).id \in 1..received
    BY <1>3, QueuedKnown DEF QueueDiscard, QueueCanReceive
  <2>a. Head(export_q).id \in 1..MaxMsgs
    BY <2>1 DEF ExpTypeOK
  <2>2. filtered' \in SUBSET (1..MaxMsgs)
    BY <1>3, <2>a DEF QueueDiscard, ExpTypeOK
  <2> QED BY <1>3, <2>2 DEF QueueDiscard, QueueCanReceive, ExpTypeOK, Phases, QueueDone,
                            PublishDone
<1>4. CASE QueueAccept
  BY <1>4 DEF QueueAccept, QueueCanReceive, ExpTypeOK, Phases, QueueDone, PublishDone
<1>5. CASE QueueSend
  BY <1>5 DEF QueueSend, ExpTypeOK, Phases, QueueDone, PublishDone
<1>6. CASE QueueSendClosed
  BY <1>6 DEF QueueSendClosed, QueueExit, ExpTypeOK, Phases, QueueDone, PublishDone
<1>7. CASE PublishRecv
  BY <1>7 DEF PublishRecv, ExpTypeOK, Phases, QueueDone, PublishDone
<1>8. CASE PublishClosed \/ PublishStop \/ PublishPanic
  <2>1. PublishExit("ok") \/ PublishExit("err")
    BY <1>8 DEF PublishClosed, PublishStop, PublishPanic
  <2>2. Len(in_flight) <= BatchSize
    BY DEF ExpTypeOK, Phases
  <2>a. /\ nats_chan' = << >> /\ msg_batch' = << >> /\ UNCHANGED <<held, in_flight>>
        /\ held \in Seq(Message) /\ in_flight \in Seq(Message)
    BY <2>1 DEF PublishExit, ExpTypeOK
  <2>b. nats_chan' \o held' = held /\ in_flight' \o msg_batch' = in_flight
    BY <2>a
  <2>c. /\ nats_chan' \in Seq(Message) /\ msg_batch' \in Seq(Message)
        /\ Len(held) <= BatchSize + 1
    BY <2>a DEF ExpTypeOK, Phases
  <2>d. publish_task' \in {"ok", "err"} /\ stop_signal' = TRUE
        /\ UNCHANGED <<pending_notifier, received, filtered, export_q, queueVars, natsVars>>
    BY <2>1 DEF PublishExit
  <2>3. ExpTypeOK'
    BY <2>2, <2>a, <2>b, <2>c, <2>d DEF ExpTypeOK
  <2>4. Phases'
    BY <2>1, SMTT(60) DEF PublishExit, ExpTypeOK, Phases, QueueDone, PublishDone
  <2> QED BY <2>3, <2>4
<1>9. CASE PublishBatch
  BY <1>9 DEF PublishBatch, ExpTypeOK, Phases, QueueDone, PublishDone
<1>10. CASE PublishAck
  BY <1>10 DEF PublishAck, ExpTypeOK, Phases, QueueDone, PublishDone
<1> QED BY <1>1, <1>2, <1>3, <1>4, <1>5, <1>6, <1>7, <1>8, <1>9, <1>10
        DEF QueueTask, PublishTask
-----------------------------------------------------------------------------
(* What a step does to the messages *)

\* The unpublished messages stay; the queue task is gone and one that arrives is dropped.
Stays == UNCHANGED <<stream, Unpublished>> /\ UNCHANGED <<received, filtered>>
                                           /\ (stop_signal => stop_signal')
Refused == UNCHANGED <<stream, Unpublished>> /\ UNCHANGED filtered
                                             /\ received' = received + 1 /\ stop_signal'

\* One message arrives at the end.
Arrives(m) ==
    /\ m.id = received + 1 /\ received' = received + 1
    /\ Unpublished' = Unpublished \o <<m>>
    /\ UNCHANGED <<stream, filtered, stop_signal>>

\* A run of them is cut out: one by the filter, any by an end of service.
CutOut(b) ==
    /\ \E a, c \in Seq(Message) : Unpublished = a \o (b \o c) /\ Unpublished' = a \o c
    /\ UNCHANGED <<stream, received>>

FilteredOut(m) == CutOut(<<m>>) /\ filtered' = filtered \cup {m.id} /\ ~stop_signal
                                /\ UNCHANGED stop_signal
Dropped(b) == CutOut(b) /\ UNCHANGED filtered /\ stop_signal'

\* A full batch goes from the front to the stream.
Stored(b, c) ==
    /\ Len(b) = BatchSize
    /\ Unpublished = b \o c /\ Unpublished' = c
    /\ stream' = stream \o b
    /\ UNCHANGED <<received, filtered, stop_signal>>

Shape ==
    \/ Stays
    \/ Refused
    \/ \E m \in [peer : Peer, id : 1..MaxMsgs] : Arrives(m)
    \/ \E m \in Message : FilteredOut(m)
    \/ \E b \in Seq(Message) : Dropped(b)
    \/ \E b, c \in Seq(Message) : Stored(b, c)

LEMMA Assoc ==
    ASSUME NEW s \in Seq(Message), NEW t \in Seq(Message), NEW u \in Seq(Message)
    PROVE  (s \o t) \o u = s \o (t \o u)
BY ConcatAssociative

LEMMA Concat ==
    ASSUME NEW s \in Seq(Message), NEW t \in Seq(Message)
    PROVE  s \o t \in Seq(Message)
OBVIOUS

\* Five sequences, grouped from the right.
LEMMA Grouped ==
    ASSUME NEW f \in Seq(Message), NEW b \in Seq(Message), NEW n \in Seq(Message),
           NEW h \in Seq(Message), NEW e \in Seq(Message)
    PROVE  (((f \o b) \o n) \o h) \o e = f \o (b \o (n \o (h \o e)))
<1> DEFINE z == h \o e
           w == n \o z
           x == f \o b
           y == x \o n
<1>z. z \in Seq(Message)
  BY Concat
<1>x. x \in Seq(Message)
  BY Concat
<1>w. w \in Seq(Message)
  BY <1>z, Concat
<1>y. y \in Seq(Message)
  BY <1>x, Concat
<1>0. \A u \in Seq(Message) : (f \o b) \o u = f \o (b \o u)
  BY ONLY f \in Seq(Message), b \in Seq(Message), Assoc, Zenon
<1>1. (f \o b) \o w = f \o (b \o w)
  <2> HIDE DEF w
  <2> QED BY ONLY <1>w, <1>0, Zenon
<1>2. (x \o n) \o z = x \o (n \o z)
  <2> HIDE DEF x, z
  <2> QED BY ONLY <1>x, <1>z, n \in Seq(Message), Assoc, ZenonT(60)
<1>3. (y \o h) \o e = y \o (h \o e)
  <2> HIDE DEF y
  <2> QED BY ONLY <1>y, h \in Seq(Message), e \in Seq(Message), Assoc, Zenon
<1> QED BY <1>1, <1>2, <1>3, Zenon

\* The unpublished messages, grouped from the right.
IsGrouped ==
    /\ Unpublished = in_flight \o (msg_batch \o (nats_chan \o (held \o export_q)))
    /\ Unpublished \in Seq(Message)

LEMMA UnpublishedGrouped == ExpTypeOK => IsGrouped
<1> SUFFICES ASSUME ExpTypeOK PROVE IsGrouped
  OBVIOUS
<1>1. /\ in_flight \in Seq(Message) /\ msg_batch \in Seq(Message) /\ nats_chan \in Seq(Message)
      /\ held \in Seq(Message) /\ export_q \in Seq(Message)
  BY DEF ExpTypeOK
<1>2. Unpublished = in_flight \o (msg_batch \o (nats_chan \o (held \o export_q)))
  <2>1. \A f, b, n, h, e \in Seq(Message) :
            (((f \o b) \o n) \o h) \o e = f \o (b \o (n \o (h \o e)))
    BY Grouped, Zenon
  <2>2. \A n, h, e \in Seq(Message) :
            (((in_flight \o msg_batch) \o n) \o h) \o e
                = in_flight \o (msg_batch \o (n \o (h \o e)))
    BY ONLY <1>1, <2>1, ZenonT(60)
  <2>3. \A e \in Seq(Message) :
            (((in_flight \o msg_batch) \o nats_chan) \o held) \o e
                = in_flight \o (msg_batch \o (nats_chan \o (held \o e)))
    BY ONLY <1>1, <2>2, Zenon
  <2> QED BY ONLY <1>1, <2>3, Zenon DEF Unpublished
<1>3. Unpublished \in Seq(Message)
  BY <1>1, Concat DEF Unpublished
<1> QED BY <1>2, <1>3 DEF IsGrouped

LEMMA GroupedNext == ExpTypeOK' => IsGrouped'
BY UnpublishedGrouped, PTL

\* Moving the head of one sequence to the end of the one before it changes nothing.
LEMMA MoveHead ==
    ASSUME NEW s \in Seq(Message), NEW t \in Seq(Message), NEW u \in Seq(Message), t # << >>
    PROVE  Append(s, Head(t)) \o (Tail(t) \o u) = s \o (t \o u)
<1> DEFINE h == Head(t)
           r == Tail(t)
<1>1. h \in Message /\ r \in Seq(Message) /\ t = <<h>> \o r /\ <<h>> \in Seq(Message)
  BY HeadTailProperties, SeqEqual
<1> HIDE DEF h, r
<1>2. Append(s, h) = s \o <<h>>
  BY <1>1, AppendIsConcat
<1>3. r \o u \in Seq(Message)
  BY <1>1
<1>4. (s \o <<h>>) \o (r \o u) = s \o (<<h>> \o (r \o u))
  BY <1>1, <1>3, ConcatAssociative, SMTT(60)
<1>5. <<h>> \o (r \o u) = (<<h>> \o r) \o u
  BY <1>1, ConcatAssociative
<1> QED BY <1>1, <1>2, <1>4, <1>5 DEF h, r

LEMMA Empty ==
    ASSUME NEW s \in Seq(Message)
    PROVE  << >> \o s = s /\ s \o << >> = s /\ << >> \in Seq(Message)
BY ConcatEmptySeq

LEMMA HeadFirst ==
    ASSUME NEW s \in Seq(Message), s # << >>
    PROVE  /\ Head(s) \in Message /\ <<Head(s)>> \in Seq(Message) /\ Tail(s) \in Seq(Message)
           /\ s = <<Head(s)>> \o Tail(s)
BY HeadTailProperties, SeqEqual

\* Three sequences in front of a fourth.
LEMMA InFront ==
    ASSUME NEW f \in Seq(Message), NEW b \in Seq(Message), NEW n \in Seq(Message)
    PROVE  \A t \in Seq(Message) : f \o (b \o (n \o t)) = (f \o (b \o n)) \o t
<1> TAKE t \in Seq(Message)
<1> DEFINE x == b \o n
<1>1. x \in Seq(Message)
  BY Concat
<1>2. b \o (n \o t) = x \o t
  BY ONLY b \in Seq(Message), n \in Seq(Message), t \in Seq(Message), Assoc, Zenon
<1> HIDE DEF x
<1>3. f \o (x \o t) = (f \o x) \o t
  BY ONLY f \in Seq(Message), <1>1, t \in Seq(Message), Assoc, ZenonT(60)
<1> QED BY <1>2, <1>3, Zenon DEF x
LEMMA TasksInFront ==
    ASSUME ExpTypeOK
    PROVE  \A t \in Seq(Message) : in_flight \o (msg_batch \o (nats_chan \o t))
                                     = (in_flight \o (msg_batch \o nats_chan)) \o t
<1>1. in_flight \in Seq(Message) /\ msg_batch \in Seq(Message) /\ nats_chan \in Seq(Message)
  BY DEF ExpTypeOK
<1>2. \A f, b, n \in Seq(Message) : \A t \in Seq(Message) :
          f \o (b \o (n \o t)) = (f \o (b \o n)) \o t
  BY InFront, Zenon
<1>3. \A n \in Seq(Message) : \A t \in Seq(Message) :
          in_flight \o (msg_batch \o (n \o t)) = (in_flight \o (msg_batch \o n)) \o t
  BY ONLY <1>1, <1>2, Zenon
<1> QED BY ONLY <1>1, <1>3, Zenon
-----------------------------------------------------------------------------
\* Hand-overs between the tasks leave the messages as they are.
LEMMA ShapeHandOver ==
    ASSUME ExpTypeOK, Phases, ExpTypeOK',
           QueueAccept \/ QueueSend \/ PublishRecv \/ PublishBatch
    PROVE  Stays
<1>t. /\ in_flight \in Seq(Message) /\ msg_batch \in Seq(Message) /\ nats_chan \in Seq(Message)
      /\ held \in Seq(Message) /\ export_q \in Seq(Message)
  BY DEF ExpTypeOK
<1>g. IsGrouped /\ IsGrouped'
  BY UnpublishedGrouped, GroupedNext
<1> DEFINE tail == held \o export_q
           rest == nats_chan \o tail
<1>r. tail \in Seq(Message) /\ rest \in Seq(Message)
  BY <1>t, Concat
<1>u. UNCHANGED <<stream, received, filtered>> /\ (stop_signal => stop_signal')
  BY DEF QueueAccept, QueueSend, PublishRecv, PublishBatch, publishVars, natsVars, queueVars
<1>1. CASE QueueAccept
  <2>1. held = << >> /\ export_q # << >>
    BY <1>1 DEF QueueAccept, QueueCanReceive, Phases
  <2>2. held' \o export_q' = <<Head(export_q)>> \o Tail(export_q)
    BY <1>1 DEF QueueAccept
  <2>3. held' \o export_q' = export_q
    BY <1>t, <2>1, <2>2, HeadFirst, Zenon
  <2>4. held \o export_q = export_q
    BY <1>t, <2>1, Empty, Zenon
  <2>5. UNCHANGED <<in_flight, msg_batch, nats_chan>>
    BY <1>1 DEF QueueAccept, publishVars, natsVars
  <2>6. Unpublished' = Unpublished
    BY ONLY <1>g, <2>3, <2>4, <2>5, Zenon DEF IsGrouped
  <2> QED BY <1>u, <2>6 DEF Stays
<1>2. CASE QueueSend
  <2>1. (nats_chan \o held) \o export_q = nats_chan \o (held \o export_q)
    BY <1>t, Assoc, ZenonT(60)
  <2>2. held' \o export_q' = export_q
    BY <1>2, <1>t, Empty, Zenon DEF QueueSend
  <2>3. nats_chan' = nats_chan \o held /\ UNCHANGED <<in_flight, msg_batch>>
    BY <1>2 DEF QueueSend, publishVars, natsVars
  <2>4. nats_chan' \o (held' \o export_q') = nats_chan \o (held \o export_q)
    BY ONLY <2>1, <2>2, <2>3, Zenon
  <2>5. Unpublished' = Unpublished
    BY ONLY <1>g, <2>3, <2>4, Zenon DEF IsGrouped
  <2> QED BY <1>u, <2>5 DEF Stays
<1>3. CASE PublishRecv
  <2>1. nats_chan # << >> /\ UNCHANGED <<in_flight, held, export_q>>
    BY <1>3 DEF PublishRecv, queueVars, natsVars
  <2>2. msg_batch' = Append(msg_batch, Head(nats_chan)) /\ nats_chan' = Tail(nats_chan)
    BY <1>3 DEF PublishRecv
  <2> HIDE DEF tail
  <2>3. \A u \in Seq(Message) :
            Append(msg_batch, Head(nats_chan)) \o (Tail(nats_chan) \o u)
                = msg_batch \o (nats_chan \o u)
    BY ONLY <1>t, <2>1, MoveHead, ZenonT(60)
  <2>4. msg_batch' \o (nats_chan' \o tail) = msg_batch \o (nats_chan \o tail)
    BY ONLY <1>r, <2>2, <2>3, Zenon
  <2>5. Unpublished' = Unpublished
    BY ONLY <1>g, <2>1, <2>4, Zenon DEF IsGrouped, tail
  <2> QED BY <1>u, <2>5 DEF Stays
<1>4. CASE PublishBatch
  <2>1. in_flight = << >>
    BY <1>4 DEF PublishBatch, Phases
  <2>2. in_flight' = msg_batch /\ msg_batch' = << >> /\ UNCHANGED <<nats_chan, held, export_q>>
    BY <1>4 DEF PublishBatch, queueVars
  <2> HIDE DEF rest
  <2>3. << >> \o rest = rest
    BY <1>r, Empty, Zenon
  <2>4. msg_batch \o rest \in Seq(Message)
    BY <1>t, <1>r, Concat, Zenon
  <2>5. << >> \o (msg_batch \o rest) = msg_batch \o rest
    BY <2>4, Empty, Zenon
  <2>6. in_flight' \o (msg_batch' \o rest) = in_flight \o (msg_batch \o rest)
    BY ONLY <2>1, <2>2, <2>3, <2>5, Zenon
  <2>7. Unpublished' = Unpublished
    BY ONLY <1>g, <2>2, <2>6, Zenon DEF IsGrouped, rest
  <2> QED BY <1>u, <2>7 DEF Stays
<1> QED BY <1>1, <1>2, <1>3, <1>4

\* The startup, a shutdown, a filter update and an ACK do not touch them.
LEMMA ShapeStays ==
    ASSUME \/ BarrierRelease \/ Shutdown \/ QueueFilterChanged \/ PublishAck
           \/ \E rules \in SUBSET Peer : FilterUpdate(rules)
           \/ UNCHANGED expVars
    PROVE  Stays
BY SMTT(60) DEF BarrierRelease, Shutdown, QueueFilterChanged, PublishAck, FilterUpdate, expVars,
       exporterVars, publishVars, natsVars, queueVars, Stays, Unpublished

\* A message that LDK exports arrives at the end, or finds the queue task gone.
LEMMA ShapeExport ==
    ASSUME ExpTypeOK, Phases, ExpTypeOK', NEW p \in Peer, Export(p)
    PROVE  Refused \/ \E m \in [peer : Peer, id : 1..MaxMsgs] : Arrives(m)
<1>t. /\ in_flight \in Seq(Message) /\ msg_batch \in Seq(Message) /\ nats_chan \in Seq(Message)
      /\ held \in Seq(Message) /\ export_q \in Seq(Message) /\ received \in 0..MaxMsgs
  BY DEF ExpTypeOK
<1>g. IsGrouped /\ IsGrouped'
  BY UnpublishedGrouped, GroupedNext
<1>u. /\ UNCHANGED <<stream, filtered, in_flight, msg_batch, nats_chan, held>>
      /\ received' = received + 1 /\ received < MaxMsgs
  BY DEF Export, queueVars, publishVars, natsVars
<1>1. CASE QueueDone
  <2>1. UNCHANGED export_q /\ stop_signal'
    BY <1>1 DEF Export
  <2> QED BY <1>u, <2>1 DEF Refused, Unpublished
<1>2. CASE ~QueueDone
  <2> DEFINE m == [peer |-> p, id |-> received']
             o == <<m>>
             x == in_flight \o (msg_batch \o nats_chan)
             y == held \o export_q
  <2>1. m \in [peer : Peer, id : 1..MaxMsgs] /\ m \in Message /\ m.id = received + 1
    BY <1>t, <1>u, ExporterAssumption DEF Message
  <2>2. export_q' = Append(export_q, m) /\ UNCHANGED stop_signal
    BY <1>2 DEF Export
  <2> HIDE DEF m
  <2>3. o \in Seq(Message) /\ export_q' = export_q \o o
    BY <1>t, <2>1, <2>2, AppendIsConcat
  <2> HIDE DEF o
  <2>4. x \in Seq(Message) /\ y \in Seq(Message)
    BY <1>t, Concat
  <2>5. held \o (export_q \o o) = y \o o
    BY ONLY <1>t, <2>3, Assoc, ZenonT(60)
  <2>6. \A t \in Seq(Message) : in_flight \o (msg_batch \o (nats_chan \o t)) = x \o t
    BY TasksInFront, Zenon
  <2> HIDE DEF x, y
  <2>7. y \o o \in Seq(Message)
    BY <2>3, <2>4, Concat
  <2>8. Unpublished = x \o y
    BY ONLY <1>g, <2>4, <2>6, Zenon DEF IsGrouped, y
  <2>9. Unpublished' = x \o (y \o o)
    BY ONLY <1>g, <1>u, <2>3, <2>5, <2>6, <2>7, Zenon DEF IsGrouped
  <2>10. (x \o y) \o o = x \o (y \o o)
    BY ONLY <2>3, <2>4, Assoc, Zenon
  <2>11. Arrives(m)
    BY <1>u, <2>1, <2>2, <2>8, <2>9, <2>10 DEF Arrives, o
  <2> QED BY <2>1, <2>11
<1> QED BY <1>1, <1>2

\* The filter cuts one message out of the queue.
LEMMA ShapeDiscard ==
    ASSUME ExpTypeOK, Phases, ExpTypeOK', QueueDiscard
    PROVE  \E m \in Message : FilteredOut(m)
<1>t. /\ in_flight \in Seq(Message) /\ msg_batch \in Seq(Message) /\ nats_chan \in Seq(Message)
      /\ held \in Seq(Message) /\ export_q \in Seq(Message)
  BY DEF ExpTypeOK
<1>g. IsGrouped /\ IsGrouped'
  BY UnpublishedGrouped, GroupedNext
<1> DEFINE m == Head(export_q)
           c == Tail(export_q)
           x == in_flight \o (msg_batch \o nats_chan)
<1>1. /\ held = << >> /\ export_q # << >> /\ export_q' = c
      /\ UNCHANGED <<in_flight, msg_batch, nats_chan, held, stream, received, stop_signal>>
      /\ ~stop_signal /\ filtered' = filtered \cup {m.id}
  BY DEF QueueDiscard, QueueCanReceive, Phases, queueVars, publishVars, natsVars
<1>2. m \in Message /\ <<m>> \in Seq(Message) /\ c \in Seq(Message) /\ export_q = <<m>> \o c
  BY <1>t, <1>1, HeadFirst, Zenon
<1>3. x \in Seq(Message)
  BY <1>t, Concat
<1>4. \A t \in Seq(Message) : in_flight \o (msg_batch \o (nats_chan \o t)) = x \o t
  BY TasksInFront, Zenon
<1> HIDE DEF x, m, c
<1>5. held \o export_q = export_q /\ held' \o export_q' = c
  BY <1>t, <1>1, <1>2, Empty, Zenon
<1>6. Unpublished = x \o (<<m>> \o c)
  BY ONLY <1>g, <1>t, <1>2, <1>4, <1>5, Zenon DEF IsGrouped
<1>7. Unpublished' = x \o c
  BY ONLY <1>g, <1>1, <1>2, <1>4, <1>5, Zenon DEF IsGrouped
<1>8. CutOut(<<m>>)
  BY <1>1, <1>2, <1>3, <1>6, <1>7, Zenon DEF CutOut
<1> QED BY <1>1, <1>2, <1>8 DEF FilteredOut

\* The end of the queue task drops what it holds and what waits for it.
LEMMA ShapeQueueExit ==
    ASSUME ExpTypeOK, ExpTypeOK', NEW how, QueueExit(how)
    PROVE  \E b \in Seq(Message) : Dropped(b)
<1>t. /\ in_flight \in Seq(Message) /\ msg_batch \in Seq(Message) /\ nats_chan \in Seq(Message)
      /\ held \in Seq(Message) /\ export_q \in Seq(Message)
  BY DEF ExpTypeOK
<1>g. IsGrouped /\ IsGrouped'
  BY UnpublishedGrouped, GroupedNext
<1> DEFINE x == in_flight \o (msg_batch \o nats_chan)
           y == held \o export_q
<1>1. /\ held' = << >> /\ export_q' = << >> /\ stop_signal'
      /\ UNCHANGED <<in_flight, msg_batch, nats_chan, stream, received, filtered>>
  BY DEF QueueExit, publishVars, natsVars
<1>2. x \in Seq(Message) /\ y \in Seq(Message) /\ << >> \in Seq(Message)
  BY <1>t, Concat
<1>3. \A t \in Seq(Message) : in_flight \o (msg_batch \o (nats_chan \o t)) = x \o t
  BY TasksInFront, Zenon
<1> HIDE DEF x, y
<1>4. y \o << >> = y /\ << >> \o << >> = << >>
  BY <1>2, Empty, Zenon
<1>5. Unpublished = x \o (y \o << >>)
  BY ONLY <1>g, <1>2, <1>3, <1>4, Zenon DEF IsGrouped, y
<1>6. Unpublished' = x \o << >>
  BY ONLY <1>g, <1>1, <1>2, <1>3, <1>4, Zenon DEF IsGrouped
<1>7. CutOut(y)
  BY <1>1, <1>2, <1>5, <1>6, Zenon DEF CutOut
<1> QED BY <1>1, <1>2, <1>7 DEF Dropped

\* The end of the publish task drops its batch and its channel.
LEMMA ShapePublishExit ==
    ASSUME ExpTypeOK, ExpTypeOK', NEW how, PublishExit(how)
    PROVE  \E b \in Seq(Message) : Dropped(b)
<1>t. /\ in_flight \in Seq(Message) /\ msg_batch \in Seq(Message) /\ nats_chan \in Seq(Message)
      /\ held \in Seq(Message) /\ export_q \in Seq(Message)
  BY DEF ExpTypeOK
<1>g. IsGrouped /\ IsGrouped'
  BY UnpublishedGrouped, GroupedNext
<1> DEFINE x == msg_batch \o nats_chan
           y == held \o export_q
<1>1. /\ msg_batch' = << >> /\ nats_chan' = << >> /\ stop_signal'
      /\ UNCHANGED <<in_flight, held, export_q, stream, received, filtered>>
  BY DEF PublishExit, queueVars, natsVars
<1>2. x \in Seq(Message) /\ y \in Seq(Message)
  BY <1>t, Concat
<1>3. \A u \in Seq(Message) : (msg_batch \o nats_chan) \o u = msg_batch \o (nats_chan \o u)
  BY ONLY <1>t, Assoc, Zenon
<1> HIDE DEF y
<1>4. msg_batch \o (nats_chan \o y) = x \o y /\ << >> \o y = y
  BY <1>2, <1>3, Empty, Zenon
<1> HIDE DEF x
<1>5. Unpublished = in_flight \o (x \o y)
  BY ONLY <1>g, <1>4, Zenon DEF IsGrouped, y
<1>6. Unpublished' = in_flight \o y
  BY ONLY <1>g, <1>1, <1>4, Zenon DEF IsGrouped, y
<1>7. CutOut(x)
  BY <1>t, <1>1, <1>2, <1>5, <1>6, Zenon DEF CutOut
<1> QED BY <1>1, <1>2, <1>7 DEF Dropped

\* The server stores the batch in flight, or it is lost.
LEMMA ShapeStream ==
    ASSUME ExpTypeOK, Phases, ExpTypeOK', StreamStore \/ StreamLose
    PROVE  \/ \E b \in Seq(Message) : Dropped(b)
           \/ \E b, c \in Seq(Message) : Stored(b, c)
<1>t. /\ in_flight \in Seq(Message) /\ msg_batch \in Seq(Message) /\ nats_chan \in Seq(Message)
      /\ held \in Seq(Message) /\ export_q \in Seq(Message)
  BY DEF ExpTypeOK
<1>g. IsGrouped /\ IsGrouped'
  BY UnpublishedGrouped, GroupedNext
<1> DEFINE c == msg_batch \o (nats_chan \o (held \o export_q))
<1>1. /\ in_flight # << >> /\ in_flight' = << >>
      /\ UNCHANGED <<msg_batch, nats_chan, held, export_q, received, filtered, stop_signal>>
  BY DEF StreamStore, StreamLose, queueVars, publishVars
<1>2. c \in Seq(Message)
  BY <1>t, Concat
<1>3. Unpublished = in_flight \o c
  BY ONLY <1>g, Zenon DEF IsGrouped
<1>4. Unpublished' = << >> \o c
  BY ONLY <1>g, <1>1, Zenon DEF IsGrouped
<1> HIDE DEF c
<1>5. << >> \o c = c /\ << >> \in Seq(Message)
  BY <1>2, Empty, Zenon
<1>6. CASE StreamStore
  <2>1. Len(in_flight) = BatchSize
    BY <1>1 DEF Phases
  <2>2. stream' = stream \o in_flight
    BY <1>6 DEF StreamStore
  <2>3. Stored(in_flight, c)
    BY ONLY <1>1, <1>3, <1>4, <1>5, <2>1, <2>2, Zenon DEF Stored
  <2> QED BY <1>t, <1>2, <2>3
<1>7. CASE StreamLose
  <2>1. stop_signal' /\ UNCHANGED stream
    BY <1>1, <1>7 DEF StreamLose, Phases
  <2>2. in_flight \o c \in Seq(Message)
    BY <1>t, <1>2, Concat
  <2>3. << >> \o (in_flight \o c) = in_flight \o c
    BY <2>2, Empty, Zenon
  <2>4. CutOut(in_flight)
    BY <1>1, <1>2, <1>3, <1>4, <1>5, <2>1, <2>3, Zenon DEF CutOut
  <2> QED BY <1>t, <1>1, <2>1, <2>4 DEF Dropped
<1> QED BY <1>6, <1>7

\* Every step is of one of these shapes.
LEMMA ShapeNext ==
    ASSUME ExpTypeOK, Phases, ExpTypeOK', [ExpNext]_expVars
    PROVE  Shape
<1>1. ASSUME NEW p \in Peer, Export(p) PROVE Shape
  BY <1>1, ShapeExport DEF Shape
<1>2. CASE QueueAccept \/ QueueSend \/ PublishRecv \/ PublishBatch
  BY <1>2, ShapeHandOver DEF Shape
<1>3. CASE \/ BarrierRelease \/ Shutdown \/ QueueFilterChanged \/ PublishAck
           \/ \E rules \in SUBSET Peer : FilterUpdate(rules)
           \/ UNCHANGED expVars
  BY <1>3, ShapeStays DEF Shape
<1>4. CASE QueueDiscard
  BY <1>4, ShapeDiscard DEF Shape
<1>5. CASE QueueStop \/ QueueSendClosed
  <2>1. PICK how : QueueExit(how)
    BY <1>5 DEF QueueStop, QueueSendClosed
  <2> QED BY <2>1, ShapeQueueExit DEF Shape
<1>6. CASE PublishClosed \/ PublishStop \/ PublishPanic
  <2>1. PICK how : PublishExit(how)
    BY <1>6 DEF PublishClosed, PublishStop, PublishPanic
  <2> QED BY <2>1, ShapePublishExit DEF Shape
<1>7. CASE StreamStore \/ StreamLose
  BY <1>7, ShapeStream DEF Shape
<1> QED BY <1>1, <1>2, <1>3, <1>4, <1>5, <1>6, <1>7
        DEF ExpNext, ExporterStep, QueueTask, PublishTask

\* The pipeline is the stream and what is unpublished.
IsSplit == Pipeline = stream \o Unpublished

LEMMA PipelineSplit == ExpTypeOK => IsSplit
<1> SUFFICES ASSUME ExpTypeOK PROVE IsSplit
  OBVIOUS
<1>1. /\ in_flight \in Seq(Message) /\ msg_batch \in Seq(Message) /\ nats_chan \in Seq(Message)
      /\ held \in Seq(Message) /\ export_q \in Seq(Message) /\ stream \in Seq(Message)
  BY DEF ExpTypeOK
<1> DEFINE x == stream \o in_flight
           w == msg_batch \o (nats_chan \o (held \o export_q))
<1>2. x \in Seq(Message)
  BY <1>1, Concat
<1>3. w \in Seq(Message)
  BY <1>1, Concat
<1>4. \A f, b, n, h, e \in Seq(Message) :
          (((f \o b) \o n) \o h) \o e = f \o (b \o (n \o (h \o e)))
  BY Grouped, Zenon
<1>5. \A n, h, e \in Seq(Message) :
          (((x \o msg_batch) \o n) \o h) \o e = x \o (msg_batch \o (n \o (h \o e)))
  <2> HIDE DEF x
  <2> QED BY ONLY <1>1, <1>2, <1>4, Zenon
<1>6. \A e \in Seq(Message) :
          (((x \o msg_batch) \o nats_chan) \o held) \o e
              = x \o (msg_batch \o (nats_chan \o (held \o e)))
  <2> HIDE DEF x
  <2> QED BY ONLY <1>1, <1>5, Zenon
<1>7. Pipeline = x \o w
  BY ONLY <1>1, <1>6, Zenon DEF Pipeline
<1>8. \A u \in Seq(Message) : (stream \o in_flight) \o u = stream \o (in_flight \o u)
  BY ONLY <1>1, Assoc, Zenon
<1>9. x \o w = stream \o (in_flight \o w)
  <2> HIDE DEF w
  <2> QED BY ONLY <1>3, <1>8, Zenon
<1>10. Unpublished = in_flight \o w
  BY UnpublishedGrouped DEF IsGrouped
<1> HIDE DEF x, w
<1> QED BY ONLY <1>7, <1>9, <1>10, Zenon DEF IsSplit

LEMMA SplitNext == ExpTypeOK' => IsSplit'
BY PipelineSplit, PTL

\* What a step of each shape does to the pipeline.
LEMMA PipelineShape ==
    ASSUME ExpTypeOK, ExpTypeOK', Shape
    PROVE  \/ Pipeline' = Pipeline /\ (Stays \/ Refused \/ \E b, c \in Seq(Message) : Stored(b, c))
           \/ \E m \in Message : Arrives(m) /\ Pipeline' = Pipeline \o <<m>>
           \/ \E a, b, c \in Seq(Message) :
                  /\ Pipeline = a \o (b \o c) /\ Pipeline' = a \o c
                  /\ (\E m \in Message : b = <<m>> /\ FilteredOut(m)) \/ Dropped(b)
<1>t. stream \in Seq(Message) /\ Unpublished \in Seq(Message)
  BY UnpublishedGrouped DEF IsGrouped, ExpTypeOK
<1>s. Pipeline = stream \o Unpublished /\ Pipeline' = stream' \o Unpublished'
  BY PipelineSplit, SplitNext DEF IsSplit
<1>1. ASSUME Stays \/ Refused PROVE Pipeline' = Pipeline
  BY <1>1, <1>s DEF Stays, Refused
<1>2. ASSUME NEW b \in Seq(Message), NEW c \in Seq(Message), Stored(b, c)
      PROVE  Pipeline' = Pipeline
  <2>1. stream' = stream \o b /\ Unpublished = b \o c /\ Unpublished' = c
    BY <1>2 DEF Stored
  <2>2. (stream \o b) \o c = stream \o (b \o c)
    BY ONLY <1>t, b \in Seq(Message), c \in Seq(Message), Assoc, Zenon
  <2> QED BY ONLY <1>s, <2>1, <2>2, Zenon
<1>3. ASSUME NEW m \in [peer : Peer, id : 1..MaxMsgs], Arrives(m)
      PROVE  m \in Message /\ Pipeline' = Pipeline \o <<m>>
  <2>1. m \in Message
    BY DEF Message
  <2>2. <<m>> \in Seq(Message)
    BY <2>1
  <2>3. (stream \o Unpublished) \o <<m>> = stream \o (Unpublished \o <<m>>)
    BY ONLY <1>t, <2>2, Assoc, Zenon
  <2>4. stream' = stream /\ Unpublished' = Unpublished \o <<m>>
    BY <1>3 DEF Arrives
  <2>5. Pipeline' = Pipeline \o <<m>>
    BY ONLY <1>s, <2>3, <2>4, Zenon
  <2> QED BY <2>1, <2>5
<1>4. ASSUME NEW b \in Seq(Message), CutOut(b)
      PROVE  \E a, c \in Seq(Message) : Pipeline = a \o (b \o c) /\ Pipeline' = a \o c
  <2>1. PICK a \in Seq(Message), c \in Seq(Message) :
            Unpublished = a \o (b \o c) /\ Unpublished' = a \o c
    BY <1>4 DEF CutOut
  <2>2. stream' = stream
    BY <1>4 DEF CutOut
  <2>3. \A u \in Seq(Message) : (stream \o a) \o u = stream \o (a \o u)
    BY ONLY <1>t, a \in Seq(Message), Assoc, Zenon
  <2>4. b \o c \in Seq(Message) /\ stream \o a \in Seq(Message)
    BY <1>t, Concat
  <2>5. Pipeline = (stream \o a) \o (b \o c)
    BY ONLY <1>s, <2>1, <2>3, <2>4, Zenon
  <2>6. Pipeline' = (stream \o a) \o c
    BY ONLY <1>s, <2>1, <2>2, <2>3, c \in Seq(Message), Zenon
  <2> QED BY <2>4, <2>5, <2>6, Zenon
<1>5. ASSUME NEW m \in Message PROVE <<m>> \in Seq(Message)
  OBVIOUS
<1>6. CASE Stays \/ Refused \/ \E b, c \in Seq(Message) : Stored(b, c)
  BY <1>1, <1>2, <1>6, Zenon
<1>7. CASE \E m \in [peer : Peer, id : 1..MaxMsgs] : Arrives(m)
  BY <1>3, <1>7, Zenon
<1>8. CASE \E m \in Message : FilteredOut(m)
  BY <1>4, <1>5, <1>8, Zenon DEF FilteredOut
<1>9. CASE \E b \in Seq(Message) : Dropped(b)
  BY <1>4, <1>9, Zenon DEF Dropped
<1> QED BY <1>6, <1>7, <1>8, <1>9, Zenon DEF Shape
-----------------------------------------------------------------------------
(* Order, uniqueness and completeness *)

Ordered == Increasing(Pipeline)
Complete == ~stop_signal => Ids(Pipeline) \cup filtered = 1..received

\* A step of any shape keeps what is said of the ids.
LEMMA IdsNext ==
    ASSUME ExpTypeOK, ExpTypeOK', Known, Shape
    PROVE  Known' /\ (Ordered => Ordered') /\ (Complete => Complete')
<1>r. received \in Nat
  BY DEF ExpTypeOK
<1>p. Pipeline \in Seq(Message)
  <2>1. stream \in Seq(Message) /\ Unpublished \in Seq(Message) /\ IsSplit
    BY UnpublishedGrouped, PipelineSplit DEF IsGrouped, ExpTypeOK
  <2> QED BY <2>1, Concat DEF IsSplit
<1>1. CASE Pipeline' = Pipeline /\ (Stays \/ Refused \/ \E b, c \in Seq(Message) : Stored(b, c))
  <2>1. /\ received' \in {received, received + 1} /\ filtered' = filtered
        /\ received' = received \/ stop_signal'
        /\ stop_signal => stop_signal'
    BY <1>1 DEF Stays, Refused, Stored
  <2>2. Ids(Pipeline)' = Ids(Pipeline) /\ (Ordered => Ordered')
    BY <1>1 DEF Ids, Ordered, Increasing
  <2>3. Known'
    BY <1>r, <2>1, <2>2 DEF Known
  <2>4. Complete => Complete'
    BY <2>1, <2>2 DEF Complete
  <2> QED BY <2>2, <2>3, <2>4
<1>2. ASSUME NEW m \in Message, Arrives(m), Pipeline' = Pipeline \o <<m>>
      PROVE  Known' /\ (Ordered => Ordered') /\ (Complete => Complete')
  <2>1. /\ m.id = received + 1 /\ received' = received + 1
        /\ filtered' = filtered /\ (stop_signal <=> stop_signal')
    BY <1>2 DEF Arrives
  <2>2. /\ Ids(Pipeline') = Ids(Pipeline) \cup {m.id}
        /\ Increasing(Pipeline) /\ (\A n \in Ids(Pipeline) : n < m.id) => Increasing(Pipeline')
    BY <1>p, <1>2, AppendIds
  <2>3. \A n \in Ids(Pipeline) : n < m.id
    BY <1>r, <2>1 DEF Known
  <2>4. Known'
    BY <1>r, <2>1, <2>2 DEF Known, Ids
  <2>5. Ordered => Ordered'
    BY <2>2, <2>3 DEF Ordered, Increasing
  <2>6. Complete => Complete'
    <3> SUFFICES ASSUME Complete, ~stop_signal'
                 PROVE  Ids(Pipeline') \cup filtered' = 1..received'
      BY DEF Complete, Ids
    <3>1. Ids(Pipeline) \cup filtered = 1..received
      BY <2>1 DEF Complete
    <3>2. 1..(received + 1) = 1..received \cup {received + 1}
      BY <1>r
    <3> QED BY <2>1, <2>2, <3>1, <3>2
  <2> QED BY <2>4, <2>5, <2>6
<1>3. ASSUME NEW a \in Seq(Message), NEW b \in Seq(Message), NEW c \in Seq(Message),
             Pipeline = a \o (b \o c), Pipeline' = a \o c,
             (\E m \in Message : b = <<m>> /\ FilteredOut(m)) \/ Dropped(b)
      PROVE  Known' /\ (Ordered => Ordered') /\ (Complete => Complete')
  <2>1. Ids(Pipeline) = Ids(Pipeline') \cup Ids(b)
    BY <1>3, CutIds
  <2>2. received' = received
    BY <1>3 DEF FilteredOut, Dropped, CutOut
  <2>3. Known'
    BY <2>1, <2>2 DEF Known, Ids
  <2>4. Increasing(Pipeline) => Increasing(Pipeline')
    BY <1>3, CutIncreasing
  <2>5. Ordered => Ordered'
    BY <2>4 DEF Ordered, Increasing
  <2>6. Complete => Complete'
    <3>1. CASE Dropped(b)
      BY <3>1 DEF Dropped, Complete
    <3>2. ASSUME NEW m \in Message, b = <<m>>, FilteredOut(m) PROVE Complete => Complete'
      <4>1. Ids(b) = {m.id}
        BY <3>2 DEF Ids
      <4>2. filtered' = filtered \cup {m.id} /\ ~stop_signal
        BY <3>2 DEF FilteredOut
      <4>3. ASSUME Complete PROVE Ids(Pipeline') \cup filtered' = 1..received'
        BY <2>1, <2>2, <4>1, <4>2, <4>3 DEF Complete
      <4> QED BY <4>3 DEF Complete, Ids
    <3> QED BY <1>3, <3>1, <3>2
  <2> QED BY <2>3, <2>5, <2>6
<1> QED BY <1>1, <1>2, <1>3, PipelineShape, Zenon

\* The invariant is inductive.
LEMMA ExpIInvNext == ExpIInv /\ [ExpNext]_expVars => ExpIInv'
<1> SUFFICES ASSUME ExpIInv, [ExpNext]_expVars PROVE ExpIInv'
  OBVIOUS
<1>1. ExpTypeOK' /\ Phases'
  <2>1. CASE UNCHANGED expVars
    BY <2>1 DEF ExpIInv, ExpTypeOK, Phases, QueueDone, PublishDone, expVars, exporterVars,
                queueVars, publishVars, natsVars
  <2> QED BY <2>1, TypesEnvironment, TypesTasks DEF ExpNext, ExporterStep
<1>2. Shape
  BY <1>1, ShapeNext DEF ExpIInv
<1>3. Known'
  BY <1>1, <1>2, IdsNext DEF ExpIInv
<1> QED BY <1>1, <1>3 DEF ExpIInv

\* Every reachable state of the exporter satisfies the invariant.
THEOREM ExpInductive == ExpSpec => []ExpIInv
BY ExpIInvInit, ExpIInvNext, PTL DEF ExpSpec

\* Types and back-pressure, for every batch size and any number of messages: behind the
\* filter there are at most one held message, a channel of one batch, and one batch.
THEOREM ExpTypeCorrect == ExpSpec => []ExpTypeOK
<1>1. ExpIInv => ExpTypeOK
  BY DEF ExpIInv
<1> QED BY <1>1, ExpInductive, PTL

\* A step from a state of the invariant keeps order and completeness.
LEMMA OrderNext ==
    ASSUME ExpIInv, ExpIInv', [ExpNext]_expVars
    PROVE  (Ordered => Ordered') /\ (Complete => Complete')
<1>1. Shape
  BY ShapeNext DEF ExpIInv
<1> QED BY <1>1, IdsNext DEF ExpIInv

\* From LDK's channel to the stream, messages keep the order of their arrival and none
\* occurs twice: for every batch size, and through hand-overs, failures and shutdown.
THEOREM ExactlyOnce == ExpSpec => []InOrderExactlyOnce
<1>1. ExpInit => Ordered
  BY DEF ExpInit, ExporterInit, Ordered, Increasing, Pipeline
<1>2. ExpIInv /\ ExpIInv' /\ [ExpNext]_expVars => (Ordered => Ordered')
  BY OrderNext
<1>3. Ordered => InOrderExactlyOnce
  BY DEF Ordered, Increasing, InOrderExactlyOnce
<1> QED BY <1>1, <1>2, <1>3, ExpInductive, PTL DEF ExpSpec

\* Until the token is cancelled a message that LDK exported is in the pipeline or was
\* discarded by the filter: no hand-over and no full channel loses one.
THEOREM NothingLost == ExpSpec => []NothingLostWhileRunning
<1>1. ExpInit => Complete
  BY DEF ExpInit, ExporterInit, Complete, Ids, Pipeline
<1>2. ExpIInv /\ ExpIInv' /\ [ExpNext]_expVars => (Complete => Complete')
  BY OrderNext
<1>3. Complete => NothingLostWhileRunning
  BY DEF Complete, Ids, NothingLostWhileRunning
<1> QED BY <1>1, <1>2, <1>3, ExpInductive, PTL DEF ExpSpec
-----------------------------------------------------------------------------
(* The exporter implements ExportLog *)

\* The parts of a concatenation of three, as subsequences of it.
LEMMA CutSubSeq ==
    ASSUME NEW S, NEW a \in Seq(S), NEW b \in Seq(S), NEW c \in Seq(S),
           NEW q, q = a \o (b \o c)
    PROVE  /\ SubSeq(q, 1, Len(a)) = a
           /\ SubSeq(q, Len(a) + Len(b) + 1, Len(q)) = c
<1>1. /\ Len(a) \in Nat /\ Len(b) \in Nat /\ Len(c) \in Nat
      /\ q \in Seq(S) /\ Len(q) = Len(a) + Len(b) + Len(c)
      /\ \A i \in 1..Len(a) : q[i] = a[i]
      /\ \A i \in 1..Len(c) : q[Len(a) + Len(b) + i] = c[i]
  BY ConcatThree
<1>2. \A i \in 1..Len(q) : q[i] \in S
  BY <1>1
<1> DEFINE x == SubSeq(q, 1, Len(a))
           k == Len(a) + Len(b) + 1
           y == SubSeq(q, k, Len(q))
<1>3. x = a
  <2>1. \A i \in 1..Len(a) : q[i] \in S
    BY <1>1, <1>2
  <2>2. x \in Seq(S) /\ Len(x) = Len(a) /\ \A i \in 1..Len(a) : x[i] = q[i]
    BY <1>1, <2>1, SubSeqProperties
  <2> HIDE DEF x
  <2> QED BY <1>1, <2>2, SeqEqual
<1>4. y = c
  <2>1. \A i \in k..Len(q) : q[i] \in S
    BY <1>1, <1>2
  <2>2. k \in Int /\ Len(q) \in Int /\ Len(q) - k + 1 = Len(c)
    BY <1>1
  <2>3. /\ y \in Seq(S) /\ Len(y) = Len(c)
        /\ \A i \in 1..Len(c) : y[i] = q[k + i - 1]
    <3> HIDE DEF k
    <3>1. /\ SubSeq(q, k, Len(q)) \in Seq(S)
          /\ Len(SubSeq(q, k, Len(q))) = IF k <= Len(q) THEN Len(q) - k + 1 ELSE 0
          /\ \A i \in 1..(Len(q) - k + 1) : SubSeq(q, k, Len(q))[i] = q[k + i - 1]
      <4> DEFINE n == Len(q)
      <4>1. n \in Int /\ k \in Int /\ \A i \in k..n : q[i] \in S
        BY <2>1, <2>2
      <4> HIDE DEF n
      <4>2. /\ SubSeq(q, k, n) \in Seq(S)
            /\ Len(SubSeq(q, k, n)) = IF k <= n THEN n - k + 1 ELSE 0
            /\ \A i \in 1..(n - k + 1) : SubSeq(q, k, n)[i] = q[k + i - 1]
        BY ONLY <4>1, SubSeqProperties
      <4> QED BY <4>2, Zenon DEF n
    <3> QED BY <1>1, <2>2, <3>1
  <2> HIDE DEF y
  <2>4. \A i \in 1..Len(c) : y[i] = c[i]
    <3> TAKE i \in 1..Len(c)
    <3>1. k + i - 1 = Len(a) + Len(b) + i
      BY <1>1
    <3>2. y[i] = q[k + i - 1] /\ q[Len(a) + Len(b) + i] = c[i]
      BY <1>1, <2>3
    <3> QED BY <3>1, <3>2
  <2> QED BY <2>3, <2>4, SeqEqual
<1> QED BY <1>3, <1>4

\* A run that is cut out is one that ExportLog may take out of its queue.
LEMMA CutWithout ==
    ASSUME ExpTypeOK, NEW b \in Seq(Message), CutOut(b)
    PROVE  IF b = << >> THEN Unpublished' = Unpublished
           ELSE \E i \in 1..Len(Unpublished) :
                    /\ i + Len(b) - 1 \in i..Len(Unpublished)
                    /\ Unpublished' = Log!Without(i, i + Len(b) - 1)
<1>1. PICK a \in Seq(Message), c \in Seq(Message) :
          Unpublished = a \o (b \o c) /\ Unpublished' = a \o c
  BY DEF CutOut
<1>2. CASE b = << >>
  <2>1. << >> \o c = c
    BY Empty, Zenon
  <2> QED BY <1>1, <1>2, <2>1
<1>3. CASE b # << >>
  <2> DEFINE i == Len(a) + 1
             j == i + Len(b) - 1
  <2>1. /\ Len(Unpublished) = Len(a) + Len(b) + Len(c)
        /\ Len(a) \in Nat /\ Len(b) \in Nat \ {0} /\ Len(c) \in Nat
    BY <1>1, <1>3, ConcatThree
  <2>2. /\ SubSeq(Unpublished, 1, Len(a)) = a
        /\ SubSeq(Unpublished, Len(a) + Len(b) + 1, Len(Unpublished)) = c
    BY <1>1, CutSubSeq
  <2>3. i - 1 = Len(a) /\ j + 1 = Len(a) + Len(b) + 1
    BY <2>1
  <2>4. i \in 1..Len(Unpublished) /\ j \in i..Len(Unpublished)
    BY <2>1
  <2> HIDE DEF i, j
  <2>5. Unpublished' = Log!Without(i, j)
    BY ONLY <1>1, <2>2, <2>3, Zenon DEF Log!Without
  <2> QED BY <1>3, <2>4, <2>5 DEF j
<1> QED BY <1>2, <1>3

\* Every step of the exporter is a step of ExportLog, or stutters.
LEMMA LogNext ==
    ASSUME ExpTypeOK, ExpTypeOK', Shape
    PROVE  [Log!Next]_(Log!logVars)
<1>b. stop_signal \in BOOLEAN /\ stop_signal' \in BOOLEAN
  BY DEF ExpTypeOK
<1>1. CASE Stays
  <2>1. CASE stop_signal' = stop_signal
    BY <1>1, <2>1 DEF Stays, Log!logVars
  <2>2. CASE stop_signal' # stop_signal
    <3>1. stop_signal' /\ stream' = stream /\ Unpublished' = Unpublished
      BY <1>1, <1>b, <2>2 DEF Stays
    <3>2. Log!EndOfService
      BY <3>1, Zenon DEF Log!EndOfService
    <3> QED BY <3>2 DEF Log!Next
  <2> QED BY <2>1, <2>2
<1>2. CASE Refused
  <2>1. stop_signal' /\ stream' = stream /\ Unpublished' = Unpublished
    BY <1>2 DEF Refused
  <2>2. Log!EndOfService
    BY <2>1, Zenon DEF Log!EndOfService
  <2> QED BY <2>2 DEF Log!Next
<1>3. ASSUME NEW m \in [peer : Peer, id : 1..MaxMsgs], Arrives(m) PROVE Log!Next
  <2>1. Unpublished \in Seq(Message) /\ m \in Message
    BY UnpublishedGrouped DEF IsGrouped, Message
  <2>2. Append(Unpublished, m) = Unpublished \o <<m>>
    BY <2>1, AppendIsConcat
  <2>3. Unpublished' = Append(Unpublished, m) /\ stream' = stream /\ stop_signal' = stop_signal
    BY <1>3, <2>2 DEF Arrives
  <2>4. Log!Receive(m)
    BY <2>3, Zenon DEF Log!Receive
  <2> QED BY <2>4 DEF Log!Next
<1>4. ASSUME NEW m \in Message, FilteredOut(m) PROVE Log!Next
  <2>1. <<m>> \in Seq(Message) /\ <<m>> # << >> /\ Len(<<m>>) = 1
    OBVIOUS
  <2>2. CutOut(<<m>>) /\ ~stop_signal /\ stop_signal' = stop_signal /\ stream' = stream
    BY <1>4 DEF FilteredOut, CutOut
  <2>3. PICK i \in 1..Len(Unpublished) : Unpublished' = Log!Without(i, i + Len(<<m>>) - 1)
    BY <2>1, <2>2, CutWithout
  <2>4. i + Len(<<m>>) - 1 = i
    BY <2>1
  <2>5. Log!Discard
    BY <2>2, <2>3, <2>4, Zenon DEF Log!Discard
  <2> QED BY <2>5 DEF Log!Next
<1>5. ASSUME NEW b \in Seq(Message), Dropped(b) PROVE Log!Next
  <2>1. CutOut(b) /\ stop_signal' /\ stream' = stream
    BY <1>5 DEF Dropped, CutOut
  <2>2. \/ Unpublished' = Unpublished
        \/ \E i \in 1..Len(Unpublished) : \E j \in i..Len(Unpublished) :
               Unpublished' = Log!Without(i, j)
    BY <2>1, CutWithout, Zenon
  <2>3. Log!EndOfService
    BY <2>1, <2>2, Zenon DEF Log!EndOfService
  <2> QED BY <2>3 DEF Log!Next
<1>6. ASSUME NEW b \in Seq(Message), NEW c \in Seq(Message), Stored(b, c) PROVE Log!Next
  <2>1. /\ Len(b) = BatchSize /\ stream' = stream \o b /\ stop_signal' = stop_signal
        /\ Unpublished = b \o c /\ Unpublished' = c
    BY <1>6 DEF Stored
  <2>2. << >> \o c = c /\ << >> \in Seq(Message)
    BY Empty, Zenon
  <2>3. /\ SubSeq(Unpublished, 1, Len(b)) = b
        /\ SubSeq(Unpublished, Len(b) + Len(<< >>) + 1, Len(Unpublished)) = c
    <3>1. Unpublished = b \o (<< >> \o c)
      BY <2>1, <2>2
    <3> QED BY <2>2, <3>1, CutSubSeq
  <2>4. /\ Len(b) + Len(<< >>) + 1 = BatchSize + 1 /\ BatchSize <= Len(Unpublished)
        /\ BatchSize \in 1..BatchSize
    BY <2>1, ExporterAssumption
  <2>5. Log!Publish(BatchSize)
    BY ONLY <2>1, <2>3, <2>4, Zenon DEF Log!Publish
  <2> QED BY <2>4, <2>5 DEF Log!Next
<1> QED BY <1>1, <1>2, <1>3, <1>4, <1>5, <1>6 DEF Shape

\* The exporter implements ExportLog, for every batch size: the stream grows by
\* batches from the front of the queue, and besides that only single messages, by the
\* filter, or a run of them, at the end of service, leave the queue.
THEOREM ExportLogImplemented == ExpSpec => ImplementsExportLog
<1>1. ExpInit => Log!Init
  BY DEF ExpInit, ExporterInit, Log!Init, Unpublished
<1>2. ExpIInv /\ ExpIInv' /\ [ExpNext]_expVars => [Log!Next]_(Log!logVars)
  BY ShapeNext, LogNext DEF ExpIInv
<1> QED BY <1>1, <1>2, ExpInductive, PTL DEF ExpSpec, ImplementsExportLog, Log!Spec
=============================================================================
