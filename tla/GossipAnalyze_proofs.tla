------------------------- MODULE GossipAnalyze_proofs -------------------------
(***************************************************************************)
(* Proofs about the commands of gossip_analyze, for any node list, graph,  *)
(* sizes of the buckets and of the flush interval, and any sequence of     *)
(* commands, failed requests, failed writes and kills.                     *)
(*                                                                         *)
(* The argument is one fact about every file: it is at any time a prefix   *)
(* of the JSON array of what has been sent to its writer. A file that ends *)
(* with the closing bracket is then the whole array.                       *)
(***************************************************************************)
EXTENDS GossipAnalyze, FiniteSetTheorems, SequenceTheorems, TLAPS

\* The length of the JSON array of s, and what is at its position i.
Closing(s) == IF Len(s) = 0 THEN 2 ELSE 2 * Len(s) + 1

Item(s, i) ==
    IF i = 1 THEN LBracket
    ELSE IF i = Closing(s) THEN RBracket
    ELSE IF i % 2 = 0 THEN s[i \div 2]
    ELSE Comma

ArrayPrefix(f, s) == Len(f) <= Closing(s) /\ \A i \in 1..Len(f) : f[i] = Item(s, i)

\* A file f, what was sent to its writer w, and what w has still to receive.
FileOK(f, s, c, w) ==
    /\ ArrayPrefix(f, s)
    /\ w = "start" => Len(f) = 0 /\ c = s
    /\ w = "recv" =>
          /\ Len(c) <= Len(s)
          /\ \A i \in 1..Len(c) : c[i] = s[Len(s) - Len(c) + i]
          /\ Len(f) = IF Len(c) = Len(s) THEN 1 ELSE 2 * (Len(s) - Len(c))

Unfinished(o) == Len(written[o]) < Closing(sent[o])

FilesInv == \A o \in Output : FileOK(written[o], sent[o], chan[o], writer[o])

\* What main holds, by where it is.
MainInv ==
    /\ proc # "running" => pc = "return"
    /\ proc = "none" => fetching = {}
    /\ \A k \in fetching : k \in ValueOf(FetchOutput)
    /\ pc \in {"acquire", "spawn"} =>
          tx = {FetchOutput} /\ left \in Seq(ValueOf(FetchOutput))
    /\ pc = "acquire" => classic_sem = MaxRequests
    /\ pc = "spawn" => classic_sem = MaxRequests - 1 /\ left # << >>
    /\ pc = "extract" => left \in Seq(Key)
    /\ pc = "walk_nodes" => tx = {"nodes", "missing_ann"} /\ left \in Seq(GraphNode)
    /\ pc = "walk_channels" => tx = {"channels"} /\ left \in Seq(GraphChannel)
    /\ pc \in {"linger", "sync", "walked", "unwind", "return"} => left = << >> /\ tx = {}

\* A file that main has a sender of is not closed.
SendersInv == \A o \in tx : Unfinished(o)

\* A node that is sent is not sent again, and is the next one of the simple list; the
\* lengths agree unless the simple list lost its end, by a failed write or a kill, or one of
\* the full lists will never be closed.
WalkInv ==
    LET nodes == sent["nodes"]
        missing == sent["missing_ann"]
    IN
    /\ IsInjective(nodes) /\ IsInjective(missing) /\ IsInjective(node_list)
    /\ Range(nodes) \cap Range(missing) = {}
    /\ Range(node_list) \subseteq Range(nodes) \cup Range(missing)
    /\ pc = "walk_nodes" =>
          /\ IsInjective(left)
          /\ Range(left) \cap (Range(nodes) \cup Range(missing)) = {}
          /\ Len(node_list) = Len(nodes) + Len(missing)
    /\ \/ Len(node_list) = Len(nodes) + Len(missing)
       \/ ~node_list_ok
       \/ \E o \in {"nodes", "missing_ann"} : ~Alive(o) /\ Unfinished(o)

AnaInv == AnaTypeOK /\ FilesInv /\ MainInv /\ SendersInv /\ WalkInv

-----------------------------------------------------------------------------
(* Arrays *)

LEMMA Parity ==
    ASSUME NEW n \in Nat
    PROVE  (2 * n) % 2 = 0 /\ (2 * n) \div 2 = n /\ (2 * n + 1) % 2 = 1
  OBVIOUS

\* A value sent to a writer does not disturb what is in the file already.
LEMMA ItemStable ==
    ASSUME NEW V, NEW s \in Seq(V), NEW v \in V, NEW i \in Nat,
           1 <= i, i <= 2 * Len(s) \/ i = 1
    PROVE  Item(Append(s, v), i) = Item(s, i)
<1>1. Len(Append(s, v)) = Len(s) + 1 /\ Len(s) \in Nat
  OBVIOUS
<1>2. CASE i = 1
  BY <1>2 DEF Item
<1>3. CASE i # 1
  <2>1. i <= 2 * Len(s) /\ Len(s) > 0
    BY <1>1, <1>3
  <2>2. i # Closing(s) /\ i # Closing(Append(s, v))
    BY <1>1, <2>1 DEF Closing
  <2>3. ASSUME i % 2 = 0
        PROVE  Append(s, v)[i \div 2] = s[i \div 2]
    <3>1. i \div 2 \in 1..Len(s)
      BY <1>1, <1>3, <2>1, <2>3
    <3> QED
      BY <3>1
  <2> QED
    BY <1>3, <2>2, <2>3 DEF Item
<1> QED
  BY <1>2, <1>3

LEMMA PrefixStable ==
    ASSUME NEW V, NEW M, NEW s \in Seq(V), NEW v \in V, NEW f \in Seq(M),
           ArrayPrefix(f, s), Len(f) <= 1 \/ Len(f) <= 2 * Len(s)
    PROVE  ArrayPrefix(f, Append(s, v))
<1>1. Len(Append(s, v)) = Len(s) + 1 /\ Len(s) \in Nat /\ Len(f) \in Nat
  OBVIOUS
<1>2. Len(f) <= Closing(Append(s, v))
  BY <1>1 DEF Closing
<1>3. ASSUME NEW i \in 1..Len(f)
      PROVE  f[i] = Item(Append(s, v), i)
  <2>1. i \in Nat /\ 1 <= i /\ (i <= 2 * Len(s) \/ i = 1)
    BY <1>1
  <2>2. f[i] = Item(s, i)
    BY DEF ArrayPrefix
  <2> QED
    BY <2>1, <2>2, ItemStable
<1> QED
  BY <1>2, <1>3 DEF ArrayPrefix

LEMMA PrefixAppend ==
    ASSUME NEW V, NEW M, NEW s \in Seq(V), NEW f \in Seq(M), NEW x \in M,
           ArrayPrefix(f, s), Len(f) < Closing(s), x = Item(s, Len(f) + 1)
    PROVE  ArrayPrefix(Append(f, x), s)
<1>1. Len(s) \in Nat /\ Len(f) \in Nat /\ Len(Append(f, x)) = Len(f) + 1
  OBVIOUS
<1>2. Closing(s) \in Nat
  BY <1>1 DEF Closing
<1>3. ASSUME NEW i \in 1..(Len(f) + 1)
      PROVE  Append(f, x)[i] = Item(s, i)
  <2>1. CASE i \in 1..Len(f)
    BY <2>1 DEF ArrayPrefix
  <2>2. CASE i = Len(f) + 1
    BY <2>2
  <2> QED
    BY <1>1, <2>1, <2>2
<1> QED
  BY <1>1, <1>2, <1>3 DEF ArrayPrefix

LEMMA PrefixCut ==
    ASSUME NEW V, NEW M, NEW s \in Seq(V), NEW f \in Seq(M), NEW n \in 0..Len(f),
           ArrayPrefix(f, s)
    PROVE  /\ SubSeq(f, 1, n) \in Seq(M)
           /\ Len(SubSeq(f, 1, n)) = n
           /\ ArrayPrefix(SubSeq(f, 1, n), s)
<1>1. Len(s) \in Nat /\ Len(f) \in Nat /\ n \in Nat /\ n <= Len(f)
  OBVIOUS
<1>2. Closing(s) \in Nat
  BY <1>1 DEF Closing
<1>3. Len(SubSeq(f, 1, n)) = n /\ SubSeq(f, 1, n) \in Seq(M)
  BY <1>1
<1>4. \A i \in 1..n : SubSeq(f, 1, n)[i] = f[i]
  BY <1>1
<1>5. Len(f) <= Closing(s) /\ \A i \in 1..Len(f) : f[i] = Item(s, i)
  BY DEF ArrayPrefix
<1>6. n <= Closing(s) /\ \A i \in 1..n : SubSeq(f, 1, n)[i] = Item(s, i)
  BY <1>1, <1>2, <1>4, <1>5
<1> QED
  BY <1>3, <1>6 DEF ArrayPrefix

\* What FileWellFormed says of a position of a file.
ItemWellFormed(f, i) ==
    /\ f[i] = LBracket <=> i = 1
    /\ f[i] = Comma <=> i > 1 /\ i % 2 = 1 /\ f[i] # RBracket
    /\ f[i] = RBracket => i = Len(f) /\ (i = 2 \/ i % 2 = 1)

\* The JSON array of a sequence of values is well formed, and so is a prefix of it.
LEMMA ArrayWellFormed ==
    ASSUME NEW V, V \cap Mark = {}, NEW M, NEW s \in Seq(V), NEW f \in Seq(M),
           ArrayPrefix(f, s), NEW i \in 1..Len(f)
    PROVE  ItemWellFormed(f, i) /\ (f[i] = RBracket <=> i = Closing(s))
<1>1. Len(s) \in Nat /\ Len(f) \in Nat /\ i \in Nat /\ 1 <= i /\ i <= Len(f)
  OBVIOUS
<1>2. Closing(s) \in Nat /\ Closing(s) > 1
  BY <1>1 DEF Closing
<1>3. i <= Closing(s) /\ Len(f) <= Closing(s) /\ f[i] = Item(s, i)
  BY <1>1, <1>2 DEF ArrayPrefix
<1>4. LBracket # Comma /\ LBracket # RBracket /\ Comma # RBracket
  BY AnalyzeAssumption
<1>5. CASE i = 1
  <2>1. f[i] = LBracket
    BY <1>3, <1>5 DEF Item
  <2> QED
    BY <1>1, <1>2, <1>4, <1>5, <2>1 DEF ItemWellFormed
<1>6. CASE i = Closing(s)
  <2>1. f[i] = RBracket
    BY <1>2, <1>3, <1>6 DEF Item
  <2>2. i = Len(f)
    BY <1>1, <1>2, <1>3, <1>6
  <2>3. i = 2 \/ i % 2 = 1
    <3>1. Closing(s) = 2 \/ Closing(s) = 2 * Len(s) + 1
      BY DEF Closing
    <3> QED
      BY <1>1, <1>6, <3>1, Parity
  <2> QED
    BY <1>2, <1>4, <1>6, <2>1, <2>2, <2>3 DEF ItemWellFormed
<1>7. CASE i # 1 /\ i # Closing(s) /\ i % 2 = 0
  <2>1. f[i] = s[i \div 2]
    BY <1>3, <1>7 DEF Item
  <2>2. i \div 2 \in 1..Len(s)
    BY <1>1, <1>3, <1>7 DEF Closing
  <2>3. f[i] \notin Mark
    BY <2>1, <2>2
  <2> QED
    BY <1>7, <2>3 DEF Mark, ItemWellFormed
<1>8. CASE i # 1 /\ i # Closing(s) /\ i % 2 # 0
  <2>1. f[i] = Comma
    BY <1>3, <1>8 DEF Item
  <2>2. i % 2 = 1 /\ i > 1
    BY <1>1, <1>8
  <2> QED
    BY <1>4, <1>8, <2>1, <2>2 DEF ItemWellFormed
<1> QED
  BY <1>5, <1>6, <1>7, <1>8

\* The values of a whole array are the sequence it was made of.
LEMMA ArrayValues ==
    ASSUME NEW V, NEW M, NEW s \in Seq(V), NEW f \in Seq(M),
           ArrayPrefix(f, s), Len(f) = Closing(s)
    PROVE  Values(f) = s
<1>1. Len(s) \in Nat /\ Len(f) \in Nat
  OBVIOUS
<1>2. (Len(f) - 1) \div 2 = Len(s)
  <2>1. CASE Len(s) = 0
    <3>1. Len(f) - 1 = 1
      BY <2>1 DEF Closing
    <3> QED
      BY <2>1, <3>1
  <2>2. CASE Len(s) # 0
    <3>1. Len(f) - 1 = 2 * Len(s)
      BY <1>1, <2>2 DEF Closing
    <3> QED
      BY <1>1, <3>1, Parity
  <2> QED
    BY <2>1, <2>2
<1>3. ASSUME NEW i \in 1..Len(s)
      PROVE  f[2 * i] = s[i]
  <2>1. 2 * i \in 1..Len(f) /\ 2 * i # 1 /\ 2 * i # Closing(s)
    BY <1>1 DEF Closing
  <2>2. (2 * i) % 2 = 0 /\ (2 * i) \div 2 = i
    BY <1>1
  <2>3. f[2 * i] = Item(s, 2 * i)
    BY <2>1 DEF ArrayPrefix
  <2> QED
    BY <2>1, <2>2, <2>3 DEF Item
<1>4. Values(f) = [i \in 1..Len(s) |-> f[2 * i]]
  BY <1>2 DEF Values
<1>5. s = [i \in 1..Len(s) |-> s[i]]
  OBVIOUS
<1> QED
  BY <1>3, <1>4, <1>5
-----------------------------------------------------------------------------
(* The steps of a writer, for one file *)

\* While its writer is alive, a file is not closed.
LEMMA OpenUnfinished ==
    ASSUME NEW V, NEW M, NEW s \in Seq(V), NEW c \in Seq(V), NEW f \in Seq(M),
           NEW w \in {"start", "recv"}, FileOK(f, s, c, w)
    PROVE  /\ Len(f) < Closing(s)
           /\ Len(f) <= 1 \/ Len(f) <= 2 * Len(s)
<1>1. Len(s) \in Nat /\ Len(f) \in Nat /\ Len(c) \in Nat
  OBVIOUS
<1>2. CASE w = "start"
  BY <1>1, <1>2 DEF FileOK, Closing
<1>3. CASE w = "recv"
  <2>1. Len(c) <= Len(s) /\ Len(f) = IF Len(c) = Len(s) THEN 1 ELSE 2 * (Len(s) - Len(c))
    BY <1>3 DEF FileOK
  <2>2. CASE Len(c) = Len(s)
    BY <1>1, <2>1, <2>2 DEF Closing
  <2>3. CASE Len(c) # Len(s)
    <3>1. Len(s) > 0 /\ Len(f) = 2 * (Len(s) - Len(c)) /\ Closing(s) = 2 * Len(s) + 1
      BY <1>1, <2>1, <2>3 DEF Closing
    <3>2. 2 * (Len(s) - Len(c)) <= 2 * Len(s)
      BY <1>1, <2>1
    <3> QED
      BY <1>1, <3>1, <3>2
  <2> QED
    BY <2>2, <2>3
<1> QED
  BY <1>2, <1>3

LEMMA FileSend ==
    ASSUME NEW V, NEW M, NEW s \in Seq(V), NEW c \in Seq(V), NEW f \in Seq(M), NEW v \in V,
           NEW w \in {"start", "recv"}, FileOK(f, s, c, w)
    PROVE  FileOK(f, Append(s, v), Append(c, v), w)
<1> DEFINE t == Append(s, v)
           d == Append(c, v)
<1>1. /\ Len(s) \in Nat /\ Len(f) \in Nat /\ Len(c) \in Nat
      /\ Len(t) = Len(s) + 1 /\ Len(d) = Len(c) + 1
      /\ \A i \in 1..Len(s) : t[i] = s[i]
      /\ \A i \in 1..Len(c) : d[i] = c[i]
      /\ t[Len(s) + 1] = v /\ d[Len(c) + 1] = v
  OBVIOUS
<1>2. ArrayPrefix(f, s)
  BY DEF FileOK
<1>3. Len(f) <= 1 \/ Len(f) <= 2 * Len(s)
  BY OpenUnfinished
<1>4. ArrayPrefix(f, t)
  BY <1>2, <1>3, PrefixStable
<1>5. CASE w = "start"
  BY <1>4, <1>5 DEF FileOK
<1>6. CASE w = "recv"
  <2>1. /\ Len(c) <= Len(s)
        /\ \A i \in 1..Len(c) : c[i] = s[Len(s) - Len(c) + i]
        /\ Len(f) = IF Len(c) = Len(s) THEN 1 ELSE 2 * (Len(s) - Len(c))
    BY <1>6 DEF FileOK
  <2> HIDE DEF t, d
  <2>2. Len(t) - Len(d) = Len(s) - Len(c) /\ (Len(d) = Len(t) <=> Len(c) = Len(s))
        /\ Len(d) <= Len(t)
    BY <1>1, <2>1
  <2>3. ASSUME NEW i \in 1..Len(d)
        PROVE  d[i] = t[Len(t) - Len(d) + i]
    <3>1. i \in 1..Len(c) \/ i = Len(c) + 1
      BY <1>1
    <3>2. CASE i = Len(c) + 1
      <4>1. Len(t) - Len(d) + i = Len(s) + 1
        BY <1>1, <3>2
      <4> QED
        BY <1>1, <3>2, <4>1
    <3>3. CASE i \in 1..Len(c)
      <4>1. Len(t) - Len(d) + i = Len(s) - Len(c) + i /\ Len(s) - Len(c) + i \in 1..Len(s)
        BY <1>1, <2>1, <3>3
      <4> QED
        BY <1>1, <2>1, <3>3, <4>1
    <3> QED
      BY <3>1, <3>2, <3>3
  <2>4. FileOK(f, t, d, w)
    BY <1>4, <1>6, <2>1, <2>2, <2>3 DEF FileOK
  <2> QED
    BY <2>4 DEF t, d
<1> QED
  BY <1>5, <1>6

LEMMA FileStart ==
    ASSUME NEW V, NEW M, LBracket \in M, NEW s \in Seq(V), NEW c \in Seq(V), NEW f \in Seq(M),
           FileOK(f, s, c, "start")
    PROVE  FileOK(Append(f, LBracket), s, c, "recv")
<1>1. /\ Len(s) \in Nat /\ Len(f) = 0 /\ c = s
      /\ Len(Append(f, LBracket)) = 1 /\ ArrayPrefix(f, s)
  BY DEF FileOK
<1>2. Closing(s) > 0 /\ LBracket = Item(s, Len(f) + 1)
  BY <1>1 DEF Closing, Item
<1>3. ArrayPrefix(Append(f, LBracket), s)
  BY <1>1, <1>2, PrefixAppend
<1>4. Len(s) - Len(c) = 0 /\ \A i \in 1..Len(c) : c[i] = s[Len(s) - Len(c) + i]
  BY <1>1
<1> QED
  BY <1>1, <1>3, <1>4 DEF FileOK

LEMMA AppendType ==
    ASSUME NEW M, NEW f \in Seq(M), NEW a \in M
    PROVE  Append(f, a) \in Seq(M) /\ Len(Append(f, a)) = Len(f) + 1
  OBVIOUS

LEMMA AppendOne ==
    ASSUME NEW M, NEW f \in Seq(M), NEW a \in M
    PROVE  f \o <<a>> = Append(f, a)
  OBVIOUS

LEMMA AppendTwo ==
    ASSUME NEW M, NEW f \in Seq(M), NEW a \in M, NEW b \in M
    PROVE  f \o <<a, b>> = Append(Append(f, a), b)
<1> DEFINE l == f \o <<a, b>>
           r == Append(Append(f, a), b)
<1>1. <<a, b>> \in Seq(M) /\ Len(<<a, b>>) = 2 /\ Len(f) \in Nat
  OBVIOUS
<1>2. /\ l \in Seq(M) /\ Len(l) = Len(f) + 2
      /\ \A i \in 1..(Len(f) + 2) : l[i] = IF i <= Len(f) THEN f[i] ELSE <<a, b>>[i - Len(f)]
  BY <1>1, ConcatProperties
<1>3. /\ r \in Seq(M) /\ Len(r) = Len(f) + 2
      /\ \A i \in 1..Len(f) : r[i] = f[i]
      /\ r[Len(f) + 1] = a /\ r[Len(f) + 2] = b
  BY <1>1
<1> HIDE DEF l, r
<1>4. ASSUME NEW i \in 1..(Len(f) + 2)
      PROVE  l[i] = r[i]
  <2>1. CASE i \in 1..Len(f)
    BY <1>1, <1>2, <1>3, <2>1
  <2>2. CASE i = Len(f) + 1
    <3>1. i - Len(f) = 1 /\ ~(i <= Len(f))
      BY <1>1, <2>2
    <3> QED
      BY <1>2, <1>3, <2>2, <3>1, SMTT(60)
  <2>3. CASE i = Len(f) + 2
    <3>1. i - Len(f) = 2 /\ ~(i <= Len(f))
      BY <1>1, <2>3
    <3> QED
      BY <1>2, <1>3, <2>3, <3>1
  <2> QED
    BY <1>1, <2>1, <2>2, <2>3
<1>5. l = r
  BY <1>2, <1>3, <1>4, SeqEqual
<1> QED
  BY <1>5 DEF l, r

\* The comma and the next value of a writer that has received n of the values.
LEMMA FileRecv ==
    ASSUME NEW V, NEW M, Comma \in M, V \subseteq M,
           NEW s \in Seq(V), NEW c \in Seq(V), NEW f \in Seq(M),
           FileOK(f, s, c, "recv"), c # << >>,
           NEW n, n = Len(s) - Len(c),
           NEW g, g = f \o (IF n = 0 THEN <<Head(c)>> ELSE <<Comma, Head(c)>>)
    PROVE  /\ g \in Seq(M)
           /\ FileOK(g, s, Tail(c), "recv")
           /\ Len(f) <= Len(g) /\ Len(g) < Closing(s)
<1> DEFINE d == Tail(c)
           x == Head(c)
<1>1. /\ Len(s) \in Nat /\ Len(f) \in Nat /\ Len(c) \in Nat /\ Len(c) > 0
      /\ Len(d) = Len(c) - 1 /\ x = c[1] /\ x \in V /\ x \in M
      /\ \A i \in 1..(Len(c) - 1) : d[i] = c[i + 1]
  OBVIOUS
<1>2. /\ ArrayPrefix(f, s) /\ Len(c) <= Len(s)
      /\ \A i \in 1..Len(c) : c[i] = s[Len(s) - Len(c) + i]
      /\ Len(f) = IF Len(c) = Len(s) THEN 1 ELSE 2 * (Len(s) - Len(c))
  BY DEF FileOK
<1> HIDE DEF d, x
<1>a. x \in M
  BY <1>1
<1>b. \A h \in Seq(M), y \in M : Append(h, y) \in Seq(M) /\ Len(Append(h, y)) = Len(h) + 1
  BY AppendType
<1>3. g = IF n = 0 THEN Append(f, x) ELSE Append(Append(f, Comma), x)
  <2>1. f \o <<x>> = Append(f, x)
    BY <1>a, AppendOne, Zenon
  <2>2. f \o <<Comma, x>> = Append(Append(f, Comma), x)
    BY <1>a, AppendTwo
  <2>3. g = f \o (IF n = 0 THEN <<x>> ELSE <<Comma, x>>)
    BY DEF x
  <2> QED
    BY <2>1, <2>2, <2>3, Zenon
<1>4. n \in Nat /\ n < Len(s) /\ x = s[n + 1]
  BY <1>1, <1>2
<1>5. Len(f) = IF n = 0 THEN 1 ELSE 2 * n
  BY <1>1, <1>2
<1>6. Len(d) # Len(s) /\ Len(s) - Len(d) = n + 1 /\ Len(d) <= Len(s)
  BY <1>1, <1>2
<1>7. ASSUME NEW i \in 1..Len(d)
      PROVE  d[i] = s[Len(s) - Len(d) + i]
  <2>1. d[i] = c[i + 1] /\ i + 1 \in 1..Len(c)
    BY <1>1
  <2>2. Len(s) - Len(c) + (i + 1) = Len(s) - Len(d) + i
    BY <1>1
  <2> QED
    BY <1>2, <2>1, <2>2
<1>8. Closing(s) = 2 * Len(s) + 1
  BY <1>1, <1>4 DEF Closing
<1>9. Item(s, 2 * n + 2) = x
  <2>1. n + 1 \in Nat /\ 2 * (n + 1) = 2 * n + 2 /\ 2 * n + 2 # 1 /\ 2 * n + 2 # Closing(s)
    BY <1>1, <1>4, <1>8
  <2>2. (2 * n + 2) % 2 = 0 /\ (2 * n + 2) \div 2 = n + 1
    BY <2>1, Parity
  <2> QED
    BY <1>4, <2>1, <2>2 DEF Item
<1>10. ArrayPrefix(g, s) /\ Len(g) = 2 * n + 2 /\ g \in Seq(M) /\ Len(f) <= Len(g)
  <2>1. CASE n = 0
    <3>1. Len(f) = 1 /\ g = Append(f, x) /\ x = Item(s, Len(f) + 1) /\ Len(f) < Closing(s)
      BY <1>1, <1>3, <1>4, <1>5, <1>8, <1>9, <2>1
    <3>2. ArrayPrefix(g, s)
      BY <1>1, <1>2, <3>1, PrefixAppend
    <3>3. Len(g) = Len(f) + 1 /\ g \in Seq(M)
      BY <1>a, <1>b, <3>1, Zenon
    <3> QED
      BY <2>1, <3>1, <3>2, <3>3
  <2>2. CASE n # 0
    <3> DEFINE h == Append(f, Comma)
    <3>1. h \in Seq(M) /\ Len(h) = Len(f) + 1
      OBVIOUS
    <3>2. g = Append(h, x) /\ Len(f) = 2 * n
      BY <1>3, <1>5, <2>2
    <3>3. 2 * n + 1 # 1 /\ 2 * n + 1 # Closing(s) /\ Len(f) < Closing(s)
      BY <1>1, <1>4, <1>8, <2>2, <3>2
    <3>4. Comma = Item(s, Len(f) + 1)
      <4>1. (2 * n + 1) % 2 = 1
        BY <1>4, Parity
      <4> QED
        BY <3>2, <3>3, <4>1 DEF Item
    <3>5. ArrayPrefix(h, s)
      BY <1>2, <3>3, <3>4, PrefixAppend
    <3> HIDE DEF h
    <3>6. x = Item(s, Len(h) + 1) /\ Len(h) < Closing(s)
      <4>1. Len(h) + 1 = 2 * n + 2 /\ Len(h) < Closing(s)
        BY <1>1, <1>4, <1>8, <3>1, <3>2
      <4> QED
        BY <1>9, <4>1
    <3>7. ArrayPrefix(g, s)
      BY <1>1, <3>1, <3>2, <3>5, <3>6, PrefixAppend
    <3>8. Len(g) = Len(h) + 1 /\ g \in Seq(M)
      BY <1>a, <1>b, <3>1, <3>2, Zenon
    <3>9. Len(g) = 2 * n + 2 /\ Len(f) <= Len(g)
      BY ONLY <1>4, <3>1, <3>2, <3>8
    <3> QED
      BY <3>7, <3>8, <3>9
  <2> QED
    BY <2>1, <2>2
<1>11. Len(g) < Closing(s)
  BY <1>1, <1>4, <1>8, <1>10
<1>12. Len(g) = IF Len(d) = Len(s) THEN 1 ELSE 2 * (Len(s) - Len(d))
  BY <1>4, <1>6, <1>10
<1>13. FileOK(g, s, d, "recv")
  BY <1>6, <1>7, <1>10, <1>12 DEF FileOK
<1> QED
  BY <1>10, <1>11, <1>13 DEF d

LEMMA FileClose ==
    ASSUME NEW V, NEW M, RBracket \in M, NEW s \in Seq(V), NEW c \in Seq(V), NEW f \in Seq(M),
           FileOK(f, s, c, "recv"), c = << >>
    PROVE  ArrayPrefix(Append(f, RBracket), s)
<1>1. Len(s) \in Nat /\ Len(f) \in Nat /\ Len(c) = 0
  OBVIOUS
<1>2. ArrayPrefix(f, s) /\ Len(f) = IF 0 = Len(s) THEN 1 ELSE 2 * (Len(s) - 0)
  BY <1>1 DEF FileOK
<1>3. Len(f) + 1 = Closing(s) /\ Closing(s) # 1
  BY <1>1, <1>2 DEF Closing
<1>4. RBracket = Item(s, Len(f) + 1)
  BY <1>3 DEF Item
<1>5. Len(f) < Closing(s)
  BY <1>1, <1>3
<1> QED
  BY <1>2, <1>4, <1>5, PrefixAppend
-----------------------------------------------------------------------------
(* The files as part of the state *)

FileTypes ==
    /\ DOMAIN chan = Output /\ DOMAIN sent = Output
    /\ \A o \in Output : chan[o] \in Seq(ValueOf(o)) /\ sent[o] \in Seq(ValueOf(o))
    /\ written \in [Output -> Seq(Mark \cup Value)]
    /\ writer \in [Output -> {"start", "recv"} \cup Ended]
    /\ flushed \in [Output -> Nat] /\ \A o \in Output : flushed[o] <= Len(written[o])

MainTypes ==
    /\ proc \in {"none", "running", "shutdown"}
    /\ commands \in Seq(Command)
    /\ pc \in {"acquire", "spawn", "linger", "extract", "sync", "walk_nodes",
              "walked", "walk_channels", "unwind", "return"}
    /\ left \in Seq(Key \cup Asn \cup GraphNode \cup GraphChannel)
    /\ specs \in Seq(Key \X AddrKind)
    /\ tx \subseteq Output
    /\ bucket \in 0..BucketSize
    /\ classic_sem \in 0..MaxRequests
    /\ fetching \subseteq Key \cup Asn
    /\ graph \subseteq GraphNode \cup GraphChannel
    /\ graph_size \in [1..QueueSize -> 0..Cardinality(GraphNode)]
    /\ node_list \in Seq(GraphNode) /\ node_list_ok \in BOOLEAN
    /\ events \in 0..MaxEvents

LEMMA TypesSplit == AnaTypeOK <=> FileTypes /\ MainTypes
  BY DEF AnaTypeOK, FileTypes, MainTypes

LEMMA TypesSplitNext == AnaTypeOK' <=> FileTypes' /\ MainTypes'
  BY TypesSplit, PTL

LEMMA ValueTypes ==
    ASSUME NEW o \in Output
    PROVE  ValueOf(o) \subseteq Mark \cup Value /\ ValueOf(o) \cap Mark = {}
<1>1. ValueOf(o) \subseteq Value
  BY DEF ValueOf, Value, Output
<1>2. Mark \cap Value = {}
  BY AnalyzeAssumption
<1> QED
  BY <1>1, <1>2

\* What a step may do to the files of main's senders, and to those that are cut short
\* for good.
Frozen(o) == ~Alive(o) /\ Unfinished(o)

LEMMA OneFile ==
    ASSUME FileTypes, FilesInv, NEW o \in Output,
           NEW f \in Seq(Mark \cup Value), NEW s \in Seq(ValueOf(o)), NEW c \in Seq(ValueOf(o)),
           NEW w \in {"start", "recv"} \cup Ended, NEW n \in Nat, n <= Len(f),
           FileOK(f, s, c, w),
           written' = [written EXCEPT ![o] = f],
           DOMAIN sent' = Output, sent'[o] = s, \A p \in Output \ {o} : sent'[p] = sent[p],
           DOMAIN chan' = Output, chan'[o] = c, \A p \in Output \ {o} : chan'[p] = chan[p],
           writer' = [writer EXCEPT ![o] = w], flushed' = [flushed EXCEPT ![o] = n]
    PROVE  /\ FileTypes' /\ FilesInv'
           /\ \A p \in Output \ {o} : (Unfinished(p)' <=> Unfinished(p)) /\ (Alive(p)' <=> Alive(p))
           /\ Unfinished(o)' <=> Len(f) < Closing(s)
           /\ Alive(o)' <=> w \in {"start", "recv"}
<1>1. /\ DOMAIN written = Output /\ DOMAIN sent = Output /\ DOMAIN chan = Output
      /\ DOMAIN writer = Output /\ DOMAIN flushed = Output
  BY DEF FileTypes
<1>2. /\ DOMAIN chan' = Output /\ DOMAIN sent' = Output
      /\ written' \in [Output -> Seq(Mark \cup Value)]
      /\ writer' \in [Output -> {"start", "recv"} \cup Ended]
      /\ flushed' \in [Output -> Nat]
  BY <1>1 DEF FileTypes
<1>3. /\ written'[o] = f /\ sent'[o] = s /\ chan'[o] = c /\ writer'[o] = w /\ flushed'[o] = n
  BY <1>1
<1>4. ASSUME NEW p \in Output, p # o
      PROVE  /\ written'[p] = written[p] /\ sent'[p] = sent[p] /\ chan'[p] = chan[p]
             /\ writer'[p] = writer[p] /\ flushed'[p] = flushed[p]
  BY <1>1, <1>4
<1>5. ASSUME NEW p \in Output
      PROVE  /\ chan'[p] \in Seq(ValueOf(p)) /\ sent'[p] \in Seq(ValueOf(p))
             /\ flushed'[p] <= Len(written'[p])
             /\ FileOK(written'[p], sent'[p], chan'[p], writer'[p])
  <2>1. CASE p = o
    BY <1>3, <2>1
  <2>2. CASE p # o
    BY <1>4, <2>2 DEF FileTypes, FilesInv
  <2> QED
    BY <2>1, <2>2
<1>6. FileTypes' /\ FilesInv'
  BY <1>2, <1>5 DEF FileTypes, FilesInv, Output, ValueOf, Ended, Mark, Value, Key, Asn, AddrKind
<1> QED
  BY <1>3, <1>4, <1>6 DEF Unfinished, Alive

LEMMA SameFiles ==
    ASSUME FileTypes, FilesInv, UNCHANGED fileVars
    PROVE  /\ FileTypes' /\ FilesInv'
           /\ \A o \in Output : (Unfinished(o)' <=> Unfinished(o)) /\ (Alive(o)' <=> Alive(o))
  BY DEF FileTypes, FilesInv, fileVars, Unfinished, Alive, Output, ValueOf, Ended, Mark, Value,
         Key, Asn, AddrKind

LEMMA OpenFiles ==
    ASSUME FileTypes, FilesInv, NEW outs \in SUBSET Output, NEW at, NEW todo,
           Open(outs, at, todo)
    PROVE  /\ FileTypes' /\ FilesInv'
           /\ \A o \in outs : Unfinished(o)' /\ sent'[o] = << >>
           /\ \A o \in Output \ outs : /\ Unfinished(o)' <=> Unfinished(o)
                                       /\ Alive(o)' <=> Alive(o)
                                       /\ sent'[o] = sent[o]
<1>1. ASSUME NEW o \in outs
      PROVE  /\ written'[o] = << >> /\ sent'[o] = << >> /\ chan'[o] = << >>
             /\ writer'[o] = "start" /\ flushed'[o] = 0
  BY DEF Open
<1>2. ASSUME NEW o \in Output \ outs
      PROVE  /\ written'[o] = written[o] /\ sent'[o] = sent[o] /\ chan'[o] = chan[o]
             /\ writer'[o] = writer[o] /\ flushed'[o] = flushed[o]
  BY DEF Open
<1>3. FileOK(<< >>, << >>, << >>, "start") /\ 0 < Closing(<< >>)
  BY DEF FileOK, ArrayPrefix, Closing
<1>4. ASSUME NEW o \in Output
      PROVE  /\ chan'[o] \in Seq(ValueOf(o)) /\ sent'[o] \in Seq(ValueOf(o))
             /\ written'[o] \in Seq(Mark \cup Value)
             /\ writer'[o] \in {"start", "recv"} \cup Ended
             /\ flushed'[o] \in Nat /\ flushed'[o] <= Len(written'[o])
             /\ FileOK(written'[o], sent'[o], chan'[o], writer'[o])
  <2>1. CASE o \in outs
    <3>0. /\ written'[o] = << >> /\ sent'[o] = << >> /\ chan'[o] = << >>
          /\ writer'[o] = "start"
      BY <1>1, <2>1
    <3>1. FileOK(written'[o], sent'[o], chan'[o], writer'[o])
      BY <1>3, <3>0
    <3>2. << >> \in Seq(ValueOf(o)) /\ << >> \in Seq(Mark \cup Value) /\ 0 <= Len(<< >>)
      OBVIOUS
    <3>3. flushed'[o] = 0
      BY <1>1, <2>1
    <3>4. flushed'[o] \in Nat /\ flushed'[o] <= Len(written'[o])
      BY <3>0, <3>2, <3>3
    <3>5. writer'[o] \in {"start", "recv"} \cup Ended
      BY <3>0
    <3> QED
      BY <3>0, <3>1, <3>2, <3>4, <3>5, Zenon
  <2>2. CASE o \notin outs
    BY <1>2, <2>2 DEF FileTypes, FilesInv
  <2> QED
    BY <2>1, <2>2
<1>5. /\ DOMAIN chan' = Output /\ DOMAIN sent' = Output
      /\ written' \in [Output -> Seq(Mark \cup Value)]
      /\ writer' \in [Output -> {"start", "recv"} \cup Ended]
      /\ flushed' \in [Output -> Nat]
  <2>1. /\ chan' = [o \in Output |-> chan'[o]] /\ sent' = [o \in Output |-> sent'[o]]
        /\ written' = [o \in Output |-> written'[o]] /\ writer' = [o \in Output |-> writer'[o]]
        /\ flushed' = [o \in Output |-> flushed'[o]]
    BY DEF Open
  <2> QED
    BY <1>4, <2>1
<1>6. FileTypes' /\ FilesInv'
  BY <1>4, <1>5 DEF FileTypes, FilesInv, Output, ValueOf, Ended, Mark, Value, Key, Asn, AddrKind
<1>7. ASSUME NEW o \in outs
      PROVE  Unfinished(o)' /\ sent'[o] = << >>
  BY <1>1, <1>3 DEF Unfinished
<1>8. ASSUME NEW o \in Output \ outs
      PROVE  /\ Unfinished(o)' <=> Unfinished(o)
             /\ Alive(o)' <=> Alive(o)
             /\ sent'[o] = sent[o]
  BY <1>2 DEF Unfinished, Alive
<1> QED
  BY <1>6, <1>7, <1>8

\* A value is sent to a writer that is alive.
LEMMA SendFiles ==
    ASSUME FileTypes, FilesInv, NEW o \in Output, NEW v \in ValueOf(o), Alive(o),
           Send(o, v), UNCHANGED <<writer, written, flushed>>
    PROVE  /\ FileTypes' /\ FilesInv' /\ Unfinished(o)' /\ Alive(o)'
           /\ sent'[o] = Append(sent[o], v)
           /\ \A p \in Output \ {o} : /\ Unfinished(p)' <=> Unfinished(p)
                                      /\ Alive(p)' <=> Alive(p)
                                      /\ sent'[p] = sent[p]
<1>1. /\ sent[o] \in Seq(ValueOf(o)) /\ chan[o] \in Seq(ValueOf(o))
      /\ written[o] \in Seq(Mark \cup Value) /\ writer[o] \in {"start", "recv"}
      /\ flushed[o] \in Nat /\ flushed[o] <= Len(written[o])
      /\ DOMAIN written = Output /\ DOMAIN sent = Output /\ DOMAIN chan = Output
      /\ DOMAIN writer = Output /\ DOMAIN flushed = Output
  BY DEF FileTypes, Alive
<1>2. FileOK(written[o], sent[o], chan[o], writer[o])
  BY DEF FilesInv
<1>3. FileOK(written[o], Append(sent[o], v), Append(chan[o], v), writer[o])
  BY <1>1, <1>2, FileSend, Zenon
<1>4. Append(sent[o], v) \in Seq(ValueOf(o)) /\ Append(chan[o], v) \in Seq(ValueOf(o))
  BY <1>1, AppendType, Zenon
<1>5. Len(written[o]) < Closing(Append(sent[o], v))
  BY <1>1, <1>3, <1>4, OpenUnfinished, Zenon
<1>6. /\ written' = [written EXCEPT ![o] = written[o]]
      /\ writer' = [writer EXCEPT ![o] = writer[o]]
      /\ flushed' = [flushed EXCEPT ![o] = flushed[o]]
  BY DEF FileTypes
<1>7. /\ DOMAIN sent' = Output /\ sent'[o] = Append(sent[o], v)
      /\ \A p \in Output \ {o} : sent'[p] = sent[p]
      /\ DOMAIN chan' = Output /\ chan'[o] = Append(chan[o], v)
      /\ \A p \in Output \ {o} : chan'[p] = chan[p]
  BY <1>1 DEF Send
<1>8. writer[o] \in {"start", "recv"} \cup Ended
  BY <1>1
<1> DEFINE f == written[o]
           s == Append(sent[o], v)
           c == Append(chan[o], v)
           w == writer[o]
           n == flushed[o]
<1>a. /\ f \in Seq(Mark \cup Value) /\ s \in Seq(ValueOf(o)) /\ c \in Seq(ValueOf(o))
      /\ w \in {"start", "recv"} \cup Ended /\ n \in Nat /\ n <= Len(f) /\ FileOK(f, s, c, w)
      /\ written' = [written EXCEPT ![o] = f] /\ chan'[o] = c
      /\ writer' = [writer EXCEPT ![o] = w] /\ flushed' = [flushed EXCEPT ![o] = n]
      /\ sent'[o] = s
  BY <1>1, <1>3, <1>4, <1>6, <1>7, <1>8, Zenon
<1>b. /\ DOMAIN sent' = Output /\ \A p \in Output \ {o} : sent'[p] = sent[p]
      /\ DOMAIN chan' = Output /\ \A p \in Output \ {o} : chan'[p] = chan[p]
  BY <1>7
<1> HIDE DEF f, s, c, w, n
<1>9. /\ FileTypes' /\ FilesInv'
      /\ \A p \in Output \ {o} : (Unfinished(p)' <=> Unfinished(p)) /\ (Alive(p)' <=> Alive(p))
      /\ Unfinished(o)' <=> Len(f) < Closing(s)
      /\ Alive(o)' <=> w \in {"start", "recv"}
  BY <1>a, <1>b, OneFile, Zenon
<1>10. Unfinished(o)' /\ Alive(o)'
  BY <1>1, <1>5, <1>9 DEF f, s, w
<1>11. ASSUME NEW p \in Output \ {o}
       PROVE  /\ Unfinished(p)' <=> Unfinished(p)
              /\ Alive(p)' <=> Alive(p)
              /\ sent'[p] = sent[p]
  BY <1>7, <1>9
<1> QED
  BY <1>7, <1>9, <1>10, <1>11

\* What a step of a writer leaves of the other parts of the invariant: what was sent,
\* the files main has a sender of, and those that are cut short for good.
FilesAdvance ==
    /\ FileTypes' /\ FilesInv'
    /\ sent' = sent
    /\ \A p \in tx : Unfinished(p)'
    /\ \A p \in Output : Frozen(p) => Frozen(p)'

LEMMA WriterStep ==
    ASSUME FileTypes, FilesInv, tx \subseteq Output, \A p \in tx : Unfinished(p),
           NEW o \in Output, Alive(o),
           NEW f \in Seq(Mark \cup Value), NEW c \in Seq(ValueOf(o)),
           NEW w \in {"recv"} \cup Ended, NEW n \in Nat, n <= Len(f),
           FileOK(f, sent[o], c, w), o \in tx => Len(f) < Closing(sent[o]),
           written' = [written EXCEPT ![o] = f], sent' = sent,
           DOMAIN chan' = Output, chan'[o] = c, \A p \in Output \ {o} : chan'[p] = chan[p],
           writer' = [writer EXCEPT ![o] = w], flushed' = [flushed EXCEPT ![o] = n]
    PROVE  FilesAdvance
<1>1. sent[o] \in Seq(ValueOf(o)) /\ DOMAIN sent = Output
  BY DEF FileTypes
<1>2. w \in {"start", "recv"} \cup Ended
  OBVIOUS
<1>3. DOMAIN sent' = Output /\ sent'[o] = sent[o] /\ \A p \in Output \ {o} : sent'[p] = sent[p]
  BY <1>1
<1>4. /\ FileTypes' /\ FilesInv'
      /\ \A p \in Output \ {o} : (Unfinished(p)' <=> Unfinished(p)) /\ (Alive(p)' <=> Alive(p))
      /\ Unfinished(o)' <=> Len(f) < Closing(sent[o])
  BY <1>1, <1>2, <1>3, OneFile, Zenon
<1> QED
  BY <1>4 DEF FilesAdvance, Frozen

LEMMA WriteResult ==
    ASSUME FileTypes, NEW o \in Output, NEW s, NEW flush, Write(o, s, flush),
           NEW g \in Seq(Mark \cup Value), g = written[o] \o s, Len(written[o]) <= Len(g)
    PROVE  /\ written' = [written EXCEPT ![o] = g]
           /\ \E n \in Nat : n <= Len(g) /\ flushed' = [flushed EXCEPT ![o] = n]
<1>1. /\ DOMAIN written = Output /\ flushed \in [Output -> Nat] /\ Len(g) \in Nat
      /\ flushed[o] <= Len(written[o]) /\ Len(written[o]) \in Nat
  BY DEF FileTypes
<1>2. written' = [written EXCEPT ![o] = g]
  BY DEF Write
<1>3. CASE flush
  <2>1. flushed' = [flushed EXCEPT ![o] = Len(written'[o])] /\ written'[o] = g
    BY <1>1, <1>2, <1>3 DEF Write
  <2>2. Len(g) <= Len(g) /\ flushed' = [flushed EXCEPT ![o] = Len(g)]
    BY <1>1, <2>1
  <2> QED
    BY <1>1, <1>2, <2>2
<1>4. CASE ~flush
  <2>1. flushed' = [flushed EXCEPT ![o] = flushed[o]]
    BY <1>1, <1>4 DEF Write
  <2>2. flushed[o] \in Nat /\ flushed[o] <= Len(g)
    BY <1>1
  <2> QED
    BY <1>2, <2>1, <2>2
<1> QED
  BY <1>3, <1>4

\* What is known of a file whose writer is alive.
LEMMA OpenFile ==
    ASSUME FileTypes, FilesInv, NEW o \in Output
    PROVE  /\ sent[o] \in Seq(ValueOf(o)) /\ chan[o] \in Seq(ValueOf(o))
           /\ written[o] \in Seq(Mark \cup Value)
           /\ flushed[o] \in Nat /\ flushed[o] <= Len(written[o])
           /\ FileOK(written[o], sent[o], chan[o], writer[o])
  BY DEF FileTypes, FilesInv

LEMMA Marks == LBracket \in Mark \cup Value /\ Comma \in Mark \cup Value /\ RBracket \in Mark \cup Value
  BY DEF Mark

LEMMA StartStep ==
    ASSUME FileTypes, FilesInv, tx \subseteq Output, \A p \in tx : Unfinished(p),
           NEW o \in Output, WriterStart(o)
    PROVE  FilesAdvance
<1> DEFINE M == Mark \cup Value
           g == Append(written[o], LBracket)
<1>1. /\ sent[o] \in Seq(ValueOf(o)) /\ chan[o] \in Seq(ValueOf(o)) /\ written[o] \in Seq(M)
      /\ FileOK(written[o], sent[o], chan[o], "start") /\ Alive(o) /\ DOMAIN chan = Output
  BY OpenFile DEF WriterStart, Alive, FileTypes
<1>2. LBracket \in M
  BY Marks
<1> HIDE DEF M
<1>3. g \in Seq(M) /\ Len(g) = Len(written[o]) + 1 /\ g = written[o] \o <<LBracket>>
  BY <1>1, <1>2, AppendType, AppendOne
<1>4. FileOK(g, sent[o], chan[o], "recv")
  BY <1>1, <1>2, FileStart, Zenon
<1>5. Len(g) < Closing(sent[o])
  BY <1>1, <1>3, <1>4, OpenUnfinished
<1> HIDE DEF g
<1>6. /\ Write(o, <<LBracket>>, FALSE) /\ writer' = [writer EXCEPT ![o] = "recv"]
      /\ sent' = sent /\ chan' = chan
  BY DEF WriterStart
<1>7. Len(written[o]) <= Len(g)
  BY <1>1, <1>3
<1>8. PICK n \in Nat : n <= Len(g) /\ flushed' = [flushed EXCEPT ![o] = n]
                       /\ written' = [written EXCEPT ![o] = g]
  BY <1>3, <1>6, <1>7, WriteResult, ZenonT(60) DEF M
<1>9. DOMAIN chan' = Output /\ chan'[o] = chan[o] /\ \A p \in Output \ {o} : chan'[p] = chan[p]
  BY <1>1, <1>6
<1> QED
  BY <1>1, <1>3, <1>4, <1>5, <1>6, <1>8, <1>9, WriterStep, Zenon DEF M

\* The next value with its comma, for a writer that has one to receive.
LEMMA SeparatedResult ==
    ASSUME FileTypes, FilesInv, NEW o \in Output, writer[o] = "recv", chan[o] # << >>,
           NEW g, g = written[o] \o Separated(o)
    PROVE  /\ g \in Seq(Mark \cup Value)
           /\ FileOK(g, sent[o], Tail(chan[o]), "recv")
           /\ Len(written[o]) <= Len(g) /\ Len(g) < Closing(sent[o])
           /\ Tail(chan[o]) \in Seq(ValueOf(o))
<1> DEFINE M == Mark \cup Value
           n == recv_counter(o)
<1>1. /\ sent[o] \in Seq(ValueOf(o)) /\ chan[o] \in Seq(ValueOf(o)) /\ written[o] \in Seq(M)
      /\ FileOK(written[o], sent[o], chan[o], "recv")
  BY OpenFile
<1>2. Comma \in M /\ ValueOf(o) \subseteq M
  BY Marks, ValueTypes
<1>3. n = Len(sent[o]) - Len(chan[o])
  BY DEF recv_counter
<1>4. g = written[o] \o (IF n = 0 THEN <<Head(chan[o])>> ELSE <<Comma, Head(chan[o])>>)
  BY DEF Separated
<1>5. Tail(chan[o]) \in Seq(ValueOf(o))
  BY <1>1
<1> DEFINE s == sent[o]
           c == chan[o]
           f == written[o]
           V == ValueOf(o)
<1>6. /\ V \subseteq M /\ Comma \in M /\ s \in Seq(V) /\ c \in Seq(V) /\ f \in Seq(M)
      /\ FileOK(f, s, c, "recv") /\ c # << >> /\ n = Len(s) - Len(c)
      /\ g = f \o (IF n = 0 THEN <<Head(c)>> ELSE <<Comma, Head(c)>>)
  BY <1>1, <1>2, <1>3, <1>4
<1> HIDE DEF M, n, s, c, f, V
<1>7. /\ g \in Seq(M) /\ FileOK(g, s, Tail(c), "recv")
      /\ Len(f) <= Len(g) /\ Len(g) < Closing(s)
  BY <1>6, FileRecv, ZenonT(60)
<1> QED
  BY <1>5, <1>7 DEF M, s, c, f

LEMMA RecvStep ==
    ASSUME FileTypes, FilesInv, tx \subseteq Output, \A p \in tx : Unfinished(p),
           NEW o \in Output, WriterRecv(o)
    PROVE  FilesAdvance
<1> DEFINE M == Mark \cup Value
           g == written[o] \o Separated(o)
           c == Tail(chan[o])
<1>1. /\ writer[o] = "recv" /\ chan[o] # << >> /\ sent' = sent
      /\ chan' = [chan EXCEPT ![o] = c]
      /\ writer' = writer
      /\ Write(o, Separated(o), (recv_counter(o) + 1) % FlushBound = 0)
  BY DEF WriterRecv
<1>2. /\ g \in Seq(M) /\ FileOK(g, sent[o], c, "recv")
      /\ Len(written[o]) <= Len(g) /\ Len(g) < Closing(sent[o]) /\ c \in Seq(ValueOf(o))
  BY <1>1, SeparatedResult
<1>3. PICK n \in Nat : n <= Len(g) /\ flushed' = [flushed EXCEPT ![o] = n]
                       /\ written' = [written EXCEPT ![o] = g]
  BY <1>1, <1>2, WriteResult, ZenonT(60)
<1> HIDE DEF M, g, c
<1>4. DOMAIN chan = Output /\ writer \in [Output -> {"start", "recv"} \cup Ended]
  BY DEF FileTypes
<1>5. /\ DOMAIN chan' = Output /\ chan'[o] = c /\ \A p \in Output \ {o} : chan'[p] = chan[p]
      /\ writer' = [writer EXCEPT ![o] = "recv"]
  BY <1>1, <1>4
<1>6. Alive(o)
  BY <1>1 DEF Alive
<1> QED
  BY <1>1, <1>2, <1>3, <1>5, <1>6, WriterStep, Zenon DEF M

LEMMA CloseStep ==
    ASSUME FileTypes, FilesInv, tx \subseteq Output, \A p \in tx : Unfinished(p),
           NEW o \in Output, WriterClose(o)
    PROVE  FilesAdvance
<1> DEFINE M == Mark \cup Value
           g == Append(written[o], RBracket)
<1>1. /\ sent[o] \in Seq(ValueOf(o)) /\ chan[o] \in Seq(ValueOf(o)) /\ written[o] \in Seq(M)
      /\ FileOK(written[o], sent[o], chan[o], "recv") /\ Alive(o) /\ DOMAIN chan = Output
      /\ Len(written[o]) \in Nat
  BY OpenFile DEF WriterClose, Alive, FileTypes
<1>2. /\ chan[o] = << >> /\ o \notin tx /\ sent' = sent /\ chan' = chan
      /\ Write(o, <<RBracket>>, TRUE) /\ writer' = [writer EXCEPT ![o] = "ok"]
  BY DEF WriterClose, Senders
<1>3. RBracket \in M
  BY Marks
<1> HIDE DEF M
<1>4. g \in Seq(M) /\ Len(g) = Len(written[o]) + 1 /\ g = written[o] \o <<RBracket>>
  BY <1>1, <1>3, AppendType, AppendOne
<1>5. ArrayPrefix(g, sent[o])
  BY <1>1, <1>2, <1>3, FileClose, Zenon
<1> HIDE DEF g
<1>6. FileOK(g, sent[o], chan[o], "ok")
  BY <1>5 DEF FileOK
<1>7. Len(written[o]) <= Len(g)
  BY <1>1, <1>4
<1>8. PICK n \in Nat : n <= Len(g) /\ flushed' = [flushed EXCEPT ![o] = n]
                       /\ written' = [written EXCEPT ![o] = g]
  BY <1>2, <1>4, <1>7, WriteResult DEF M
<1>9. DOMAIN chan' = Output /\ chan'[o] = chan[o] /\ \A p \in Output \ {o} : chan'[p] = chan[p]
  BY <1>1, <1>2
<1>10. "ok" \in {"recv"} \cup Ended
  BY DEF Ended
<1> QED
  BY <1>1, <1>2, <1>4, <1>6, <1>8, <1>9, <1>10, WriterStep, Zenon DEF M

\* Whatever part of what a writer is about to write has reached the file, it is a
\* prefix of the array.
LEMMA FailsStep ==
    ASSUME FileTypes, FilesInv, tx \subseteq Output, \A p \in tx : Unfinished(p),
           NEW o \in Output, WriterFails(o)
    PROVE  FilesAdvance
<1> DEFINE M == Mark \cup Value
           h == written[o] \o Upcoming(o)
<1>1. /\ sent[o] \in Seq(ValueOf(o)) /\ chan[o] \in Seq(ValueOf(o)) /\ written[o] \in Seq(M)
      /\ FileOK(written[o], sent[o], chan[o], writer[o]) /\ DOMAIN chan = Output
      /\ flushed[o] \in Nat /\ Len(written[o]) \in Nat
      /\ DOMAIN written = Output
  BY OpenFile DEF FileTypes
<1>2. /\ Alive(o) /\ writer[o] \in {"start", "recv"} /\ Upcoming(o) # << >> /\ sent' = sent
      /\ writer' = [writer EXCEPT ![o] = "err"] /\ chan' = [chan EXCEPT ![o] = << >>]
  BY DEF WriterFails, Alive
<1>3. PICK n \in flushed[o]..Len(h) :
          /\ written' = [written EXCEPT ![o] = SubSeq(h, 1, n)]
          /\ flushed' = [flushed EXCEPT ![o] = n]
  BY <1>1 DEF WriterFails
<1>4. h \in Seq(M) /\ ArrayPrefix(h, sent[o]) /\ (o \in tx => Len(h) < Closing(sent[o]))
  <2>1. CASE writer[o] = "start"
    <3>1. h = written[o] \o <<LBracket>>
      BY <2>1 DEF Upcoming
    <3>2. LBracket \in M
      BY Marks
    <3> HIDE DEF M
    <3>3. h = Append(written[o], LBracket)
      BY <1>1, <3>1, <3>2, AppendOne
    <3> HIDE DEF h
    <3>4. h \in Seq(M)
      BY <1>1, <3>2, <3>3, AppendType
    <3>5. FileOK(written[o], sent[o], chan[o], "start")
      BY <1>1, <2>1
    <3>6. FileOK(h, sent[o], chan[o], "recv")
      BY <1>1, <3>2, <3>3, <3>5, FileStart, Zenon
    <3>7. Len(h) < Closing(sent[o])
      BY <1>1, <3>4, <3>6, OpenUnfinished
    <3> QED
      BY <3>4, <3>6, <3>7 DEF FileOK
  <2>2. CASE writer[o] = "recv" /\ chan[o] # << >>
    <3>1. h = written[o] \o Separated(o)
      BY <2>2 DEF Upcoming
    <3> HIDE DEF h
    <3>2. h \in Seq(M) /\ FileOK(h, sent[o], Tail(chan[o]), "recv") /\ Len(h) < Closing(sent[o])
      BY <2>2, <3>1, SeparatedResult
    <3> QED
      BY <3>2 DEF FileOK
  <2>3. CASE writer[o] = "recv" /\ chan[o] = << >>
    <3>1. ~Senders(o) /\ h = written[o] \o <<RBracket>>
      BY <1>2, <2>3 DEF Upcoming
    <3>2. RBracket \in M
      BY Marks
    <3> HIDE DEF M
    <3>3. h = Append(written[o], RBracket)
      BY <1>1, <3>1, <3>2, AppendOne
    <3> HIDE DEF h
    <3>4. h \in Seq(M)
      BY <1>1, <3>2, <3>3, AppendType
    <3>5. FileOK(written[o], sent[o], chan[o], "recv")
      BY <1>1, <2>3
    <3>6. ArrayPrefix(h, sent[o])
      BY <1>1, <2>3, <3>2, <3>3, <3>5, FileClose, Zenon
    <3>7. o \notin tx
      BY <3>1 DEF Senders
    <3> QED
      BY <3>4, <3>6, <3>7
  <2> QED
    BY <1>2, <2>1, <2>2, <2>3
<1> HIDE DEF M, h
<1>5. Len(h) \in Nat /\ n \in 0..Len(h) /\ n \in Nat /\ n <= Len(h)
  BY <1>1, <1>3, <1>4
<1> DEFINE g == SubSeq(h, 1, n)
<1>6. g \in Seq(M) /\ Len(g) = n /\ ArrayPrefix(g, sent[o])
  BY <1>1, <1>4, <1>5, PrefixCut
<1> HIDE DEF g
<1>7. FileOK(g, sent[o], << >>, "err")
  BY <1>6 DEF FileOK
<1>8. o \in tx => Len(g) < Closing(sent[o])
  <2>1. Closing(sent[o]) \in Nat
    BY <1>1 DEF Closing
  <2> QED
    BY <1>4, <1>5, <1>6, <2>1
<1>9. /\ DOMAIN chan' = Output /\ chan'[o] = << >> /\ \A p \in Output \ {o} : chan'[p] = chan[p]
      /\ << >> \in Seq(ValueOf(o)) /\ "err" \in {"recv"} \cup Ended /\ n <= Len(g)
  BY <1>1, <1>2, <1>5, <1>6 DEF Ended
<1>10. written' = [written EXCEPT ![o] = g] /\ flushed' = [flushed EXCEPT ![o] = n]
  BY <1>3 DEF g
<1> QED
  BY <1>2, <1>5, <1>6, <1>7, <1>8, <1>9, <1>10, WriterStep, Zenon DEF M

LEMMA DropStep ==
    ASSUME FileTypes, FilesInv, tx = {}, NEW o \in Output, DropWriter(o)
    PROVE  FilesAdvance
<1> DEFINE g == written[o]
<1>1. /\ sent[o] \in Seq(ValueOf(o)) /\ g \in Seq(Mark \cup Value)
      /\ FileOK(g, sent[o], chan[o], writer[o]) /\ DOMAIN chan = Output
      /\ Len(g) \in Nat /\ g = g \o << >>
  BY OpenFile DEF FileTypes
<1>2. /\ Alive(o) /\ sent' = sent /\ writer' = [writer EXCEPT ![o] = "dropped"]
      /\ chan' = [chan EXCEPT ![o] = << >>] /\ Write(o, << >>, TRUE)
  BY DEF DropWriter
<1>3. FileOK(g, sent[o], << >>, "dropped")
  BY <1>1 DEF FileOK
<1> DEFINE n == Len(g)
<1>4. n \in Nat /\ n <= Len(g) /\ flushed' = [flushed EXCEPT ![o] = n]
      /\ written' = [written EXCEPT ![o] = g]
  <2>1. written' = [written EXCEPT ![o] = written[o] \o << >>]
        /\ flushed' = [flushed EXCEPT ![o] = Len(written'[o])]
    BY <1>2, Zenon DEF Write
  <2>2. DOMAIN written = Output /\ written[o] \o << >> = written[o]
    BY <1>1 DEF FileTypes
  <2> QED
    BY <1>1, <2>1, <2>2
<1>5. /\ DOMAIN chan' = Output /\ chan'[o] = << >> /\ \A p \in Output \ {o} : chan'[p] = chan[p]
      /\ << >> \in Seq(ValueOf(o)) /\ "dropped" \in {"recv"} \cup Ended
  BY <1>1, <1>2 DEF Ended
<1>6. tx \subseteq Output /\ o \notin tx /\ \A p \in tx : Unfinished(p)
  OBVIOUS
<1> HIDE DEF g, n
<1> QED
  BY <1>1, <1>2, <1>3, <1>4, <1>5, <1>6, WriterStep, Zenon

\* A kill cuts every file somewhere between what is on disk and what was written.
LEMMA KillFiles ==
    ASSUME FileTypes, FilesInv, Kill
    PROVE  /\ FileTypes' /\ FilesInv' /\ sent' = sent
           /\ \A o \in Output : ~Alive(o)' /\ (Unfinished(o) => Unfinished(o)')
<1> DEFINE open == {o \in Output : Alive(o)}
<1>1. /\ chan' = [o \in Output |-> << >>] /\ sent' = sent
      /\ writer' = [o \in Output |-> IF o \in open THEN "dropped" ELSE writer[o]]
      /\ written' = [o \in Output |-> SubSeq(written[o], 1, flushed'[o])]
  BY DEF Kill
<1>2. PICK n \in [open -> 0..Max({Len(written[o]) : o \in Output})] :
          /\ \A o \in open : n[o] \in Spilled(o)
          /\ flushed' = [o \in Output |-> IF o \in open THEN n[o] ELSE flushed[o]]
  BY DEF Kill
<1>3. ASSUME NEW o \in Output
      PROVE  /\ flushed'[o] \in 0..Len(written[o])
             /\ writer'[o] \in Ended
             /\ chan'[o] = << >>
             /\ written'[o] = SubSeq(written[o], 1, flushed'[o])
  <2>1. /\ flushed[o] \in Nat /\ flushed[o] <= Len(written[o]) /\ Len(written[o]) \in Nat
        /\ writer[o] \in {"start", "recv"} \cup Ended
    BY OpenFile DEF FileTypes
  <2>2. CASE o \in open
    <3>1. flushed'[o] \in flushed[o]..Len(written[o])
      BY <1>2, <2>2 DEF Spilled
    <3> QED
      BY <1>1, <2>1, <2>2, <3>1 DEF Ended
  <2>3. CASE o \notin open
    <3>1. flushed'[o] = flushed[o] /\ writer'[o] = writer[o]
      BY <1>1, <1>2, <2>3
    <3>2. writer[o] \notin {"start", "recv"}
      BY <2>3 DEF Alive
    <3> QED
      BY <1>1, <2>1, <3>1, <3>2
  <2> QED
    BY <2>2, <2>3
<1>4. ASSUME NEW o \in Output
      PROVE  /\ written'[o] \in Seq(Mark \cup Value) /\ Len(written'[o]) = flushed'[o]
             /\ ArrayPrefix(written'[o], sent[o]) /\ flushed'[o] <= Len(written[o])
  <2>1. /\ written[o] \in Seq(Mark \cup Value) /\ sent[o] \in Seq(ValueOf(o))
        /\ FileOK(written[o], sent[o], chan[o], writer[o])
    BY OpenFile
  <2>5. ArrayPrefix(written[o], sent[o]) /\ Len(written[o]) \in Nat
    BY <2>1 DEF FileOK
  <2> DEFINE m == flushed'[o]
  <2>2. m \in 0..Len(written[o]) /\ written'[o] = SubSeq(written[o], 1, m)
    BY <1>3
  <2> HIDE DEF m
  <2>3. /\ SubSeq(written[o], 1, m) \in Seq(Mark \cup Value)
        /\ Len(SubSeq(written[o], 1, m)) = m /\ ArrayPrefix(SubSeq(written[o], 1, m), sent[o])
    BY <2>1, <2>2, <2>5, PrefixCut
  <2>4. m <= Len(written[o])
    BY <2>2, <2>5
  <2> QED
    BY <2>2, <2>3, <2>4 DEF m
<1>5. ASSUME NEW o \in Output
      PROVE  FileOK(written'[o], sent'[o], chan'[o], writer'[o])
  <2>1. writer'[o] # "start" /\ writer'[o] # "recv"
    BY <1>3 DEF Ended
  <2> QED
    BY <1>1, <1>4, <2>1 DEF FileOK
<1>6. /\ DOMAIN chan' = Output /\ DOMAIN sent' = Output
      /\ written' \in [Output -> Seq(Mark \cup Value)]
      /\ writer' \in [Output -> {"start", "recv"} \cup Ended]
      /\ flushed' \in [Output -> Nat]
  <2>1. /\ written' = [o \in Output |-> written'[o]] /\ writer' = [o \in Output |-> writer'[o]]
        /\ flushed' = [o \in Output |-> flushed'[o]]
    BY <1>1, <1>2
  <2>2. \A o \in Output : flushed'[o] \in Nat
    BY <1>3
  <2> QED
    BY <1>1, <1>3, <1>4, <2>1, <2>2 DEF FileTypes
<1>7. ASSUME NEW o \in Output
      PROVE  /\ chan'[o] \in Seq(ValueOf(o)) /\ sent'[o] \in Seq(ValueOf(o))
             /\ flushed'[o] <= Len(written'[o])
  <2>1. sent[o] \in Seq(ValueOf(o)) /\ << >> \in Seq(ValueOf(o)) /\ flushed'[o] \in Nat
    BY <1>6, OpenFile
  <2> QED
    BY <1>1, <1>3, <1>4, <2>1
<1>8. FileTypes' /\ FilesInv'
  BY <1>5, <1>6, <1>7 DEF FileTypes, FilesInv, Output, ValueOf, Ended, Mark, Value, Key, Asn,
     AddrKind
<1>9. ASSUME NEW o \in Output
      PROVE  ~Alive(o)' /\ (Unfinished(o) => Unfinished(o)')
  <2>1. ~Alive(o)'
    BY <1>3 DEF Alive, Ended
  <2>2. Len(written[o]) \in Nat /\ Len(sent[o]) \in Nat /\ flushed'[o] \in Nat
    BY <1>6, OpenFile
  <2>3. Closing(sent[o]) \in Nat
    BY <2>2 DEF Closing
  <2> QED
    BY <1>1, <1>4, <2>1, <2>2, <2>3 DEF Unfinished
<1> QED
  BY <1>1, <1>8, <1>9
-----------------------------------------------------------------------------
(* The other parts of the invariant *)

LEMMA OutputNames ==
    /\ "node_info" \in Output /\ "asn_info" \in Output /\ "nodes" \in Output
    /\ "missing_ann" \in Output /\ "channels" \in Output
    /\ {"reachable", "unreachable", "mystery"} \subseteq Output
    /\ FetchOutput \in {"node_info", "asn_info"}
  BY DEF Output, FetchOutput

\* A step that sends no node, and leaves the simple list alone.
LEMMA WalkKept ==
    ASSUME WalkInv, sent'["nodes"] = sent["nodes"], sent'["missing_ann"] = sent["missing_ann"],
           UNCHANGED <<node_list, node_list_ok>>,
           pc' = "walk_nodes" => pc = "walk_nodes" /\ left' = left,
           \A o \in {"nodes", "missing_ann"} : Frozen(o) => Frozen(o)'
    PROVE  WalkInv'
<1>1. (\E o \in {"nodes", "missing_ann"} : ~Alive(o) /\ Unfinished(o)) =>
         (\E o \in {"nodes", "missing_ann"} : ~Alive(o)' /\ Unfinished(o)')
  BY DEF Frozen
<1> QED
  BY <1>1, Zenon DEF WalkInv

LEMMA SameFrozen ==
    ASSUME \A o \in Output : (Unfinished(o)' <=> Unfinished(o)) /\ (Alive(o)' <=> Alive(o))
    PROVE  \A o \in Output : Frozen(o) => Frozen(o)'
  BY DEF Frozen

LEMMA RestAdvance ==
    ASSUME AnaInv, FilesAdvance,
           UNCHANGED <<proc, mainVars, limiterVars, fetching, dumpVars, commands>>
    PROVE  AnaInv'
<1>1. MainTypes'
  BY TypesSplit DEF AnaInv, MainTypes, mainVars, limiterVars, dumpVars, Output, Key, Asn, Command,
     AddrKind
<1>2. MainInv'
  BY DEF AnaInv, MainInv, mainVars, limiterVars, FetchOutput, command, ValueOf, Key, Asn, AddrKind
<1>3. WalkInv'
  BY OutputNames, WalkKept DEF AnaInv, FilesAdvance, mainVars, dumpVars
<1>4. SendersInv'
  BY DEF FilesAdvance, SendersInv, mainVars
<1> QED
  BY <1>1, <1>2, <1>3, <1>4, TypesSplitNext DEF AnaInv, FilesAdvance

\* A step that does not touch the files.
LEMMA QuietStep ==
    ASSUME AnaInv, UNCHANGED fileVars, UNCHANGED <<node_list, node_list_ok>>,
           pc' = "walk_nodes" => pc = "walk_nodes" /\ left' = left, tx' \subseteq tx,
           MainTypes', MainInv'
    PROVE  AnaInv'
<1>1. FileTypes /\ FilesInv /\ WalkInv /\ SendersInv /\ tx \subseteq Output
  BY TypesSplit DEF AnaInv, MainTypes
<1>2. /\ FileTypes' /\ FilesInv'
      /\ \A o \in Output : (Unfinished(o)' <=> Unfinished(o)) /\ (Alive(o)' <=> Alive(o))
  BY <1>1, SameFiles
<1>3. \A o \in {"nodes", "missing_ann"} : Frozen(o) => Frozen(o)'
  BY <1>2, SameFrozen, OutputNames
<1>4. sent' = sent
  BY DEF fileVars
<1>5. WalkInv'
  BY <1>1, <1>3, <1>4, WalkKept
<1>6. SendersInv'
  BY <1>1, <1>2 DEF SendersInv
<1> QED
  BY <1>2, <1>5, <1>6, TypesSplitNext DEF AnaInv

LEMMA SameFetch ==
    ASSUME UNCHANGED commands
    PROVE  FetchOutput' = FetchOutput /\ ValueOf(FetchOutput)' = ValueOf(FetchOutput)
  BY DEF FetchOutput, command, ValueOf, Key, Asn, AddrKind

\* Main returns, from wherever it is.
LEMMA ReturnMain ==
    ASSUME MainTypes, MainInv, Return, UNCHANGED <<limiterVars, fetching, commands>>,
           UNCHANGED <<graph, events, graph_size>>,
           node_list' \in Seq(GraphNode), node_list_ok' \in BOOLEAN
    PROVE  MainTypes' /\ MainInv' /\ tx' = {} /\ pc' # "walk_nodes"
<1>1. MainTypes'
  BY DEF MainTypes, Return, limiterVars, Output, Key, Asn, Command, AddrKind
<1>2. MainInv'
  BY SameFetch DEF MainInv, Return, limiterVars
<1> QED
  BY <1>1, <1>2 DEF Return

\* Main leaves the walk over the nodes half-way.
LEMMA UnwindMain ==
    ASSUME MainTypes, MainInv, proc = "running", Unwind,
           UNCHANGED <<limiterVars, fetching, commands, graph, events, graph_size,
                       node_list, node_list_ok>>
    PROVE  MainTypes' /\ MainInv' /\ tx' = {} /\ pc' # "walk_nodes"
<1>1. MainTypes'
  BY DEF MainTypes, Unwind, limiterVars, Output, Key, Asn, Command, AddrKind
<1>2. MainInv'
  BY SameFetch DEF MainInv, Unwind, limiterVars
<1> QED
  BY <1>1, <1>2 DEF Unwind
-----------------------------------------------------------------------------
(* The steps of main *)

LEMMA Bounds ==
    /\ BucketSize \in Nat /\ BucketSize > 0 /\ MaxRequests \in Nat /\ MaxRequests > 0
    /\ QueueSize \in Nat /\ QueueSize > 0 /\ MaxEvents \in Nat
    /\ Cardinality(GraphNode) \in Nat
  BY AnalyzeAssumption, FS_CardinalityType

LEMMA AcquireStep ==
    ASSUME AnaInv, Acquire
    PROVE  AnaInv'
<1>1. MainTypes /\ MainInv
  BY TypesSplit DEF AnaInv
<1>2. MainTypes'
  BY <1>1, Bounds DEF MainTypes, Acquire, dumpVars, Output, Key, Asn, Command, AddrKind
<1>3. MainInv'
  BY <1>1, SameFetch DEF MainInv, Acquire
<1> QED
  BY <1>2, <1>3, QuietStep DEF Acquire, dumpVars

LEMMA RefillStep ==
    ASSUME AnaInv, RefillBucket
    PROVE  AnaInv'
<1>1. MainTypes /\ MainInv
  BY TypesSplit DEF AnaInv
<1>2. MainTypes'
  BY <1>1, Bounds DEF MainTypes, RefillBucket, mainVars, dumpVars, Output, Key, Asn, Command,
     AddrKind
<1>3. MainInv'
  BY <1>1, SameFetch DEF MainInv, RefillBucket, mainVars
<1> QED
  BY <1>2, <1>3, QuietStep DEF RefillBucket, mainVars, dumpVars

LEMMA HeadTail ==
    ASSUME NEW T, NEW s \in Seq(T), s # << >>
    PROVE  /\ Head(s) \in T /\ Tail(s) \in Seq(T) /\ Len(Tail(s)) = Len(s) - 1
           /\ Head(s) = s[1] /\ 1 \in DOMAIN s
           /\ \A i \in 1..Len(Tail(s)) : Tail(s)[i] = s[i + 1] /\ i + 1 \in DOMAIN s
  OBVIOUS

LEMMA SpawnStep ==
    ASSUME AnaInv, SpawnFetch
    PROVE  AnaInv'
<1>1. MainTypes /\ MainInv
  BY TypesSplit DEF AnaInv
<1>2. /\ left # << >> /\ left \in Seq(ValueOf(FetchOutput)) /\ tx = {FetchOutput}
      /\ classic_sem = MaxRequests - 1
      /\ left \in Seq(Key \cup Asn \cup GraphNode \cup GraphChannel)
  BY <1>1 DEF MainInv, MainTypes, SpawnFetch
<1>3. /\ Head(left) \in ValueOf(FetchOutput) /\ Tail(left) \in Seq(ValueOf(FetchOutput))
      /\ Tail(left) \in Seq(Key \cup Asn \cup GraphNode \cup GraphChannel)
  BY <1>2, HeadTail
<1>4. ValueOf(FetchOutput) \subseteq Key \cup Asn
  BY DEF ValueOf, FetchOutput
<1>5. MainTypes'
  BY <1>1, <1>2, <1>3, <1>4, Bounds DEF MainTypes, SpawnFetch, dumpVars, Output, Key, Asn, Command,
     AddrKind
<1>6. MainInv'
  <2>1. ValueOf(FetchOutput)' = ValueOf(FetchOutput) /\ FetchOutput' = FetchOutput
    BY SameFetch DEF SpawnFetch
  <2>2. /\ pc' = "acquire" /\ left' = Tail(left) /\ tx' = tx /\ classic_sem' = MaxRequests
        /\ fetching' = fetching \cup {Head(left)} /\ proc' = "running"
    BY <1>2, Bounds DEF SpawnFetch
  <2> QED
    BY <1>1, <1>2, <1>3, <2>1, <2>2 DEF MainInv
<1> QED
  BY <1>5, <1>6, QuietStep DEF SpawnFetch, dumpVars

LEMMA DropSendersStep ==
    ASSUME AnaInv, DropSenders
    PROVE  AnaInv'
<1>1. MainTypes /\ MainInv
  BY TypesSplit DEF AnaInv
<1>2. MainTypes'
  BY <1>1 DEF MainTypes, DropSenders, limiterVars, dumpVars, Output, Key, Asn, Command, AddrKind
<1>3. MainInv'
  BY <1>1, SameFetch DEF MainInv, DropSenders, limiterVars
<1> QED
  BY <1>2, <1>3, QuietStep DEF DropSenders, dumpVars

LEMMA FetchFailsStep ==
    ASSUME AnaInv, NEW k, FetchFails(k)
    PROVE  AnaInv'
<1>1. MainTypes /\ MainInv
  BY TypesSplit DEF AnaInv
<1>2. MainTypes'
  BY <1>1 DEF MainTypes, FetchFails, mainVars, limiterVars, dumpVars, Output, Key, Asn, Command,
     AddrKind
<1>3. MainInv'
  BY <1>1, SameFetch DEF MainInv, FetchFails, mainVars, limiterVars
<1> QED
  BY <1>2, <1>3, QuietStep DEF FetchFails, mainVars, dumpVars

LEMMA MainReturnsStep ==
    ASSUME AnaInv, MainReturns
    PROVE  AnaInv'
<1>1. MainTypes /\ MainInv /\ node_list \in Seq(GraphNode) /\ node_list_ok \in BOOLEAN
  BY TypesSplit DEF AnaInv, MainTypes
<1>2. MainTypes' /\ MainInv' /\ tx' = {} /\ pc' # "walk_nodes"
  BY <1>1, ReturnMain DEF MainReturns, dumpVars
<1> QED
  BY <1>2, QuietStep DEF MainReturns, dumpVars

LEMMA ExtractInfoStep ==
    ASSUME AnaInv, ExtractInfo
    PROVE  AnaInv'
<1>1. /\ MainTypes /\ MainInv /\ node_list \in Seq(GraphNode) /\ node_list_ok \in BOOLEAN
      /\ left \in Seq(Key) /\ left # << >>
      /\ left \in Seq(Key \cup Asn \cup GraphNode \cup GraphChannel)
  BY TypesSplit DEF AnaInv, MainTypes, MainInv, ExtractInfo
<1>2. CASE Head(left) \in NoSockets
  <2>1. MainTypes' /\ MainInv' /\ tx' = {} /\ pc' # "walk_nodes"
    BY <1>1, <1>2, ReturnMain DEF ExtractInfo, dumpVars
  <2> QED
    BY <2>1, QuietStep DEF ExtractInfo, dumpVars
<1>3. CASE Head(left) \notin NoSockets
  <2> DEFINE k == Head(left)
  <2>1. /\ specs' = Specs(k) /\ left' = Tail(left)
        /\ UNCHANGED <<proc, pc, tx, limiterVars, fetching, fileVars, dumpVars, commands>>
        /\ pc = "extract"
    BY <1>3 DEF ExtractInfo
  <2>2. /\ k \in Key /\ Tail(left) \in Seq(Key)
        /\ Tail(left) \in Seq(Key \cup Asn \cup GraphNode \cup GraphChannel)
    BY <1>1, HeadTail
  <2> HIDE DEF k
  <2>3. AddrsOf[k] \in Seq(AddrKind)
    BY <2>2, AnalyzeAssumption
  <2>4. specs' \in Seq(Key \X AddrKind)
    BY <2>1, <2>2, <2>3, SMTT(60) DEF Specs
  <2>5. MainTypes'
    BY <1>1, <2>1, <2>2, <2>4 DEF MainTypes, limiterVars, dumpVars, Output, Key, Asn, Command,
       AddrKind
  <2>6. MainInv'
    BY <1>1, <2>1, <2>2, SameFetch DEF MainInv, limiterVars
  <2> QED
    BY <2>1, <2>5, <2>6, QuietStep DEF dumpVars
<1> QED
  BY <1>2, <1>3

LEMMA PollStep ==
    ASSUME AnaInv, PollGraph
    PROVE  AnaInv'
<1>1. MainTypes /\ MainInv
  BY TypesSplit DEF AnaInv
<1> DEFINE n == Cardinality(graph \cap GraphNode)
           C == 0..Cardinality(GraphNode)
<1>2. n \in C
  <2>1. IsFiniteSet(GraphNode) /\ graph \cap GraphNode \subseteq GraphNode
    BY AnalyzeAssumption
  <2>2. IsFiniteSet(graph \cap GraphNode) /\ n <= Cardinality(GraphNode)
    BY <2>1, FS_Subset, Zenon
  <2>3. n \in Nat
    BY <2>2, FS_CardinalityType
  <2> QED
    BY <2>2, <2>3, Bounds
<1>3. graph_size' = Append(Tail(graph_size), n)
  BY DEF PollGraph
<1>4. graph_size \in [1..QueueSize -> C]
  BY <1>1 DEF MainTypes
<1> HIDE DEF n, C
<1>5. graph_size \in Seq(C) /\ Len(graph_size) = QueueSize /\ graph_size # << >>
  BY <1>4, Bounds
<1>6. Tail(graph_size) \in Seq(C) /\ Len(Tail(graph_size)) = QueueSize - 1
  BY <1>5, HeadTail
<1>7. Append(Tail(graph_size), n) \in Seq(C) /\ Len(Append(Tail(graph_size), n)) = QueueSize
  BY <1>2, <1>6, AppendType, Bounds
<1> DEFINE g == Append(Tail(graph_size), n)
<1> HIDE DEF g
<1>8. graph_size' \in [1..QueueSize -> C]
  <2>1. g \in Seq(C) /\ Len(g) = QueueSize /\ graph_size' = g
    BY <1>3, <1>7 DEF g
  <2> QED
    BY <2>1
<1>9. MainTypes'
  BY <1>1, <1>8 DEF MainTypes, PollGraph, mainVars, limiterVars, Output, Key, Asn, Command,
     AddrKind, C
<1>10. MainInv'
  BY <1>1, SameFetch DEF MainInv, PollGraph, mainVars, limiterVars
<1> QED
  BY <1>9, <1>10, QuietStep DEF PollGraph, mainVars

LEMMA GraphChangesStep ==
    ASSUME AnaInv, NEW n \in GraphNode \cup GraphChannel, GraphChanges(n)
    PROVE  AnaInv'
<1>1. MainTypes /\ MainInv
  BY TypesSplit DEF AnaInv
<1>2. MainTypes'
  BY <1>1, Bounds DEF MainTypes, GraphChanges, mainVars, limiterVars, Output, Key, Asn, Command,
     AddrKind
<1>3. MainInv'
  BY <1>1, SameFetch DEF MainInv, GraphChanges, mainVars, limiterVars
<1> QED
  BY <1>2, <1>3, QuietStep DEF GraphChanges, mainVars

LEMMA ProcessEndsStep ==
    ASSUME AnaInv, ProcessEnds
    PROVE  AnaInv'
<1>1. MainTypes /\ MainInv
  BY TypesSplit DEF AnaInv
<1>2. MainTypes'
  BY <1>1 DEF MainTypes, ProcessEnds, mainVars, limiterVars, dumpVars, Output, Key, Asn, Command,
     AddrKind
<1>3. MainInv'
  BY <1>1, SameFetch DEF MainInv, ProcessEnds, mainVars, limiterVars
<1> QED
  BY <1>2, <1>3, QuietStep DEF ProcessEnds, mainVars, dumpVars
-----------------------------------------------------------------------------
(* Starting a command, and opening files *)

LEMMA NextCommandType ==
    ASSUME MainTypes, MainInv, NEW cmd \in Command, NextCommand(cmd)
    PROVE  /\ commands' \in Seq(Command) /\ command' = cmd
           /\ proc = "none" /\ fetching = {} /\ pc = "return"
<1>1. /\ commands \in Seq(Command) /\ commands' = Append(commands, cmd) /\ proc = "none"
      /\ fetching = {} /\ pc = "return"
  BY DEF MainTypes, MainInv, NextCommand
<1>2. /\ Append(commands, cmd) \in Seq(Command) /\ Len(Append(commands, cmd)) = Len(commands) + 1
      /\ Append(commands, cmd)[Len(commands) + 1] = cmd
  BY <1>1
<1>3. Last(Append(commands, cmd)) = cmd
  BY <1>2 DEF Last
<1> QED
  BY <1>1, <1>2, <1>3 DEF command

LEMMA StartFailsStep ==
    ASSUME AnaInv, StartFails
    PROVE  AnaInv'
<1>1. MainTypes /\ MainInv
  BY TypesSplit DEF AnaInv
<1>2. \E cmd \in Command : NextCommand(cmd)
  BY DEF StartFails, Command
<1>3. commands' \in Seq(Command) /\ fetching = {} /\ pc = "return" /\ proc = "none"
  BY <1>1, <1>2, NextCommandType
<1>4. UNCHANGED <<proc, mainVars, limiterVars, fetching, fileVars, dumpVars>>
  BY DEF StartFails
<1>5. MainTypes'
  BY <1>1, <1>3, <1>4 DEF MainTypes, mainVars, limiterVars, dumpVars, Output, Key, Asn, Command,
     AddrKind
<1>6. MainInv'
  BY <1>1, <1>3, <1>4 DEF MainInv, mainVars, limiterVars
<1> QED
  BY <1>4, <1>5, <1>6, QuietStep DEF mainVars, dumpVars

\* A step that opens files other than the node lists.
LEMMA OpenStep ==
    ASSUME AnaInv, NEW outs \in SUBSET Output, NEW at, NEW todo, Open(outs, at, todo),
           "nodes" \notin outs, "missing_ann" \notin outs, at # "walk_nodes",
           UNCHANGED <<node_list, node_list_ok>>, MainTypes', MainInv'
    PROVE  AnaInv'
<1>1. FileTypes /\ FilesInv /\ WalkInv
  BY TypesSplit DEF AnaInv
<1>2. /\ FileTypes' /\ FilesInv'
      /\ \A o \in outs : Unfinished(o)' /\ sent'[o] = << >>
      /\ \A o \in Output \ outs : /\ Unfinished(o)' <=> Unfinished(o)
                                  /\ Alive(o)' <=> Alive(o)
                                  /\ sent'[o] = sent[o]
  BY <1>1, OpenFiles
<1>3. pc' = at /\ tx' = outs
  BY DEF Open
<1>4. WalkInv'
  BY <1>1, <1>2, <1>3, WalkKept, OutputNames DEF Frozen
<1>5. SendersInv'
  BY <1>2, <1>3 DEF SendersInv
<1> QED
  BY <1>2, <1>4, <1>5, TypesSplitNext DEF AnaInv

LEMMA StartDumpNodeInfoStep ==
    ASSUME AnaInv, StartDumpNodeInfo
    PROVE  AnaInv'
<1>1. MainTypes /\ MainInv
  BY TypesSplit DEF AnaInv
<1>2. /\ commands' \in Seq(Command) /\ command' = "DumpNodeInfo" /\ fetching = {}
  BY <1>1, NextCommandType DEF StartDumpNodeInfo, Command
<1>3. /\ Open({"node_info"}, "acquire", NodeList) /\ NewBucket /\ UNCHANGED <<fetching, dumpVars>>
  BY DEF StartDumpNodeInfo
<1>4. FetchOutput' = "node_info" /\ ValueOf(FetchOutput)' = Key
  BY <1>2 DEF FetchOutput, ValueOf
<1>5. NodeList \in Seq(Key) /\ NodeList \in Seq(Key \cup Asn \cup GraphNode \cup GraphChannel)
  BY AnalyzeAssumption
<1>6. MainTypes'
  BY <1>1, <1>2, <1>3, <1>5, Bounds, OutputNames DEF MainTypes, Open, NewBucket, dumpVars, Output,
     Key, Asn, Command, AddrKind
<1>7. MainInv'
  BY <1>2, <1>3, <1>4, <1>5 DEF MainInv, Open, NewBucket
<1> QED
  BY <1>3, <1>6, <1>7, OpenStep, OutputNames DEF dumpVars

\* A file that serde_json accepts is the whole array of what was sent.
LEMMA FileParses ==
    ASSUME FileTypes, FilesInv, NEW o \in Output, Parses(o)
    PROVE  Values(File(o)) = sent[o] /\ ~Unfinished(o)
<1> DEFINE f == File(o)
           s == sent[o]
           V == ValueOf(o)
           M == Mark \cup Value
<1>1. /\ s \in Seq(V) /\ written[o] \in Seq(M) /\ flushed[o] \in 0..Len(written[o])
      /\ ArrayPrefix(written[o], s)
  <2>1. /\ s \in Seq(V) /\ written[o] \in Seq(M)
        /\ flushed[o] \in Nat /\ flushed[o] <= Len(written[o])
        /\ FileOK(written[o], s, chan[o], writer[o])
    BY OpenFile, Zenon
  <2>2. ArrayPrefix(written[o], s)
    BY <2>1, Zenon DEF FileOK
  <2> QED
    BY <2>1, <2>2
<1>2. f \in Seq(M) /\ Len(f) = flushed[o] /\ ArrayPrefix(f, s)
  BY <1>1, PrefixCut DEF File
<1>3. f # << >> /\ Last(f) = RBracket
  BY DEF Parses
<1>4. V \cap Mark = {}
  BY ValueTypes
<1> HIDE DEF f, s, V, M
<1>5. Len(f) \in 1..Len(f)
  BY <1>2, <1>3
<1>6. f[Len(f)] = RBracket
  BY <1>3 DEF Last
<1>7. Len(f) = Closing(s)
  BY <1>1, <1>2, <1>4, <1>5, <1>6, ArrayWellFormed
<1>8. Values(f) = s
  BY <1>1, <1>2, <1>7, ArrayValues
<1>9. Len(written[o]) = Closing(s)
  <2>1. Len(written[o]) \in Nat /\ Len(written[o]) <= Closing(s) /\ Len(f) <= Len(written[o])
    BY <1>1, <1>2 DEF ArrayPrefix
  <2>2. Len(f) \in Nat
    BY <1>2
  <2> QED
    BY <1>7, <2>1, <2>2
<1>10. ~(Len(written[o]) < Closing(s))
  <2>1. Len(written[o]) \in Nat
    BY <1>1
  <2> QED
    BY <1>9, <2>1
<1> QED
  BY <1>8, <1>10 DEF f, s, Unfinished

\* An order of a finite set visits every element once.
LEMMA Orders ==
    ASSUME NEW S, IsFiniteSet(S), NEW T, S \subseteq T, NEW order \in SetToSeqs(S)
    PROVE  order \in Seq(T) /\ IsInjective(order) /\ Range(order) \subseteq S
<1>1. Cardinality(S) \in Nat
  BY FS_CardinalityType
<1>2. /\ order \in [1..Cardinality(S) -> S]
      /\ \A i, j \in 1..Cardinality(S) : i # j => order[i] # order[j]
  BY DEF SetToSeqs
<1>3. order \in Seq(T)
  BY <1>1, <1>2
<1>4. IsInjective(order) /\ Range(order) \subseteq S
  BY <1>2 DEF IsInjective, Range
<1> QED
  BY <1>3, <1>4

LEMMA StartFetchASNInfoStep ==
    ASSUME AnaInv, NEW retry \in BOOLEAN, StartFetchASNInfo(retry)
    PROVE  AnaInv'
<1>1. MainTypes /\ MainInv /\ FileTypes /\ FilesInv
  BY TypesSplit DEF AnaInv
<1>2. commands' \in Seq(Command) /\ command' = "FetchASNInfo" /\ fetching = {}
  BY <1>1, NextCommandType DEF StartFetchASNInfo, Command
<1> DEFINE infos == Values(File("node_info"))
           all   == {AsnOf[infos[i]] : i \in DOMAIN infos} \ {NoAsn}
           asns  == IF retry THEN all \ PrevAsns ELSE all
<1>3. Parses("node_info") /\ NewBucket /\ UNCHANGED <<fetching, dumpVars>>
  BY DEF StartFetchASNInfo
<1>4. infos = sent["node_info"]
  BY <1>1, <1>3, FileParses, OutputNames
<1>5. sent["node_info"] \in Seq(Key)
  <2>1. sent["node_info"] \in Seq(ValueOf("node_info"))
    BY <1>1, OpenFile, OutputNames
  <2> QED
    BY <2>1 DEF ValueOf
<1>6. PICK todo \in SetToSeqs(asns) : Open({"asn_info"}, "acquire", todo)
  BY DEF StartFetchASNInfo
<1> HIDE DEF infos
<1>7. infos \in Seq(Key)
  BY <1>4, <1>5
<1>8. all \subseteq Asn /\ IsFiniteSet(all)
  <2>1. Len(infos) \in Nat /\ DOMAIN infos = 1..Len(infos) /\ \A i \in DOMAIN infos : infos[i] \in Key
    BY <1>7
  <2>2. IsFiniteSet(DOMAIN infos)
    BY <2>1, FS_Interval
  <2>3. all \subseteq Asn
    BY <2>1 DEF Asn
  <2>4. IsFiniteSet({AsnOf[infos[i]] : i \in DOMAIN infos})
    <3> DEFINE S == DOMAIN infos
               T == {AsnOf[infos[i]] : i \in S}
               h == [i \in S |-> AsnOf[infos[i]]]
    <3>1. h \in Surjection(S, T)
      BY DEF Surjection
    <3> QED
      BY <2>2, <3>1, FS_Surjection
  <2> QED
    BY <2>3, <2>4, FS_Subset
<1>9. asns \subseteq Asn /\ IsFiniteSet(asns)
  BY <1>8, FS_Subset
<1> HIDE DEF asns, all
<1>10. todo \in Seq(Asn) /\ todo \in Seq(Key \cup Asn \cup GraphNode \cup GraphChannel)
  <2>1. asns \subseteq Key \cup Asn \cup GraphNode \cup GraphChannel
    BY <1>9
  <2> QED
    BY <1>6, <1>9, <2>1, Orders, Zenon
<1>11. FetchOutput' = "asn_info" /\ ValueOf(FetchOutput)' = Asn
  BY <1>2 DEF FetchOutput, ValueOf
<1>12. MainTypes'
  BY <1>1, <1>2, <1>3, <1>6, <1>10, Bounds, OutputNames DEF MainTypes, Open, NewBucket, dumpVars,
     Output, Key, Asn, Command, AddrKind
<1>13. MainInv'
  BY <1>2, <1>3, <1>6, <1>10, <1>11 DEF MainInv, Open, NewBucket
<1> QED
  BY <1>3, <1>6, <1>12, <1>13, OpenStep, OutputNames DEF dumpVars

LEMMA StartExtractAddrsStep ==
    ASSUME AnaInv, StartExtractAddrs
    PROVE  AnaInv'
<1>1. MainTypes /\ MainInv /\ FileTypes /\ FilesInv
  BY TypesSplit DEF AnaInv
<1>2. commands' \in Seq(Command) /\ fetching = {}
  BY <1>1, NextCommandType DEF StartExtractAddrs, Command
<1> DEFINE infos == Values(File("node_info"))
           outs == {"reachable", "unreachable", "mystery"}
<1>3. /\ Parses("node_info") /\ Open(outs, "extract", infos)
      /\ UNCHANGED <<limiterVars, fetching, dumpVars>>
  BY DEF StartExtractAddrs
<1>4. infos = sent["node_info"]
  BY <1>1, <1>3, FileParses, OutputNames
<1>5. sent["node_info"] \in Seq(Key)
  <2>1. sent["node_info"] \in Seq(ValueOf("node_info"))
    BY <1>1, OpenFile, OutputNames
  <2> QED
    BY <2>1 DEF ValueOf
<1> HIDE DEF infos
<1>6. infos \in Seq(Key) /\ infos \in Seq(Key \cup Asn \cup GraphNode \cup GraphChannel)
  BY <1>4, <1>5
<1>7. MainTypes'
  BY <1>1, <1>2, <1>3, <1>6, OutputNames DEF MainTypes, Open, limiterVars, dumpVars,
     Output, Key, Asn, Command, AddrKind
<1>8. MainInv'
  BY <1>2, <1>3, <1>6 DEF MainInv, Open
<1>9. "nodes" \notin outs /\ "missing_ann" \notin outs /\ outs \subseteq Output
  BY OutputNames
<1> HIDE DEF outs
<1> QED
  BY <1>3, <1>7, <1>8, <1>9, OpenStep DEF dumpVars

LEMMA StartDumpStep ==
    ASSUME AnaInv, StartDump
    PROVE  AnaInv'
<1>1. MainTypes /\ MainInv
  BY TypesSplit DEF AnaInv
<1>2. commands' \in Seq(Command) /\ fetching = {}
  BY <1>1, NextCommandType DEF StartDump, Command
<1>3. /\ Open({}, "sync", << >>) /\ graph_size' = [i \in 1..QueueSize |-> 0]
      /\ UNCHANGED <<limiterVars, fetching, graph, events, node_list, node_list_ok>>
  BY DEF StartDump
<1>4. MainTypes'
  BY <1>1, <1>2, <1>3, Bounds DEF MainTypes, Open, limiterVars, Output, Key, Asn, Command, AddrKind
<1>5. MainInv'
  BY <1>2, <1>3 DEF MainInv, Open
<1> QED
  BY <1>3, <1>4, <1>5, OpenStep

LEMMA OpenChannelListStep ==
    ASSUME AnaInv, OpenChannelList
    PROVE  AnaInv'
<1>1. MainTypes /\ MainInv
  BY TypesSplit DEF AnaInv
<1>2. PICK todo \in SetToSeqs(graph \cap GraphChannel) : Open({"channels"}, "walk_channels", todo)
  BY DEF OpenChannelList
<1>3. UNCHANGED <<limiterVars, fetching, dumpVars, commands>>
  BY DEF OpenChannelList
<1>4. todo \in Seq(GraphChannel) /\ todo \in Seq(Key \cup Asn \cup GraphNode \cup GraphChannel)
  <2>1. IsFiniteSet(GraphChannel)
    BY AnalyzeAssumption
  <2>2. IsFiniteSet(graph \cap GraphChannel)
    BY <2>1, FS_Subset
  <2>3. todo \in Seq(GraphChannel)
    BY <2>2, Orders
  <2> QED
    BY <2>3
<1>5. MainTypes'
  BY <1>1, <1>2, <1>3, <1>4, OutputNames DEF MainTypes, Open, limiterVars, dumpVars,
     Output, Key, Asn, Command, AddrKind
<1>6. MainInv'
  BY <1>1, <1>2, <1>3, <1>4, SameFetch DEF MainInv, Open
<1> QED
  BY <1>2, <1>3, <1>5, <1>6, OpenStep, OutputNames DEF dumpVars

LEMMA OpenNodeListsStep ==
    ASSUME AnaInv, OpenNodeLists
    PROVE  AnaInv'
<1>1. MainTypes /\ MainInv /\ FileTypes /\ FilesInv
  BY TypesSplit DEF AnaInv
<1> DEFINE outs == {"nodes", "missing_ann"}
<1>2. PICK todo \in SetToSeqs(graph \cap GraphNode) : Open(outs, "walk_nodes", todo)
  BY DEF OpenNodeLists
<1>3. /\ node_list' = << >> /\ node_list_ok' = TRUE
      /\ UNCHANGED <<limiterVars, fetching, graph, events, graph_size, commands>>
  BY DEF OpenNodeLists
<1>4. /\ todo \in Seq(GraphNode) /\ IsInjective(todo)
      /\ todo \in Seq(Key \cup Asn \cup GraphNode \cup GraphChannel)
  <2>1. IsFiniteSet(GraphNode)
    BY AnalyzeAssumption
  <2>2. IsFiniteSet(graph \cap GraphNode)
    BY <2>1, FS_Subset
  <2>3. todo \in Seq(GraphNode) /\ IsInjective(todo)
    BY <2>2, Orders
  <2> QED
    BY <2>3
<1>5. MainTypes'
  BY <1>1, <1>2, <1>3, <1>4, OutputNames DEF MainTypes, Open, limiterVars,
     Output, Key, Asn, Command, AddrKind
<1>6. MainInv'
  BY <1>1, <1>2, <1>3, <1>4, SameFetch DEF MainInv, Open
<1>7. outs \in SUBSET Output /\ "nodes" \in outs /\ "missing_ann" \in outs
  BY OutputNames
<1> HIDE DEF outs
<1>8. FileTypes' /\ FilesInv' /\ \A o \in outs : Unfinished(o)' /\ sent'[o] = << >>
  BY <1>1, <1>2, <1>7, OpenFiles, Zenon
<1>9. pc' = "walk_nodes" /\ left' = todo /\ tx' = outs
  BY <1>2 DEF Open
<1>10. SendersInv'
  BY <1>8, <1>9 DEF SendersInv
<1>11. WalkInv'
  <2>1. sent'["nodes"] = << >> /\ sent'["missing_ann"] = << >>
    BY <1>7, <1>8
  <2>2. IsInjective(<< >>) /\ Range(<< >>) = {} /\ Len(<< >>) = 0
    BY DEF IsInjective, Range
  <2> QED
    BY <1>3, <1>4, <1>9, <2>1, <2>2 DEF WalkInv
<1> QED
  BY <1>5, <1>6, <1>8, <1>10, <1>11, TypesSplitNext DEF AnaInv
-----------------------------------------------------------------------------
(* Sending to a writer *)

\* A step that sends a value other than a node.
LEMMA SendStep ==
    ASSUME AnaInv, NEW o \in Output, o \notin {"nodes", "missing_ann"}, NEW v \in ValueOf(o),
           Alive(o), Send(o, v), UNCHANGED <<writer, written, flushed>>,
           UNCHANGED <<node_list, node_list_ok>>, tx' \subseteq tx,
           pc' = "walk_nodes" => pc = "walk_nodes" /\ left' = left,
           MainTypes', MainInv'
    PROVE  AnaInv'
<1>1. FileTypes /\ FilesInv /\ WalkInv /\ SendersInv /\ tx \subseteq Output
  BY TypesSplit DEF AnaInv, MainTypes
<1>2. /\ FileTypes' /\ FilesInv' /\ Unfinished(o)' /\ Alive(o)'
      /\ \A p \in Output \ {o} : /\ Unfinished(p)' <=> Unfinished(p)
                                 /\ Alive(p)' <=> Alive(p)
                                 /\ sent'[p] = sent[p]
  BY <1>1, SendFiles, Zenon
<1>3. \A p \in {"nodes", "missing_ann"} : p \in Output \ {o}
  BY OutputNames
<1>4. WalkInv'
  <2>1. sent'["nodes"] = sent["nodes"] /\ sent'["missing_ann"] = sent["missing_ann"]
    BY <1>2, <1>3
  <2>2. \A p \in {"nodes", "missing_ann"} : Frozen(p) => Frozen(p)'
    BY <1>2, <1>3 DEF Frozen
  <2> QED
    BY <1>1, <2>1, <2>2, WalkKept
<1>5. SendersInv'
  BY <1>1, <1>2 DEF SendersInv
<1> QED
  BY <1>2, <1>4, <1>5, TypesSplitNext DEF AnaInv

LEMMA FetchDoneStep ==
    ASSUME AnaInv, NEW k, FetchDone(k)
    PROVE  AnaInv'
<1>1. MainTypes /\ MainInv
  BY TypesSplit DEF AnaInv
<1>2. MainTypes'
  BY <1>1 DEF MainTypes, FetchDone, mainVars, limiterVars, dumpVars, Output, Key, Asn, Command,
     AddrKind
<1>3. MainInv'
  BY <1>1, SameFetch DEF MainInv, FetchDone, mainVars, limiterVars
<1>4. /\ FetchOutput \in Output /\ FetchOutput \notin {"nodes", "missing_ann"}
      /\ k \in ValueOf(FetchOutput)
  BY <1>1, OutputNames DEF FetchDone, MainInv
<1>5. /\ Alive(FetchOutput) /\ Send(FetchOutput, k)
      /\ UNCHANGED <<writer, written, flushed>> /\ UNCHANGED <<node_list, node_list_ok>>
      /\ tx' \subseteq tx /\ (pc' = "walk_nodes" => pc = "walk_nodes" /\ left' = left)
  BY DEF FetchDone, mainVars, dumpVars
<1> QED
  BY <1>2, <1>3, <1>4, <1>5, SendStep, Zenon

LEMMA RemoveAtType ==
    ASSUME NEW T, NEW s \in Seq(T), NEW i \in DOMAIN s
    PROVE  RemoveAt(s, i) \in Seq(T)
<1>1. i \in 1..Len(s) /\ Len(s) \in Nat
  OBVIOUS
<1>2. SubSeq(s, 1, i - 1) \in Seq(T)
  BY <1>1
<1>3. SubSeq(s, i + 1, Len(s)) \in Seq(T)
  BY <1>1
<1> QED
  BY <1>2, <1>3 DEF RemoveAt

LEMMA SendSpecStep ==
    ASSUME AnaInv, SendSpec
    PROVE  AnaInv'
<1>1. /\ MainTypes /\ MainInv /\ node_list \in Seq(GraphNode) /\ node_list_ok \in BOOLEAN
      /\ specs \in Seq(Key \X AddrKind) /\ pc = "extract"
  BY TypesSplit DEF AnaInv, MainTypes, SendSpec
<1>2. PICK i \in DOMAIN specs :
        IF Alive(OutputOf(specs[i][2]))
        THEN /\ Send(OutputOf(specs[i][2]), specs[i]) /\ specs' = RemoveAt(specs, i)
             /\ UNCHANGED <<proc, pc, left, tx>>
        ELSE Return /\ UNCHANGED <<chan, sent>>
  BY DEF SendSpec
<1>3. UNCHANGED <<limiterVars, fetching, writer, written, flushed, dumpVars, commands>>
  BY DEF SendSpec
<1> DEFINE v == specs[i]
           o == OutputOf(v[2])
<1>4. v \in Key \X AddrKind /\ RemoveAt(specs, i) \in Seq(Key \X AddrKind)
  BY <1>1, RemoveAtType
<1>5. o \in {"reachable", "unreachable", "mystery"}
  BY DEF OutputOf
<1>6. CASE Alive(o)
  <2>1. Send(o, v) /\ specs' = RemoveAt(specs, i) /\ UNCHANGED <<proc, pc, left, tx>>
    BY <1>2, <1>6
  <2> HIDE DEF o, v
  <2>2. o \in Output /\ o \notin {"nodes", "missing_ann"} /\ v \in ValueOf(o)
    BY <1>4, <1>5, OutputNames DEF ValueOf
  <2>3. MainTypes'
    BY <1>1, <1>3, <1>4, <2>1 DEF MainTypes, limiterVars, dumpVars, Output, Key, Asn, Command,
       AddrKind
  <2>4. MainInv'
    BY <1>1, <1>3, <2>1, SameFetch DEF MainInv, limiterVars
  <2>5. /\ UNCHANGED <<writer, written, flushed>> /\ UNCHANGED <<node_list, node_list_ok>>
        /\ tx' \subseteq tx /\ (pc' = "walk_nodes" => pc = "walk_nodes" /\ left' = left)
    BY <1>3, <2>1 DEF dumpVars
  <2> QED
    BY <1>6, <2>1, <2>2, <2>3, <2>4, <2>5, SendStep, Zenon
<1>7. CASE ~Alive(o)
  <2>1. Return /\ UNCHANGED <<chan, sent>>
    BY <1>2, <1>7
  <2>2. MainTypes' /\ MainInv' /\ tx' = {} /\ pc' # "walk_nodes"
    BY <1>1, <1>3, <2>1, ReturnMain DEF dumpVars
  <2> QED
    BY <1>3, <2>1, <2>2, QuietStep DEF dumpVars, fileVars
<1> QED
  BY <1>6, <1>7

LEMMA WalkChannelStep ==
    ASSUME AnaInv, WalkChannel
    PROVE  AnaInv'
<1>1. /\ MainTypes /\ MainInv /\ node_list \in Seq(GraphNode) /\ node_list_ok \in BOOLEAN
      /\ left \in Seq(GraphChannel) /\ left # << >> /\ pc = "walk_channels" /\ proc = "running"
      /\ left \in Seq(Key \cup Asn \cup GraphNode \cup GraphChannel)
  BY TypesSplit DEF AnaInv, MainTypes, MainInv, WalkChannel
<1>2. /\ Head(left) \in GraphChannel /\ Tail(left) \in Seq(GraphChannel)
      /\ Tail(left) \in Seq(Key \cup Asn \cup GraphNode \cup GraphChannel)
  BY <1>1, HeadTail
<1>3. UNCHANGED <<limiterVars, fetching, writer, written, flushed, dumpVars, commands>>
  BY DEF WalkChannel
<1>4. CASE Head(left) \in graph /\ Alive("channels")
  <2>1. Send("channels", Head(left)) /\ left' = Tail(left) /\ UNCHANGED <<proc, pc, specs, tx>>
    BY <1>4 DEF WalkChannel, Walk
  <2>2. "channels" \in Output /\ "channels" \notin {"nodes", "missing_ann"}
    BY OutputNames
  <2>3. Head(left) \in ValueOf("channels")
    BY <1>2 DEF ValueOf
  <2>4. MainTypes'
    BY <1>1, <1>2, <1>3, <2>1 DEF MainTypes, limiterVars, dumpVars, Output, Key, Asn, Command,
       AddrKind
  <2>5. MainInv'
    BY <1>1, <1>2, <1>3, <2>1, SameFetch DEF MainInv, limiterVars
  <2>6. /\ UNCHANGED <<writer, written, flushed>> /\ UNCHANGED <<node_list, node_list_ok>>
        /\ tx' \subseteq tx /\ (pc' = "walk_nodes" => pc = "walk_nodes" /\ left' = left)
    BY <1>1, <1>3, <2>1 DEF dumpVars
  <2> QED
    BY <1>4, <2>1, <2>2, <2>3, <2>4, <2>5, <2>6, SendStep, Zenon
<1>5. CASE ~(Head(left) \in graph /\ Alive("channels"))
  <2>1. Return /\ UNCHANGED <<chan, sent>>
    BY <1>5 DEF WalkChannel, Walk
  <2>2. MainTypes' /\ MainInv' /\ tx' = {} /\ pc' # "walk_nodes"
    BY <1>1, <1>3, <2>1, ReturnMain DEF dumpVars
  <2> QED
    BY <1>3, <2>1, <2>2, QuietStep DEF dumpVars, fileVars
<1> QED
  BY <1>4, <1>5
-----------------------------------------------------------------------------
(* The node lists *)

LEMMA AppendFresh ==
    ASSUME NEW V, NEW s \in Seq(V), NEW v \in V, IsInjective(s), v \notin Range(s)
    PROVE  /\ IsInjective(Append(s, v)) /\ Range(Append(s, v)) = Range(s) \cup {v}
           /\ Len(Append(s, v)) = Len(s) + 1
<1> DEFINE t == Append(s, v)
<1>1. /\ Len(s) \in Nat /\ DOMAIN s = 1..Len(s) /\ DOMAIN t = 1..(Len(s) + 1)
      /\ Len(t) = Len(s) + 1
      /\ \A i \in 1..Len(s) : t[i] = s[i]
      /\ t[Len(s) + 1] = v
  OBVIOUS
<1> HIDE DEF t
<1>2. \A i \in DOMAIN t : i = Len(s) + 1 \/ (i \in DOMAIN s /\ t[i] = s[i])
  BY <1>1
<1>3. \A i \in DOMAIN s : i \in DOMAIN t /\ t[i] = s[i] /\ s[i] # v
  BY <1>1 DEF Range
<1>4. Len(s) + 1 \in DOMAIN t /\ t[Len(s) + 1] = v
  BY <1>1
<1>5. IsInjective(t)
  BY <1>2, <1>3, <1>4 DEF IsInjective
<1>6. Range(t) = Range(s) \cup {v}
  BY <1>2, <1>3, <1>4 DEF Range
<1> QED
  BY <1>1, <1>5, <1>6 DEF t

LEMMA TailFresh ==
    ASSUME NEW V, NEW s \in Seq(V), s # << >>, IsInjective(s)
    PROVE  /\ IsInjective(Tail(s)) /\ Range(Tail(s)) \subseteq Range(s)
           /\ Head(s) \in Range(s) /\ Head(s) \notin Range(Tail(s))
<1> DEFINE t == Tail(s)
<1>1. /\ DOMAIN t = 1..Len(t) /\ Len(t) \in Nat
      /\ \A i \in 1..Len(t) : t[i] = s[i + 1] /\ i + 1 \in DOMAIN s
      /\ Head(s) = s[1] /\ 1 \in DOMAIN s
  BY HeadTail
<1> HIDE DEF t
<1>2. IsInjective(t)
  <2> SUFFICES ASSUME NEW i \in 1..Len(t), NEW j \in 1..Len(t), t[i] = t[j]
               PROVE  i = j
    BY <1>1 DEF IsInjective
  <2>1. i + 1 = j + 1
    BY <1>1 DEF IsInjective
  <2> QED
    BY <2>1
<1>3. Range(t) \subseteq Range(s) /\ Head(s) \in Range(s)
  BY <1>1 DEF Range
<1>4. \A i \in 1..Len(t) : t[i] # Head(s)
  BY <1>1 DEF IsInjective
<1>5. Head(s) \notin Range(t)
  BY <1>1, <1>4 DEF Range
<1> QED
  BY <1>2, <1>3, <1>5 DEF t

LEMMA CutFresh ==
    ASSUME NEW V, NEW s \in Seq(V), IsInjective(s), NEW n \in 0..Len(s)
    PROVE  /\ SubSeq(s, 1, n) \in Seq(V) /\ IsInjective(SubSeq(s, 1, n))
           /\ Range(SubSeq(s, 1, n)) \subseteq Range(s)
<1> DEFINE t == SubSeq(s, 1, n)
<1>1. /\ t \in Seq(V) /\ DOMAIN t = 1..n /\ \A i \in 1..n : i \in DOMAIN s /\ t[i] = s[i]
  OBVIOUS
<1> HIDE DEF t
<1>2. IsInjective(t) /\ Range(t) \subseteq Range(s)
  BY <1>1 DEF IsInjective, Range
<1> QED
  BY <1>1, <1>2 DEF t

\* What the lists of sent nodes, sent to one writer and to the other, and the simple list
\* have to do with each other.
ListsAgree(a, b, simple) ==
    /\ IsInjective(a) /\ IsInjective(b) /\ IsInjective(simple)
    /\ Range(a) \cap Range(b) = {}
    /\ Range(simple) \subseteq Range(a) \cup Range(b)

\* And with the nodes that are still to be sent.
Ahead(todo, a, b) == IsInjective(todo) /\ Range(todo) \cap (Range(a) \cup Range(b)) = {}

LEMMA NextNode ==
    ASSUME NEW V, NEW a \in Seq(V), NEW b \in Seq(V), NEW simple \in Seq(V),
           NEW todo \in Seq(V), todo # << >>,
           ListsAgree(a, b, simple), Ahead(todo, a, b), NEW x, x = Head(todo)
    PROVE  /\ ListsAgree(Append(a, x), b, simple)
           /\ ListsAgree(Append(a, x), b, Append(simple, x))
           /\ Ahead(Tail(todo), Append(a, x), b)
<1>1. /\ x \in V /\ IsInjective(Tail(todo)) /\ Range(Tail(todo)) \subseteq Range(todo)
      /\ x \in Range(todo) /\ x \notin Range(Tail(todo))
  BY HeadTail, TailFresh DEF Ahead
<1>2. x \notin Range(a) /\ x \notin Range(b)
  BY <1>1 DEF Ahead
<1>3. x \notin Range(simple)
  BY <1>2 DEF ListsAgree
<1>4. IsInjective(Append(a, x)) /\ Range(Append(a, x)) = Range(a) \cup {x}
  BY <1>1, <1>2, AppendFresh DEF ListsAgree
<1>5. IsInjective(Append(simple, x)) /\ Range(Append(simple, x)) = Range(simple) \cup {x}
  BY <1>1, <1>3, AppendFresh DEF ListsAgree
<1> QED
  BY <1>1, <1>2, <1>4, <1>5 DEF ListsAgree, Ahead

\* The walk's part of the invariant in these terms.
LEMMA WalkParts ==
    WalkInv <=>
      /\ ListsAgree(sent["nodes"], sent["missing_ann"], node_list)
      /\ pc = "walk_nodes" =>
            /\ Ahead(left, sent["nodes"], sent["missing_ann"])
            /\ Len(node_list) = Len(sent["nodes"]) + Len(sent["missing_ann"])
      /\ \/ Len(node_list) = Len(sent["nodes"]) + Len(sent["missing_ann"])
         \/ ~node_list_ok
         \/ Frozen("nodes") \/ Frozen("missing_ann")
  BY Zenon DEF WalkInv, ListsAgree, Ahead, Frozen

LEMMA WalkPartsNext ==
    WalkInv' <=>
      /\ ListsAgree(sent'["nodes"], sent'["missing_ann"], node_list')
      /\ pc' = "walk_nodes" =>
            /\ Ahead(left', sent'["nodes"], sent'["missing_ann"])
            /\ Len(node_list') = Len(sent'["nodes"]) + Len(sent'["missing_ann"])
      /\ \/ Len(node_list') = Len(sent'["nodes"]) + Len(sent'["missing_ann"])
         \/ ~node_list_ok'
         \/ Frozen("nodes")' \/ Frozen("missing_ann")'
  BY Zenon DEF WalkInv, ListsAgree, Ahead, Frozen

\* The order of the two lists does not matter.
LEMMA ListsSwap ==
    ASSUME NEW a, NEW b, NEW simple, NEW todo
    PROVE  /\ ListsAgree(a, b, simple) <=> ListsAgree(b, a, simple)
           /\ Ahead(todo, a, b) <=> Ahead(todo, b, a)
  BY DEF ListsAgree, Ahead

\* A node is sent to one of the writers.
LEMMA NodeSent ==
    ASSUME AnaInv, pc = "walk_nodes", left # << >>, NEW o \in {"nodes", "missing_ann"}, Alive(o),
           Send(o, Head(left)), UNCHANGED <<writer, written, flushed>>
    PROVE  LET nodes == sent'["nodes"]
               missing == sent'["missing_ann"]
           IN  /\ FileTypes' /\ FilesInv'
               /\ \A p \in tx : Unfinished(p)'
               /\ ListsAgree(nodes, missing, node_list)
               /\ ListsAgree(nodes, missing, Append(node_list, Head(left)))
               /\ Ahead(Tail(left), nodes, missing)
               /\ Len(nodes) + Len(missing) = Len(node_list) + 1
<1> DEFINE a == sent["nodes"]
           b == sent["missing_ann"]
           x == Head(left)
<1>1. /\ FileTypes /\ FilesInv /\ SendersInv /\ tx \subseteq Output /\ WalkInv
      /\ left \in Seq(GraphNode) /\ node_list \in Seq(GraphNode)
  BY TypesSplit DEF AnaInv, MainTypes, MainInv
<1>2. a \in Seq(GraphNode) /\ b \in Seq(GraphNode)
  <2>1. a \in Seq(ValueOf("nodes")) /\ b \in Seq(ValueOf("missing_ann"))
    BY <1>1, OpenFile, OutputNames
  <2> QED
    BY <2>1 DEF ValueOf
<1>3. /\ ListsAgree(a, b, node_list) /\ Ahead(left, a, b)
      /\ Len(node_list) = Len(a) + Len(b)
  BY <1>1, WalkParts
<1>4. x \in GraphNode
  BY <1>1, HeadTail
<1>5. o \in Output /\ x \in ValueOf(o)
  BY <1>4, OutputNames DEF ValueOf
<1>6. /\ FileTypes' /\ FilesInv' /\ Unfinished(o)'
      /\ sent'[o] = Append(sent[o], x)
      /\ \A p \in Output \ {o} : (Unfinished(p)' <=> Unfinished(p)) /\ sent'[p] = sent[p]
  BY <1>1, <1>5, SendFiles, Zenon
<1>7. \A p \in tx : Unfinished(p)'
  BY <1>1, <1>6 DEF SendersInv
<1>8. Len(Append(a, x)) = Len(a) + 1 /\ Len(Append(b, x)) = Len(b) + 1 /\ Len(a) \in Nat /\ Len(b) \in Nat
  BY <1>2, <1>4
<1>9. CASE o = "nodes"
  <2>1. sent'["nodes"] = Append(a, x) /\ sent'["missing_ann"] = b
    BY <1>6, <1>9, OutputNames
  <2> HIDE DEF a, b
  <2>2. /\ ListsAgree(Append(a, x), b, node_list)
        /\ ListsAgree(Append(a, x), b, Append(node_list, x))
        /\ Ahead(Tail(left), Append(a, x), b)
    BY <1>1, <1>2, <1>3, NextNode
  <2>3. Len(Append(a, x)) + Len(b) = Len(node_list) + 1
    BY <1>3, <1>8
  <2> QED
    BY <1>6, <1>7, <2>1, <2>2, <2>3
<1>10. CASE o = "missing_ann"
  <2>1. sent'["nodes"] = a /\ sent'["missing_ann"] = Append(b, x)
    BY <1>6, <1>10, OutputNames
  <2> HIDE DEF a, b
  <2>2. ListsAgree(b, a, node_list) /\ Ahead(left, b, a)
    BY <1>3, ListsSwap
  <2>3. /\ ListsAgree(Append(b, x), a, node_list)
        /\ ListsAgree(Append(b, x), a, Append(node_list, x))
        /\ Ahead(Tail(left), Append(b, x), a)
    BY <1>1, <1>2, <2>2, NextNode
  <2>4. /\ ListsAgree(a, Append(b, x), node_list)
        /\ ListsAgree(a, Append(b, x), Append(node_list, x))
        /\ Ahead(Tail(left), a, Append(b, x))
    BY <2>3, ListsSwap
  <2>5. Len(a) + Len(Append(b, x)) = Len(node_list) + 1
    BY <1>3, <1>8
  <2> QED
    BY <1>6, <1>7, <2>1, <2>4, <2>5
<1> QED
  BY <1>9, <1>10

LEMMA WalkNodeStep ==
    ASSUME AnaInv, WalkNode
    PROVE  AnaInv'
<1>1. /\ MainTypes /\ MainInv /\ node_list \in Seq(GraphNode) /\ node_list_ok \in BOOLEAN
      /\ left \in Seq(GraphNode) /\ left # << >> /\ pc = "walk_nodes" /\ proc = "running"
      /\ left \in Seq(Key \cup Asn \cup GraphNode \cup GraphChannel)
  BY TypesSplit DEF AnaInv, MainTypes, MainInv, WalkNode
<1>2. /\ Head(left) \in GraphNode /\ Tail(left) \in Seq(GraphNode)
      /\ Tail(left) \in Seq(Key \cup Asn \cup GraphNode \cup GraphChannel)
  BY <1>1, HeadTail
<1>3. /\ UNCHANGED <<limiterVars, fetching, writer, written, flushed, graph, events, graph_size,
                     node_list_ok, commands>>
      /\ node_list' = IF pc' = pc THEN Append(node_list, Head(left)) ELSE node_list
  BY DEF WalkNode
<1>4. PICK o \in {"nodes", "missing_ann"} : Walk(o, Head(left))
  BY DEF WalkNode
<1>5. CASE Head(left) \in graph /\ Alive(o)
  <2>1. Send(o, Head(left)) /\ left' = Tail(left) /\ UNCHANGED <<proc, pc, specs, tx>>
    BY <1>4, <1>5 DEF Walk
  <2>2. /\ node_list' = Append(node_list, Head(left)) /\ node_list' \in Seq(GraphNode)
        /\ Len(node_list') = Len(node_list) + 1
    BY <1>1, <1>2, <1>3, <2>1
  <2>3. MainTypes'
    BY <1>1, <1>2, <1>3, <2>1, <2>2 DEF MainTypes, limiterVars, Output, Key, Asn, Command, AddrKind
  <2>4. MainInv'
    BY <1>1, <1>2, <1>3, <2>1, SameFetch DEF MainInv, limiterVars
  <2>5. UNCHANGED <<writer, written, flushed>>
    BY <1>3
  <2>6. /\ FileTypes' /\ FilesInv' /\ \A p \in tx : Unfinished(p)'
        /\ ListsAgree(sent'["nodes"], sent'["missing_ann"], Append(node_list, Head(left)))
        /\ Ahead(Tail(left), sent'["nodes"], sent'["missing_ann"])
        /\ Len(sent'["nodes"]) + Len(sent'["missing_ann"]) = Len(node_list) + 1
    BY <1>1, <1>5, <2>1, <2>5, NodeSent, Zenon
  <2>7. WalkInv'
    BY <2>1, <2>2, <2>6, WalkPartsNext
  <2>8. SendersInv'
    BY <2>1, <2>6 DEF SendersInv
  <2> QED
    BY <2>3, <2>4, <2>6, <2>7, <2>8, TypesSplitNext DEF AnaInv
<1>6. CASE ~(Head(left) \in graph /\ Alive(o))
  <2>1. Unwind /\ UNCHANGED <<chan, sent>>
    BY <1>1, <1>4, <1>6 DEF Walk
  <2>2. node_list' = node_list
    BY <1>1, <1>3, <2>1 DEF Unwind
  <2>3. MainTypes' /\ MainInv' /\ tx' = {} /\ pc' # "walk_nodes"
    BY <1>1, <1>3, <2>1, <2>2, UnwindMain
  <2> QED
    BY <1>3, <2>1, <2>2, <2>3, QuietStep DEF fileVars
<1> QED
  BY <1>5, <1>6

LEMMA SimpleListFailsStep ==
    ASSUME AnaInv, SimpleListFails
    PROVE  AnaInv'
<1>1. /\ MainTypes /\ MainInv /\ node_list \in Seq(GraphNode) /\ node_list_ok \in BOOLEAN
      /\ FileTypes /\ FilesInv /\ WalkInv
  BY TypesSplit DEF AnaInv, MainTypes
<1>2. /\ Return /\ UNCHANGED <<limiterVars, fetching, writer, written, flushed, graph, events,
                               graph_size, commands>>
  BY DEF SimpleListFails
<1>3. CASE pc = "walk_channels"
  <2>1. tx = {"channels"} /\ left \in Seq(GraphChannel) /\ UNCHANGED <<node_list, node_list_ok>>
    BY <1>1, <1>3 DEF MainInv, SimpleListFails
  <2>2. MainTypes' /\ MainInv' /\ tx' = {} /\ pc' # "walk_nodes"
    BY <1>1, <1>2, <2>1, ReturnMain
  <2>3. CASE left = << >>
    <3>1. UNCHANGED <<chan, sent>>
      BY <2>3 DEF SimpleListFails
    <3> QED
      BY <1>2, <2>1, <2>2, <3>1, QuietStep DEF fileVars
  <2>4. CASE left # << >>
    <3>1. Alive("channels") /\ Send("channels", Head(left))
      BY <2>1, <2>4 DEF SimpleListFails
    <3>2. "channels" \in Output /\ "channels" \notin {"nodes", "missing_ann"}
      BY OutputNames
    <3>3. Head(left) \in ValueOf("channels")
      BY <2>1, <2>4, HeadTail DEF ValueOf
    <3>4. /\ UNCHANGED <<writer, written, flushed>> /\ tx' \subseteq tx
          /\ (pc' = "walk_nodes" => pc = "walk_nodes" /\ left' = left)
      BY <1>2, <2>2
    <3> QED
      BY <2>1, <2>2, <3>1, <3>2, <3>3, <3>4, SendStep, Zenon
  <2> QED
    BY <2>3, <2>4
<1>4. CASE pc = "walk_nodes"
  <2>1. PICK n \in 0..Len(node_list) : node_list' = SubSeq(node_list, 1, n)
    BY <1>4 DEF SimpleListFails
  <2>2. node_list_ok' = FALSE /\ tx = {"nodes", "missing_ann"}
    BY <1>1, <1>4 DEF SimpleListFails, MainInv
  <2>3. IsInjective(node_list)
    BY <1>1 DEF WalkInv
  <2>4. /\ node_list' \in Seq(GraphNode) /\ IsInjective(node_list')
        /\ Range(node_list') \subseteq Range(node_list)
    BY <1>1, <2>1, <2>3, CutFresh
  <2>5. MainTypes' /\ MainInv' /\ tx' = {} /\ pc' # "walk_nodes"
    BY <1>1, <1>2, <2>2, <2>4, ReturnMain
  <2>6. FileTypes' /\ FilesInv' /\ ListsAgree(sent'["nodes"], sent'["missing_ann"], node_list)
    <3>1. CASE left = << >>
      <4>1. UNCHANGED <<chan, sent>>
        BY <3>1 DEF SimpleListFails
      <4> QED
        BY <1>1, <1>2, <4>1, SameFiles, WalkParts DEF fileVars
    <3>2. CASE left # << >>
      <4>1. PICK o \in tx : Alive(o) /\ Send(o, Head(left))
        BY <3>2 DEF SimpleListFails
      <4>2. UNCHANGED <<writer, written, flushed>> /\ o \in {"nodes", "missing_ann"}
        BY <1>2, <2>2
      <4> QED
        BY <1>4, <3>2, <4>1, <4>2, NodeSent, Zenon
    <3> QED
      BY <3>1, <3>2
  <2>7. WalkInv'
    <3>1. ListsAgree(sent'["nodes"], sent'["missing_ann"], node_list')
      BY <2>4, <2>6 DEF ListsAgree
    <3> QED
      BY <2>2, <2>5, <3>1, WalkPartsNext
  <2>8. SendersInv'
    BY <2>5 DEF SendersInv
  <2> QED
    BY <2>5, <2>6, <2>7, <2>8, TypesSplitNext DEF AnaInv
<1> QED
  BY <1>3, <1>4 DEF SimpleListFails

LEMMA KillStep ==
    ASSUME AnaInv, Kill
    PROVE  AnaInv'
<1>1. /\ MainTypes /\ MainInv /\ node_list \in Seq(GraphNode) /\ IsInjective(node_list)
      /\ node_list_ok \in BOOLEAN /\ FileTypes /\ FilesInv /\ WalkInv /\ SendersInv
  BY TypesSplit DEF AnaInv, MainTypes, WalkInv
<1>2. /\ FileTypes' /\ FilesInv' /\ sent' = sent
      /\ \A o \in Output : ~Alive(o)' /\ (Unfinished(o) => Unfinished(o)')
  BY <1>1, KillFiles
<1>3. /\ proc' = "none" /\ pc' = "return" /\ left' = << >> /\ specs' = << >> /\ tx' = {}
      /\ fetching' = {}
      /\ UNCHANGED <<limiterVars, graph, events, graph_size, commands>>
  BY DEF Kill
<1>4. PICK n \in 0..Len(node_list) :
          /\ node_list' = SubSeq(node_list, 1, n)
          /\ node_list_ok' = (node_list_ok /\ n = Len(node_list))
  BY DEF Kill
<1>5. /\ node_list' \in Seq(GraphNode) /\ IsInjective(node_list')
      /\ Range(node_list') \subseteq Range(node_list)
  BY <1>1, <1>4, CutFresh
<1>6. MainTypes'
  <2>1. node_list_ok' \in BOOLEAN
    BY <1>4
  <2> QED
    BY <1>1, <1>3, <1>5, <2>1 DEF MainTypes, limiterVars, Output, Key, Asn, Command, AddrKind
<1>7. MainInv'
  BY <1>3 DEF MainInv
<1>8. WalkInv'
  <2>1. ListsAgree(sent'["nodes"], sent'["missing_ann"], node_list')
    BY <1>1, <1>2, <1>5, WalkParts DEF ListsAgree
  <2>2. CASE n # Len(node_list)
    <3>1. ~node_list_ok'
      BY <1>4, <2>2
    <3> QED
      BY <1>3, <2>1, <3>1, WalkPartsNext
  <2>3. CASE n = Len(node_list)
    <3>1. SubSeq(node_list, 1, Len(node_list)) = node_list
      BY <1>1
    <3>2. node_list' = node_list /\ node_list_ok' = node_list_ok
      BY <1>1, <1>4, <2>3, <3>1
    <3>3. (Frozen("nodes") => Frozen("nodes")') /\ (Frozen("missing_ann") => Frozen("missing_ann")')
      BY <1>2, OutputNames DEF Frozen
    <3> QED
      BY <1>1, <1>2, <1>3, <2>1, <3>2, <3>3, WalkParts, WalkPartsNext
  <2> QED
    BY <2>2, <2>3
<1>9. SendersInv'
  BY <1>3 DEF SendersInv
<1> QED
  BY <1>2, <1>6, <1>7, <1>8, <1>9, TypesSplitNext DEF AnaInv
-----------------------------------------------------------------------------
(* Every step *)

\* The writers, which nothing but their files depends on.
LEMMA WritersStep ==
    ASSUME AnaInv, NEW o \in Output, Writer(o) \/ WriterFails(o) \/ DropWriter(o)
    PROVE  AnaInv'
<1>1. FileTypes /\ FilesInv /\ MainInv /\ tx \subseteq Output /\ \A p \in tx : Unfinished(p)
  BY TypesSplit DEF AnaInv, MainTypes, SendersInv
<1>2. UNCHANGED <<proc, mainVars, limiterVars, fetching, dumpVars, commands>>
  BY DEF Writer, WriterStart, WriterRecv, WriterClose, WriterFails, DropWriter
<1>3. CASE WriterStart(o)
  BY <1>1, <1>2, <1>3, StartStep, RestAdvance
<1>4. CASE WriterRecv(o)
  BY <1>1, <1>2, <1>4, RecvStep, RestAdvance
<1>5. CASE WriterClose(o)
  BY <1>1, <1>2, <1>5, CloseStep, RestAdvance
<1>6. CASE WriterFails(o)
  BY <1>1, <1>2, <1>6, FailsStep, RestAdvance
<1>7. CASE DropWriter(o)
  <2>1. tx = {}
    BY <1>1, <1>7 DEF DropWriter, MainInv
  <2> QED
    BY <1>1, <1>2, <1>7, <2>1, DropStep, RestAdvance
<1> QED
  BY <1>3, <1>4, <1>5, <1>6, <1>7 DEF Writer

LEMMA AnaStep ==
    ASSUME AnaInv, [AnaNext]_anaVars
    PROVE  AnaInv'
<1>1. CASE Start
  BY <1>1, StartDumpNodeInfoStep, StartFetchASNInfoStep, StartExtractAddrsStep, StartDumpStep,
     StartFailsStep DEF Start
<1>2. CASE Main
  BY <1>2, AcquireStep, SpawnStep, ExtractInfoStep, SendSpecStep, PollStep, OpenNodeListsStep,
     WalkNodeStep, OpenChannelListStep, WalkChannelStep, DropSendersStep, MainReturnsStep DEF Main
<1>3. CASE RefillBucket
  BY <1>3, RefillStep
<1>4. ASSUME NEW k \in Key \cup Asn, FetchDone(k) \/ FetchFails(k)
      PROVE  AnaInv'
  BY <1>4, FetchDoneStep, FetchFailsStep
<1>5. ASSUME NEW n \in GraphNode \cup GraphChannel, GraphChanges(n)
      PROVE  AnaInv'
  BY <1>5, GraphChangesStep
<1>6. ASSUME NEW o \in Output, Writer(o) \/ WriterFails(o) \/ DropWriter(o)
      PROVE  AnaInv'
  BY <1>6, WritersStep
<1>7. CASE SimpleListFails
  BY <1>7, SimpleListFailsStep
<1>8. CASE ProcessEnds
  BY <1>8, ProcessEndsStep
<1>9. CASE Kill
  BY <1>9, KillStep
<1>10. CASE UNCHANGED anaVars
  <2>1. /\ UNCHANGED fileVars /\ UNCHANGED <<node_list, node_list_ok>> /\ UNCHANGED left
        /\ UNCHANGED pc /\ UNCHANGED tx /\ UNCHANGED commands
        /\ UNCHANGED <<proc, mainVars, limiterVars, fetching, dumpVars>>
    BY <1>10 DEF anaVars, dumpVars, mainVars
  <2>2. MainTypes
    BY TypesSplit DEF AnaInv
  <2>3. MainTypes'
    BY <2>1, <2>2 DEF MainTypes, mainVars, limiterVars, dumpVars, Output, Key, Asn, Command, AddrKind
  <2>4. MainInv
    BY DEF AnaInv
  <2>5. MainInv'
    BY <2>1, <2>4, SameFetch DEF MainInv, mainVars, limiterVars
  <2> QED
    BY <2>1, <2>3, <2>5, QuietStep
<1> QED
  BY <1>1, <1>2, <1>3, <1>4, <1>5, <1>6, <1>7, <1>8, <1>9, <1>10 DEF AnaNext

LEMMA AnaStarts == AnaInit => AnaInv
<1> SUFFICES ASSUME AnaInit PROVE AnaInv
  OBVIOUS
<1> USE DEF AnaInit
<1>1. \A o \in Output : /\ chan[o] = << >> /\ sent[o] = << >> /\ written[o] = << >>
                        /\ writer[o] = "none" /\ flushed[o] = 0
  OBVIOUS
<1>2. FileTypes
  BY <1>1 DEF FileTypes, Ended
<1>3. MainTypes
  BY Bounds DEF MainTypes
<1>4. FilesInv
  BY <1>1 DEF FilesInv, FileOK, ArrayPrefix, Closing
<1>5. MainInv /\ SendersInv
  BY DEF MainInv, SendersInv
<1>6. WalkInv
  <2>1. sent["nodes"] = << >> /\ sent["missing_ann"] = << >> /\ node_list = << >> /\ pc = "return"
    BY <1>1, OutputNames
  <2>2. IsInjective(<< >>) /\ Range(<< >>) = {} /\ Len(<< >>) = 0
    BY DEF IsInjective, Range
  <2> HIDE DEF AnaInit
  <2> QED
    BY <2>1, <2>2 DEF WalkInv
<1> QED
  BY <1>2, <1>3, <1>4, <1>5, <1>6, TypesSplit DEF AnaInv

\* The invariant the results below follow from: every file is a prefix of the array of
\* what was sent to its writer, a file that main can still send to is not closed, and the
\* lists of a Dump hold the same nodes until one of them is given up.
THEOREM AnaInvariant == AnaSpec => []AnaInv
  BY AnaStarts, AnaStep, PTL DEF AnaSpec

\* The variables of the commands keep their types: in particular the bucket never holds
\* more than request_bucket_size tokens nor the semaphore more than max_requests permits,
\* and a file holds nothing but values of its own kind and the punctuation of an array.
THEOREM AnaTypeCorrect == AnaSpec => []AnaTypeOK
<1>1. AnaInv => AnaTypeOK
  BY DEF AnaInv
<1> QED
  BY <1>1, AnaInvariant, PTL

LEMMA FileItems ==
    ASSUME FileTypes, FilesInv, NEW o \in Output, NEW f, f = written[o], NEW i \in 1..Len(f)
    PROVE  ItemWellFormed(f, i)
<1> DEFINE s == sent[o]
           V == ValueOf(o)
           M == Mark \cup Value
<1>1. s \in Seq(V) /\ f \in Seq(M) /\ FileOK(f, s, chan[o], writer[o])
  BY OpenFile, Zenon
<1>2. V \cap Mark = {}
  BY ValueTypes
<1> HIDE DEF s, V, M
<1>3. ArrayPrefix(f, s)
  BY <1>1, Zenon DEF FileOK
<1>4. s \in Seq(V) /\ f \in Seq(M)
  BY <1>1
<1> QED
  BY <1>2, <1>3, <1>4, ArrayWellFormed

\* info_writer writes a prefix of one JSON array at any time, whatever fails.
THEOREM FilesWellFormed == AnaSpec => []FileWellFormed
<1>1. ASSUME AnaInv
      PROVE  FileWellFormed
  <2>1. FileTypes /\ FilesInv
    BY <1>1, TypesSplit DEF AnaInv
  <2>2. ASSUME NEW o \in Output
        PROVE  written[o] \in Seq(Mark \cup Value) /\ DOMAIN written[o] = 1..Len(written[o])
    BY <2>1, OpenFile
  <2> QED
    BY <2>1, <2>2, FileItems DEF FileWellFormed, ItemWellFormed
<1> QED
  BY <1>1, AnaInvariant, PTL

\* A file that serde_json accepts holds all that was sent to its writer, in order: a
\* command that reads the file of an earlier one never works on a part of it.
THEOREM CompleteIfItParses == AnaSpec => []ParsesOnlyIfComplete
<1>1. ASSUME AnaInv
      PROVE  ParsesOnlyIfComplete
  BY <1>1, TypesSplit, FileParses DEF AnaInv, ParsesOnlyIfComplete
<1> QED
  BY <1>1, AnaInvariant, PTL

LEMMA JoinFresh ==
    ASSUME NEW V, NEW a \in Seq(V), NEW b \in Seq(V), IsInjective(a), IsInjective(b),
           Range(a) \cap Range(b) = {}
    PROVE  /\ IsInjective(a \o b) /\ Range(a \o b) = Range(a) \cup Range(b)
           /\ Len(a \o b) = Len(a) + Len(b)
<1> DEFINE t == a \o b
<1>1. /\ Len(a) \in Nat /\ Len(b) \in Nat /\ Len(t) = Len(a) + Len(b)
      /\ DOMAIN a = 1..Len(a) /\ DOMAIN b = 1..Len(b) /\ DOMAIN t = 1..(Len(a) + Len(b))
      /\ \A i \in DOMAIN t : t[i] = IF i <= Len(a) THEN a[i] ELSE b[i - Len(a)]
  OBVIOUS
<1> HIDE DEF t
<1>2. ASSUME NEW i \in DOMAIN t
      PROVE  \/ i \in DOMAIN a /\ t[i] = a[i] /\ t[i] \in Range(a)
             \/ i - Len(a) \in DOMAIN b /\ t[i] = b[i - Len(a)] /\ t[i] \in Range(b)
  BY <1>1 DEF Range
<1>3. \A i \in DOMAIN a : i \in DOMAIN t /\ t[i] = a[i]
  BY <1>1
<1>4. \A i \in DOMAIN b : i + Len(a) \in DOMAIN t /\ t[i + Len(a)] = b[i]
  BY <1>1
<1>5. IsInjective(t)
  <2> SUFFICES ASSUME NEW i \in DOMAIN t, NEW j \in DOMAIN t, t[i] = t[j]
               PROVE  i = j
    BY DEF IsInjective
  <2>1. i \in Int /\ j \in Int
    BY <1>1
  <2>2. CASE t[i] \in Range(a)
    BY <1>2, <2>2 DEF IsInjective
  <2>3. CASE t[i] \in Range(b)
    <3>1. i - Len(a) = j - Len(a)
      BY <1>2, <2>3 DEF IsInjective
    <3> QED
      BY <1>1, <2>1, <3>1
  <2> QED
    BY <1>2, <2>2, <2>3
<1>6. Range(t) = Range(a) \cup Range(b)
  <2>1. Range(t) \subseteq Range(a) \cup Range(b)
    BY <1>2 DEF Range
  <2>2. Range(a) \subseteq Range(t)
    BY <1>3 DEF Range
  <2>3. Range(b) \subseteq Range(t)
    BY <1>4 DEF Range
  <2> QED
    BY <2>1, <2>2, <2>3
<1> QED
  BY <1>1, <1>5, <1>6 DEF t

\* The simple list and the two full lists of a Dump agree on the nodes once both full
\* lists are closed, unless the simple one lost its end by a failed write or a kill.
THEOREM NodeListsMatch == AnaSpec => []NodeListsAgree
<1>1. ASSUME AnaInv, Parses("nodes"), Parses("missing_ann")
      PROVE  LET full == Values(File("nodes")) \o Values(File("missing_ann")) IN
             /\ IsInjective(full) /\ IsInjective(node_list)
             /\ Range(node_list) \subseteq Range(full)
             /\ node_list_ok => Len(full) = Len(node_list)
  <2> DEFINE a == sent["nodes"]
             b == sent["missing_ann"]
  <2>1. FileTypes /\ FilesInv /\ WalkInv
    BY <1>1, TypesSplit DEF AnaInv
  <2>2. /\ Values(File("nodes")) = a /\ ~Unfinished("nodes")
        /\ Values(File("missing_ann")) = b /\ ~Unfinished("missing_ann")
    BY <1>1, <2>1, FileParses, OutputNames
  <2>3. a \in Seq(GraphNode) /\ b \in Seq(GraphNode)
    <3>1. a \in Seq(ValueOf("nodes")) /\ b \in Seq(ValueOf("missing_ann"))
      BY <2>1, OpenFile, OutputNames
    <3> QED
      BY <3>1 DEF ValueOf
  <2>4. /\ ListsAgree(a, b, node_list)
        /\ node_list_ok => Len(node_list) = Len(a) + Len(b)
    BY <2>1, <2>2, WalkParts DEF Frozen
  <2> HIDE DEF a, b
  <2>5. /\ IsInjective(a \o b) /\ Range(a \o b) = Range(a) \cup Range(b)
        /\ Len(a \o b) = Len(a) + Len(b)
    BY <2>3, <2>4, JoinFresh DEF ListsAgree
  <2> QED
    BY <2>2, <2>4, <2>5 DEF ListsAgree
<1>2. AnaInv => NodeListsAgree
  BY <1>1 DEF NodeListsAgree
<1> QED
  BY <1>2, AnaInvariant, PTL
=============================================================================
