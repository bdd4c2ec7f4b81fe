-------------------------- MODULE GraphUpload_proofs --------------------------
(***************************************************************************)
(* Proofs about the graph uploads, for any number of collectors, nodes and *)
(* channels, any size of the chunks and of the writer's channel, and any   *)
(* number of uploads, dumps, failures and restarts.                        *)
(*                                                                         *)
(* compute_graph_differences is a recursion over the uploaded entries. Its *)
(* recursive functions are shown to be the states of the loops, and the    *)
(* facts about them follow by induction (NatSetInduction).                 *)
(***************************************************************************)
EXTENDS GraphUpload, FiniteSetTheorems, SequenceTheorems, WellFoundedInduction, TLAPS

-----------------------------------------------------------------------------
(* Sequences and functions *)

\* SetToSeq lists every element of a finite set, and nothing else: what the code
\* gets from list_nodes() and list_channels().
LEMMA Listing ==
    ASSUME NEW S, IsFiniteSet(S), NEW T, S \subseteq T
    PROVE  SetToSeq(S) \in Seq(T) /\ Range(SetToSeq(S)) = S
<1>1. Cardinality(S) \in Nat /\ ExistsBijection(1..Cardinality(S), S)
  BY FS_CardinalityType
<1>2. PICK f \in Bijection(1..Cardinality(S), S) : TRUE
  BY <1>1 DEF ExistsBijection
<1>3. f \in [1..Cardinality(S) -> S] /\ IsInjective(f)
  BY <1>2 DEF Bijection, Injection, IsInjective
<1> DEFINE g == SetToSeq(S)
<1>4. g \in [1..Cardinality(S) -> S] /\ IsInjective(g)
  BY <1>3 DEF SetToSeq
<1> HIDE DEF g
<1>5. g \in Injection(1..Cardinality(S), S)
  BY <1>4 DEF Injection, IsInjective
<1>6. Cardinality(1..Cardinality(S)) = Cardinality(S)
  BY <1>1, FS_Interval
<1>7. g \in Surjection(1..Cardinality(S), S)
  BY <1>1, <1>5, <1>6, FS_Injection
<1>8. Range(g) = S
  BY <1>4, <1>7 DEF Surjection, Range
<1>9. g \in Seq(T)
  BY <1>1, <1>4
<1> QED
  BY <1>8, <1>9 DEF g

\* Every order in which the HashMap may be iterated is a sequence of its keys.
LEMMA Orders ==
    ASSUME NEW S, IsFiniteSet(S), NEW T, S \subseteq T, NEW order \in SetToSeqs(S)
    PROVE  order \in Seq(T) /\ Range(order) = S
<1>1. Cardinality(S) \in Nat
  BY FS_CardinalityType
<1>2. /\ order \in [1..Cardinality(S) -> S]
      /\ \A i, j \in 1..Cardinality(S) : i # j => order[i] # order[j]
  BY DEF SetToSeqs
<1>3. order \in Injection(1..Cardinality(S), S)
  BY <1>2 DEF Injection, IsInjective
<1>4. Cardinality(1..Cardinality(S)) = Cardinality(S)
  BY <1>1, FS_Interval
<1>5. order \in Surjection(1..Cardinality(S), S)
  BY <1>1, <1>3, <1>4, FS_Injection
<1>6. Range(order) = S
  BY <1>2, <1>5 DEF Surjection, Range
<1> QED
  BY <1>1, <1>2, <1>6

LEMMA PartialFunction ==
    ASSUME NEW S, NEW T, NEW f
    PROVE  f \in PartialFunctions(S, T) <=> DOMAIN f \subseteq S /\ f \in [DOMAIN f -> T]
<1>1. ASSUME f \in PartialFunctions(S, T)
      PROVE  DOMAIN f \subseteq S /\ f \in [DOMAIN f -> T]
  <2>1. PICK D \in SUBSET S : f \in [D -> T]
    BY <1>1 DEF PartialFunctions
  <2> QED
    BY <2>1
<1>2. ASSUME DOMAIN f \subseteq S, f \in [DOMAIN f -> T]
      PROVE  f \in PartialFunctions(S, T)
  BY <1>2 DEF PartialFunctions
<1> QED
  BY <1>1, <1>2

\* A chunk and what follows it are the whole list, and a chunk of a list that is
\* not empty is not empty.
LEMMA ChunkAndRest ==
    ASSUME NEW T, NEW s \in Seq(T)
    PROVE  /\ Chunk(s) \in Seq(T) /\ Rest(s) \in Seq(T)
           /\ s # << >> => Chunk(s) # << >>
           /\ Range(s) \subseteq Range(Chunk(s)) \cup Range(Rest(s))
<1>1. ChunkSize \in Nat /\ ChunkSize >= 1
  BY GraphUploadAssumption
<1> DEFINE k == Min({ChunkSize, Len(s)})
<1>2. k = IF ChunkSize <= Len(s) THEN ChunkSize ELSE Len(s)
  BY <1>1 DEF Min
<1> HIDE DEF k
<1>3. Chunk(s) \in Seq(T) /\ Len(Chunk(s)) = k
      /\ \A i \in 1..k : Chunk(s)[i] = s[i]
  <2>1. Chunk(s) = SubSeq(s, 1, k)
    BY DEF Chunk, k
  <2>2. k \in 0..Len(s)
    BY <1>1, <1>2
  <2> QED
    BY <2>1, <2>2
<1>4. /\ Rest(s) \in Seq(T)
      /\ ChunkSize <= Len(s) =>
            /\ Len(Rest(s)) = Len(s) - ChunkSize
            /\ \A i \in 1..(Len(s) - ChunkSize) : Rest(s)[i] = s[ChunkSize + i]
  BY <1>1 DEF Rest
<1>5. s # << >> => Chunk(s) # << >>
  BY <1>1, <1>2, <1>3
<1>6. ASSUME NEW i \in DOMAIN s
      PROVE  s[i] \in Range(Chunk(s)) \cup Range(Rest(s))
  <2>1. i \in 1..Len(s)
    BY <1>6
  <2>2. CASE i <= k
    <3>1. i \in DOMAIN Chunk(s) /\ Chunk(s)[i] = s[i]
      BY <1>1, <1>2, <1>3, <2>1, <2>2
    <3> QED
      BY <3>1 DEF Range
  <2>3. CASE i > k
    <3>1. ChunkSize <= Len(s) /\ i - ChunkSize \in 1..(Len(s) - ChunkSize)
      BY <1>1, <1>2, <2>1, <2>3
    <3>2. i - ChunkSize \in DOMAIN Rest(s) /\ Rest(s)[i - ChunkSize] = s[ChunkSize + (i - ChunkSize)]
      BY <1>4, <3>1
    <3>3. ChunkSize + (i - ChunkSize) = i
      BY <1>1, <2>1
    <3> QED
      BY <3>2, <3>3 DEF Range
  <2> QED
    BY <1>1, <1>2, <2>1, <2>2, <2>3
<1>7. Range(s) \subseteq Range(Chunk(s)) \cup Range(Rest(s))
  BY <1>6 DEF Range
<1> QED
  BY <1>3, <1>4, <1>5, <1>7

LEMMA KeysConcat ==
    ASSUME NEW T, NEW s \in Seq(T), NEW t \in Seq(T)
    PROVE  Keys(s) \cup Keys(t) \subseteq Keys(s \o t)
<1>1. s \o t \in Seq(T) /\ Len(s \o t) = Len(s) + Len(t)
  OBVIOUS
<1>2. \A i \in 1..Len(s) : i \in DOMAIN (s \o t) /\ (s \o t)[i] = s[i]
  OBVIOUS
<1>3. \A i \in 1..Len(t) : Len(s) + i \in DOMAIN (s \o t) /\ (s \o t)[Len(s) + i] = t[i]
  OBVIOUS
<1>4. \A i \in DOMAIN s : s[i] \in Range(s \o t)
  BY <1>2 DEF Range
<1>5. \A i \in DOMAIN t : t[i] \in Range(s \o t)
  <2>1. DOMAIN t = 1..Len(t)
    OBVIOUS
  <2> QED
    BY <1>3, <2>1, Zenon DEF Range
<1>6. Range(s) \subseteq Range(s \o t) /\ Range(t) \subseteq Range(s \o t)
  BY <1>4, <1>5, Zenon DEF Range
<1> QED
  BY <1>6 DEF Keys

LEMMA KeysAppend ==
    ASSUME NEW T, NEW s \in Seq(T), NEW e \in T
    PROVE  Keys(s) \cup {e[1]} \subseteq Keys(Append(s, e))
<1>1. \A i \in DOMAIN s : i \in DOMAIN Append(s, e) /\ Append(s, e)[i] = s[i]
  OBVIOUS
<1>2. Len(s) + 1 \in DOMAIN Append(s, e) /\ Append(s, e)[Len(s) + 1] = e
  OBVIOUS
<1>3. Range(s) \subseteq Range(Append(s, e))
  BY <1>1, Zenon DEF Range
<1>4. e \in Range(Append(s, e))
  BY <1>2, Zenon DEF Range
<1> QED
  BY <1>3, <1>4 DEF Keys

LEMMA HeadAndTail ==
    ASSUME NEW T, NEW s \in Seq(T), s # << >>
    PROVE  /\ Head(s) \in T /\ Tail(s) \in Seq(T)
           /\ Range(s) \subseteq {Head(s)} \cup Range(Tail(s))
<1>1. Len(s) >= 1 /\ Head(s) = s[1] /\ Tail(s) \in Seq(T) /\ Len(Tail(s)) = Len(s) - 1
      /\ \A i \in 1..(Len(s) - 1) : Tail(s)[i] = s[i + 1]
  OBVIOUS
<1>2. ASSUME NEW i \in DOMAIN s
      PROVE  s[i] \in {Head(s)} \cup Range(Tail(s))
  <2>1. CASE i = 1
    BY <1>1, <2>1
  <2>2. CASE i # 1
    <3>1. i - 1 \in 1..(Len(s) - 1) /\ (i - 1) + 1 = i
      BY <1>1, <1>2, <2>2
    <3>2. i - 1 \in DOMAIN Tail(s) /\ Tail(s)[i - 1] = s[i]
      BY <1>1, <3>1
    <3> QED
      BY <3>2 DEF Range
  <2> QED
    BY <2>1, <2>2
<1> QED
  BY <1>1, <1>2 DEF Range
-----------------------------------------------------------------------------
(* The network graph of a LDK node *)

LEMMA GraphShape ==
    ASSUME NEW g \in NetworkGraph
    PROVE  /\ g \in [nodes : PartialFunctions(Node, Option(Announcement)),
                     channels : PartialFunctions(Channel, Directions)]
           /\ DOMAIN g.nodes \subseteq Node /\ g.nodes \in [DOMAIN g.nodes -> Option(Announcement)]
           /\ DOMAIN g.channels \subseteq Channel /\ g.channels \in [DOMAIN g.channels -> Directions]
           /\ DOMAIN g.nodes = UNION {Ends[ch] : ch \in DOMAIN g.channels}
           /\ IsFiniteSet(DOMAIN g.nodes) /\ IsFiniteSet(DOMAIN g.channels)
<1>1. /\ g.nodes \in PartialFunctions(Node, Option(Announcement))
      /\ g.channels \in PartialFunctions(Channel, Directions)
      /\ DOMAIN g.nodes = UNION {Ends[ch] : ch \in DOMAIN g.channels}
      /\ g \in [nodes : PartialFunctions(Node, Option(Announcement)),
                channels : PartialFunctions(Channel, Directions)]
  BY DEF NetworkGraph
<1>2. DOMAIN g.nodes \subseteq Node /\ g.nodes \in [DOMAIN g.nodes -> Option(Announcement)]
  BY <1>1, PartialFunction
<1>3. DOMAIN g.channels \subseteq Channel /\ g.channels \in [DOMAIN g.channels -> Directions]
  BY <1>1, PartialFunction
<1>4. IsFiniteSet(DOMAIN g.nodes) /\ IsFiniteSet(DOMAIN g.channels)
  BY <1>2, <1>3, GraphUploadAssumption, FS_Subset
<1> QED
  BY <1>1, <1>2, <1>3, <1>4

LEMMA GraphMade ==
    ASSUME NEW n, DOMAIN n \subseteq Node, n \in [DOMAIN n -> Option(Announcement)],
           NEW k, DOMAIN k \subseteq Channel, k \in [DOMAIN k -> Directions],
           DOMAIN n = UNION {Ends[ch] : ch \in DOMAIN k}
    PROVE  [nodes |-> n, channels |-> k] \in NetworkGraph
<1>1. n \in PartialFunctions(Node, Option(Announcement)) /\ k \in PartialFunctions(Channel, Directions)
  BY PartialFunction
<1> QED
  BY <1>1 DEF NetworkGraph

LEMMA EndsOfMore ==
    ASSUME NEW D, NEW ch
    PROVE  UNION {Ends[c] : c \in D \cup {ch}} = (UNION {Ends[c] : c \in D}) \cup Ends[ch]
  BY Zenon

LEMMA AnnouncedGraph ==
    ASSUME NEW g \in NetworkGraph, NEW ch \in Channel
    PROVE  [nodes |-> [n \in DOMAIN g.nodes \cup Ends[ch] |->
                         IF n \in DOMAIN g.nodes THEN g.nodes[n] ELSE None],
            channels |-> Put(g.channels, ch, [one_to_two |-> None, two_to_one |-> None])]
                \in NetworkGraph
<1> DEFINE n == [x \in DOMAIN g.nodes \cup Ends[ch] |->
                   IF x \in DOMAIN g.nodes THEN g.nodes[x] ELSE None]
           k == Put(g.channels, ch, [one_to_two |-> None, two_to_one |-> None])
<1>0. None \in Option(Announcement) /\ [one_to_two |-> None, two_to_one |-> None] \in Directions
  BY DEF Option, Directions
<1>1. DOMAIN n = DOMAIN g.nodes \cup Ends[ch] /\ n \in [DOMAIN n -> Option(Announcement)]
  BY <1>0, GraphShape
<1>2. DOMAIN k = DOMAIN g.channels \cup {ch} /\ k \in [DOMAIN k -> Directions]
  BY <1>0, GraphShape DEF Put
<1>3. DOMAIN n \subseteq Node /\ DOMAIN k \subseteq Channel
  <2>1. Ends[ch] \subseteq Node
    BY Zenon DEF Node
  <2> HIDE DEF n, k
  <2> QED
    BY <1>1, <1>2, <2>1, GraphShape
<1> HIDE DEF n, k
<1>4. DOMAIN n = UNION {Ends[c] : c \in DOMAIN k}
  <2>1. UNION {Ends[c] : c \in DOMAIN g.channels \cup {ch}}
            = (UNION {Ends[c] : c \in DOMAIN g.channels}) \cup Ends[ch]
    BY EndsOfMore
  <2> QED
    BY <1>1, <1>2, <2>1, GraphShape
<1>5. [nodes |-> n, channels |-> k] \in NetworkGraph
  BY <1>1, <1>2, <1>3, <1>4, GraphMade
<1> QED
  BY <1>5 DEF n, k

LEMMA RemovedGraph ==
    ASSUME NEW g \in NetworkGraph, NEW channels, channels \subseteq DOMAIN g.channels
    PROVE  [nodes |-> [n \in UNION {Ends[x] : x \in channels} |-> g.nodes[n]],
            channels |-> [x \in channels |-> g.channels[x]]] \in NetworkGraph
<1> DEFINE n == [x \in UNION {Ends[y] : y \in channels} |-> g.nodes[x]]
           k == [x \in channels |-> g.channels[x]]
<1>1. DOMAIN n = UNION {Ends[y] : y \in channels} /\ DOMAIN k = channels
  OBVIOUS
<1>2. DOMAIN n \subseteq DOMAIN g.nodes
  BY <1>1, GraphShape
<1>3. n \in [DOMAIN n -> Option(Announcement)] /\ k \in [DOMAIN k -> Directions]
  BY <1>1, <1>2, GraphShape
<1>4. DOMAIN n \subseteq Node /\ DOMAIN k \subseteq Channel
  BY <1>1, <1>2, GraphShape
<1>5. DOMAIN n = UNION {Ends[c] : c \in DOMAIN k}
  BY <1>1
<1> HIDE DEF n, k
<1>6. [nodes |-> n, channels |-> k] \in NetworkGraph
  BY <1>3, <1>4, <1>5, GraphMade
<1> QED
  BY <1>6 DEF n, k

\* An update replaces one value: the domains stay.
LEMMA UpdatedChannel ==
    ASSUME NEW g \in NetworkGraph, NEW ch \in DOMAIN g.channels,
           NEW dir \in {"one_to_two", "two_to_one"}, NEW a \in Announcement,
           NEW h, h = [g EXCEPT !.channels[ch][dir] = Some(a)]
    PROVE  h \in NetworkGraph /\ DOMAIN h.channels = DOMAIN g.channels
<1>0. Some(a) \in Option(Announcement)
  BY DEF Option
<1> DEFINE some == Some(a)
<1> HIDE DEF some
<1> DEFINE k == [g.channels EXCEPT ![ch][dir] = some]
<1>1. [g.channels[ch] EXCEPT ![dir] = some] \in Directions
  <2>1. g.channels[ch] \in Directions
    BY GraphShape
  <2> QED
    BY <1>0, <2>1 DEF some, Directions
<1>2. DOMAIN k = DOMAIN g.channels /\ k \in [DOMAIN k -> Directions]
  BY <1>1, GraphShape
<1>3. h = [g EXCEPT !.channels = k]
  BY DEF k, some
<1> HIDE DEF k
<1>4. [nodes |-> g.nodes, channels |-> k] \in NetworkGraph
  BY <1>2, GraphShape, GraphMade
<1>5. [g EXCEPT !.channels = k] = [nodes |-> g.nodes, channels |-> k]
  BY GraphShape
<1> QED
  BY <1>2, <1>3, <1>4, <1>5

LEMMA UpdatedNode ==
    ASSUME NEW g \in NetworkGraph, NEW n \in DOMAIN g.nodes, NEW a \in Announcement,
           NEW h, h = [g EXCEPT !.nodes[n] = Some(a)]
    PROVE  h \in NetworkGraph /\ h.channels = g.channels
<1>0. Some(a) \in Option(Announcement)
  BY DEF Option
<1> DEFINE some == Some(a)
<1> HIDE DEF some
<1> DEFINE k == [g.nodes EXCEPT ![n] = some]
<1>1. DOMAIN k = DOMAIN g.nodes /\ k \in [DOMAIN k -> Option(Announcement)]
  BY <1>0, GraphShape DEF some
<1>2. h = [g EXCEPT !.nodes = k]
  BY DEF k, some
<1> HIDE DEF k
<1>3. [nodes |-> k, channels |-> g.channels] \in NetworkGraph
  BY <1>1, GraphShape, GraphMade
<1>4. [g EXCEPT !.nodes = k] = [nodes |-> k, channels |-> g.channels]
  BY GraphShape
<1> QED
  BY <1>2, <1>3, <1>4
-----------------------------------------------------------------------------
(* Entries and lists of entries *)

\* What try_from makes of a channel is an entry the upload may hold: its timestamp
\* is that of one of the directions.
LEMMA InfoType ==
    ASSUME NEW d \in Directions, NEW capacity \in Option({Capacity}), NEW ch \in Channel
    PROVE  <<ch, ChannelInfo(d, capacity)>> \in ChannelEntry
<1> DEFINE Stamps == {a.last_update : a \in Announcement}
           Stamp(o) == IF o = None THEN None ELSE Some(Unwrap(o).last_update)
           later == LaterOf(Stamp(d.one_to_two), Stamp(d.two_to_one))
<1>1. d.one_to_two \in Option(Announcement) /\ d.two_to_one \in Option(Announcement)
  BY DEF Directions
<1>2. ASSUME NEW o \in Option(Announcement)
      PROVE  Stamp(o) \in Option(Stamps)
  <2>1. CASE o = None
    BY <2>1 DEF Option
  <2>2. CASE o # None
    <3>1. PICK a \in Announcement : o = Some(a)
      BY <2>2 DEF Option
    <3>2. Unwrap(o) = a
      BY <3>1 DEF Some, Unwrap
    <3> QED
      BY <2>2, <3>2 DEF Option
  <2> QED
    BY <2>1, <2>2
<1>3. ASSUME NEW x \in Option(Stamps), NEW y \in Option(Stamps)
      PROVE  LaterOf(x, y) \in Option(Stamps)
  <2>1. CASE x # None /\ y # None
    <3>1. PICK p \in Stamps : x = Some(p)
      BY <2>1 DEF Option
    <3>2. PICK q \in Stamps : y = Some(q)
      BY <2>1 DEF Option
    <3>3. Unwrap(x) = p /\ Unwrap(y) = q
      BY <3>1, <3>2 DEF Some, Unwrap
    <3>4. p \in Nat /\ q \in Nat
      BY GraphUploadAssumption
    <3>5. Max({p, q}) \in {p, q}
      BY <3>4 DEF Max
    <3>6. LaterOf(x, y) = Some(Max({p, q}))
      BY <2>1, <3>3 DEF LaterOf
    <3> QED
      BY <3>5, <3>6 DEF Option
  <2>2. CASE ~(x # None /\ y # None)
    BY <2>2 DEF LaterOf
  <2> QED
    BY <2>1, <2>2
<1>4. later \in Option(Stamps)
  BY <1>1, <1>2, <1>3
<1> HIDE DEF later
<1>5. [last_update |-> later, capacity_sats |-> capacity,
       one_to_two |-> d.one_to_two, two_to_one |-> d.two_to_one] \in
        [last_update : Option(Stamps), capacity_sats : Option({Capacity}),
         one_to_two : Option(Announcement), two_to_one : Option(Announcement)]
  BY <1>1, <1>4
<1>6. ChannelInfo(d, capacity) = [last_update |-> later, capacity_sats |-> capacity,
                                  one_to_two |-> d.one_to_two, two_to_one |-> d.two_to_one]
  BY DEF ChannelInfo, later
<1> QED
  BY <1>5, <1>6 DEF ChannelEntry

LEMMA EmptyGraphType == EmptyGraph \in Graph
  BY DEF EmptyGraph, Graph

LEMMA IsEmptyGraph ==
    ASSUME NEW g \in Graph
    PROVE  g = EmptyGraph <=> g.nodes = << >> /\ g.channels = << >>
  BY DEF Graph, EmptyGraph

LEMMA GraphFields ==
    ASSUME NEW g \in Graph
    PROVE  g.nodes \in Seq(NodeEntry) /\ g.channels \in Seq(ChannelEntry)
  BY DEF Graph

LEMMA JoinedGraph ==
    ASSUME NEW a \in Graph, NEW b \in Graph
    PROVE  /\ Joined(a, b) \in Graph
           /\ Joined(a, b).nodes = a.nodes \o b.nodes
           /\ Joined(a, b).channels = a.channels \o b.channels
           /\ Keys(a.nodes) \cup Keys(b.nodes) \subseteq Keys(Joined(a, b).nodes)
           /\ Keys(a.channels) \cup Keys(b.channels) \subseteq Keys(Joined(a, b).channels)
<1>1. /\ Joined(a, b).nodes = a.nodes \o b.nodes
      /\ Joined(a, b).channels = a.channels \o b.channels
  BY DEF Joined
<1>2. a.nodes \o b.nodes \in Seq(NodeEntry) /\ a.channels \o b.channels \in Seq(ChannelEntry)
  BY GraphFields
<1>3. Joined(a, b) \in Graph
  BY <1>2 DEF Joined, Graph
<1>4. Keys(a.nodes) \cup Keys(b.nodes) \subseteq Keys(a.nodes \o b.nodes)
  BY GraphFields, KeysConcat
<1>5. Keys(a.channels) \cup Keys(b.channels) \subseteq Keys(a.channels \o b.channels)
  BY GraphFields, KeysConcat
<1> QED
  BY <1>1, <1>3, <1>4, <1>5

LEMMA EntriesAssociative ==
    /\ \A s, t, u \in Seq(NodeEntry) : (s \o t) \o u = s \o (t \o u)
    /\ \A s, t, u \in Seq(ChannelEntry) : (s \o t) \o u = s \o (t \o u)
  BY ConcatAssociative, SMTT(60)

\* Appending chunk after chunk is appending them together.
LEMMA JoinedAssociative ==
    ASSUME NEW a \in Graph, NEW b \in Graph, NEW d \in Graph
    PROVE  Joined(Joined(a, b), d) = Joined(a, Joined(b, d))
<1>0. /\ a.nodes \in Seq(NodeEntry) /\ b.nodes \in Seq(NodeEntry) /\ d.nodes \in Seq(NodeEntry)
      /\ a.channels \in Seq(ChannelEntry) /\ b.channels \in Seq(ChannelEntry)
      /\ d.channels \in Seq(ChannelEntry)
  BY GraphFields
<1>1. (a.nodes \o b.nodes) \o d.nodes = a.nodes \o (b.nodes \o d.nodes)
  BY <1>0, EntriesAssociative
<1>2. (a.channels \o b.channels) \o d.channels = a.channels \o (b.channels \o d.channels)
  BY <1>0, EntriesAssociative
<1> QED
  BY <1>1, <1>2, JoinedGraph DEF Joined

LEMMA JoinedEmpty ==
    ASSUME NEW a \in Graph
    PROVE  Joined(EmptyGraph, a) = a
<1>1. << >> \o a.nodes = a.nodes /\ << >> \o a.channels = a.channels
  BY GraphFields
<1>2. EmptyGraph.nodes = << >> /\ EmptyGraph.channels = << >>
  BY DEF EmptyGraph
<1>3. Joined(EmptyGraph, a) = [nodes |-> a.nodes, channels |-> a.channels]
  BY <1>1, <1>2 DEF Joined
<1>4. a = [nodes |-> a.nodes, channels |-> a.channels]
  BY DEF Graph
<1> QED
  BY <1>3, <1>4

LEMMA JoinedNotEmpty ==
    ASSUME NEW a \in Graph, NEW b \in Graph, b # EmptyGraph
    PROVE  Joined(a, b) # EmptyGraph
<1>1. b.nodes # << >> \/ b.channels # << >>
  BY IsEmptyGraph
<1>2. ASSUME NEW T, NEW s \in Seq(T), NEW t \in Seq(T), t # << >>
      PROVE  s \o t # << >>
  <2>1. Len(t) > 0 /\ Len(s \o t) = Len(s) + Len(t) /\ Len(s) >= 0
    BY <1>2
  <2> QED
    BY <2>1
<1>3. b.nodes # << >> => a.nodes \o b.nodes # << >>
  BY <1>2, GraphFields
<1>4. b.channels # << >> => a.channels \o b.channels # << >>
  BY <1>2, GraphFields
<1> QED
  BY <1>1, <1>3, <1>4, JoinedGraph, IsEmptyGraph, ZenonT(60)

\* The next chunk of an upload is not empty, and with the rest it names everything
\* the upload still had to send.
LEMMA NextChunkGraph ==
    ASSUME NEW g \in Graph, g # EmptyGraph
    PROVE  /\ NextChunk(g) \in Graph /\ NextChunk(g) # EmptyGraph
           /\ WithoutChunk(g) \in Graph
           /\ Keys(g.nodes) \subseteq Keys(NextChunk(g).nodes) \cup Keys(WithoutChunk(g).nodes)
           /\ Keys(g.channels)
                \subseteq Keys(NextChunk(g).channels) \cup Keys(WithoutChunk(g).channels)
<1>0. g.nodes \in Seq(NodeEntry) /\ g.channels \in Seq(ChannelEntry)
  BY GraphFields
<1>1. ASSUME NEW T, NEW s \in Seq(T)
      PROVE  Keys(s) \subseteq Keys(Chunk(s)) \cup Keys(Rest(s))
  <2>1. Range(s) \subseteq Range(Chunk(s)) \cup Range(Rest(s))
    BY ChunkAndRest
  <2> QED
    BY <2>1, Zenon DEF Keys
<1>2. CASE g.nodes # << >>
  <2> DEFINE s == g.nodes
  <2>1. Chunk(s) \in Seq(NodeEntry) /\ Rest(s) \in Seq(NodeEntry) /\ Chunk(s) # << >>
    BY <1>0, <1>2, ChunkAndRest
  <2>2. /\ NextChunk(g) \in Graph
        /\ NextChunk(g).nodes = Chunk(s) /\ NextChunk(g).channels = << >>
    <3>1. NextChunk(g) = [EmptyGraph EXCEPT !.nodes = Chunk(s)]
      BY <1>2 DEF NextChunk
    <3>2. EmptyGraph \in Graph /\ EmptyGraph.channels = << >>
      BY EmptyGraphType DEF EmptyGraph
    <3> HIDE DEF s
    <3> QED
      BY <2>1, <3>1, <3>2 DEF Graph
  <2>3. /\ WithoutChunk(g) \in Graph
        /\ WithoutChunk(g).nodes = Rest(s) /\ WithoutChunk(g).channels = g.channels
    BY <1>2, <2>1 DEF WithoutChunk, Graph
  <2>4. Keys(s) \subseteq Keys(Chunk(s)) \cup Keys(Rest(s))
    BY <1>0, <1>1
  <2> QED
    BY <2>1, <2>2, <2>3, <2>4, IsEmptyGraph
<1>3. CASE g.nodes = << >>
  <2> DEFINE s == g.channels
  <2>0. s # << >>
    BY <1>3, IsEmptyGraph
  <2>1. Chunk(s) \in Seq(ChannelEntry) /\ Rest(s) \in Seq(ChannelEntry) /\ Chunk(s) # << >>
    BY <1>0, <2>0, ChunkAndRest
  <2>2. /\ NextChunk(g) \in Graph
        /\ NextChunk(g).channels = Chunk(s) /\ NextChunk(g).nodes = << >>
    BY <1>3, <2>1 DEF NextChunk, EmptyGraph, Graph
  <2>3. /\ WithoutChunk(g) \in Graph
        /\ WithoutChunk(g).channels = Rest(s) /\ WithoutChunk(g).nodes = g.nodes
    <3>1. WithoutChunk(g) = [g EXCEPT !.channels = Rest(s)]
      BY <1>3 DEF WithoutChunk
    <3> HIDE DEF s
    <3> QED
      BY <2>1, <3>1 DEF Graph
  <2>4. Keys(s) \subseteq Keys(Chunk(s)) \cup Keys(Rest(s))
    BY <1>0, <1>1
  <2> QED
    BY <2>1, <2>2, <2>3, <2>4, IsEmptyGraph
<1> QED
  BY <1>2, <1>3
-----------------------------------------------------------------------------
(* The inductive invariant *)

\* GraphTypeOK, in the part the uploads and the manager can disturb and the part
\* the differ and the writer can.
UploadTypes ==
    /\ ldk \in [Collector -> NetworkGraph]
    /\ uploader \in [Collector -> Uploader]
    /\ \A c \in Collector : uploader[c].pc = "wait" => uploader[c] = Idle
    /\ DOMAIN gossip_graphs \subseteq Collector
    /\ gossip_graphs \in [DOMAIN gossip_graphs -> Graph \ {EmptyGraph}]
    /\ delivered \in [Collector -> Graph] /\ dumped \in [Collector -> Graph]
    /\ listed \in [Collector -> [nodes : SUBSET Node, channels : SUBSET Channel,
                                 intact : BOOLEAN]]

ReportTypes ==
    /\ differ \in [pc : {"wait", "write", "done", "err"}, outbox : Seq(File)]
    /\ differ.pc # "write" => differ.outbox = << >>
    /\ write_chan \in Seq(File) /\ Len(write_chan) <= WriteCap
    /\ writer \in BOOLEAN /\ stop_signal \in BOOLEAN

\* The conjunct of EachEntryOnce for one collector.
Once(c) ==
    delivered[c] = IF c \in DOMAIN gossip_graphs THEN Joined(dumped[c], gossip_graphs[c])
                   ELSE dumped[c]

\* UploadsAreWhole in the middle of an upload: what LDK held all along is still to
\* be looked up, or looked up and to be sent, or posted. A channel is skipped when
\* it is gone by the time it is looked up, so those that count are still there.
Whole(c) ==
    /\ uploader[c].pc # "wait" => listed[c].channels \subseteq DOMAIN ldk[c].channels
    /\ listed[c].intact =>
        /\ listed[c].nodes \subseteq Range(uploader[c].node_ids)
                \cup Keys(uploader[c].graph.nodes) \cup Keys(Posted(c).nodes)
        /\ listed[c].channels \subseteq Range(uploader[c].channel_ids)
                \cup Keys(uploader[c].graph.channels) \cup Keys(Posted(c).channels)

UploadInv == UploadTypes /\ \A c \in Collector : Once(c) /\ Whole(c)

\* The writer ends only when it is told to.
ReportInv == ReportTypes /\ ReportsNotAbandoned /\ (writer \/ stop_signal)

\* The manager ends only when the token is cancelled, and its buffers with it.
ManagerInv ==
    /\ manager \in BOOLEAN
    /\ ~manager => gossip_graphs = << >> /\ stop_signal

GUIInv == UploadInv /\ ReportInv /\ ManagerInv

LEMMA GUIInvSuffices ==
    GUIInv => GraphTypeOK /\ EachEntryOnce /\ UploadsAreWhole /\ ReportsNotAbandoned
<1> SUFFICES ASSUME GUIInv
             PROVE  GraphTypeOK /\ EachEntryOnce /\ UploadsAreWhole /\ ReportsNotAbandoned
  OBVIOUS
<1>1. GraphTypeOK
  BY DEF GUIInv, UploadInv, UploadTypes, ReportInv, ReportTypes, ManagerInv, GraphTypeOK
<1>2. EachEntryOnce
  BY DEF GUIInv, UploadInv, Once, EachEntryOnce
<1>3. UploadsAreWhole
  <2> SUFFICES ASSUME NEW c \in Collector, listed[c].intact, uploader[c].pc = "wait"
               PROVE  /\ listed[c].nodes \subseteq Keys(Posted(c).nodes)
                      /\ listed[c].channels \subseteq Keys(Posted(c).channels)
    BY DEF UploadsAreWhole
  <2>1. uploader[c] = Idle
    BY DEF GUIInv, UploadInv, UploadTypes
  <2>2. /\ uploader[c].node_ids = << >> /\ uploader[c].channel_ids = << >>
        /\ uploader[c].graph.nodes = << >> /\ uploader[c].graph.channels = << >>
    BY <2>1 DEF Idle, EmptyGraph
  <2>3. Range(<< >>) = {} /\ Keys(<< >>) = {}
    BY DEF Range, Keys
  <2>4. Whole(c)
    BY DEF GUIInv, UploadInv
  <2> QED
    BY <2>2, <2>3, <2>4 DEF Whole
<1>4. ReportsNotAbandoned
  BY DEF GUIInv, ReportInv
<1> QED
  BY <1>1, <1>2, <1>3, <1>4

LEMMA NoBuffers ==
    << >> \in [DOMAIN << >> -> Graph \ {EmptyGraph}] /\ DOMAIN << >> = {}
<1>1. DOMAIN << >> = {}
  OBVIOUS
<1>2. << >> \in [{} -> Graph \ {EmptyGraph}]
  OBVIOUS
<1> QED
  BY <1>1, <1>2

LEMMA InitHolds == GUInit => GUIInv
<1> SUFFICES ASSUME GUInit PROVE GUIInv
  OBVIOUS
<1>1. Idle \in Uploader /\ Idle.pc = "wait"
  BY EmptyGraphType DEF Idle, Uploader
<1>2. NotListed \in [nodes : SUBSET Node, channels : SUBSET Channel, intact : BOOLEAN]
      /\ ~NotListed.intact
  BY DEF NotListed
<1>3. UploadTypes
  <2>1. gossip_graphs \in [DOMAIN gossip_graphs -> Graph \ {EmptyGraph}]
        /\ DOMAIN gossip_graphs \subseteq Collector
    BY NoBuffers DEF GUInit
  <2>2. uploader \in [Collector -> Uploader] /\ \A c \in Collector : uploader[c] = Idle
    BY <1>1 DEF GUInit
  <2>3. /\ delivered \in [Collector -> Graph] /\ dumped \in [Collector -> Graph]
        /\ listed \in [Collector -> [nodes : SUBSET Node, channels : SUBSET Channel,
                                     intact : BOOLEAN]]
    BY <1>2, EmptyGraphType DEF GUInit
  <2>4. ldk \in [Collector -> NetworkGraph]
    BY GraphUploadAssumption DEF GUInit
  <2> QED
    BY <2>1, <2>2, <2>3, <2>4 DEF UploadTypes
<1>4. ASSUME NEW c \in Collector
      PROVE  Once(c) /\ Whole(c)
  <2>1. DOMAIN gossip_graphs = {}
    BY NoBuffers DEF GUInit
  <2>2. delivered[c] = dumped[c] /\ uploader[c] = Idle /\ listed[c] = NotListed
    BY DEF GUInit
  <2>3. Once(c)
    BY <2>1, <2>2 DEF Once
  <2>4. uploader[c].pc = "wait" /\ ~listed[c].intact
    BY <1>1, <1>2, <2>2
  <2> QED
    BY <2>3, <2>4 DEF Whole
<1>5. ReportInv
  <2>1. /\ differ \in [pc : {"wait", "write", "done", "err"}, outbox : Seq(File)]
        /\ differ.pc = "wait" /\ differ.outbox = << >>
    BY DEF GUInit
  <2>2. write_chan \in Seq(File) /\ Len(write_chan) <= WriteCap
    BY GraphUploadAssumption DEF GUInit
  <2>3. writer = TRUE /\ stop_signal = FALSE
    BY DEF GUInit
  <2> QED
    BY <2>1, <2>2, <2>3 DEF ReportInv, ReportTypes, ReportsNotAbandoned
<1>6. ManagerInv
  BY DEF GUInit, ManagerInv
<1> QED
  BY <1>3, <1>4, <1>5, <1>6 DEF GUIInv, UploadInv
-----------------------------------------------------------------------------
(* LDK's steps *)

\* A step of one collector leaves the others' part of the invariant alone.
LEMMA Untouched ==
    ASSUME NEW c \in Collector, Once(c), Whole(c),
           ldk'[c] = ldk[c], uploader'[c] = uploader[c], listed'[c] = listed[c],
           delivered'[c] = delivered[c], dumped'[c] = dumped[c],
           c \in DOMAIN gossip_graphs' <=> c \in DOMAIN gossip_graphs,
           gossip_graphs'[c] = gossip_graphs[c]
    PROVE  Once(c)' /\ Whole(c)'
<1>1. Posted(c)' = Posted(c)
  BY DEF Posted
<1> QED
  BY <1>1 DEF Once, Whole

LEMMA LearnsMore ==
    ASSUME UploadInv, NEW c \in Collector, NEW g \in NetworkGraph, Learns(c, g),
           DOMAIN ldk[c].channels \subseteq DOMAIN g.channels, UNCHANGED listed
    PROVE  UploadInv'
<1>1. /\ ldk' = [ldk EXCEPT ![c] = g]
      /\ UNCHANGED <<uploader, gossip_graphs, delivered, dumped, listed>>
  BY DEF Learns, managerVars
<1>2. UploadTypes'
  BY <1>1 DEF UploadInv, UploadTypes
<1>3. ASSUME NEW d \in Collector, d # c
      PROVE  Once(d)' /\ Whole(d)'
  BY <1>1, <1>3, Untouched DEF UploadInv, UploadTypes
<1>4. Once(c)' /\ Whole(c)'
  <2>1. Once(c) /\ Whole(c)
    BY DEF UploadInv
  <2>2. ldk'[c] = g
    BY <1>1 DEF UploadInv, UploadTypes
  <2>3. Posted(c)' = Posted(c)
    BY <1>1 DEF Posted
  <2> QED
    BY <1>1, <2>1, <2>2, <2>3 DEF Once, Whole
<1> QED
  BY <1>2, <1>3, <1>4 DEF UploadInv

LEMMA RemovedStep ==
    ASSUME UploadInv, NEW c \in Collector, NEW ch \in Channel, ChannelRemoved(c, ch)
    PROVE  UploadInv'
<1> DEFINE channels == DOMAIN ldk[c].channels \ {ch}
           nodes == UNION {Ends[x] : x \in channels}
           g == [nodes |-> [n \in nodes |-> ldk[c].nodes[n]],
                 channels |-> [x \in channels |-> ldk[c].channels[x]]]
<1>0. ldk[c] \in NetworkGraph
  BY DEF UploadInv, UploadTypes
<1>1. g \in NetworkGraph
  BY <1>0, RemovedGraph
<1>2. DOMAIN g.channels = channels
  OBVIOUS
<1>3. /\ ldk' = [ldk EXCEPT ![c] = g]
      /\ UNCHANGED <<uploader, gossip_graphs, delivered, dumped>>
      /\ listed' = IF uploader[c].pc = "wait" THEN listed
                   ELSE [listed EXCEPT ![c].nodes = @ \cap nodes,
                                       ![c].channels = @ \cap channels]
  BY DEF ChannelRemoved, Learns, managerVars
<1> HIDE DEF g, nodes, channels
<1>4. UploadTypes'
  <2>1. listed' \in [Collector -> [nodes : SUBSET Node, channels : SUBSET Channel,
                                  intact : BOOLEAN]]
    BY <1>3 DEF UploadInv, UploadTypes
  <2> QED
    BY <1>1, <1>3, <2>1 DEF UploadInv, UploadTypes
<1>5. ASSUME NEW d \in Collector, d # c
      PROVE  Once(d)' /\ Whole(d)'
  <2>1. listed'[d] = listed[d] /\ ldk'[d] = ldk[d]
    BY <1>3, <1>5 DEF UploadInv, UploadTypes
  <2> QED
    BY <1>3, <2>1, Untouched DEF UploadInv
<1>6. Once(c)' /\ Whole(c)'
  <2>1. Once(c) /\ Whole(c)
    BY DEF UploadInv
  <2>2. ldk'[c] = g /\ DOMAIN ldk'[c].channels = channels
    BY <1>2, <1>3 DEF UploadInv, UploadTypes
  <2>3. Posted(c)' = Posted(c)
    BY <1>3 DEF Posted
  <2>4. CASE uploader[c].pc = "wait"
    BY <1>3, <2>1, <2>2, <2>3, <2>4 DEF Once, Whole
  <2>5. CASE uploader[c].pc # "wait"
    <3>1. /\ listed'[c].nodes \subseteq listed[c].nodes
          /\ listed'[c].channels \subseteq listed[c].channels
          /\ listed'[c].channels \subseteq channels
          /\ listed'[c].intact = listed[c].intact
      BY <1>3, <2>5 DEF UploadInv, UploadTypes
    <3> QED
      BY <1>3, <2>1, <2>2, <2>3, <2>5, <3>1 DEF Once, Whole
  <2> QED
    BY <2>4, <2>5
<1> QED
  BY <1>4, <1>5, <1>6 DEF UploadInv

LEMMA LdkKeeps ==
    ASSUME UploadInv, NEW c \in Collector, LdkStep(c)
    PROVE  UploadInv'
<1>0. ldk[c] \in NetworkGraph
  BY DEF UploadInv, UploadTypes
<1>1. ASSUME NEW ch \in Channel, ChannelAnnounced(c, ch)
      PROVE  UploadInv'
  <2> DEFINE n == [x \in DOMAIN ldk[c].nodes \cup Ends[ch] |->
                     IF x \in DOMAIN ldk[c].nodes THEN ldk[c].nodes[x] ELSE None]
             k == Put(ldk[c].channels, ch, [one_to_two |-> None, two_to_one |-> None])
             g == [nodes |-> n, channels |-> k]
  <2>1. g \in NetworkGraph
    BY <1>0, AnnouncedGraph
  <2>2. DOMAIN ldk[c].channels \subseteq DOMAIN g.channels
    <3>1. g.channels = k
      OBVIOUS
    <3>2. DOMAIN k = DOMAIN ldk[c].channels \cup {ch}
      BY DEF Put
    <3> QED
      BY <3>1, <3>2
  <2>3. Learns(c, g) /\ UNCHANGED listed
    BY <1>1 DEF ChannelAnnounced
  <2> HIDE DEF g
  <2> QED
    BY <2>1, <2>2, <2>3, LearnsMore
<1>2. ASSUME NEW ch \in Channel, NEW dir \in {"one_to_two", "two_to_one"},
             NEW a \in Announcement, ChannelUpdated(c, ch, dir, a)
      PROVE  UploadInv'
  <2> DEFINE g == [ldk[c] EXCEPT !.channels[ch][dir] = Some(a)]
  <2>1. ch \in DOMAIN ldk[c].channels /\ Learns(c, g) /\ UNCHANGED listed
    BY <1>2 DEF ChannelUpdated
  <2>2. g \in NetworkGraph /\ DOMAIN g.channels = DOMAIN ldk[c].channels
    BY <1>0, <2>1, UpdatedChannel
  <2> HIDE DEF g
  <2> QED
    BY <2>1, <2>2, LearnsMore
<1>3. ASSUME NEW n \in Node, NEW a \in Announcement, NodeAnnounced(c, n, a)
      PROVE  UploadInv'
  <2> DEFINE g == [ldk[c] EXCEPT !.nodes[n] = Some(a)]
  <2>1. n \in DOMAIN ldk[c].nodes /\ Learns(c, g) /\ UNCHANGED listed
    BY <1>3 DEF NodeAnnounced
  <2>2. g \in NetworkGraph /\ g.channels = ldk[c].channels
    BY <1>0, <2>1, UpdatedNode
  <2> HIDE DEF g
  <2> QED
    BY <2>1, <2>2, LearnsMore
<1> QED
  BY <1>1, <1>2, <1>3, RemovedStep DEF LdkStep
-----------------------------------------------------------------------------
(* The steps of an upload *)

\* A step that only moves an upload on: nothing is posted.
LEMMA UploaderMoves ==
    ASSUME UploadInv, NEW c \in Collector, NEW u \in Uploader, u.pc = "wait" => u = Idle,
           NEW l \in [nodes : SUBSET Node, channels : SUBSET Channel, intact : BOOLEAN],
           uploader' = [uploader EXCEPT ![c] = u], listed' = [listed EXCEPT ![c] = l],
           UNCHANGED <<ldk, gossip_graphs, delivered, dumped>>,
           u.pc # "wait" => l.channels \subseteq DOMAIN ldk[c].channels,
           l.intact =>
             /\ l.nodes \subseteq Range(u.node_ids) \cup Keys(u.graph.nodes) \cup Keys(Posted(c).nodes)
             /\ l.channels \subseteq Range(u.channel_ids) \cup Keys(u.graph.channels)
                                        \cup Keys(Posted(c).channels)
    PROVE  UploadInv'
<1>1. uploader'[c] = u /\ listed'[c] = l
  BY DEF UploadInv, UploadTypes
<1>2. UploadTypes'
  BY <1>1 DEF UploadInv, UploadTypes
<1>3. ASSUME NEW d \in Collector, d # c
      PROVE  Once(d)' /\ Whole(d)'
  <2>1. uploader'[d] = uploader[d] /\ listed'[d] = listed[d]
    BY <1>3 DEF UploadInv, UploadTypes
  <2> QED
    BY <2>1, Untouched DEF UploadInv
<1>4. Once(c)' /\ Whole(c)'
  <2>1. Posted(c)' = Posted(c)
    BY DEF Posted
  <2>2. Once(c)
    BY DEF UploadInv
  <2> QED
    BY <1>1, <2>1, <2>2 DEF Once, Whole
<1> QED
  BY <1>2, <1>3, <1>4 DEF UploadInv

LEMMA IdleFacts ==
    /\ Idle \in Uploader /\ Idle.pc = "wait"
    /\ Idle.node_ids = << >> /\ Idle.channel_ids = << >>
    /\ Idle.graph.nodes = << >> /\ Idle.graph.channels = << >>
    /\ Range(<< >>) = {} /\ Keys(<< >>) = {}
<1>1. Idle \in Uploader
  BY EmptyGraphType DEF Idle, Uploader
<1>2. Range(<< >>) = {} /\ Keys(<< >>) = {}
  BY DEF Range, Keys
<1> QED
  BY <1>1, <1>2 DEF Idle, EmptyGraph

LEMMA ListNodesStep ==
    ASSUME UploadInv, NEW c \in Collector, UploadListNodes(c)
    PROVE  UploadInv'
<1> DEFINE ids == SetToSeq(DOMAIN ldk[c].nodes)
           u == [Idle EXCEPT !.pc = "listed", !.node_ids = ids]
           l == [nodes |-> DOMAIN ldk[c].nodes, channels |-> {}, intact |-> TRUE]
<1>1. DOMAIN ldk[c].nodes \subseteq Node /\ IsFiniteSet(DOMAIN ldk[c].nodes)
  BY GraphShape DEF UploadInv, UploadTypes
<1>2. ids \in Seq(Node) /\ Range(ids) = DOMAIN ldk[c].nodes
  BY <1>1, Listing
<1> HIDE DEF ids
<1>3. u \in Uploader /\ u.pc = "listed" /\ u.node_ids = ids
  BY <1>2, IdleFacts DEF Uploader
<1>4. /\ l \in [nodes : SUBSET Node, channels : SUBSET Channel, intact : BOOLEAN]
      /\ l.nodes = DOMAIN ldk[c].nodes /\ l.channels = {}
  BY <1>1
<1>5. /\ uploader' = [uploader EXCEPT ![c] = u] /\ listed' = [listed EXCEPT ![c] = l]
      /\ UNCHANGED <<ldk, gossip_graphs, delivered, dumped>>
  BY DEF UploadListNodes, managerVars, ids
<1> HIDE DEF u, l
<1> QED
  BY <1>2, <1>3, <1>4, <1>5, UploaderMoves

LEMMA ListChannelsStep ==
    ASSUME UploadInv, NEW c \in Collector, UploadListChannels(c)
    PROVE  UploadInv'
<1> DEFINE ids == SetToSeq(DOMAIN ldk[c].channels)
           u == [uploader[c] EXCEPT !.pc = "read", !.channel_ids = ids]
           l == [listed[c] EXCEPT !.channels = DOMAIN ldk[c].channels]
<1>0. Whole(c) /\ uploader[c] \in Uploader
  BY DEF UploadInv, UploadTypes
<1>1. DOMAIN ldk[c].channels \subseteq Channel /\ IsFiniteSet(DOMAIN ldk[c].channels)
  BY GraphShape DEF UploadInv, UploadTypes
<1>2. ids \in Seq(Channel) /\ Range(ids) = DOMAIN ldk[c].channels
  BY <1>1, Listing
<1> HIDE DEF ids
<1>3. /\ u \in Uploader /\ u.pc = "read" /\ u.channel_ids = ids
      /\ u.node_ids = uploader[c].node_ids /\ u.graph = uploader[c].graph
  BY <1>0, <1>2 DEF Uploader
<1>4. /\ l \in [nodes : SUBSET Node, channels : SUBSET Channel, intact : BOOLEAN]
      /\ l.nodes = listed[c].nodes /\ l.intact = listed[c].intact
      /\ l.channels = DOMAIN ldk[c].channels
  BY <1>1 DEF UploadInv, UploadTypes
<1>5. /\ uploader' = [uploader EXCEPT ![c] = u] /\ listed' = [listed EXCEPT ![c] = l]
      /\ UNCHANGED <<ldk, gossip_graphs, delivered, dumped>>
  BY DEF UploadListChannels, managerVars, ids
<1> HIDE DEF u, l
<1>6. l.intact => l.nodes \subseteq Range(u.node_ids) \cup Keys(u.graph.nodes) \cup Keys(Posted(c).nodes)
  BY <1>0, <1>3, <1>4 DEF Whole
<1> QED
  BY <1>2, <1>3, <1>4, <1>5, <1>6, UploaderMoves

\* A node is uploaded even if it is gone.
LEMMA ReadNodeStep ==
    ASSUME UploadInv, NEW c \in Collector, UploadReadNode(c)
    PROVE  UploadInv'
<1> DEFINE old == uploader[c]
           n == Head(old.node_ids)
           info == IF n \in DOMAIN ldk[c].nodes THEN ldk[c].nodes[n] ELSE None
           u == [old EXCEPT !.node_ids = Tail(@), !.graph.nodes = Append(@, <<n, info>>)]
<1>0. /\ Whole(c) /\ old \in Uploader /\ old.pc = "read" /\ old.node_ids # << >>
      /\ ldk[c] \in NetworkGraph
      /\ listed[c] \in [nodes : SUBSET Node, channels : SUBSET Channel, intact : BOOLEAN]
      /\ listed = [listed EXCEPT ![c] = listed[c]]
  BY DEF UploadInv, UploadTypes, UploadReadNode
<1>1. old.node_ids \in Seq(Node) /\ old.graph \in Graph
  BY <1>0 DEF Uploader
<1>2. /\ n \in Node /\ Tail(old.node_ids) \in Seq(Node)
      /\ Range(old.node_ids) \subseteq {n} \cup Range(Tail(old.node_ids))
  BY <1>0, <1>1, HeadAndTail
<1>3. <<n, info>> \in NodeEntry /\ <<n, info>>[1] = n
  <2>1. info \in Option(Announcement)
    BY <1>0, GraphShape DEF Option
  <2> QED
    BY <1>2, <2>1 DEF NodeEntry
<1> DEFINE e == <<n, info>>
           nodes == Append(old.graph.nodes, e)
<1> HIDE DEF n, info, e
<1>4. nodes \in Seq(NodeEntry) /\ Keys(old.graph.nodes) \cup {n} \subseteq Keys(nodes)
  <2>1. e \in NodeEntry /\ e[1] = n /\ old.graph.nodes \in Seq(NodeEntry)
    BY <1>1, <1>3, GraphFields DEF e
  <2> QED
    BY <2>1, KeysAppend
<1>5. u = [old EXCEPT !.node_ids = Tail(old.node_ids), !.graph = [old.graph EXCEPT !.nodes = nodes]]
  BY DEF e, nodes
<1> HIDE DEF nodes
<1>6. [old.graph EXCEPT !.nodes = nodes] \in Graph
      /\ [old.graph EXCEPT !.nodes = nodes].nodes = nodes
      /\ [old.graph EXCEPT !.nodes = nodes].channels = old.graph.channels
  BY <1>1, <1>4 DEF Graph
<1>7. /\ uploader' = [uploader EXCEPT ![c] = u] /\ listed' = [listed EXCEPT ![c] = listed[c]]
      /\ UNCHANGED <<ldk, gossip_graphs, delivered, dumped>>
  BY <1>0 DEF UploadReadNode, managerVars, n, info
<1> HIDE DEF u
<1>8. /\ u \in Uploader /\ u.pc = "read" /\ u.channel_ids = old.channel_ids
      /\ u.node_ids = Tail(old.node_ids)
      /\ u.graph.nodes = nodes /\ u.graph.channels = old.graph.channels
  BY <1>0, <1>2, <1>5, <1>6 DEF Uploader
<1>9. listed[c].intact =>
        /\ listed[c].nodes \subseteq Range(u.node_ids) \cup Keys(u.graph.nodes)
                                        \cup Keys(Posted(c).nodes)
        /\ listed[c].channels \subseteq Range(u.channel_ids) \cup Keys(u.graph.channels)
                                        \cup Keys(Posted(c).channels)
  BY <1>0, <1>2, <1>4, <1>8 DEF Whole
<1>10. listed[c].channels \subseteq DOMAIN ldk[c].channels
  BY <1>0 DEF Whole
<1> QED
  BY <1>0, <1>7, <1>8, <1>9, <1>10, UploaderMoves

\* A channel that is gone is skipped: it is not one of those LDK held all along.
LEMMA ReadChannelStep ==
    ASSUME UploadInv, NEW c \in Collector, UploadReadChannel(c)
    PROVE  UploadInv'
<1> DEFINE old == uploader[c]
           ch == Head(old.channel_ids)
           capacity == IF c \in KnowsCapacity THEN Some(Capacity) ELSE None
           found == IF ch \in DOMAIN ldk[c].channels
                    THEN <<<<ch, ChannelInfo(ldk[c].channels[ch], capacity)>>>> ELSE << >>
           u == [old EXCEPT !.channel_ids = Tail(@), !.graph.channels = @ \o found]
<1>0. /\ Whole(c) /\ old \in Uploader /\ old.pc = "read" /\ old.channel_ids # << >>
      /\ ldk[c] \in NetworkGraph
      /\ listed[c] \in [nodes : SUBSET Node, channels : SUBSET Channel, intact : BOOLEAN]
      /\ listed = [listed EXCEPT ![c] = listed[c]]
  BY DEF UploadInv, UploadTypes, UploadReadChannel
<1>1. old.channel_ids \in Seq(Channel) /\ old.graph \in Graph
  BY <1>0 DEF Uploader
<1>2. /\ ch \in Channel /\ Tail(old.channel_ids) \in Seq(Channel)
      /\ Range(old.channel_ids) \subseteq {ch} \cup Range(Tail(old.channel_ids))
  BY <1>0, <1>1, HeadAndTail
<1>3. /\ found \in Seq(ChannelEntry)
      /\ ch \in DOMAIN ldk[c].channels => ch \in Keys(found)
  <2>1. CASE ch \in DOMAIN ldk[c].channels
    <3> DEFINE e == <<ch, ChannelInfo(ldk[c].channels[ch], capacity)>>
    <3>1. ldk[c].channels[ch] \in Directions
      BY <1>0, <2>1, GraphShape
    <3>2. capacity \in Option({Capacity})
      BY DEF Option
    <3>3. e \in ChannelEntry /\ e[1] = ch
      BY <1>2, <3>1, <3>2, InfoType
    <3> HIDE DEF e
    <3>4. <<e>> \in Seq(ChannelEntry) /\ 1 \in DOMAIN <<e>> /\ <<e>>[1] = e
      BY <3>3
    <3>5. ch \in Keys(<<e>>)
      BY <3>3, <3>4, Zenon DEF Keys, Range
    <3>6. found = <<e>>
      BY <2>1 DEF e
    <3> QED
      BY <3>4, <3>5, <3>6
  <2>2. CASE ch \notin DOMAIN ldk[c].channels
    BY <2>2
  <2> QED
    BY <2>1, <2>2
<1> DEFINE channels == old.graph.channels \o found
<1> HIDE DEF found, ch
<1>4. /\ channels \in Seq(ChannelEntry)
      /\ Keys(old.graph.channels) \cup Keys(found) \subseteq Keys(channels)
  <2>1. old.graph.channels \in Seq(ChannelEntry)
    BY <1>1, GraphFields
  <2> QED
    BY <1>3, <2>1, KeysConcat
<1>5. u = [old EXCEPT !.channel_ids = Tail(old.channel_ids),
                      !.graph = [old.graph EXCEPT !.channels = channels]]
  BY DEF channels
<1> HIDE DEF channels
<1>6. [old.graph EXCEPT !.channels = channels] \in Graph
      /\ [old.graph EXCEPT !.channels = channels].channels = channels
      /\ [old.graph EXCEPT !.channels = channels].nodes = old.graph.nodes
  BY <1>1, <1>4 DEF Graph
<1>7. /\ uploader' = [uploader EXCEPT ![c] = u] /\ listed' = [listed EXCEPT ![c] = listed[c]]
      /\ UNCHANGED <<ldk, gossip_graphs, delivered, dumped>>
  BY <1>0 DEF UploadReadChannel, managerVars, found, ch
<1> HIDE DEF u
<1>8. /\ u \in Uploader /\ u.pc = "read" /\ u.node_ids = old.node_ids
      /\ u.channel_ids = Tail(old.channel_ids)
      /\ u.graph.channels = channels /\ u.graph.nodes = old.graph.nodes
  BY <1>0, <1>2, <1>5, <1>6 DEF Uploader
<1>9. listed[c].channels \subseteq DOMAIN ldk[c].channels
  BY <1>0 DEF Whole
<1>10. listed[c].intact =>
        /\ listed[c].nodes \subseteq Range(u.node_ids) \cup Keys(u.graph.nodes)
                                        \cup Keys(Posted(c).nodes)
        /\ listed[c].channels \subseteq Range(u.channel_ids) \cup Keys(u.graph.channels)
                                        \cup Keys(Posted(c).channels)
  BY <1>0, <1>2, <1>3, <1>4, <1>8, <1>9 DEF Whole
<1> QED
  BY <1>0, <1>7, <1>8, <1>9, <1>10, UploaderMoves

LEMMA UploadNothingStep ==
    ASSUME UploadInv, NEW c \in Collector, UploadNothing(c)
    PROVE  UploadInv'
<1>0. /\ Whole(c) /\ uploader[c].node_ids = << >> /\ uploader[c].channel_ids = << >>
      /\ uploader[c].graph = EmptyGraph
      /\ listed[c] \in [nodes : SUBSET Node, channels : SUBSET Channel, intact : BOOLEAN]
      /\ listed = [listed EXCEPT ![c] = listed[c]]
  BY DEF UploadInv, UploadTypes, UploadNothing, ReadDone
<1>1. uploader[c].graph.nodes = << >> /\ uploader[c].graph.channels = << >>
  BY <1>0 DEF EmptyGraph
<1>2. /\ uploader' = [uploader EXCEPT ![c] = Idle] /\ listed' = [listed EXCEPT ![c] = listed[c]]
      /\ UNCHANGED <<ldk, gossip_graphs, delivered, dumped>>
  BY <1>0 DEF UploadNothing, managerVars
<1>3. listed[c].intact =>
        /\ listed[c].nodes \subseteq Range(Idle.node_ids) \cup Keys(Idle.graph.nodes)
                                        \cup Keys(Posted(c).nodes)
        /\ listed[c].channels \subseteq Range(Idle.channel_ids) \cup Keys(Idle.graph.channels)
                                        \cup Keys(Posted(c).channels)
  BY <1>0, <1>1, IdleFacts DEF Whole
<1> QED
  BY <1>0, <1>2, <1>3, IdleFacts, UploaderMoves

\* A chunk is appended to the buffer, new or not, and to what was delivered.
LEMMA Pushed ==
    ASSUME UploadInv, NEW c \in Collector, NEW chunk \in Graph, chunk # EmptyGraph,
           PushGossip(c, chunk)
    PROVE  /\ DOMAIN gossip_graphs' = DOMAIN gossip_graphs \cup {c}
           /\ gossip_graphs' \in [DOMAIN gossip_graphs' -> Graph \ {EmptyGraph}]
           /\ \A d \in DOMAIN gossip_graphs : d # c => gossip_graphs'[d] = gossip_graphs[d]
           /\ Posted(c) \in Graph /\ Posted(c)' = Joined(Posted(c), chunk)
           /\ delivered' = [delivered EXCEPT ![c] = Joined(delivered[c], chunk)]
           /\ delivered' \in [Collector -> Graph] /\ dumped' = dumped
           /\ Once(c)'
<1>1. UploadTypes /\ Once(c)
  BY DEF UploadInv
<1>2. Posted(c) \in Graph
  BY <1>1, EmptyGraphType DEF Posted, UploadTypes
<1> DEFINE joined == Joined(Posted(c), chunk)
<1>3. joined \in Graph /\ joined # EmptyGraph
  BY <1>2, JoinedGraph, JoinedNotEmpty
<1>4. /\ gossip_graphs' = Put(gossip_graphs, c, joined)
      /\ delivered' = [delivered EXCEPT ![c] = Joined(delivered[c], chunk)]
      /\ dumped' = dumped
  BY DEF PushGossip
<1> HIDE DEF joined
<1>5. /\ DOMAIN gossip_graphs' = DOMAIN gossip_graphs \cup {c}
      /\ gossip_graphs'[c] = joined
      /\ \A d \in DOMAIN gossip_graphs : d # c => gossip_graphs'[d] = gossip_graphs[d]
  BY <1>4 DEF Put
<1>6. gossip_graphs' \in [DOMAIN gossip_graphs' -> Graph \ {EmptyGraph}]
  BY <1>1, <1>3, <1>4 DEF Put, UploadTypes
<1>7. Posted(c)' = joined
  BY <1>5 DEF Posted
<1>8. delivered[c] \in Graph /\ dumped[c] \in Graph /\ delivered'[c] = Joined(delivered[c], chunk)
  BY <1>1, <1>4 DEF UploadTypes
<1>9. delivered' \in [Collector -> Graph]
  BY <1>1, <1>4, <1>8, JoinedGraph DEF UploadTypes
<1>10. delivered'[c] = Joined(dumped[c], joined)
  <2>1. CASE c \in DOMAIN gossip_graphs
    <3>1. Posted(c) = gossip_graphs[c] /\ delivered[c] = Joined(dumped[c], Posted(c))
      BY <1>1, <2>1 DEF Once, Posted
    <3>2. Joined(Joined(dumped[c], Posted(c)), chunk) = Joined(dumped[c], Joined(Posted(c), chunk))
      BY <1>2, <1>8, JoinedAssociative
    <3> QED
      BY <1>8, <3>1, <3>2 DEF joined
  <2>2. CASE c \notin DOMAIN gossip_graphs
    <3>1. Posted(c) = EmptyGraph /\ delivered[c] = dumped[c]
      BY <1>1, <2>2 DEF Once, Posted
    <3>2. joined = chunk
      BY <3>1, JoinedEmpty DEF joined
    <3> QED
      BY <1>8, <3>1, <3>2
  <2> QED
    BY <2>1, <2>2
<1>11. Once(c)'
  BY <1>4, <1>5, <1>10 DEF Once
<1> QED
  BY <1>2, <1>4, <1>5, <1>6, <1>7, <1>9, <1>11 DEF joined

LEMMA PushedAndMoved ==
    ASSUME UploadInv, NEW c \in Collector, NEW chunk \in Graph, chunk # EmptyGraph,
           PushGossip(c, chunk), NEW u \in Uploader, u.pc = "wait" => u = Idle,
           NEW l \in [nodes : SUBSET Node, channels : SUBSET Channel, intact : BOOLEAN],
           uploader' = [uploader EXCEPT ![c] = u], listed' = [listed EXCEPT ![c] = l],
           UNCHANGED ldk, Whole(c)'
    PROVE  UploadInv'
<1>1. UploadTypes'
  BY Pushed, ZenonT(60) DEF UploadInv, UploadTypes
<1>2. ASSUME NEW d \in Collector, d # c
      PROVE  Once(d)' /\ Whole(d)'
  <2>1. uploader'[d] = uploader[d] /\ listed'[d] = listed[d] /\ ldk'[d] = ldk[d]
    BY <1>2 DEF UploadInv, UploadTypes
  <2>2. delivered'[d] = delivered[d] /\ dumped'[d] = dumped[d]
    BY <1>2, Pushed DEF UploadInv, UploadTypes
  <2>3. /\ d \in DOMAIN gossip_graphs' <=> d \in DOMAIN gossip_graphs
        /\ d \in DOMAIN gossip_graphs => gossip_graphs'[d] = gossip_graphs[d]
    BY <1>2, Pushed
  <2>4. Once(d) /\ Whole(d)
    BY DEF UploadInv
  <2>5. Posted(d)' = Posted(d)
    BY <2>3 DEF Posted
  <2> QED
    BY <2>1, <2>2, <2>3, <2>4, <2>5 DEF Once, Whole
<1> QED
  BY <1>1, <1>2, Pushed DEF UploadInv

LEMMA PostChunkStep ==
    ASSUME UploadInv, NEW c \in Collector, PostChunk(c)
    PROVE  UploadInv'
<1> DEFINE g == uploader[c].graph
           chunk == NextChunk(g)
           rest == WithoutChunk(g)
           u == IF rest = EmptyGraph THEN Idle ELSE [uploader[c] EXCEPT !.graph = rest]
<1>0. /\ Whole(c) /\ uploader[c] \in Uploader /\ uploader[c].pc = "read" /\ g \in Graph
      /\ uploader[c].node_ids = << >> /\ uploader[c].channel_ids = << >> /\ g # EmptyGraph
      /\ listed[c] \in [nodes : SUBSET Node, channels : SUBSET Channel, intact : BOOLEAN]
      /\ listed = [listed EXCEPT ![c] = listed[c]]
  BY DEF UploadInv, UploadTypes, PostChunk, ReadDone, Uploader
<1>1. /\ chunk \in Graph /\ chunk # EmptyGraph /\ rest \in Graph
      /\ Keys(g.nodes) \subseteq Keys(chunk.nodes) \cup Keys(rest.nodes)
      /\ Keys(g.channels) \subseteq Keys(chunk.channels) \cup Keys(rest.channels)
  BY <1>0, NextChunkGraph
<1>2. PushGossip(c, chunk) /\ ldk' = ldk /\ listed' = listed
  BY DEF PostChunk
<1>3. uploader' = [uploader EXCEPT ![c] = u]
  BY DEF PostChunk
<1> HIDE DEF chunk, rest
<1>4. /\ u \in Uploader /\ (u.pc = "wait" => u = Idle)
      /\ u.graph.nodes = rest.nodes /\ u.graph.channels = rest.channels
  <2>1. CASE rest = EmptyGraph
    BY <2>1, IdleFacts DEF EmptyGraph
  <2>2. CASE rest # EmptyGraph
    <3>1. u = [uploader[c] EXCEPT !.graph = rest]
      BY <2>2
    <3> QED
      BY <1>0, <1>1, <3>1 DEF Uploader
  <2> QED
    BY <2>1, <2>2
<1> HIDE DEF u
<1>5. uploader'[c] = u /\ listed'[c] = listed[c] /\ ldk'[c] = ldk[c]
  BY <1>2, <1>3 DEF UploadInv, UploadTypes
<1>6. /\ Keys(Posted(c).nodes) \cup Keys(chunk.nodes) \subseteq Keys(Posted(c)'.nodes)
      /\ Keys(Posted(c).channels) \cup Keys(chunk.channels) \subseteq Keys(Posted(c)'.channels)
  <2>1. Posted(c) \in Graph /\ Posted(c)' = Joined(Posted(c), chunk)
    BY <1>1, <1>2, Pushed
  <2> QED
    BY <1>1, <2>1, JoinedGraph
<1>7. Whole(c)'
  <2>1. listed[c].channels \subseteq DOMAIN ldk[c].channels
    BY <1>0 DEF Whole
  <2>2. ASSUME listed[c].intact
        PROVE  /\ listed[c].nodes \subseteq Keys(g.nodes) \cup Keys(Posted(c).nodes)
               /\ listed[c].channels \subseteq Keys(g.channels) \cup Keys(Posted(c).channels)
    BY <1>0, <2>2, IdleFacts DEF Whole
  <2>3. ASSUME listed[c].intact
        PROVE  /\ listed[c].nodes \subseteq Keys(rest.nodes) \cup Keys(Posted(c)'.nodes)
               /\ listed[c].channels \subseteq Keys(rest.channels) \cup Keys(Posted(c)'.channels)
    BY <1>1, <1>6, <2>2, <2>3
  <2> QED
    BY <1>4, <1>5, <2>1, <2>3 DEF Whole
<1> QED
  BY <1>0, <1>1, <1>2, <1>3, <1>4, <1>7, PushedAndMoved

\* The call may have been handled before it failed: the buffer has the chunk, and
\* the upload is not counted as whole.
LEMMA PostChunkFailsStep ==
    ASSUME UploadInv, NEW c \in Collector, PostChunkFails(c)
    PROVE  UploadInv'
<1>0. uploader[c].graph \in Graph /\ uploader[c].graph # EmptyGraph
  BY DEF UploadInv, UploadTypes, PostChunkFails, Uploader
<1>1. /\ NotListed \in [nodes : SUBSET Node, channels : SUBSET Channel, intact : BOOLEAN]
      /\ ~NotListed.intact
  BY DEF NotListed
<1>2. /\ uploader' = [uploader EXCEPT ![c] = Idle] /\ listed' = [listed EXCEPT ![c] = NotListed]
      /\ ldk' = ldk
  BY DEF PostChunkFails, UploadGivesUp
<1>3. uploader'[c] = Idle /\ listed'[c] = NotListed
  BY <1>2 DEF UploadInv, UploadTypes
<1>4. Whole(c)'
  BY <1>1, <1>3, IdleFacts DEF Whole
<1>5. CASE PushGossip(c, NextChunk(uploader[c].graph))
  <2> DEFINE chunk == NextChunk(uploader[c].graph)
  <2>1. chunk \in Graph /\ chunk # EmptyGraph
    BY <1>0, NextChunkGraph
  <2> HIDE DEF chunk
  <2>2. PushGossip(c, chunk)
    BY <1>5 DEF chunk
  <2> QED
    BY <1>1, <1>2, <1>4, <2>1, <2>2, IdleFacts, PushedAndMoved
<1>6. CASE UNCHANGED managerVars
  <2>1. UNCHANGED <<ldk, gossip_graphs, delivered, dumped>>
    BY <1>2, <1>6 DEF managerVars
  <2> QED
    BY <1>1, <1>2, <2>1, IdleFacts, UploaderMoves
<1> QED
  BY <1>5, <1>6 DEF PostChunkFails

LEMMA UploadKeeps ==
    ASSUME UploadInv, NEW c \in Collector, UploadStep(c)
    PROVE  UploadInv'
  BY ListNodesStep, ListChannelsStep, ReadNodeStep, ReadChannelStep, PostChunkStep,
     PostChunkFailsStep, UploadNothingStep DEF UploadStep
-----------------------------------------------------------------------------
(* The differ, the writer and the controller *)

LEMMA BrokenFacts ==
    ASSUME UploadInv, listed' = Broken, UNCHANGED <<ldk, uploader>>, NEW c \in Collector
    PROVE  /\ listed' \in [Collector -> [nodes : SUBSET Node, channels : SUBSET Channel,
                                          intact : BOOLEAN]]
           /\ Whole(c)'
<1>1. listed' \in [Collector -> [nodes : SUBSET Node, channels : SUBSET Channel,
                                intact : BOOLEAN]]
  BY DEF Broken, UploadInv, UploadTypes
<1>2. listed'[c].channels = listed[c].channels /\ ~listed'[c].intact
  BY DEF Broken, UploadInv, UploadTypes
<1>3. Whole(c)
  BY DEF UploadInv
<1> QED
  BY <1>1, <1>2, <1>3 DEF Whole

\* mem::take: what was in the buffers is what was dumped.
LEMMA DumpKeeps ==
    ASSUME UploadInv, DifferDump
    PROVE  UploadInv'
<1>1. /\ gossip_graphs' = << >> /\ delivered' = delivered /\ ldk' = ldk /\ uploader' = uploader
      /\ dumped' = [c \in Collector |->
                        IF c \in DOMAIN gossip_graphs THEN Joined(dumped[c], gossip_graphs[c])
                        ELSE dumped[c]]
      /\ listed' = Broken
  BY DEF DifferDump
<1>2. DOMAIN gossip_graphs' = {} /\ gossip_graphs' \in [DOMAIN gossip_graphs' -> Graph \ {EmptyGraph}]
  BY <1>1, NoBuffers
<1>3. ASSUME NEW c \in Collector
      PROVE  dumped'[c] \in Graph /\ Once(c)'
  <2>1. dumped'[c] = delivered[c]
    BY <1>1 DEF UploadInv, Once
  <2> QED
    BY <1>1, <1>2, <2>1 DEF UploadInv, UploadTypes, Once
<1>4. dumped' \in [Collector -> Graph]
  BY <1>1, <1>3
<1>5. ASSUME NEW c \in Collector
      PROVE  Whole(c)'
  BY <1>1, BrokenFacts
<1>6. listed' \in [Collector -> [nodes : SUBSET Node, channels : SUBSET Channel, intact : BOOLEAN]]
  BY <1>1 DEF Broken, UploadInv, UploadTypes
<1>7. UploadTypes'
  BY <1>1, <1>2, <1>4, <1>6 DEF UploadInv, UploadTypes
<1> QED
  BY <1>3, <1>5, <1>7 DEF UploadInv

\* A manager that is gone, or new, holds nothing and counts from nothing.
LEMMA NoEntriesKeeps ==
    ASSUME UploadInv, NoEntries, UNCHANGED <<ldk, uploader>>
    PROVE  UploadInv'
<1>1. /\ gossip_graphs' = << >> /\ listed' = Broken
      /\ delivered' = [c \in Collector |-> EmptyGraph]
      /\ dumped' = [c \in Collector |-> EmptyGraph]
  BY DEF NoEntries
<1>2. DOMAIN gossip_graphs' = {} /\ gossip_graphs' \in [DOMAIN gossip_graphs' -> Graph \ {EmptyGraph}]
  BY <1>1, NoBuffers
<1>3. ASSUME NEW c \in Collector
      PROVE  Once(c)' /\ Whole(c)'
  BY <1>1, <1>2, BrokenFacts DEF Once
<1>4. listed' \in [Collector -> [nodes : SUBSET Node, channels : SUBSET Channel, intact : BOOLEAN]]
  BY <1>1 DEF Broken, UploadInv, UploadTypes
<1>5. delivered' \in [Collector -> Graph] /\ dumped' \in [Collector -> Graph]
  BY <1>1, EmptyGraphType
<1>6. UploadTypes'
  BY <1>2, <1>4, <1>5 DEF UploadInv, UploadTypes
<1> QED
  BY <1>3, <1>6 DEF UploadInv

LEMMA UploadUnchanged ==
    ASSUME UploadInv, UNCHANGED <<uploadVars, managerVars>>
    PROVE  UploadInv'
<1>1. UNCHANGED <<ldk, uploader, listed, gossip_graphs, delivered, dumped>>
  BY DEF uploadVars, managerVars
<1>2. UploadTypes'
  BY <1>1 DEF UploadInv, UploadTypes
<1> QED
  BY <1>1, <1>2 DEF UploadInv, Once, Whole, Posted

\* Who changes the manager: a dump takes its buffers, a post adds to them, a stop ends
\* it and a restart begins it.
LEMMA ManagerKeeps ==
    ASSUME ManagerInv, ReportInv, [GUNext]_guVars
    PROVE  ManagerInv'
<1>1. ASSUME NEW c \in Collector, LdkStep(c)
      PROVE  UNCHANGED <<manager, gossip_graphs, stop_signal>>
  BY <1>1 DEF LdkStep, ChannelAnnounced, ChannelRemoved, ChannelUpdated, NodeAnnounced, Learns,
              managerVars, reportVars
<1>2. ASSUME NEW c \in Collector, UploadStep(c)
      PROVE  /\ UNCHANGED stop_signal
             /\ UNCHANGED <<manager, gossip_graphs>> \/ (manager /\ UNCHANGED manager)
  BY <1>2 DEF UploadStep, UploadListNodes, UploadListChannels, UploadReadNode, UploadReadChannel,
              PostChunk, PostChunkFails, PushGossip, UploadGivesUp, UploadNothing,
              managerVars, reportVars
<1>3. CASE DifferStep
  <2>1. CASE DifferDump
    BY <2>1 DEF DifferDump, ManagerInv
  <2>2. CASE ~DifferDump
    <3>1. UNCHANGED <<manager, gossip_graphs, stop_signal>>
      BY <1>3, <2>2 DEF DifferStep, DifferDumpFails, DifferSend, DifferSendFails, DifferDone,
                        DifferStop, managerVars
    <3> QED
      BY <3>1 DEF ManagerInv
  <2> QED
    BY <2>1, <2>2
<1>4. CASE WriterStep
  BY <1>4 DEF WriterStep, WriterWrite, WriterStop, managerVars, ManagerInv
<1>5. CASE ControllerStop
  BY <1>5 DEF ControllerStop, managerVars, ManagerInv
<1>6. CASE ManagerStop
  BY <1>6 DEF ManagerStop, NoEntries, reportVars, ManagerInv
<1>7. CASE ControllerRestart
  BY <1>7 DEF ControllerRestart, ManagerInv
<1>8. CASE UNCHANGED guVars
  BY <1>8 DEF guVars, managerVars, reportVars, ManagerInv
<1>9. CASE \E c \in Collector : LdkStep(c) \/ UploadStep(c)
  BY <1>1, <1>2, <1>9 DEF ManagerInv
<1> QED
  BY <1>3, <1>4, <1>5, <1>6, <1>7, <1>8, <1>9 DEF GUNext

\* The differ and the writer. Only a cancelled token ends the writer and the manager, so
\* a send or a dump that fails, which abandons the report, comes after a stop.
LEMMA ReportKeeps ==
    ASSUME UploadTypes, ReportInv, ManagerInv,
           DifferStep \/ WriterStep \/ ControllerStop \/ ControllerRestart
    PROVE  ReportInv'
<1> USE DEF ReportInv, ReportTypes, ReportsNotAbandoned
<1>1. CASE DifferDump
  <2>1. PICK order \in SetToSeqs(DOMAIN gossip_graphs) :
            differ' = [pc |-> "write", outbox |-> Files(gossip_graphs, order)]
    BY <1>1 DEF DifferDump
  <2>2. DOMAIN gossip_graphs \subseteq File /\ IsFiniteSet(DOMAIN gossip_graphs)
    BY GraphUploadAssumption, FS_Subset DEF UploadTypes, File
  <2>3. order \in Seq(File)
    BY <2>2, Orders
  <2> DEFINE files == Files(gossip_graphs, order)
  <2>4. files \in Seq(File)
    <3>1. <<"controller_graph">> \in Seq(File) /\ <<"collector_diffs">> \in Seq(File)
      BY DEF File
    <3> QED
      BY <2>3, <3>1 DEF Files
  <2> HIDE DEF files
  <2>5. /\ differ' \in [pc : {"wait", "write", "done", "err"}, outbox : Seq(File)]
        /\ differ'.pc = "write"
    <3>1. differ' = [pc |-> "write", outbox |-> files]
      BY <2>1 DEF files
    <3> QED
      BY <2>4, <3>1
  <2>6. UNCHANGED <<write_chan, writer, stop_signal>>
    BY <1>1 DEF DifferDump
  <2> QED
    BY <2>5, <2>6
<1>2. CASE DifferSend
  <2>1. /\ Head(differ.outbox) \in File /\ Tail(differ.outbox) \in Seq(File)
        /\ differ.pc = "write"
    BY <1>2 DEF DifferSend
  <2>2. /\ differ' \in [pc : {"wait", "write", "done", "err"}, outbox : Seq(File)]
        /\ differ'.pc = "write"
    BY <1>2, <2>1 DEF DifferSend
  <2>3. write_chan' \in Seq(File) /\ Len(write_chan') <= WriteCap
    <3>1. WriteCap \in Nat /\ Len(write_chan) < WriteCap /\ write_chan' = Append(write_chan, Head(differ.outbox))
      BY <1>2, GraphUploadAssumption DEF DifferSend
    <3> QED
      BY <2>1, <3>1
  <2> QED
    BY <1>2, <2>2, <2>3 DEF DifferSend
<1>3. CASE DifferSendFails
  <2>1. /\ differ' \in [pc : {"wait", "write", "done", "err"}, outbox : Seq(File)]
        /\ differ'.outbox = << >>
    BY <1>3 DEF DifferSendFails
  <2>2. stop_signal
    BY <1>3 DEF DifferSendFails
  <2> QED
    BY <1>3, <2>1, <2>2 DEF DifferSendFails
<1>4. CASE DifferDone
  <2>1. /\ differ' \in [pc : {"wait", "write", "done", "err"}, outbox : Seq(File)]
        /\ differ'.pc = "wait" /\ differ'.outbox = << >>
    BY <1>4 DEF DifferDone
  <2> QED
    BY <1>4, <2>1 DEF DifferDone
<1>5. CASE DifferStop
  <2>1. /\ differ' \in [pc : {"wait", "write", "done", "err"}, outbox : Seq(File)]
        /\ differ'.pc = "done" /\ differ'.outbox = << >>
    BY <1>5 DEF DifferStop
  <2> QED
    BY <1>5, <2>1 DEF DifferStop
<1>6. CASE WriterWrite
  <2>1. Tail(write_chan) \in Seq(File) /\ Len(Tail(write_chan)) = Len(write_chan) - 1
    BY <1>6 DEF WriterWrite
  <2>2. write_chan' \in Seq(File) /\ Len(write_chan') <= WriteCap
    BY <1>6, <2>1, GraphUploadAssumption DEF WriterWrite
  <2> QED
    BY <1>6, <2>2 DEF WriterWrite
<1>7. CASE WriterStop
  <2>1. write_chan' \in Seq(File) /\ Len(write_chan') <= WriteCap
    BY <1>7, GraphUploadAssumption DEF WriterStop
  <2> QED
    BY <1>7, <2>1 DEF WriterStop
<1>8. CASE ControllerStop
  BY <1>8 DEF ControllerStop
<1>9. CASE ControllerRestart
  <2>1. /\ differ' \in [pc : {"wait", "write", "done", "err"}, outbox : Seq(File)]
        /\ differ'.pc = "wait" /\ differ'.outbox = << >>
    BY <1>9 DEF ControllerRestart
  <2>2. write_chan' \in Seq(File) /\ Len(write_chan') <= WriteCap
    BY <1>9, GraphUploadAssumption DEF ControllerRestart
  <2> QED
    BY <1>9, <2>1, <2>2 DEF ControllerRestart
<1>10. CASE DifferDumpFails
  <2>1. /\ differ' \in [pc : {"wait", "write", "done", "err"}, outbox : Seq(File)]
        /\ differ'.outbox = << >>
    BY <1>10 DEF DifferDumpFails
  <2>2. stop_signal
    BY <1>10 DEF DifferDumpFails, ManagerInv
  <2> QED
    BY <1>10, <2>1, <2>2 DEF DifferDumpFails
<1> QED
  BY <1>1, <1>2, <1>3, <1>4, <1>5, <1>6, <1>7, <1>8, <1>9, <1>10 DEF DifferStep, WriterStep

LEMMA ReportUnchanged ==
    ASSUME ReportInv, UNCHANGED reportVars
    PROVE  ReportInv'
  BY DEF reportVars, ReportInv, ReportTypes, ReportsNotAbandoned
-----------------------------------------------------------------------------
LEMMA NextKeeps == GUIInv /\ [GUNext]_guVars => GUIInv'
<1> SUFFICES ASSUME GUIInv, [GUNext]_guVars PROVE GUIInv'
  OBVIOUS
<1>0. UploadInv /\ ReportInv /\ UploadTypes /\ ManagerInv /\ ManagerInv'
  BY ManagerKeeps DEF GUIInv, UploadInv
<1>1. ASSUME NEW c \in Collector, LdkStep(c)
      PROVE  GUIInv'
  <2>1. UNCHANGED reportVars
    BY <1>1 DEF LdkStep, ChannelAnnounced, ChannelRemoved, ChannelUpdated, NodeAnnounced, Learns
  <2> QED
    BY <1>0, <1>1, <2>1, LdkKeeps, ReportUnchanged DEF GUIInv
<1>2. ASSUME NEW c \in Collector, UploadStep(c)
      PROVE  GUIInv'
  <2>1. UNCHANGED reportVars
    BY <1>2 DEF UploadStep, UploadListNodes, UploadListChannels, UploadReadNode, UploadReadChannel,
                PostChunk, PostChunkFails, UploadGivesUp, UploadNothing
  <2> QED
    BY <1>0, <1>2, <2>1, UploadKeeps, ReportUnchanged DEF GUIInv
<1>3. CASE DifferStep
  <2>1. CASE DifferDump
    BY <1>0, <1>3, <2>1, DumpKeeps, ReportKeeps DEF GUIInv
  <2>2. CASE ~DifferDump
    <3>1. UNCHANGED <<uploadVars, managerVars>>
      BY <1>3, <2>2 DEF DifferStep, DifferDumpFails, DifferSend, DifferSendFails, DifferDone,
                        DifferStop
    <3> QED
      BY <1>0, <1>3, <3>1, UploadUnchanged, ReportKeeps DEF GUIInv
  <2> QED
    BY <2>1, <2>2
<1>4. CASE WriterStep \/ ControllerStop
  <2>1. UNCHANGED <<uploadVars, managerVars>>
    BY <1>4 DEF WriterStep, WriterWrite, WriterStop, ControllerStop
  <2> QED
    BY <1>0, <1>4, <2>1, UploadUnchanged, ReportKeeps DEF GUIInv
<1>5. CASE ControllerRestart
  <2>1. NoEntries /\ UNCHANGED <<ldk, uploader>>
    BY <1>5 DEF ControllerRestart
  <2> QED
    BY <1>0, <1>5, <2>1, NoEntriesKeeps, ReportKeeps DEF GUIInv
<1>6. CASE ManagerStop
  <2>1. NoEntries /\ UNCHANGED <<ldk, uploader>> /\ UNCHANGED reportVars
    BY <1>6 DEF ManagerStop
  <2> QED
    BY <1>0, <2>1, NoEntriesKeeps, ReportUnchanged DEF GUIInv
<1>7. CASE UNCHANGED guVars
  <2>1. UNCHANGED <<uploadVars, managerVars>> /\ UNCHANGED reportVars
    BY <1>7 DEF guVars
  <2> QED
    BY <1>0, <2>1, UploadUnchanged, ReportUnchanged DEF GUIInv
<1> QED
  BY <1>1, <1>2, <1>3, <1>4, <1>5, <1>6, <1>7 DEF GUNext

\* The inductive invariant holds in every reachable state.
THEOREM GUInductive == GUSpec => []GUIInv
  BY InitHolds, NextKeeps, PTL DEF GUSpec

\* The graphs, the uploads, the manager's buffers and the writer's channel stay
\* within their types and bounds; every node LDK has is the end of a channel.
THEOREM GraphTypeCorrect == GUSpec => []GraphTypeOK
  BY GUInductive, GUIInvSuffices, PTL

\* However dumps and failed calls fall between the chunks of uploads, what reached the
\* manager since it started is in the buffers or went into one dump, in order.
THEOREM EntriesOnce == GUSpec => []EachEntryOnce
  BY GUInductive, GUIInvSuffices, PTL

\* An undisturbed upload names everything LDK held while it lasted, although the
\* graph changes while upload_gossip_graph reads it.
THEOREM UploadsWhole == GUSpec => []UploadsAreWhole
  BY GUInductive, GUIInvSuffices, PTL

\* The differ gives up a report only after the controller was told to stop.
THEOREM ReportsKept == GUSpec => []ReportsNotAbandoned
  BY GUInductive, GUIInvSuffices, PTL
-----------------------------------------------------------------------------
(* Induction over the loops of compute_graph_differences *)

\* Induction over the natural numbers, with a set in place of a predicate.
LEMMA NatSetInduction ==
    ASSUME NEW P, 0 \in P, \A n \in Nat : n \in P => n + 1 \in P
    PROVE  Nat \subseteq P
<1> SUFFICES ASSUME NEW m \in Nat, m \notin P
             PROVE  FALSE
  OBVIOUS
<1> DEFINE T == Nat \ P
           R == OpToRel(<, Nat)
<1>1. T \subseteq Nat /\ T # {}
  OBVIOUS
<1>2. IsWellFoundedOn(R, Nat)
  BY NatLessThanWellFounded
<1>3. PICK x \in T : \A y \in T : ~(<<y, x>> \in R)
  <2> HIDE DEF R, T
  <2> QED
    BY <1>1, <1>2, WFMin
<1>4. \A y \in T : ~(y < x)
  BY <1>3 DEF OpToRel
<1>5. x # 0
  OBVIOUS
<1>6. x - 1 \in Nat /\ x - 1 < x /\ x = (x - 1) + 1
  BY <1>5
<1>7. x - 1 \in P
  BY <1>4, <1>6
<1>8. x \in P
  BY <1>6, <1>7
<1> QED
  BY <1>8

\* The states f[0], f[1], ... a loop over s goes through: each is the body of the
\* loop applied to the one before, and the recursive function that models the loop
\* returns the last. One lemma for each loop.
LEMMA CombineNodesLoop ==
    ASSUME NEW T, NEW s \in Seq(T), NEW known
    PROVE  \E f : /\ f[0] = known
                  /\ \A i \in 1..Len(s) : f[i] = InsertNode(f[i - 1], s[i])
                  /\ CombineNodes(known, s) = f[Len(s)]
<1> DEFINE Body(g, i) == InsertNode(g[i - 1], s[i])
           Run(n, g) == g = [i \in 0..n |-> IF i = 0 THEN known ELSE Body(g, i)]
           P == {n \in Nat : \E g : Run(n, g)}
<1>1. 0 \in P
  <2> DEFINE g == [i \in 0..0 |-> known]
  <2>1. Run(0, g)
    OBVIOUS
  <2> QED
    BY <2>1
<1>2. ASSUME NEW n \in Nat, n \in P
      PROVE  n + 1 \in P
  <2>1. PICK g : Run(n, g)
    BY <1>2
  <2> DEFINE h == [i \in 0..(n + 1) |-> IF i = n + 1 THEN Body(g, n + 1) ELSE g[i]]
  <2>2. Run(n + 1, h)
    <3> SUFFICES ASSUME NEW i \in 0..(n + 1)
                 PROVE  h[i] = IF i = 0 THEN known ELSE Body(h, i)
      OBVIOUS
    <3>1. CASE i = 0
      BY <2>1, <3>1
    <3>2. CASE i \in 1..n
      <4>1. h[i] = g[i] /\ h[i - 1] = g[i - 1] /\ g[i] = Body(g, i)
        BY <2>1, <3>2
      <4> QED
        BY <3>2, <4>1
    <3>3. CASE i = n + 1
      <4>1. i - 1 = n /\ (n + 1) - 1 = n /\ i # 0 /\ n # n + 1 /\ n \in 0..(n + 1)
        BY <3>3
      <4>2. h[n] = g[n]
        BY <4>1
      <4>3. h[i] = Body(g, n + 1)
        BY <3>3
      <4> HIDE DEF h
      <4> QED
        BY <3>3, <4>1, <4>2, <4>3
    <3> QED
      BY <3>1, <3>2, <3>3
  <2> HIDE DEF h, Run
  <2> QED
    BY <2>2
<1>3. \E g : Run(Len(s), g)
  <2>1. Nat \subseteq P
    <3> HIDE DEF P
    <3> QED
      BY <1>1, <1>2, NatSetInduction
  <2> QED
    BY <2>1
<1> DEFINE f == CHOOSE g : Run(Len(s), g)
<1>4. CombineNodes(known, s) = f[Len(s)]
  BY DEF CombineNodes
<1>5. Run(Len(s), f)
  <2> HIDE DEF Run
  <2> QED
    BY <1>3
<1> HIDE DEF f
<1>6. 0 \in 0..Len(s) /\ \A i \in 1..Len(s) : i # 0 /\ i \in 0..Len(s)
  OBVIOUS
<1>7. f[0] = known
  BY <1>5, <1>6, Zenon
<1>8. \A i \in 1..Len(s) : f[i] = Body(f, i)
  BY <1>5, <1>6, Zenon
<1> QED
  BY <1>4, <1>7, <1>8

LEMMA CombineChannelsLoop ==
    ASSUME NEW T, NEW s \in Seq(T), NEW known
    PROVE  \E f : /\ f[0] = known
                  /\ \A i \in 1..Len(s) : f[i] = InsertChannel(f[i - 1], s[i])
                  /\ CombineChannels(known, s) = f[Len(s)]
<1> DEFINE Body(g, i) == InsertChannel(g[i - 1], s[i])
           Run(n, g) == g = [i \in 0..n |-> IF i = 0 THEN known ELSE Body(g, i)]
           P == {n \in Nat : \E g : Run(n, g)}
<1>1. 0 \in P
  <2> DEFINE g == [i \in 0..0 |-> known]
  <2>1. Run(0, g)
    OBVIOUS
  <2> QED
    BY <2>1
<1>2. ASSUME NEW n \in Nat, n \in P
      PROVE  n + 1 \in P
  <2>1. PICK g : Run(n, g)
    BY <1>2
  <2> DEFINE h == [i \in 0..(n + 1) |-> IF i = n + 1 THEN Body(g, n + 1) ELSE g[i]]
  <2>2. Run(n + 1, h)
    <3> SUFFICES ASSUME NEW i \in 0..(n + 1)
                 PROVE  h[i] = IF i = 0 THEN known ELSE Body(h, i)
      OBVIOUS
    <3>1. CASE i = 0
      BY <2>1, <3>1
    <3>2. CASE i \in 1..n
      <4>1. h[i] = g[i] /\ h[i - 1] = g[i - 1] /\ g[i] = Body(g, i)
        BY <2>1, <3>2
      <4> QED
        BY <3>2, <4>1
    <3>3. CASE i = n + 1
      <4>1. i - 1 = n /\ (n + 1) - 1 = n /\ i # 0 /\ n # n + 1 /\ n \in 0..(n + 1)
        BY <3>3
      <4>2. h[n] = g[n]
        BY <4>1
      <4>3. h[i] = Body(g, n + 1)
        BY <3>3
      <4> HIDE DEF h
      <4> QED
        BY <3>3, <4>1, <4>2, <4>3
    <3> QED
      BY <3>1, <3>2, <3>3
  <2> HIDE DEF h, Run
  <2> QED
    BY <2>2
<1>3. \E g : Run(Len(s), g)
  <2>1. Nat \subseteq P
    <3> HIDE DEF P
    <3> QED
      BY <1>1, <1>2, NatSetInduction
  <2> QED
    BY <2>1
<1> DEFINE f == CHOOSE g : Run(Len(s), g)
<1>4. CombineChannels(known, s) = f[Len(s)]
  BY DEF CombineChannels
<1>5. Run(Len(s), f)
  <2> HIDE DEF Run
  <2> QED
    BY <1>3
<1> HIDE DEF f
<1>6. 0 \in 0..Len(s) /\ \A i \in 1..Len(s) : i # 0 /\ i \in 0..Len(s)
  OBVIOUS
<1>7. f[0] = known
  BY <1>5, <1>6, Zenon
<1>8. \A i \in 1..Len(s) : f[i] = Body(f, i)
  BY <1>5, <1>6, Zenon
<1> QED
  BY <1>4, <1>7, <1>8

LEMMA ViewOfLoop ==
    ASSUME NEW T, NEW s \in Seq(T)
    PROVE  \E f : /\ f[0] = << >>
                  /\ \A i \in 1..Len(s) : f[i] = Put(f[i - 1], s[i][1], s[i][2])
                  /\ ViewOf(s) = f[Len(s)]
<1> DEFINE Body(g, i) == Put(g[i - 1], s[i][1], s[i][2])
           Run(n, g) == g = [i \in 0..n |-> IF i = 0 THEN << >> ELSE Body(g, i)]
           P == {n \in Nat : \E g : Run(n, g)}
<1>1. 0 \in P
  <2> DEFINE g == [i \in 0..0 |-> << >>]
  <2>1. Run(0, g)
    OBVIOUS
  <2> QED
    BY <2>1
<1>2. ASSUME NEW n \in Nat, n \in P
      PROVE  n + 1 \in P
  <2>1. PICK g : Run(n, g)
    BY <1>2
  <2> DEFINE h == [i \in 0..(n + 1) |-> IF i = n + 1 THEN Body(g, n + 1) ELSE g[i]]
  <2>2. Run(n + 1, h)
    <3> SUFFICES ASSUME NEW i \in 0..(n + 1)
                 PROVE  h[i] = IF i = 0 THEN << >> ELSE Body(h, i)
      OBVIOUS
    <3>1. CASE i = 0
      BY <2>1, <3>1
    <3>2. CASE i \in 1..n
      <4>1. h[i] = g[i] /\ h[i - 1] = g[i - 1] /\ g[i] = Body(g, i)
        BY <2>1, <3>2
      <4> QED
        BY <3>2, <4>1
    <3>3. CASE i = n + 1
      <4>1. i - 1 = n /\ (n + 1) - 1 = n /\ i # 0 /\ n # n + 1 /\ n \in 0..(n + 1)
        BY <3>3
      <4>2. h[n] = g[n]
        BY <4>1
      <4>3. h[i] = Body(g, n + 1)
        BY <3>3
      <4> HIDE DEF h
      <4> QED
        BY <3>3, <4>1, <4>2, <4>3
    <3> QED
      BY <3>1, <3>2, <3>3
  <2> HIDE DEF h, Run
  <2> QED
    BY <2>2
<1>3. \E g : Run(Len(s), g)
  <2>1. Nat \subseteq P
    <3> HIDE DEF P
    <3> QED
      BY <1>1, <1>2, NatSetInduction
  <2> QED
    BY <2>1
<1> DEFINE f == CHOOSE g : Run(Len(s), g)
<1>4. ViewOf(s) = f[Len(s)]
  BY DEF ViewOf
<1>5. Run(Len(s), f)
  <2> HIDE DEF Run
  <2> QED
    BY <1>3
<1> HIDE DEF f
<1>6. 0 \in 0..Len(s) /\ \A i \in 1..Len(s) : i # 0 /\ i \in 0..Len(s)
  OBVIOUS
<1>7. f[0] = << >>
  BY <1>5, <1>6, Zenon
<1>8. \A i \in 1..Len(s) : f[i] = Body(f, i)
  BY <1>5, <1>6, Zenon
<1> QED
  BY <1>4, <1>7, <1>8

LEMMA CombineLoop ==
    ASSUME NEW T, NEW s \in Seq(T), NEW graphs
    PROVE  \E f : /\ f[0] = EmptyGraph
                  /\ \A i \in 1..Len(s) : f[i] = CombineGraph(f[i - 1], graphs[s[i]])
                  /\ Combine(graphs, s) = f[Len(s)]
<1> DEFINE Body(g, i) == CombineGraph(g[i - 1], graphs[s[i]])
           Run(n, g) == g = [i \in 0..n |-> IF i = 0 THEN EmptyGraph ELSE Body(g, i)]
           P == {n \in Nat : \E g : Run(n, g)}
<1>1. 0 \in P
  <2> DEFINE g == [i \in 0..0 |-> EmptyGraph]
  <2>1. Run(0, g)
    OBVIOUS
  <2> QED
    BY <2>1
<1>2. ASSUME NEW n \in Nat, n \in P
      PROVE  n + 1 \in P
  <2>1. PICK g : Run(n, g)
    BY <1>2
  <2> DEFINE h == [i \in 0..(n + 1) |-> IF i = n + 1 THEN Body(g, n + 1) ELSE g[i]]
  <2>2. Run(n + 1, h)
    <3> SUFFICES ASSUME NEW i \in 0..(n + 1)
                 PROVE  h[i] = IF i = 0 THEN EmptyGraph ELSE Body(h, i)
      OBVIOUS
    <3>1. CASE i = 0
      BY <2>1, <3>1
    <3>2. CASE i \in 1..n
      <4>1. h[i] = g[i] /\ h[i - 1] = g[i - 1] /\ g[i] = Body(g, i)
        BY <2>1, <3>2
      <4> QED
        BY <3>2, <4>1
    <3>3. CASE i = n + 1
      <4>1. i - 1 = n /\ (n + 1) - 1 = n /\ i # 0 /\ n # n + 1 /\ n \in 0..(n + 1)
        BY <3>3
      <4>2. h[n] = g[n]
        BY <4>1
      <4>3. h[i] = Body(g, n + 1)
        BY <3>3
      <4> HIDE DEF h
      <4> QED
        BY <3>3, <4>1, <4>2, <4>3
    <3> QED
      BY <3>1, <3>2, <3>3
  <2> HIDE DEF h, Run
  <2> QED
    BY <2>2
<1>3. \E g : Run(Len(s), g)
  <2>1. Nat \subseteq P
    <3> HIDE DEF P
    <3> QED
      BY <1>1, <1>2, NatSetInduction
  <2> QED
    BY <2>1
<1> DEFINE f == CHOOSE g : Run(Len(s), g)
<1>4. Combine(graphs, s) = f[Len(s)]
  BY DEF Combine, EmptyGraph
<1>5. Run(Len(s), f)
  <2> HIDE DEF Run
  <2> QED
    BY <1>3
<1> HIDE DEF f
<1>6. 0 \in 0..Len(s) /\ \A i \in 1..Len(s) : i # 0 /\ i \in 0..Len(s)
  OBVIOUS
<1>7. f[0] = EmptyGraph
  BY <1>5, <1>6, Zenon
<1>8. \A i \in 1..Len(s) : f[i] = Body(f, i)
  BY <1>5, <1>6, Zenon
<1> QED
  BY <1>4, <1>7, <1>8

-----------------------------------------------------------------------------
(* What the comparisons of the code decide *)

ChannelView == {ChannelInfo(d, capacity) : d \in Directions, capacity \in Option({Capacity})}

LEMMA Timestamps ==
    /\ \A a \in Announcement : a.last_update \in Nat
    /\ \A a, b \in Announcement : a.last_update = b.last_update => a = b
BY GraphUploadAssumption

LEMMA OptionCases ==
    ASSUME NEW S, NEW x \in Option(S)
    PROVE  x = None \/ (x # None /\ Unwrap(x) \in S /\ x = Some(Unwrap(x)))
BY DEF Option, None, Some, Unwrap

LEMMA SomeIs ==
    ASSUME NEW x
    PROVE  Some(x) # None /\ Unwrap(Some(x)) = x
BY DEF None, Some, Unwrap

LEMMA MaxOfTwo ==
    ASSUME NEW a \in Nat, NEW b \in Nat
    PROVE  Max({a, b}) = IF a >= b THEN a ELSE b
<1>1. CASE a >= b
  <2>1. \A y \in {a, b} : a >= y
    BY <1>1
  <2>2. \A x \in {a, b} : (\A y \in {a, b} : x >= y) => x = a
    BY <1>1
  <2> QED
    BY <1>1, <2>1, <2>2 DEF Max
<1>2. CASE ~(a >= b)
  <2>1. \A y \in {a, b} : b >= y
    BY <1>2
  <2>2. \A x \in {a, b} : (\A y \in {a, b} : x >= y) => x = b
    BY <1>2
  <2> QED
    BY <1>2, <2>1, <2>2 DEF Max
<1> QED
  BY <1>1, <1>2

\* a is at least as new as b, both Options.
AtLeast(a, b) == b # None => a # None /\ Unwrap(a).last_update >= Unwrap(b).last_update

LEMMA AtLeastOrder ==
    ASSUME NEW a \in Option(Announcement), NEW b \in Option(Announcement),
           NEW c \in Option(Announcement)
    PROVE  /\ AtLeast(a, a)
           /\ AtLeast(a, b) /\ AtLeast(b, c) => AtLeast(a, c)
           /\ AtLeast(a, b) \/ AtLeast(b, a)
           /\ AtLeast(a, b) /\ AtLeast(b, a) => a = b
<1>1. /\ a # None => Unwrap(a).last_update \in Nat
      /\ b # None => Unwrap(b).last_update \in Nat
      /\ c # None => Unwrap(c).last_update \in Nat
  BY OptionCases, Timestamps
<1>2. ASSUME a # None, b # None, Unwrap(a).last_update = Unwrap(b).last_update
      PROVE  a = b
  BY <1>2, OptionCases, Timestamps
<1>3. AtLeast(a, a)
  BY <1>1 DEF AtLeast
<1>4. AtLeast(a, b) /\ AtLeast(b, c) => AtLeast(a, c)
  BY <1>1 DEF AtLeast
<1>5. AtLeast(a, b) \/ AtLeast(b, a)
  BY <1>1 DEF AtLeast
<1>6. AtLeast(a, b) /\ AtLeast(b, a) => a = b
  BY <1>1, <1>2 DEF AtLeast
<1> QED
  BY <1>3, <1>4, <1>5, <1>6

\* What the comparisons of the code decide.
LEMMA Comparisons ==
    ASSUME NEW own \in Option(Announcement), NEW other \in Option(Announcement)
    PROVE  /\ NodeIsNewer(own, other) <=> ~AtLeast(other, own)
           /\ MergeDirection(own, other) \in {own, other}
           /\ AtLeast(MergeDirection(own, other), own)
           /\ AtLeast(MergeDirection(own, other), other)
<1>1. /\ own # None => Unwrap(own).last_update \in Nat
      /\ other # None => Unwrap(other).last_update \in Nat
  BY OptionCases, Timestamps
<1>2. NodeIsNewer(own, other) <=> ~AtLeast(other, own)
  BY <1>1 DEF NodeIsNewer, AtLeast
<1>3. /\ MergeDirection(own, other) \in {own, other}
      /\ AtLeast(MergeDirection(own, other), own)
      /\ AtLeast(MergeDirection(own, other), other)
  BY <1>1 DEF MergeDirection, AtLeast
<1> QED
  BY <1>2, <1>3

\* The newest of a set of announcements is at least as new as each.
LEMMA NewestIs ==
    ASSUME NEW I \in SUBSET Option(Announcement), NEW x \in I, \A y \in I : AtLeast(x, y)
    PROVE  Newest(I) = x
<1>1. CASE x = None
  <2>1. I \subseteq {None}
    BY <1>1 DEF AtLeast
  <2> QED
    BY <1>1, <2>1 DEF Newest
<1>2. CASE x # None
  <2>1. ~(I \subseteq {None}) /\ x \in I \ {None}
    BY <1>2
  <2>2. \A y \in I \ {None} : Unwrap(x).last_update >= Unwrap(y).last_update
    BY DEF AtLeast
  <2>3. ASSUME NEW z \in I \ {None},
               \A y \in I \ {None} : Unwrap(z).last_update >= Unwrap(y).last_update
        PROVE  z = x
    <3>1. AtLeast(z, x) /\ AtLeast(x, z)
      BY <2>1, <2>3 DEF AtLeast
    <3> QED
      BY <3>1, AtLeastOrder
  <2> DEFINE n == CHOOSE z \in I \ {None} :
                    \A y \in I \ {None} : Unwrap(z).last_update >= Unwrap(y).last_update
  <2>4. n = x
    BY <2>1, <2>2, <2>3
  <2> QED
    BY <2>1, <2>4 DEF Newest
<1> QED
  BY <1>1, <1>2

\* The timestamp of a direction, and timestamps as numbers.
Stamp(d) == IF d = None THEN None ELSE Some(Unwrap(d).last_update)
Rank(t) == IF t = None THEN 0 ELSE Unwrap(t) + 1

LEMMA RankIs ==
    /\ \A t \in Option(Nat) : Rank(t) \in Nat
    /\ \A t, u \in Option(Nat) : Rank(t) = Rank(u) => t = u
<1>1. ASSUME NEW t \in Option(Nat)
      PROVE  t = None \/ (t # None /\ Unwrap(t) \in Nat /\ t = Some(Unwrap(t)))
  BY OptionCases
<1> QED
  BY <1>1 DEF Rank

LEMMA LaterIs ==
    ASSUME NEW t \in Option(Nat), NEW u \in Option(Nat)
    PROVE  /\ LaterOf(t, u) \in Option(Nat)
           /\ Rank(LaterOf(t, u)) = IF Rank(t) >= Rank(u) THEN Rank(t) ELSE Rank(u)
<1>1. t = None \/ (t # None /\ Unwrap(t) \in Nat)
  BY OptionCases
<1>2. u = None \/ (u # None /\ Unwrap(u) \in Nat)
  BY OptionCases
<1>3. CASE t = None \/ u = None
  BY <1>1, <1>2, <1>3 DEF LaterOf, Rank
<1>4. CASE t # None /\ u # None
  <2> DEFINE m == IF Unwrap(t) >= Unwrap(u) THEN Unwrap(t) ELSE Unwrap(u)
  <2>1. Max({Unwrap(t), Unwrap(u)}) = m
    BY <1>1, <1>2, <1>4, MaxOfTwo
  <2>2. LaterOf(t, u) = Some(m)
    BY <1>4, <2>1 DEF LaterOf
  <2>3. m \in Nat
    BY <1>1, <1>2, <1>4
  <2>4. LaterOf(t, u) \in Option(Nat)
    BY <2>2, <2>3 DEF Option
  <2>5. Rank(LaterOf(t, u)) = m + 1
    BY <2>2, SomeIs DEF Rank
  <2> QED
    BY <1>1, <1>2, <1>4, <2>4, <2>5 DEF Rank
<1> QED
  BY <1>3, <1>4

LEMMA StampIs ==
    ASSUME NEW a \in Option(Announcement)
    PROVE  /\ Stamp(a) \in Option(Nat)
           /\ Rank(Stamp(a)) = IF a = None THEN 0 ELSE Unwrap(a).last_update + 1
<1>1. a # None => Unwrap(a).last_update \in Nat
  BY OptionCases, Timestamps
<1>2. Stamp(a) \in Option(Nat)
  BY <1>1 DEF Stamp, Option
<1> QED
  BY <1>2, SomeIs DEF Stamp, Rank

LEMMA MergedStamp ==
    ASSUME NEW a \in Option(Announcement), NEW b \in Option(Announcement)
    PROVE  /\ MergeDirection(a, b) \in Option(Announcement)
           /\ Rank(Stamp(MergeDirection(a, b)))
                = IF Rank(Stamp(a)) >= Rank(Stamp(b)) THEN Rank(Stamp(a)) ELSE Rank(Stamp(b))
<1>1. a # None => Unwrap(a).last_update \in Nat
  BY OptionCases, Timestamps
<1>2. b # None => Unwrap(b).last_update \in Nat
  BY OptionCases, Timestamps
<1>3. MergeDirection(a, b) \in Option(Announcement)
  BY Comparisons
<1>4. Rank(Stamp(a)) = IF a = None THEN 0 ELSE Unwrap(a).last_update + 1
  BY StampIs
<1>5. Rank(Stamp(b)) = IF b = None THEN 0 ELSE Unwrap(b).last_update + 1
  BY StampIs
<1> QED
  BY <1>1, <1>2, <1>3, <1>4, <1>5 DEF MergeDirection

LEMMA MergedUpdate ==
    ASSUME NEW a1 \in Option(Announcement), NEW a2 \in Option(Announcement),
           NEW b1 \in Option(Announcement), NEW b2 \in Option(Announcement)
    PROVE  LaterOf(LaterOf(Stamp(a1), Stamp(a2)), LaterOf(Stamp(b1), Stamp(b2)))
            = LaterOf(Stamp(MergeDirection(a1, b1)), Stamp(MergeDirection(a2, b2)))
<1> DEFINE x1 == Stamp(a1)
           x2 == Stamp(a2)
           y1 == Stamp(b1)
           y2 == Stamp(b2)
           m1 == Stamp(MergeDirection(a1, b1))
           m2 == Stamp(MergeDirection(a2, b2))
<1>1. /\ x1 \in Option(Nat) /\ x2 \in Option(Nat) /\ y1 \in Option(Nat)
      /\ y2 \in Option(Nat)
  BY StampIs
<1>2. m1 \in Option(Nat) /\ m2 \in Option(Nat)
  BY StampIs, MergedStamp
<1>3. Rank(m1) = IF Rank(x1) >= Rank(y1) THEN Rank(x1) ELSE Rank(y1)
  BY MergedStamp
<1>4. Rank(m2) = IF Rank(x2) >= Rank(y2) THEN Rank(x2) ELSE Rank(y2)
  BY MergedStamp
<1> HIDE DEF x1, x2, y1, y2, m1, m2
<1> DEFINE x == LaterOf(x1, x2)
           y == LaterOf(y1, y2)
           l == LaterOf(x, y)
           r == LaterOf(m1, m2)
<1>5. x \in Option(Nat) /\ Rank(x) = IF Rank(x1) >= Rank(x2) THEN Rank(x1) ELSE Rank(x2)
  BY <1>1, LaterIs
<1>6. y \in Option(Nat) /\ Rank(y) = IF Rank(y1) >= Rank(y2) THEN Rank(y1) ELSE Rank(y2)
  BY <1>1, LaterIs
<1>7. r \in Option(Nat) /\ Rank(r) = IF Rank(m1) >= Rank(m2) THEN Rank(m1) ELSE Rank(m2)
  BY <1>2, LaterIs
<1> HIDE DEF x, y, r
<1>8. l \in Option(Nat) /\ Rank(l) = IF Rank(x) >= Rank(y) THEN Rank(x) ELSE Rank(y)
  BY <1>5, <1>6, LaterIs
<1> HIDE DEF l
<1>9. Rank(x1) \in Nat /\ Rank(x2) \in Nat /\ Rank(y1) \in Nat /\ Rank(y2) \in Nat
  BY <1>1, RankIs
<1>10. Rank(l) = Rank(r)
  BY <1>3, <1>4, <1>5, <1>6, <1>7, <1>8, <1>9
<1>11. l = r
  BY <1>7, <1>8, <1>10, RankIs
<1> QED
  BY <1>11 DEF l, r, x, y, x1, x2, y1, y2, m1, m2

\* The channels that uploads carry: as new as the newer direction.
LEMMA ChannelViewIs ==
    ASSUME NEW v
    PROVE  v \in ChannelView <=>
            /\ v = [ last_update |-> LaterOf(Stamp(v.one_to_two), Stamp(v.two_to_one)),
                     capacity_sats |-> v.capacity_sats,
                     one_to_two |-> v.one_to_two, two_to_one |-> v.two_to_one ]
            /\ v.one_to_two \in Option(Announcement) /\ v.two_to_one \in Option(Announcement)
            /\ v.capacity_sats \in Option({Capacity})
<1> DEFINE Shape(w) == [ last_update |-> LaterOf(Stamp(w.one_to_two), Stamp(w.two_to_one)),
                         capacity_sats |-> w.capacity_sats,
                         one_to_two |-> w.one_to_two, two_to_one |-> w.two_to_one ]
<1>1. ASSUME NEW d, NEW k
      PROVE  ChannelInfo(d, k) =
               [ last_update |-> LaterOf(Stamp(d.one_to_two), Stamp(d.two_to_one)),
                 capacity_sats |-> k, one_to_two |-> d.one_to_two, two_to_one |-> d.two_to_one ]
  BY DEF ChannelInfo, Stamp
<1>2. ASSUME v \in ChannelView
      PROVE  /\ v = Shape(v)
             /\ v.one_to_two \in Option(Announcement) /\ v.two_to_one \in Option(Announcement)
             /\ v.capacity_sats \in Option({Capacity})
  <2>1. PICK d \in Directions, k \in Option({Capacity}) : v = ChannelInfo(d, k)
    BY <1>2 DEF ChannelView
  <2>2. d.one_to_two \in Option(Announcement) /\ d.two_to_one \in Option(Announcement)
    BY DEF Directions
  <2>3. v.one_to_two = d.one_to_two /\ v.two_to_one = d.two_to_one /\ v.capacity_sats = k
    BY <1>1, <2>1
  <2> QED
    BY <1>1, <2>1, <2>2, <2>3
<1>3. ASSUME v = Shape(v), v.one_to_two \in Option(Announcement),
             v.two_to_one \in Option(Announcement), v.capacity_sats \in Option({Capacity})
      PROVE  v \in ChannelView
  <2> DEFINE d == [one_to_two |-> v.one_to_two, two_to_one |-> v.two_to_one]
  <2>1. d \in Directions
    BY <1>3 DEF Directions
  <2>2. d.one_to_two = v.one_to_two /\ d.two_to_one = v.two_to_one
    OBVIOUS
  <2> HIDE DEF d
  <2>3. ChannelInfo(d, v.capacity_sats) = Shape(v)
    BY <1>1, <2>2
  <2> HIDE DEF Shape
  <2> QED
    BY <1>3, <2>1, <2>3 DEF ChannelView
<1> HIDE DEF Shape
<1>4. v \in ChannelView <=>
            /\ v = Shape(v)
            /\ v.one_to_two \in Option(Announcement) /\ v.two_to_one \in Option(Announcement)
            /\ v.capacity_sats \in Option({Capacity})
  BY <1>2, <1>3
<1> QED
  BY <1>4 DEF Shape

LEMMA MergedChannel ==
    ASSUME NEW own \in ChannelView, NEW other \in ChannelView
    PROVE  /\ MergeChannel(own, other) \in ChannelView
           /\ MergeChannel(own, other).one_to_two
                = MergeDirection(own.one_to_two, other.one_to_two)
           /\ MergeChannel(own, other).two_to_one
                = MergeDirection(own.two_to_one, other.two_to_one)
           /\ MergeChannel(own, other).capacity_sats # None
                <=> own.capacity_sats # None \/ other.capacity_sats # None
<1> DEFINE m == MergeChannel(own, other)
           one == MergeDirection(own.one_to_two, other.one_to_two)
           two == MergeDirection(own.two_to_one, other.two_to_one)
<1>1. /\ own.one_to_two \in Option(Announcement) /\ own.two_to_one \in Option(Announcement)
      /\ other.one_to_two \in Option(Announcement)
      /\ other.two_to_one \in Option(Announcement)
      /\ own.capacity_sats \in Option({Capacity}) /\ other.capacity_sats \in Option({Capacity})
  BY ChannelViewIs
<1>2. /\ own.last_update = LaterOf(Stamp(own.one_to_two), Stamp(own.two_to_one))
      /\ other.last_update = LaterOf(Stamp(other.one_to_two), Stamp(other.two_to_one))
  <2>1. ASSUME NEW v \in ChannelView
        PROVE  v.last_update = LaterOf(Stamp(v.one_to_two), Stamp(v.two_to_one))
    <3>1. v = [ last_update |-> LaterOf(Stamp(v.one_to_two), Stamp(v.two_to_one)),
                capacity_sats |-> v.capacity_sats,
                one_to_two |-> v.one_to_two, two_to_one |-> v.two_to_one ]
      BY ChannelViewIs
    <3> QED
      BY <3>1
  <2> QED
    BY <2>1
<1>3. LaterOf(own.last_update, other.last_update) = LaterOf(Stamp(one), Stamp(two))
  BY <1>1, <1>2, MergedUpdate
<1>4. one \in Option(Announcement) /\ two \in Option(Announcement)
  BY <1>1, MergedStamp
<1>5. /\ m.one_to_two = one /\ m.two_to_one = two
      /\ m.last_update = LaterOf(own.last_update, other.last_update)
      /\ m = [ last_update |-> m.last_update, capacity_sats |-> m.capacity_sats,
               one_to_two |-> m.one_to_two, two_to_one |-> m.two_to_one ]
  BY DEF MergeChannel
<1>6. /\ m.capacity_sats \in {own.capacity_sats, other.capacity_sats}
      /\ m.capacity_sats # None <=> own.capacity_sats # None \/ other.capacity_sats # None
  BY DEF MergeChannel
<1> HIDE DEF m, one, two
<1>7. m \in ChannelView
  BY <1>1, <1>3, <1>4, <1>5, <1>6, ChannelViewIs
<1> QED
  BY <1>5, <1>6, <1>7 DEF m, one, two

-----------------------------------------------------------------------------
(* First pass: the loops keep the newest information *)

EntryKeys(S) == {e[1] : e \in S}

\* x is the information of some entry for k, and no entry for k has newer.
NewestNode(x, k, S) == <<k, x>> \in S /\ \A e \in S : e[1] = k => AtLeast(x, e[2])

NodesOK(acc, S) ==
    DOMAIN acc = EntryKeys(S) /\ \A k \in DOMAIN acc : NewestNode(acc[k], k, S)

LEMMA InsertNodeOK ==
    ASSUME NEW S \in SUBSET NodeEntry, NEW e \in NodeEntry, NEW acc, NodesOK(acc, S)
    PROVE  NodesOK(InsertNode(acc, e), S \cup {e})
<1> DEFINE k == e[1]
           S2 == S \cup {e}
<1>1. /\ \A y \in S2 : y \in NodeEntry /\ y[2] \in Option(Announcement) /\ y = <<y[1], y[2]>>
      /\ e[2] \in Option(Announcement)
  BY DEF NodeEntry
<1>2. EntryKeys(S2) = EntryKeys(S) \cup {k}
  BY DEF EntryKeys
<1>3. /\ DOMAIN acc = EntryKeys(S)
      /\ \A x \in DOMAIN acc : <<x, acc[x]>> \in S /\ acc[x] \in Option(Announcement)
      /\ \A x \in DOMAIN acc : \A y \in S : y[1] = x => AtLeast(acc[x], y[2])
  <2>1. \A x \in DOMAIN acc : <<x, acc[x]>> \in S
    BY DEF NodesOK, NewestNode
  <2>2. ASSUME NEW x \in DOMAIN acc PROVE acc[x] \in Option(Announcement)
    <3>1. <<x, acc[x]>>[2] \in Option(Announcement)
      BY <1>1, <2>1
    <3> QED
      BY <3>1
  <2> QED
    BY <2>1, <2>2 DEF NodesOK, NewestNode
<1>4. ASSUME NEW x \in DOMAIN acc, x # k
      PROVE  NewestNode(acc[x], x, S2)
  BY <1>3, <1>4 DEF NewestNode
<1>5. CASE k \in DOMAIN acc /\ ~NodeIsNewer(e[2], acc[k])
  <2>1. InsertNode(acc, e) = acc
    BY <1>5 DEF InsertNode
  <2>2. AtLeast(acc[k], e[2])
    BY <1>1, <1>3, <1>5, Comparisons, ZenonT(60)
  <2>3. NewestNode(acc[k], k, S2)
    BY <1>3, <1>5, <2>2 DEF NewestNode
  <2>4. DOMAIN acc = EntryKeys(S2)
    BY <1>2, <1>3, <1>5
  <2> HIDE DEF k, S2
  <2> QED
    BY <1>4, <2>1, <2>3, <2>4 DEF NodesOK, k, S2
<1>6. CASE ~(k \in DOMAIN acc /\ ~NodeIsNewer(e[2], acc[k]))
  <2> DEFINE g == InsertNode(acc, e)
  <2>1. g = Put(acc, k, e[2])
    BY <1>6 DEF InsertNode
  <2>2. /\ DOMAIN g = EntryKeys(S2)
        /\ g[k] = e[2]
        /\ \A x \in DOMAIN acc : x # k => g[x] = acc[x]
    <3> HIDE DEF g, k
    <3>1. DOMAIN g = DOMAIN acc \cup {k}
      BY <2>1 DEF Put
    <3>2. g[k] = e[2] /\ \A x \in DOMAIN acc : x # k => g[x] = acc[x]
      BY <2>1 DEF Put
    <3> QED
      BY <1>2, <1>3, <3>1, <3>2
  <2>3. NewestNode(e[2], k, S2)
    <3>1. <<k, e[2]>> \in S2
      BY <1>1
    <3>2. ASSUME NEW y \in S2, y[1] = k
          PROVE  AtLeast(e[2], y[2])
      <4>1. CASE y = e
        BY <1>1, <4>1, AtLeastOrder
      <4>2. CASE y \in S
        <5>1. k \in DOMAIN acc
          BY <1>3, <3>2, <4>2 DEF EntryKeys
        <5>2. AtLeast(acc[k], y[2]) /\ acc[k] \in Option(Announcement)
          BY <1>3, <3>2, <4>2, <5>1
        <5>3. ~AtLeast(acc[k], e[2])
          BY <1>1, <1>6, <5>1, <5>2, Comparisons
        <5>4. y[2] \in Option(Announcement)
          BY <1>1
        <5>5. AtLeast(e[2], acc[k])
          BY <1>1, <5>2, <5>3, AtLeastOrder
        <5> QED
          BY <1>1, <5>2, <5>4, <5>5, AtLeastOrder
      <4> QED
        BY <4>1, <4>2
    <3> QED
      BY <3>1, <3>2 DEF NewestNode
  <2> HIDE DEF g, k, S2
  <2>4. ASSUME NEW x \in DOMAIN g
        PROVE  NewestNode(g[x], x, S2)
    <3>1. CASE x = k
      BY <2>2, <2>3, <3>1
    <3>2. CASE x # k
      <4>1. x \in DOMAIN acc
        BY <1>2, <1>3, <2>2, <3>2
      <4> QED
        BY <1>4, <2>2, <3>2, <4>1
    <3> QED
      BY <3>1, <3>2
  <2> QED
    BY <2>2, <2>4 DEF NodesOK, g, S2
<1> QED
  BY <1>5, <1>6

\* The first n entries of a list.
FirstOf(s, n) == {s[i] : i \in 1..n}

LEMMA FirstNone ==
    ASSUME NEW s
    PROVE  FirstOf(s, 0) = {}
<1>1. 1..0 = {}
  OBVIOUS
<1> QED
  BY <1>1 DEF FirstOf

LEMMA FirstAll ==
    ASSUME NEW T, NEW s \in Seq(T)
    PROVE  FirstOf(s, Len(s)) = Range(s)
BY DEF FirstOf, Range

LEMMA FirstNext ==
    ASSUME NEW T, NEW s \in Seq(T), NEW n \in Nat, n + 1 <= Len(s)
    PROVE  /\ n <= Len(s) /\ n + 1 \in 1..Len(s) /\ (n + 1) - 1 = n
           /\ s[n + 1] \in T /\ FirstOf(s, n) \subseteq T
           /\ FirstOf(s, n + 1) = FirstOf(s, n) \cup {s[n + 1]}
<1>1. n <= Len(s) /\ n + 1 \in 1..Len(s) /\ (n + 1) - 1 = n
  OBVIOUS
<1>2. 1..(n + 1) = (1..n) \cup {n + 1}
  OBVIOUS
<1>3. FirstOf(s, n + 1) = FirstOf(s, n) \cup {s[n + 1]}
  BY <1>2, Zenon DEF FirstOf
<1>4. s[n + 1] \in T
  BY <1>1
<1>5. \A i \in 1..n : s[i] \in T
  BY <1>1
<1>6. FirstOf(s, n) \subseteq T
  BY <1>5, Zenon DEF FirstOf
<1> QED
  BY <1>1, <1>3, <1>4, <1>6

LEMMA CombineNodesOK ==
    ASSUME NEW s \in Seq(NodeEntry), NEW S \in SUBSET NodeEntry, NEW known, NodesOK(known, S)
    PROVE  NodesOK(CombineNodes(known, s), S \cup Range(s))
<1>1. PICK f : /\ f[0] = known
               /\ \A i \in 1..Len(s) : f[i] = InsertNode(f[i - 1], s[i])
               /\ CombineNodes(known, s) = f[Len(s)]
  BY CombineNodesLoop
<1> DEFINE Upto(n) == S \cup FirstOf(s, n)
           P == {n \in Nat : n <= Len(s) => NodesOK(f[n], Upto(n))}
<1>2. 0 \in P
  <2>1. Upto(0) = S
    BY FirstNone
  <2> QED
    BY <1>1, <2>1
<1>3. ASSUME NEW n \in Nat, n \in P
      PROVE  n + 1 \in P
  <2> SUFFICES ASSUME n + 1 <= Len(s)
               PROVE  NodesOK(f[n + 1], Upto(n + 1))
    OBVIOUS
  <2>1. /\ n <= Len(s) /\ n + 1 \in 1..Len(s) /\ (n + 1) - 1 = n
        /\ s[n + 1] \in NodeEntry /\ Upto(n) \subseteq NodeEntry
        /\ Upto(n + 1) = Upto(n) \cup {s[n + 1]}
    <3>1. /\ n <= Len(s) /\ n + 1 \in 1..Len(s) /\ (n + 1) - 1 = n
          /\ s[n + 1] \in NodeEntry /\ FirstOf(s, n) \subseteq NodeEntry
          /\ FirstOf(s, n + 1) = FirstOf(s, n) \cup {s[n + 1]}
      BY FirstNext
    <3> QED
      BY <3>1
  <2>2. f[n + 1] = InsertNode(f[n], s[n + 1])
    BY <1>1, <2>1
  <2>3. NodesOK(f[n], Upto(n))
    BY <1>3, <2>1
  <2> HIDE DEF Upto
  <2> QED
    BY <2>1, <2>2, <2>3, InsertNodeOK
<1>4. Len(s) \in P
  <2>1. Len(s) \in Nat
    OBVIOUS
  <2> HIDE DEF P
  <2> QED
    BY <1>2, <1>3, <2>1, NatSetInduction
<1>5. NodesOK(f[Len(s)], Upto(Len(s)))
  BY <1>4
<1>6. Upto(Len(s)) = S \cup Range(s)
  BY FirstAll
<1> QED
  BY <1>1, <1>5, <1>6

Sides == {"one_to_two", "two_to_one"}

\* The same for one direction of a channel.
NewestSide(x, k, S, dir) ==
    /\ \E e \in S : e[1] = k /\ x = e[2][dir]
    /\ \A e \in S : e[1] = k => AtLeast(x, e[2][dir])

HasCapacity(k, S) == \E e \in S : e[1] = k /\ e[2].capacity_sats # None

NewestChannel(v, k, S) ==
    /\ v \in ChannelView
    /\ \A dir \in Sides : NewestSide(v[dir], k, S, dir)
    /\ v.capacity_sats # None <=> HasCapacity(k, S)

ChannelsOK(acc, S) ==
    DOMAIN acc = EntryKeys(S) /\ \A k \in DOMAIN acc : NewestChannel(acc[k], k, S)

LEMMA SideType ==
    ASSUME NEW v \in ChannelView, NEW dir \in Sides
    PROVE  v[dir] \in Option(Announcement)
<1>1. v.one_to_two \in Option(Announcement) /\ v.two_to_one \in Option(Announcement)
  BY ChannelViewIs
<1> QED
  BY <1>1 DEF Sides

LEMMA ChannelEntryIs ==
    ASSUME NEW e \in ChannelEntry
    PROVE  e = <<e[1], e[2]>> /\ e[1] \in Channel /\ e[2] \in ChannelView
BY DEF ChannelEntry, ChannelView

LEMMA OtherKey ==
    ASSUME NEW S, NEW e, NEW v, NEW k, e[1] # k, NewestChannel(v, k, S)
    PROVE  NewestChannel(v, k, S \cup {e})
<1>1. ASSUME NEW dir \in Sides
      PROVE  NewestSide(v[dir], k, S \cup {e}, dir)
  <2>1. NewestSide(v[dir], k, S, dir)
    BY DEF NewestChannel
  <2> QED
    BY <2>1 DEF NewestSide
<1>2. HasCapacity(k, S) <=> HasCapacity(k, S \cup {e})
  BY DEF HasCapacity
<1> QED
  BY <1>1, <1>2 DEF NewestChannel

LEMMA FirstOfKey ==
    ASSUME NEW S \in SUBSET ChannelEntry, NEW e \in ChannelEntry, e[1] \notin EntryKeys(S)
    PROVE  NewestChannel(e[2], e[1], S \cup {e})
<1>1. e[2] \in ChannelView
  BY ChannelEntryIs
<1>2. \A y \in S \cup {e} : y[1] = e[1] => y = e
  BY DEF EntryKeys
<1>3. ASSUME NEW dir \in Sides
      PROVE  NewestSide(e[2][dir], e[1], S \cup {e}, dir)
  <2>1. AtLeast(e[2][dir], e[2][dir])
    BY <1>1, SideType, AtLeastOrder
  <2> QED
    BY <1>2, <2>1 DEF NewestSide
<1>4. e[2].capacity_sats # None <=> HasCapacity(e[1], S \cup {e})
  BY <1>2 DEF HasCapacity
<1> QED
  BY <1>1, <1>3, <1>4 DEF NewestChannel

LEMMA MergedSide ==
    ASSUME NEW S \in SUBSET ChannelEntry, NEW e \in ChannelEntry, NEW dir \in Sides,
           NEW x \in Option(Announcement), NewestSide(x, e[1], S, dir)
    PROVE  NewestSide(MergeDirection(x, e[2][dir]), e[1], S \cup {e}, dir)
<1> DEFINE y == e[2][dir]
           m == MergeDirection(x, y)
           k == e[1]
<1>1. y \in Option(Announcement)
  BY ChannelEntryIs, SideType
<1>2. m \in {x, y} /\ AtLeast(m, x) /\ AtLeast(m, y) /\ m \in Option(Announcement)
  BY <1>1, Comparisons
<1>3. \E z \in S \cup {e} : z[1] = k /\ m = z[2][dir]
  <2> HIDE DEF m
  <2> QED
    BY <1>2 DEF NewestSide
<1>4. ASSUME NEW z \in S \cup {e}, z[1] = k
      PROVE  AtLeast(m, z[2][dir])
  <2> HIDE DEF m
  <2>1. CASE z = e
    BY <1>2, <2>1
  <2>2. CASE z \in S
    <3>1. AtLeast(x, z[2][dir])
      BY <1>4, <2>2 DEF NewestSide
    <3>2. z[2][dir] \in Option(Announcement)
      BY <2>2, ChannelEntryIs, SideType
    <3> QED
      BY <1>2, <3>1, <3>2, AtLeastOrder
  <2> QED
    BY <2>1, <2>2
<1> QED
  BY <1>3, <1>4 DEF NewestSide

LEMMA MergedKey ==
    ASSUME NEW S \in SUBSET ChannelEntry, NEW e \in ChannelEntry, NEW v,
           NewestChannel(v, e[1], S)
    PROVE  NewestChannel(MergeChannel(v, e[2]), e[1], S \cup {e})
<1> DEFINE m == MergeChannel(v, e[2])
<1>1. v \in ChannelView /\ e[2] \in ChannelView
  BY ChannelEntryIs DEF NewestChannel
<1>2. /\ m \in ChannelView
      /\ m.one_to_two = MergeDirection(v.one_to_two, e[2].one_to_two)
      /\ m.two_to_one = MergeDirection(v.two_to_one, e[2].two_to_one)
      /\ m.capacity_sats # None <=> v.capacity_sats # None \/ e[2].capacity_sats # None
  BY <1>1, MergedChannel
<1> HIDE DEF m
<1>3. ASSUME NEW dir \in Sides
      PROVE  NewestSide(m[dir], e[1], S \cup {e}, dir)
  <2>1. v[dir] \in Option(Announcement)
    BY <1>1, SideType
  <2>2. NewestSide(v[dir], e[1], S, dir)
    BY DEF NewestChannel
  <2>3. m[dir] = MergeDirection(v[dir], e[2][dir])
    BY <1>2 DEF Sides
  <2> QED
    BY <2>1, <2>2, <2>3, MergedSide
<1>4. v.capacity_sats # None <=> HasCapacity(e[1], S)
  BY DEF NewestChannel
<1>5. m.capacity_sats # None <=> HasCapacity(e[1], S \cup {e})
  BY <1>2, <1>4 DEF HasCapacity
<1> QED
  BY <1>2, <1>3, <1>5 DEF NewestChannel, m

LEMMA InsertChannelOK ==
    ASSUME NEW S \in SUBSET ChannelEntry, NEW e \in ChannelEntry, NEW acc, ChannelsOK(acc, S)
    PROVE  ChannelsOK(InsertChannel(acc, e), S \cup {e})
<1> DEFINE k == e[1]
           S2 == S \cup {e}
           v == IF k \in DOMAIN acc THEN MergeChannel(acc[k], e[2]) ELSE e[2]
           g == InsertChannel(acc, e)
<1>1. EntryKeys(S2) = EntryKeys(S) \cup {k}
  BY DEF EntryKeys
<1>2. DOMAIN acc = EntryKeys(S) /\ \A x \in DOMAIN acc : NewestChannel(acc[x], x, S)
  BY DEF ChannelsOK
<1>3. NewestChannel(v, k, S2)
  <2>1. CASE k \in DOMAIN acc
    BY <1>2, <2>1, MergedKey
  <2>2. CASE k \notin DOMAIN acc
    BY <1>2, <2>2, FirstOfKey
  <2> QED
    BY <2>1, <2>2
<1>4. \A x \in DOMAIN acc : x # k => NewestChannel(acc[x], x, S2)
  BY <1>2, OtherKey
<1>5. g = Put(acc, k, v)
  BY DEF InsertChannel
<1> HIDE DEF k, v, g
<1>6. DOMAIN g = DOMAIN acc \cup {k}
  BY <1>5 DEF Put
<1>7. g[k] = v /\ \A x \in DOMAIN acc : x # k => g[x] = acc[x]
  BY <1>5 DEF Put
<1> HIDE DEF S2
<1>8. ASSUME NEW x \in DOMAIN g
      PROVE  NewestChannel(g[x], x, S2)
  <2>1. CASE x = k
    BY <1>3, <1>7, <2>1
  <2>2. CASE x # k
    BY <1>4, <1>6, <1>7, <2>2
  <2> QED
    BY <2>1, <2>2
<1> QED
  BY <1>1, <1>2, <1>6, <1>8 DEF ChannelsOK, g, S2

LEMMA CombineChannelsOK ==
    ASSUME NEW s \in Seq(ChannelEntry), NEW S \in SUBSET ChannelEntry, NEW known,
           ChannelsOK(known, S)
    PROVE  ChannelsOK(CombineChannels(known, s), S \cup Range(s))
<1>1. PICK f : /\ f[0] = known
               /\ \A i \in 1..Len(s) : f[i] = InsertChannel(f[i - 1], s[i])
               /\ CombineChannels(known, s) = f[Len(s)]
  BY CombineChannelsLoop
<1> DEFINE Upto(n) == S \cup FirstOf(s, n)
           P == {n \in Nat : n <= Len(s) => ChannelsOK(f[n], Upto(n))}
<1>2. 0 \in P
  <2>1. Upto(0) = S
    BY FirstNone
  <2> QED
    BY <1>1, <2>1
<1>3. ASSUME NEW n \in Nat, n \in P
      PROVE  n + 1 \in P
  <2> SUFFICES ASSUME n + 1 <= Len(s)
               PROVE  ChannelsOK(f[n + 1], Upto(n + 1))
    OBVIOUS
  <2>1. /\ n <= Len(s) /\ n + 1 \in 1..Len(s) /\ (n + 1) - 1 = n
        /\ s[n + 1] \in ChannelEntry /\ Upto(n) \subseteq ChannelEntry
        /\ Upto(n + 1) = Upto(n) \cup {s[n + 1]}
    <3>1. /\ n <= Len(s) /\ n + 1 \in 1..Len(s) /\ (n + 1) - 1 = n
          /\ s[n + 1] \in ChannelEntry /\ FirstOf(s, n) \subseteq ChannelEntry
          /\ FirstOf(s, n + 1) = FirstOf(s, n) \cup {s[n + 1]}
      BY FirstNext
    <3> QED
      BY <3>1
  <2>2. f[n + 1] = InsertChannel(f[n], s[n + 1])
    BY <1>1, <2>1
  <2>3. ChannelsOK(f[n], Upto(n))
    BY <1>3, <2>1
  <2> HIDE DEF Upto
  <2> QED
    BY <2>1, <2>2, <2>3, InsertChannelOK
<1>4. Len(s) \in P
  <2>1. Len(s) \in Nat
    OBVIOUS
  <2> HIDE DEF P
  <2> QED
    BY <1>2, <1>3, <2>1, NatSetInduction
<1>5. ChannelsOK(f[Len(s)], Upto(Len(s)))
  BY <1>4
<1>6. Upto(Len(s)) = S \cup Range(s)
  BY FirstAll
<1> QED
  BY <1>1, <1>5, <1>6

\* The entries that some of the collectors posted.
EntriesOf(graphs, collectors, field) == UNION {Range(graphs[c][field]) : c \in collectors}

LEMMA EntriesMore ==
    ASSUME NEW graphs, NEW C, NEW c, NEW field
    PROVE  EntriesOf(graphs, C \cup {c}, field)
            = EntriesOf(graphs, C, field) \cup Range(graphs[c][field])
BY DEF EntriesOf

LEMMA EntriesTypes ==
    ASSUME NEW D, NEW graphs \in [D -> Graph], NEW C \in SUBSET D
    PROVE  /\ EntriesOf(graphs, C, "nodes") \subseteq NodeEntry
           /\ EntriesOf(graphs, C, "channels") \subseteq ChannelEntry
<1>1. ASSUME NEW c \in C
      PROVE  /\ Range(graphs[c]["nodes"]) \subseteq NodeEntry
             /\ Range(graphs[c]["channels"]) \subseteq ChannelEntry
  <2>1. graphs[c] \in Graph
    OBVIOUS
  <2>2. graphs[c].nodes \in Seq(NodeEntry) /\ graphs[c].channels \in Seq(ChannelEntry)
    BY <2>1 DEF Graph
  <2>3. \A T, s : s \in Seq(T) => Range(s) \subseteq T
    BY DEF Range
  <2> QED
    BY <2>2, <2>3
<1>2. EntriesOf(graphs, C, "nodes") \subseteq NodeEntry
  BY <1>1 DEF EntriesOf
<1>3. EntriesOf(graphs, C, "channels") \subseteq ChannelEntry
  BY <1>1 DEF EntriesOf
<1> QED
  BY <1>2, <1>3

LEMMA CombineOK ==
    ASSUME NEW D, IsFiniteSet(D), NEW graphs \in [D -> Graph], NEW order \in SetToSeqs(D)
    PROVE  /\ NodesOK(Combine(graphs, order).nodes, EntriesOf(graphs, D, "nodes"))
           /\ ChannelsOK(Combine(graphs, order).channels, EntriesOf(graphs, D, "channels"))
<1>1. order \in Seq(D) /\ Range(order) = D
  BY Orders
<1>2. PICK f : /\ f[0] = EmptyGraph
               /\ \A i \in 1..Len(order) : f[i] = CombineGraph(f[i - 1], graphs[order[i]])
               /\ Combine(graphs, order) = f[Len(order)]
  BY <1>1, CombineLoop
<1> DEFINE Upto(n) == FirstOf(order, n)
           OK(n) == /\ NodesOK(f[n].nodes, EntriesOf(graphs, Upto(n), "nodes"))
                    /\ ChannelsOK(f[n].channels, EntriesOf(graphs, Upto(n), "channels"))
           P == {n \in Nat : n <= Len(order) => OK(n)}
<1>3. 0 \in P
  <2>1. Upto(0) = {}
    BY FirstNone
  <2>2. EntriesOf(graphs, {}, "nodes") = {} /\ EntriesOf(graphs, {}, "channels") = {}
    BY DEF EntriesOf
  <2>3. EntryKeys({}) = {} /\ DOMAIN << >> = {}
    BY DEF EntryKeys
  <2>4. f[0].nodes = << >> /\ f[0].channels = << >>
    BY <1>2 DEF EmptyGraph
  <2>5. NodesOK(<< >>, {}) /\ ChannelsOK(<< >>, {})
    BY <2>3 DEF NodesOK, ChannelsOK
  <2> QED
    BY <2>1, <2>2, <2>4, <2>5
<1>4. ASSUME NEW n \in Nat, n \in P
      PROVE  n + 1 \in P
  <2> SUFFICES ASSUME n + 1 <= Len(order)
               PROVE  OK(n + 1)
    OBVIOUS
  <2> DEFINE c == order[n + 1]
             known == f[n]
  <2>1. /\ n <= Len(order) /\ n + 1 \in 1..Len(order) /\ (n + 1) - 1 = n
        /\ c \in D /\ Upto(n) \subseteq D
        /\ Upto(n + 1) = Upto(n) \cup {c}
    BY <1>1, FirstNext
  <2>2. f[n + 1] = CombineGraph(known, graphs[c])
    BY <1>2, <2>1
  <2>3. OK(n)
    BY <1>4, <2>1
  <2>4. graphs[c] \in Graph
    BY <2>1
  <2>5. graphs[c].nodes \in Seq(NodeEntry) /\ graphs[c].channels \in Seq(ChannelEntry)
    BY <2>4 DEF Graph
  <2> HIDE DEF c, Upto
  <2>6. /\ EntriesOf(graphs, Upto(n), "nodes") \subseteq NodeEntry
        /\ EntriesOf(graphs, Upto(n), "channels") \subseteq ChannelEntry
    BY <2>1, EntriesTypes
  <2>7. NodesOK(CombineNodes(known.nodes, graphs[c].nodes),
                EntriesOf(graphs, Upto(n), "nodes") \cup Range(graphs[c].nodes))
    BY <2>3, <2>5, <2>6, CombineNodesOK
  <2>8. ChannelsOK(CombineChannels(known.channels, graphs[c].channels),
                   EntriesOf(graphs, Upto(n), "channels") \cup Range(graphs[c].channels))
    BY <2>3, <2>5, <2>6, CombineChannelsOK
  <2>9. /\ f[n + 1].nodes = CombineNodes(known.nodes, graphs[c].nodes)
        /\ f[n + 1].channels = CombineChannels(known.channels, graphs[c].channels)
    BY <2>2 DEF CombineGraph
  <2>10. EntriesOf(graphs, Upto(n + 1), "nodes")
            = EntriesOf(graphs, Upto(n), "nodes") \cup Range(graphs[c].nodes)
    BY <2>1, EntriesMore
  <2>11. EntriesOf(graphs, Upto(n + 1), "channels")
            = EntriesOf(graphs, Upto(n), "channels") \cup Range(graphs[c].channels)
    BY <2>1, EntriesMore
  <2> QED
    BY <2>7, <2>8, <2>9, <2>10, <2>11
<1>5. Len(order) \in P
  <2>1. Len(order) \in Nat
    BY <1>1
  <2> HIDE DEF P
  <2> QED
    BY <1>3, <1>4, <2>1, NatSetInduction
<1>6. OK(Len(order))
  BY <1>1, <1>5
<1>7. Upto(Len(order)) = D
  BY <1>1, FirstAll
<1> QED
  BY <1>2, <1>6, <1>7

-----------------------------------------------------------------------------
(* Second pass: the counts of one collector *)

LEMMA MaxIs ==
    ASSUME NEW S \in SUBSET Nat, NEW m \in S, \A y \in S : m >= y
    PROVE  Max(S) = m
<1>1. \A x \in S : (\A y \in S : x >= y) => x = m
  OBVIOUS
<1> QED
  BY <1>1 DEF Max

\* What a list of entries says last about a key.
LastIn(s, k) == s[Max({i \in DOMAIN s : s[i][1] = k})][2]

\* j is the last of the first n entries for k.
LastAt(s, n, j, k) ==
    j \in 1..n /\ s[j][1] = k /\ \A i \in 1..n : s[i][1] = k => i <= j

ViewUpto(view, s, n) ==
    /\ DOMAIN view = {s[i][1] : i \in 1..n}
    /\ \A k \in DOMAIN view : \E j : LastAt(s, n, j, k) /\ view[k] = s[j][2]

LEMMA ViewNext ==
    ASSUME NEW s, NEW n \in Nat, NEW view, ViewUpto(view, s, n)
    PROVE  ViewUpto(Put(view, s[n + 1][1], s[n + 1][2]), s, n + 1)
<1> DEFINE key == s[n + 1][1]
           val == s[n + 1][2]
           g == Put(view, key, val)
<1>1. 1..(n + 1) = (1..n) \cup {n + 1} /\ n + 1 \notin 1..n
  OBVIOUS
<1>2. {s[i][1] : i \in 1..(n + 1)} = {s[i][1] : i \in 1..n} \cup {key}
  BY <1>1
<1>3. LastAt(s, n + 1, n + 1, key)
  BY DEF LastAt
<1>4. ASSUME NEW k, k # key, NEW j, LastAt(s, n, j, k)
      PROVE  LastAt(s, n + 1, j, k)
  <2> HIDE DEF key
  <2>1. \A i \in 1..(n + 1) : s[i][1] = k => i \in 1..n
    <3>1. s[n + 1][1] = key
      BY DEF key
    <3> QED
      BY <1>1, <1>4, <3>1
  <2>2. j \in 1..(n + 1)
    BY <1>1, <1>4 DEF LastAt
  <2> QED
    BY <1>4, <2>1, <2>2 DEF LastAt
<1>5. val = s[n + 1][2]
  OBVIOUS
<1> HIDE DEF key, val
<1>6. /\ DOMAIN g = DOMAIN view \cup {key}
      /\ g[key] = val
      /\ \A k \in DOMAIN view : k # key => g[k] = view[k]
  BY DEF Put
<1> HIDE DEF g
<1>7. ASSUME NEW k \in DOMAIN g
      PROVE  \E j : LastAt(s, n + 1, j, k) /\ g[k] = s[j][2]
  <2>1. CASE k = key
    BY <1>3, <1>5, <1>6, <2>1
  <2>2. CASE k # key
    <3>1. k \in DOMAIN view /\ g[k] = view[k]
      BY <1>6, <2>2
    <3>2. PICK j : LastAt(s, n, j, k) /\ view[k] = s[j][2]
      BY <3>1 DEF ViewUpto
    <3> QED
      BY <1>4, <2>2, <3>1, <3>2
  <2> QED
    BY <2>1, <2>2
<1>8. DOMAIN g = {s[i][1] : i \in 1..(n + 1)}
  BY <1>2, <1>6 DEF ViewUpto
<1>9. ViewUpto(g, s, n + 1)
  BY <1>7, <1>8 DEF ViewUpto
<1> QED
  BY <1>9 DEF g, key, val

LEMMA ViewNone ==
    ASSUME NEW s
    PROVE  ViewUpto(<< >>, s, 0)
<1>1. 1..0 = {} /\ DOMAIN << >> = {}
  OBVIOUS
<1> QED
  BY <1>1 DEF ViewUpto

\* HashMap::from_iter keeps the last entry of every key.
LEMMA ViewOfLast ==
    ASSUME NEW T, NEW s \in Seq(T)
    PROVE  /\ DOMAIN ViewOf(s) = Keys(s)
           /\ \A k \in Keys(s) : /\ ViewOf(s)[k] = LastIn(s, k)
                                 /\ \E e \in Range(s) : e[1] = k /\ LastIn(s, k) = e[2]
<1>1. PICK f : /\ f[0] = << >>
               /\ \A i \in 1..Len(s) : f[i] = Put(f[i - 1], s[i][1], s[i][2])
               /\ ViewOf(s) = f[Len(s)]
  BY ViewOfLoop
<1> DEFINE P == {n \in Nat : n <= Len(s) => ViewUpto(f[n], s, n)}
<1>2. 0 \in P
  BY <1>1, ViewNone
<1>3. ASSUME NEW n \in Nat, n \in P
      PROVE  n + 1 \in P
  <2> SUFFICES ASSUME n + 1 <= Len(s)
               PROVE  ViewUpto(f[n + 1], s, n + 1)
    OBVIOUS
  <2>1. n + 1 \in 1..Len(s) /\ (n + 1) - 1 = n /\ n <= Len(s)
    OBVIOUS
  <2>2. f[n + 1] = Put(f[n], s[n + 1][1], s[n + 1][2])
    BY <1>1, <2>1
  <2>3. ViewUpto(f[n], s, n)
    BY <1>3, <2>1
  <2> QED
    BY <2>2, <2>3, ViewNext
<1>4. Len(s) \in P
  <2>1. Len(s) \in Nat
    OBVIOUS
  <2> HIDE DEF P
  <2> QED
    BY <1>2, <1>3, <2>1, NatSetInduction
<1> DEFINE view == ViewOf(s)
<1>5. ViewUpto(view, s, Len(s))
  BY <1>1, <1>4
<1> HIDE DEF view
<1>6. DOMAIN s = 1..Len(s)
  OBVIOUS
<1>7. DOMAIN view = Keys(s)
  BY <1>5, <1>6 DEF ViewUpto, Keys, Range
<1>8. ASSUME NEW k \in DOMAIN view
      PROVE  view[k] = LastIn(s, k) /\ \E e \in Range(s) : e[1] = k /\ LastIn(s, k) = e[2]
  <2>1. PICK j : LastAt(s, Len(s), j, k) /\ view[k] = s[j][2]
    BY <1>5 DEF ViewUpto
  <2> DEFINE J == {i \in DOMAIN s : s[i][1] = k}
  <2>2. J \subseteq Nat /\ j \in J /\ \A i \in J : j >= i
    BY <1>6, <2>1 DEF LastAt
  <2>3. Max(J) = j
    <3> HIDE DEF J
    <3> QED
      BY <2>2, MaxIs
  <2>4. LastIn(s, k) = s[j][2]
    BY <2>3 DEF LastIn
  <2>5. s[j] \in Range(s) /\ s[j][1] = k
    BY <2>2 DEF Range
  <2> QED
    BY <2>1, <2>4, <2>5
<1> QED
  BY <1>7, <1>8 DEF view
LEMMA InfoArms ==
    ASSUME NEW x \in Option(Announcement), NEW y \in Option(Announcement), AtLeast(x, y)
    PROVE  /\ InfoArm(x, y) \in {"matching", "missing", "stale"}
           /\ InfoArm(x, y) = "stale" <=> Behind(y, x)
<1>1. CASE x = None
  <2>1. y = None
    BY <1>1 DEF AtLeast
  <2>2. InfoArm(x, y) = "matching"
    BY <1>1, <2>1 DEF InfoArm
  <2>3. ~Behind(y, x)
    BY <2>1 DEF Behind
  <2> QED
    BY <2>2, <2>3
<1>2. CASE x # None /\ y = None
  <2>1. InfoArm(x, y) = "missing"
    BY <1>2 DEF InfoArm
  <2>2. ~Behind(y, x)
    BY <1>2 DEF Behind
  <2> QED
    BY <2>1, <2>2
<1>3. CASE x # None /\ y # None
  <2>1. InfoArm(x, y) = IF SameInfo(Unwrap(x), Unwrap(y)) THEN "matching" ELSE "stale"
    BY <1>3 DEF InfoArm
  <2>2. Unwrap(x) \in Announcement /\ Unwrap(y) \in Announcement
    BY <1>3, OptionCases
  <2>3. Unwrap(x).last_update \in Nat /\ Unwrap(y).last_update \in Nat
    BY <2>2, Timestamps
  <2>4. Unwrap(x).last_update >= Unwrap(y).last_update
    BY <1>3 DEF AtLeast
  <2>5. Unwrap(x).last_update = Unwrap(y).last_update => Unwrap(x) = Unwrap(y)
    BY <2>2, Timestamps
  <2>6. Behind(y, x) <=> ~SameInfo(Unwrap(x), Unwrap(y))
    BY <1>3, <2>3, <2>4, <2>5 DEF Behind, SameInfo
  <2> QED
    BY <2>1, <2>6
<1> QED
  BY <1>1, <1>2, <1>3

LEMMA SplitCount ==
    ASSUME NEW K, IsFiniteSet(K), NEW A, NEW B, A \cup B = K, A \cap B = {}
    PROVE  /\ IsFiniteSet(A) /\ IsFiniteSet(B)
           /\ Cardinality(A) \in Nat /\ Cardinality(B) \in Nat
           /\ Cardinality(A) + Cardinality(B) = Cardinality(K)
<1>1. A \subseteq K /\ B \subseteq K
  OBVIOUS
<1>2. IsFiniteSet(A) /\ IsFiniteSet(B)
  BY <1>1, FS_Subset
<1>3. Cardinality(A) \in Nat /\ Cardinality(B) \in Nat
  BY <1>2, FS_CardinalityType
<1>4. Cardinality(A \cap B) = 0
  BY FS_EmptySet
<1>5. Cardinality(K) = Cardinality(A) + Cardinality(B) - Cardinality(A \cap B)
  BY <1>2, FS_Union
<1> QED
  BY <1>2, <1>3, <1>4, <1>5

\* Every one of K is counted in exactly one arm.
LEMMA ThreeArms ==
    ASSUME NEW K, IsFiniteSet(K), NEW f,
           \A k \in K : f[k] \in {"matching", "missing", "stale"}
    PROVE  /\ Cardinality({k \in K : f[k] = "matching"}) \in Nat
           /\ Cardinality({k \in K : f[k] = "missing"}) \in Nat
           /\ Cardinality({k \in K : f[k] = "stale"}) \in Nat
           /\ Cardinality({k \in K : f[k] = "matching"})
                + Cardinality({k \in K : f[k] = "missing"})
                + Cardinality({k \in K : f[k] = "stale"}) = Cardinality(K)
<1> DEFINE A == {k \in K : f[k] = "matching"}
           B == {k \in K : f[k] = "missing"}
           C == {k \in K : f[k] = "stale"}
<1>1. (A \cup B) \cup C = K
  OBVIOUS
<1>2. (A \cup B) \cap C = {} /\ A \cap B = {}
  OBVIOUS
<1> HIDE DEF A, B, C
<1>3. /\ IsFiniteSet(A \cup B) /\ Cardinality(C) \in Nat
      /\ Cardinality(A \cup B) + Cardinality(C) = Cardinality(K)
  BY <1>1, <1>2, SplitCount
<1>4. /\ Cardinality(A) \in Nat /\ Cardinality(B) \in Nat
      /\ Cardinality(A) + Cardinality(B) = Cardinality(A \cup B)
  BY <1>2, <1>3, SplitCount
<1>5. /\ Cardinality(A) \in Nat /\ Cardinality(B) \in Nat /\ Cardinality(C) \in Nat
      /\ Cardinality(A) + Cardinality(B) + Cardinality(C) = Cardinality(K)
  BY <1>3, <1>4
<1> QED
  BY <1>5 DEF A, B, C

LEMMA KeysAmong ==
    ASSUME NEW s, NEW S, Range(s) \subseteq S
    PROVE  Keys(s) \subseteq EntryKeys(S)
BY DEF Keys, EntryKeys

LEMMA KeysFinite ==
    /\ \A S \in SUBSET NodeEntry : IsFiniteSet(EntryKeys(S))
    /\ \A S \in SUBSET ChannelEntry : IsFiniteSet(EntryKeys(S))
<1>1. IsFiniteSet(Node) /\ IsFiniteSet(Channel)
  BY GraphUploadAssumption
<1>2. ASSUME NEW S \in SUBSET NodeEntry PROVE EntryKeys(S) \subseteq Node
  BY DEF EntryKeys, NodeEntry
<1>3. ASSUME NEW S \in SUBSET ChannelEntry PROVE EntryKeys(S) \subseteq Channel
  BY DEF EntryKeys, ChannelEntry
<1>4. ASSUME NEW S \in SUBSET NodeEntry PROVE IsFiniteSet(EntryKeys(S))
  BY <1>1, <1>2, FS_Subset
<1>5. ASSUME NEW S \in SUBSET ChannelEntry PROVE IsFiniteSet(EntryKeys(S))
  BY <1>1, <1>3, FS_Subset
<1> QED
  BY <1>4, <1>5

LEMMA NodeView ==
    ASSUME NEW S \in SUBSET NodeEntry, NEW s \in Seq(NodeEntry), Range(s) \subseteq S,
           NEW g, NodesOK(g, S), NEW k \in Keys(s)
    PROVE  /\ k \in DOMAIN g /\ ViewOf(s)[k] = LastIn(s, k)
           /\ InfoArm(g[k], ViewOf(s)[k]) \in {"matching", "missing", "stale"}
           /\ InfoArm(g[k], ViewOf(s)[k]) = "stale" <=> Behind(LastIn(s, k), g[k])
<1> DEFINE y == LastIn(s, k)
<1>1. ViewOf(s)[k] = y /\ \E e \in Range(s) : e[1] = k /\ y = e[2]
  BY ViewOfLast
<1>2. PICK e \in S : e[1] = k /\ y = e[2]
  BY <1>1
<1> HIDE DEF y
<1>3. y \in Option(Announcement)
  BY <1>2 DEF NodeEntry
<1>4. k \in DOMAIN g
  BY KeysAmong DEF NodesOK
<1>5. NewestNode(g[k], k, S)
  BY <1>4 DEF NodesOK
<1>6. AtLeast(g[k], y)
  BY <1>2, <1>5 DEF NewestNode
<1>7. g[k] \in Option(Announcement)
  <2>1. <<k, g[k]>> \in NodeEntry
    BY <1>5 DEF NewestNode
  <2> QED
    BY <2>1 DEF NodeEntry
<1>8. /\ InfoArm(g[k], y) \in {"matching", "missing", "stale"}
      /\ InfoArm(g[k], y) = "stale" <=> Behind(y, g[k])
  BY <1>3, <1>6, <1>7, InfoArms
<1> QED
  BY <1>1, <1>4, <1>8 DEF y

LEMMA SideView ==
    ASSUME NEW S \in SUBSET ChannelEntry, NEW s \in Seq(ChannelEntry), Range(s) \subseteq S,
           NEW g, ChannelsOK(g, S), NEW k \in Keys(s), NEW dir \in Sides
    PROVE  /\ k \in DOMAIN g /\ ViewOf(s)[k] = LastIn(s, k)
           /\ InfoArm(g[k][dir], ViewOf(s)[k][dir]) \in {"matching", "missing", "stale"}
           /\ InfoArm(g[k][dir], ViewOf(s)[k][dir]) = "stale"
                <=> Behind(LastIn(s, k)[dir], g[k][dir])
<1> DEFINE y == LastIn(s, k)
<1>1. ViewOf(s)[k] = y /\ \E e \in Range(s) : e[1] = k /\ y = e[2]
  BY ViewOfLast
<1>2. PICK e \in S : e[1] = k /\ y = e[2]
  BY <1>1
<1> HIDE DEF y
<1>3. y \in ChannelView
  BY <1>2, ChannelEntryIs
<1>4. k \in DOMAIN g
  BY KeysAmong DEF ChannelsOK
<1>5. NewestChannel(g[k], k, S)
  BY <1>4 DEF ChannelsOK
<1>6. g[k] \in ChannelView /\ NewestSide(g[k][dir], k, S, dir)
  BY <1>5 DEF NewestChannel
<1>7. AtLeast(g[k][dir], y[dir])
  BY <1>2, <1>6 DEF NewestSide
<1>8. y[dir] \in Option(Announcement) /\ g[k][dir] \in Option(Announcement)
  BY <1>3, <1>6, SideType
<1>9. /\ InfoArm(g[k][dir], y[dir]) \in {"matching", "missing", "stale"}
      /\ InfoArm(g[k][dir], y[dir]) = "stale" <=> Behind(y[dir], g[k][dir])
  BY <1>7, <1>8, InfoArms
<1> QED
  BY <1>1, <1>4, <1>9 DEF y

\* What a collector's last upload is behind on.
BehindNodes(s, g) == {k \in Keys(s) : Behind(LastIn(s, k), g[k])}
BehindSides(s, g) ==
    {p \in Keys(s) \X Sides : Behind(LastIn(s, p[1])[p[2]], g[p[1]][p[2]])}

NodeCountsOK(d, g, s, S) ==
    /\ d.missing_nodes = Cardinality(EntryKeys(S) \ Keys(s))
    /\ d.stale_node_info = Cardinality(BehindNodes(s, g))
    /\ d.known_nodes + d.missing_nodes = Cardinality(EntryKeys(S))
    /\ d.matching_node_info + d.missing_node_info + d.stale_node_info
        = Cardinality(EntryKeys(S))

LEMMA NodeCounts ==
    ASSUME NEW S \in SUBSET NodeEntry, NEW s \in Seq(NodeEntry), Range(s) \subseteq S,
           NEW g, NodesOK(g, S), NEW gc, NEW t, NEW d, d = DiffOf(g, gc, s, t)
    PROVE  NodeCountsOK(d, g, s, S)
<1> DEFINE view == ViewOf(s)
           K == DOMAIN g \cap DOMAIN view
           U == DOMAIN g \ DOMAIN view
           f == [k \in K |-> InfoArm(g[k], view[k])]
           Arm(a) == {k \in K : InfoArm(g[k], view[k]) = a}
<1>1. /\ d.known_nodes = Cardinality(K) /\ d.missing_nodes = Cardinality(U)
      /\ d.matching_node_info = Cardinality(Arm("matching"))
      /\ d.missing_node_info = Cardinality(U) + Cardinality(Arm("missing"))
      /\ d.stale_node_info = Cardinality(Arm("stale"))
  BY DEF DiffOf
<1>2. DOMAIN view = Keys(s)
  BY ViewOfLast
<1>3. DOMAIN g = EntryKeys(S)
  BY DEF NodesOK
<1>4. K = Keys(s)
  BY <1>2, <1>3, KeysAmong
<1>5. IsFiniteSet(EntryKeys(S))
  BY KeysFinite
<1>6. /\ \A k \in K : InfoArm(g[k], view[k]) \in {"matching", "missing", "stale"}
      /\ \A k \in K : InfoArm(g[k], view[k]) = "stale" <=> Behind(LastIn(s, k), g[k])
  BY <1>4, NodeView
<1>7. Arm("stale") = BehindNodes(s, g)
  BY <1>4, <1>6 DEF BehindNodes
<1>8. \A k \in K : f[k] = InfoArm(g[k], view[k])
  OBVIOUS
<1> HIDE DEF f
<1>9. K \cup U = EntryKeys(S) /\ K \cap U = {}
  BY <1>3
<1>10. \A a : Arm(a) = {k \in K : f[k] = a}
  BY <1>8
<1>11. \A k \in K : f[k] \in {"matching", "missing", "stale"}
  BY <1>6, <1>8
<1> HIDE DEF K, U
<1>12. /\ IsFiniteSet(K) /\ Cardinality(K) \in Nat /\ Cardinality(U) \in Nat
       /\ Cardinality(K) + Cardinality(U) = Cardinality(EntryKeys(S))
  BY <1>5, <1>9, SplitCount
<1> DEFINE F(a) == {k \in K : f[k] = a}
<1>13. /\ Cardinality(F("matching")) \in Nat /\ Cardinality(F("missing")) \in Nat
       /\ Cardinality(F("stale")) \in Nat
       /\ Cardinality(F("matching")) + Cardinality(F("missing")) + Cardinality(F("stale"))
            = Cardinality(K)
  BY <1>11, <1>12, ThreeArms
<1>14. Arm("matching") = F("matching") /\ Arm("missing") = F("missing") /\ Arm("stale") = F("stale")
  BY <1>10
<1> HIDE DEF F, Arm
<1>15. d.missing_nodes = Cardinality(EntryKeys(S) \ Keys(s))
  BY <1>1, <1>2, <1>3 DEF U
<1>16. d.stale_node_info = Cardinality(BehindNodes(s, g))
  BY <1>1, <1>7
<1>17. d.known_nodes + d.missing_nodes = Cardinality(EntryKeys(S))
  BY <1>1, <1>12
<1>18. d.matching_node_info + d.missing_node_info + d.stale_node_info
        = Cardinality(EntryKeys(S))
  BY <1>1, <1>12, <1>13, <1>14
<1> QED
  BY <1>15, <1>16, <1>17, <1>18 DEF NodeCountsOK

\* The arms a, b and c have n members together.
SumsTo(a, b, c, n) ==
    /\ Cardinality(a) \in Nat /\ Cardinality(b) \in Nat /\ Cardinality(c) \in Nat
    /\ Cardinality(a) + Cardinality(b) + Cardinality(c) = n

SideArm(g, view, dir, a) ==
    {k \in DOMAIN g \cap DOMAIN view : InfoArm(g[k][dir], view[k][dir]) = a}

\* One direction of every channel the collector knows is counted in one arm.
LEMMA SideCounts ==
    ASSUME NEW S \in SUBSET ChannelEntry, NEW s \in Seq(ChannelEntry), Range(s) \subseteq S,
           NEW g, ChannelsOK(g, S), NEW dir \in Sides
    PROVE  /\ SideArm(g, ViewOf(s), dir, "stale")
                = {k \in Keys(s) : Behind(LastIn(s, k)[dir], g[k][dir])}
           /\ SumsTo(SideArm(g, ViewOf(s), dir, "matching"),
                     SideArm(g, ViewOf(s), dir, "missing"),
                     SideArm(g, ViewOf(s), dir, "stale"), Cardinality(Keys(s)))
<1> DEFINE view == ViewOf(s)
           K == DOMAIN g \cap DOMAIN view
           f == [k \in K |-> InfoArm(g[k][dir], view[k][dir])]
           Arm(a) == SideArm(g, view, dir, a)
           F(a) == {k \in K : f[k] = a}
<1>1. K = Keys(s)
  <2>1. DOMAIN view = Keys(s)
    BY ViewOfLast
  <2>2. DOMAIN g = EntryKeys(S)
    BY DEF ChannelsOK
  <2> QED
    BY <2>1, <2>2, KeysAmong
<1>2. /\ \A k \in K : InfoArm(g[k][dir], view[k][dir]) \in {"matching", "missing", "stale"}
      /\ \A k \in K : InfoArm(g[k][dir], view[k][dir]) = "stale"
                        <=> Behind(LastIn(s, k)[dir], g[k][dir])
  BY <1>1, SideView
<1>3. Arm("stale") = {k \in Keys(s) : Behind(LastIn(s, k)[dir], g[k][dir])}
  BY <1>1, <1>2 DEF SideArm
<1>4. \A k \in K : f[k] = InfoArm(g[k][dir], view[k][dir])
  OBVIOUS
<1> HIDE DEF f
<1>5. \A a : Arm(a) = F(a)
  BY <1>4 DEF SideArm
<1>6. \A k \in K : f[k] \in {"matching", "missing", "stale"}
  BY <1>2, <1>4
<1>7. IsFiniteSet(K)
  BY <1>1, KeysFinite, KeysAmong, FS_Subset
<1> HIDE DEF K
<1>8. /\ Cardinality(F("matching")) \in Nat /\ Cardinality(F("missing")) \in Nat
      /\ Cardinality(F("stale")) \in Nat
      /\ Cardinality(F("matching")) + Cardinality(F("missing")) + Cardinality(F("stale"))
            = Cardinality(K)
  BY <1>6, <1>7, ThreeArms
<1>9. /\ Arm("matching") = F("matching") /\ Arm("missing") = F("missing")
      /\ Arm("stale") = F("stale")
  BY <1>5
<1> HIDE DEF F
<1> QED
  BY <1>1, <1>3, <1>8, <1>9 DEF SumsTo

\* Counting a property of each direction by itself or of the pairs is the same.
LEMMA BothSides ==
    ASSUME NEW K, IsFiniteSet(K), NEW A \in SUBSET K, NEW B \in SUBSET K, NEW Q,
           Q = {p \in K \X Sides : \/ p[2] = "one_to_two" /\ p[1] \in A
                                   \/ p[2] = "two_to_one" /\ p[1] \in B}
    PROVE  Cardinality(Q) = Cardinality(A) + Cardinality(B)
<1> DEFINE X == A \X {"one_to_two"}
           Y == B \X {"two_to_one"}
<1>1. IsFiniteSet(A) /\ IsFiniteSet(B)
  BY FS_Subset
<1>2. \A x : IsFiniteSet({x}) /\ Cardinality({x}) = 1
  BY FS_Singleton
<1>3. Cardinality(A) \in Nat /\ Cardinality(B) \in Nat
  BY <1>1, FS_CardinalityType
<1>4. IsFiniteSet(X) /\ Cardinality(X) = Cardinality(A) * Cardinality({"one_to_two"})
  BY <1>1, <1>2, FS_Product
<1>5. IsFiniteSet(Y) /\ Cardinality(Y) = Cardinality(B) * Cardinality({"two_to_one"})
  BY <1>1, <1>2, FS_Product
<1>6. Cardinality(X) = Cardinality(A) /\ Cardinality(Y) = Cardinality(B)
  <2>1. Cardinality({"one_to_two"}) = 1 /\ Cardinality({"two_to_one"}) = 1
    BY <1>2
  <2>2. \A n \in Nat : n * 1 = n
    OBVIOUS
  <2> HIDE DEF X, Y
  <2>3. Cardinality(X) = Cardinality(A) * 1 /\ Cardinality(Y) = Cardinality(B) * 1
    BY <1>4, <1>5, <2>1
  <2> QED
    BY <1>3, <2>2, <2>3
<1>7. X \cup Y = Q
  BY DEF Sides
<1>8. X \cap Y = {}
  OBVIOUS
<1> HIDE DEF X, Y
<1>9. IsFiniteSet(Q)
  <2>1. IsFiniteSet(X) /\ IsFiniteSet(Y)
    BY <1>4, <1>5
  <2>2. IsFiniteSet(X \cup Y)
    BY <2>1, FS_Union
  <2> QED
    BY <1>7, <2>2
<1>10. Cardinality(X) + Cardinality(Y) = Cardinality(Q)
  BY <1>7, <1>8, <1>9, SplitCount
<1> QED
  BY <1>6, <1>10

ChannelCountsOK(d, g, s, S) ==
    /\ d.missing_channels = Cardinality(EntryKeys(S) \ Keys(s))
    /\ d.stale_channel_direction = Cardinality(BehindSides(s, g))
    /\ d.matching_channel_direction + d.missing_channel_direction
        + d.stale_channel_direction = 2 * d.known_channels

LEMMA ChannelCounts ==
    ASSUME NEW S \in SUBSET ChannelEntry, NEW s \in Seq(ChannelEntry), Range(s) \subseteq S,
           NEW g, ChannelsOK(g, S), NEW gn, NEW t, NEW d, d = DiffOf(gn, g, t, s)
    PROVE  ChannelCountsOK(d, g, s, S)
<1> DEFINE view == ViewOf(s)
           K == Keys(s)
           One(a) == SideArm(g, view, "one_to_two", a)
           Two(a) == SideArm(g, view, "two_to_one", a)
           Q == {p \in K \X Sides : Behind(LastIn(s, p[1])[p[2]], g[p[1]][p[2]])}
<1>1. /\ d.known_channels = Cardinality(DOMAIN g \cap DOMAIN view)
      /\ d.missing_channels = Cardinality(DOMAIN g \ DOMAIN view)
      /\ d.matching_channel_direction = Cardinality(One("matching")) + Cardinality(Two("matching"))
      /\ d.missing_channel_direction = Cardinality(One("missing")) + Cardinality(Two("missing"))
      /\ d.stale_channel_direction = Cardinality(One("stale")) + Cardinality(Two("stale"))
  BY DEF DiffOf, SideArm
<1>2. DOMAIN view = K
  BY ViewOfLast
<1>3. DOMAIN g = EntryKeys(S)
  BY DEF ChannelsOK
<1>4. DOMAIN g \cap DOMAIN view = K
  BY <1>2, <1>3, KeysAmong
<1>5. "one_to_two" \in Sides /\ "two_to_one" \in Sides
  BY DEF Sides
<1>6. /\ One("stale") = {k \in K : Behind(LastIn(s, k)["one_to_two"], g[k]["one_to_two"])}
      /\ SumsTo(One("matching"), One("missing"), One("stale"), Cardinality(K))
  BY <1>5, SideCounts
<1>7. /\ Two("stale") = {k \in K : Behind(LastIn(s, k)["two_to_one"], g[k]["two_to_one"])}
      /\ SumsTo(Two("matching"), Two("missing"), Two("stale"), Cardinality(K))
  BY <1>5, SideCounts
<1>8. IsFiniteSet(K)
  BY KeysFinite, KeysAmong, FS_Subset
<1>9. Q = {p \in K \X Sides : \/ p[2] = "one_to_two" /\ p[1] \in One("stale")
                              \/ p[2] = "two_to_one" /\ p[1] \in Two("stale")}
  BY <1>6, <1>7 DEF Sides
<1>10. One("stale") \subseteq K /\ Two("stale") \subseteq K
  BY <1>6, <1>7
<1> HIDE DEF One, Two, Q, K
<1>11. Cardinality(Q) = Cardinality(One("stale")) + Cardinality(Two("stale"))
  BY <1>8, <1>9, <1>10, BothSides
<1>12. d.missing_channels = Cardinality(EntryKeys(S) \ K)
  BY <1>1, <1>2, <1>3
<1>13. d.stale_channel_direction = Cardinality(Q)
  BY <1>1, <1>11
<1>14. d.matching_channel_direction + d.missing_channel_direction
                + d.stale_channel_direction = 2 * d.known_channels
  <2> DEFINE a1 == Cardinality(One("matching"))
             a2 == Cardinality(One("missing"))
             a3 == Cardinality(One("stale"))
             b1 == Cardinality(Two("matching"))
             b2 == Cardinality(Two("missing"))
             b3 == Cardinality(Two("stale"))
             n == Cardinality(K)
  <2>1. /\ a1 \in Nat /\ a2 \in Nat /\ a3 \in Nat /\ a1 + a2 + a3 = n
        /\ b1 \in Nat /\ b2 \in Nat /\ b3 \in Nat /\ b1 + b2 + b3 = n
    BY <1>6, <1>7 DEF SumsTo
  <2>2. /\ d.matching_channel_direction = a1 + b1 /\ d.missing_channel_direction = a2 + b2
        /\ d.stale_channel_direction = a3 + b3
    BY <1>1
  <2>3. d.known_channels = n
    BY <1>1, <1>4
  <2> HIDE DEF a1, a2, a3, b1, b2, b3, n
  <2>4. (a1 + b1) + (a2 + b2) + (a3 + b3) = 2 * n
    BY <2>1
  <2> QED
    BY <2>2, <2>3, <2>4
<1> QED
  BY <1>12, <1>13, <1>14 DEF Q, K, BehindSides, ChannelCountsOK

-----------------------------------------------------------------------------
(* The report the differ holds *)

\* The report is a FullGraphDiff of the graphs it names, in some order of the HashMap.
ReportOf(graphs, order) ==
    /\ DOMAIN graphs \subseteq Collector /\ graphs \in [DOMAIN graphs -> Graph]
    /\ order \in SetToSeqs(DOMAIN graphs)
    /\ report = compute_graph_differences(graphs, order)

ReportComputed == \E graphs, order : ReportOf(graphs, order)

\* The information that entries have for a key, and that of one direction.
InfosIn(S, k) == {e[2] : e \in {x \in S : x[1] = k}}
SideInfos(I, dir) == {x[dir] : x \in I}

LEMMA ReportParts ==
    ASSUME NEW graphs, NEW order, ReportOf(graphs, order)
    PROVE  LET NS == EntriesOf(graphs, DOMAIN graphs, "nodes")
               CS == EntriesOf(graphs, DOMAIN graphs, "channels")
               g == Combine(graphs, order)
           IN  /\ report.graphs = graphs /\ report.controller_graph = g
               /\ \A c \in DOMAIN graphs :
                    report.diffs[c] = DiffOf(g.nodes, g.channels,
                                             graphs[c].nodes, graphs[c].channels)
               /\ NodesOK(g.nodes, NS) /\ ChannelsOK(g.channels, CS)
               /\ NS \subseteq NodeEntry /\ CS \subseteq ChannelEntry
               /\ AllKeys("nodes") = EntryKeys(NS) /\ AllKeys("channels") = EntryKeys(CS)
               /\ \A k : InfosOf(k, "nodes") = InfosIn(NS, k)
               /\ \A k : InfosOf(k, "channels") = InfosIn(CS, k)
<1> DEFINE D == DOMAIN graphs
           NS == EntriesOf(graphs, D, "nodes")
           CS == EntriesOf(graphs, D, "channels")
           g == Combine(graphs, order)
<1>1. report.graphs = graphs /\ report.controller_graph = g
  BY DEF ReportOf, compute_graph_differences
<1>2. \A c \in D : report.diffs[c] = DiffOf(g.nodes, g.channels,
                                            graphs[c].nodes, graphs[c].channels)
  BY DEF ReportOf, compute_graph_differences
<1>3. IsFiniteSet(D) /\ graphs \in [D -> Graph] /\ order \in SetToSeqs(D)
  BY GraphUploadAssumption, FS_Subset DEF ReportOf
<1>4. NodesOK(g.nodes, NS) /\ ChannelsOK(g.channels, CS)
  BY <1>3, CombineOK
<1>5. NS \subseteq NodeEntry /\ CS \subseteq ChannelEntry
  BY <1>3, EntriesTypes
<1>6. AllKeys("nodes") = EntryKeys(NS) /\ AllKeys("channels") = EntryKeys(CS)
  BY <1>1 DEF AllKeys, KeysOf, Keys, EntriesOf, EntryKeys
<1>7. ASSUME NEW k
      PROVE  /\ InfosOf(k, "nodes") = InfosIn(NS, k)
             /\ InfosOf(k, "channels") = InfosIn(CS, k)
  BY <1>1 DEF InfosOf, EntriesOf, InfosIn
<1> HIDE DEF g, NS, CS
<1> QED
  BY <1>1, <1>2, <1>4, <1>5, <1>6, <1>7 DEF g, NS, CS

\* The newest information the collectors posted is that of the combined graph.
NewestNodes(g, S) == \A n \in DOMAIN g : g[n] = Newest(InfosIn(S, n))
NewestSides(g, S) ==
    \A ch \in DOMAIN g, dir \in Sides : g[ch][dir] = Newest(SideInfos(InfosIn(S, ch), dir))

LEMMA NewestNodeInfo ==
    ASSUME NEW S \in SUBSET NodeEntry, NEW g, NodesOK(g, S)
    PROVE  NewestNodes(g, S)
<1> SUFFICES ASSUME NEW n \in DOMAIN g
             PROVE  Newest(InfosIn(S, n)) = g[n]
  BY DEF NewestNodes
<1> DEFINE I == InfosIn(S, n)
<1>1. NewestNode(g[n], n, S)
  BY DEF NodesOK
<1>2. I \subseteq Option(Announcement)
  BY DEF NodeEntry, InfosIn
<1>3. g[n] \in I
  BY <1>1 DEF NewestNode, InfosIn
<1>4. \A y \in I : AtLeast(g[n], y)
  BY <1>1 DEF NewestNode, InfosIn
<1> QED
  BY <1>2, <1>3, <1>4, NewestIs

LEMMA NewestSideInfo ==
    ASSUME NEW S \in SUBSET ChannelEntry, NEW g, ChannelsOK(g, S)
    PROVE  NewestSides(g, S)
<1> SUFFICES ASSUME NEW ch \in DOMAIN g, NEW dir \in Sides
             PROVE  Newest(SideInfos(InfosIn(S, ch), dir)) = g[ch][dir]
  BY DEF NewestSides
<1> DEFINE I == InfosIn(S, ch)
           J == SideInfos(I, dir)
           v == g[ch]
<1>1. NewestSide(v[dir], ch, S, dir)
  BY DEF ChannelsOK, NewestChannel
<1>2. I \subseteq ChannelView
  BY ChannelEntryIs DEF InfosIn
<1>3. J \subseteq Option(Announcement)
  BY <1>2, SideType DEF SideInfos
<1> HIDE DEF v
<1>4. v[dir] \in J
  BY <1>1 DEF NewestSide, InfosIn, SideInfos
<1>5. \A y \in J : AtLeast(v[dir], y)
  BY <1>1 DEF NewestSide, InfosIn, SideInfos
<1> HIDE DEF J
<1>6. Newest(J) = v[dir]
  BY <1>3, <1>4, <1>5, NewestIs
<1> QED
  BY <1>6 DEF J, v

LEMMA ReportNewest ==
    ASSUME ReportComputed
    PROVE  NewestWins
<1>1. PICK graphs, order : ReportOf(graphs, order)
  BY DEF ReportComputed
<1> DEFINE NS == EntriesOf(graphs, DOMAIN graphs, "nodes")
           CS == EntriesOf(graphs, DOMAIN graphs, "channels")
           g == Combine(graphs, order)
<1>2. /\ report.controller_graph = g
      /\ NodesOK(g.nodes, NS) /\ ChannelsOK(g.channels, CS)
      /\ NS \subseteq NodeEntry /\ CS \subseteq ChannelEntry
      /\ AllKeys("nodes") = EntryKeys(NS) /\ AllKeys("channels") = EntryKeys(CS)
      /\ \A k : InfosOf(k, "nodes") = InfosIn(NS, k)
      /\ \A k : InfosOf(k, "channels") = InfosIn(CS, k)
  BY <1>1, ReportParts
<1> HIDE DEF g, NS, CS
<1>3. ASSUME NEW n \in DOMAIN g.nodes
      PROVE  g.nodes[n] = Newest(InfosOf(n, "nodes"))
  <2>1. NewestNodes(g.nodes, NS)
    BY <1>2, NewestNodeInfo
  <2> QED
    BY <1>2, <2>1 DEF NewestNodes
<1>4. ASSUME NEW ch \in DOMAIN g.channels
      PROVE  LET infos == InfosOf(ch, "channels")
                 merged == g.channels[ch]
                 one == Newest({x.one_to_two : x \in infos})
                 two == Newest({x.two_to_one : x \in infos})
             IN  /\ merged.capacity_sats = IF \E x \in infos : x.capacity_sats # None
                                           THEN Some(Capacity) ELSE None
                 /\ merged = ChannelInfo([one_to_two |-> one, two_to_one |-> two],
                                         merged.capacity_sats)
  <2> DEFINE v == g.channels[ch]
             I == InfosOf(ch, "channels")
  <2>1. NewestChannel(v, ch, CS)
    BY <1>2 DEF ChannelsOK
  <2>2. I = InfosIn(CS, ch)
    BY <1>2
  <2> HIDE DEF I
  <2>3. \A dir \in Sides : Newest(SideInfos(I, dir)) = v[dir]
    <3>1. NewestSides(g.channels, CS)
      BY <1>2, NewestSideInfo
    <3> QED
      BY <2>2, <3>1 DEF NewestSides
  <2> HIDE DEF v
  <2>4. /\ Newest({x.one_to_two : x \in I}) = v.one_to_two
        /\ Newest({x.two_to_one : x \in I}) = v.two_to_one
    BY <2>3 DEF Sides, SideInfos
  <2>5. v \in ChannelView
    BY <2>1 DEF NewestChannel
  <2>6. v = [ last_update |-> LaterOf(Stamp(v.one_to_two), Stamp(v.two_to_one)),
              capacity_sats |-> v.capacity_sats,
              one_to_two |-> v.one_to_two, two_to_one |-> v.two_to_one ]
    BY <2>5, ChannelViewIs
  <2>7. v = ChannelInfo([one_to_two |-> v.one_to_two, two_to_one |-> v.two_to_one],
                        v.capacity_sats)
    BY <2>6 DEF ChannelInfo, Stamp
  <2>8. v.capacity_sats \in Option({Capacity})
    BY <2>5, ChannelViewIs
  <2>9. v.capacity_sats = IF v.capacity_sats # None THEN Some(Capacity) ELSE None
    BY <2>8 DEF Option
  <2>10. v.capacity_sats # None <=> \E x \in I : x.capacity_sats # None
    BY <2>1, <2>2 DEF NewestChannel, HasCapacity, InfosIn
  <2> QED
    BY <2>4, <2>7, <2>9, <2>10 DEF v, I
<1> QED
  BY <1>2, <1>3, <1>4 DEF NewestWins, NodesOK, ChannelsOK

LEMMA ReportCounts ==
    ASSUME ReportComputed
    PROVE  DiffCorrect
<1>1. PICK graphs, order : ReportOf(graphs, order)
  BY DEF ReportComputed
<1> DEFINE NS == EntriesOf(graphs, DOMAIN graphs, "nodes")
           CS == EntriesOf(graphs, DOMAIN graphs, "channels")
           g == Combine(graphs, order)
<1>2. /\ report.graphs = graphs
      /\ \A c \in DOMAIN graphs :
            report.diffs[c] = DiffOf(g.nodes, g.channels, graphs[c].nodes, graphs[c].channels)
      /\ NodesOK(g.nodes, NS) /\ ChannelsOK(g.channels, CS)
      /\ NS \subseteq NodeEntry /\ CS \subseteq ChannelEntry
      /\ AllKeys("nodes") = EntryKeys(NS) /\ AllKeys("channels") = EntryKeys(CS)
      /\ \A k : InfosOf(k, "nodes") = InfosIn(NS, k)
      /\ \A k : InfosOf(k, "channels") = InfosIn(CS, k)
  BY <1>1, ReportParts
<1> SUFFICES ASSUME NEW c \in DOMAIN graphs
             PROVE  LET d == report.diffs[c]
                        behind == {n \in KeysOf(c, "nodes") :
                            Behind(LastPosted(c, n, "nodes"), Newest(InfosOf(n, "nodes")))}
                        behind_dirs == {p \in KeysOf(c, "channels") \X {"one_to_two", "two_to_one"} :
                            Behind(LastPosted(c, p[1], "channels")[p[2]],
                                   Newest({x[p[2]] : x \in InfosOf(p[1], "channels")}))}
                    IN
                    /\ d.missing_nodes = Cardinality(AllKeys("nodes") \ KeysOf(c, "nodes"))
                    /\ d.missing_channels
                        = Cardinality(AllKeys("channels") \ KeysOf(c, "channels"))
                    /\ d.stale_node_info = Cardinality(behind)
                    /\ d.stale_channel_direction = Cardinality(behind_dirs)
                    /\ d.known_nodes + d.missing_nodes = Cardinality(AllKeys("nodes"))
                    /\ d.matching_node_info + d.missing_node_info + d.stale_node_info
                        = Cardinality(AllKeys("nodes"))
                    /\ d.matching_channel_direction + d.missing_channel_direction
                        + d.stale_channel_direction = 2 * d.known_channels
  BY <1>2 DEF DiffCorrect
<1> DEFINE s == graphs[c].nodes
           t == graphs[c].channels
           d == report.diffs[c]
           B1 == BehindNodes(s, g.nodes)
           B2 == BehindSides(t, g.channels)
<1>3. KeysOf(c, "nodes") = Keys(s) /\ KeysOf(c, "channels") = Keys(t)
  BY <1>2 DEF KeysOf
<1>4. \A k : LastPosted(c, k, "nodes") = LastIn(s, k)
  BY <1>2 DEF LastPosted, LastIn
<1>5. \A k : LastPosted(c, k, "channels") = LastIn(t, k)
  BY <1>2 DEF LastPosted, LastIn
<1>6. s \in Seq(NodeEntry) /\ t \in Seq(ChannelEntry)
  <2>1. graphs[c] \in Graph
    BY <1>1 DEF ReportOf
  <2> QED
    BY <2>1 DEF Graph
<1>7. Range(s) \subseteq NS /\ Range(t) \subseteq CS
  BY DEF EntriesOf
<1>8. d = DiffOf(g.nodes, g.channels, s, t)
  BY <1>2
<1> HIDE DEF g, NS, CS, s, t, d
<1> DEFINE gn == g.nodes
           gc == g.channels
<1>9. NS \in SUBSET NodeEntry /\ NodesOK(gn, NS)
  BY <1>2
<1>10. CS \in SUBSET ChannelEntry /\ ChannelsOK(gc, CS)
  BY <1>2
<1>11. d = DiffOf(gn, gc, s, t)
  BY <1>8
<1>12. B1 = BehindNodes(s, gn) /\ B2 = BehindSides(t, gc)
  OBVIOUS
<1> HIDE DEF gn, gc, B1, B2
<1>13. NodeCountsOK(d, gn, s, NS)
  BY <1>6, <1>7, <1>9, <1>11, NodeCounts
<1>14. ChannelCountsOK(d, gc, t, CS)
  BY <1>6, <1>7, <1>10, <1>11, ChannelCounts
<1>15. \A n \in Keys(s) : Newest(InfosOf(n, "nodes")) = gn[n]
  <2>1. \A n \in Keys(s) : n \in DOMAIN gn
    BY <1>7, <1>9, KeysAmong DEF NodesOK
  <2>2. NewestNodes(gn, NS)
    BY <1>9, NewestNodeInfo
  <2> QED
    BY <1>2, <2>1, <2>2 DEF NewestNodes
<1>16. \A ch \in Keys(t), dir \in Sides :
            Newest(SideInfos(InfosOf(ch, "channels"), dir)) = gc[ch][dir]
  <2>1. \A ch \in Keys(t) : ch \in DOMAIN gc
    BY <1>7, <1>10, KeysAmong DEF ChannelsOK
  <2>2. NewestSides(gc, CS)
    BY <1>10, NewestSideInfo
  <2> QED
    BY <1>2, <2>1, <2>2 DEF NewestSides
<1>17. B1 = {n \in KeysOf(c, "nodes") :
                Behind(LastPosted(c, n, "nodes"), Newest(InfosOf(n, "nodes")))}
  BY <1>3, <1>4, <1>15, <1>12 DEF BehindNodes
<1>18. B2 = {p \in KeysOf(c, "channels") \X {"one_to_two", "two_to_one"} :
                Behind(LastPosted(c, p[1], "channels")[p[2]],
                       Newest({x[p[2]] : x \in InfosOf(p[1], "channels")}))}
  <2>1. \A p \in Keys(t) \X Sides : p[1] \in Keys(t) /\ p[2] \in Sides
    OBVIOUS
  <2>2. \A p \in Keys(t) \X Sides :
            Newest({x[p[2]] : x \in InfosOf(p[1], "channels")}) = gc[p[1]][p[2]]
    BY <1>16, <2>1 DEF SideInfos
  <2>3. B2 = {p \in Keys(t) \X Sides :
                Behind(LastPosted(c, p[1], "channels")[p[2]],
                       Newest({x[p[2]] : x \in InfosOf(p[1], "channels")}))}
    <3>1. \A p \in Keys(t) \X Sides :
            Behind(LastIn(t, p[1])[p[2]], gc[p[1]][p[2]])
              <=> Behind(LastPosted(c, p[1], "channels")[p[2]],
                         Newest({x[p[2]] : x \in InfosOf(p[1], "channels")}))
      BY <1>5, <2>2
    <3> QED
      BY <1>12, <3>1 DEF BehindSides
  <2> QED
    BY <1>3, <2>3 DEF Sides
<1> QED
  BY <1>2, <1>3, <1>13, <1>14, <1>17, <1>18, <1>12 DEF d, NodeCountsOK, ChannelCountsOK

LEMMA NoGraphs ==
    /\ DOMAIN << >> \subseteq Collector /\ << >> \in [DOMAIN << >> -> Graph]
    /\ << >> \in SetToSeqs(DOMAIN << >>)
<1>1. DOMAIN << >> = {} /\ Cardinality({}) = 0 /\ 1..0 = {}
  BY FS_EmptySet
<1>2. << >> \in [{} -> Graph] /\ << >> \in [{} -> {}]
  OBVIOUS
<1>3. << >> \in SetToSeqs({})
  BY <1>1, <1>2 DEF SetToSeqs
<1> QED
  BY <1>1, <1>2, <1>3

\* Only a dump computes a report, from the graphs it takes; the steps that drop one
\* leave the default.
LEMMA ReportStep ==
    ASSUME GUIInv, ReportComputed, [GUNext]_guVars
    PROVE  ReportComputed'
<1>1. CASE DifferDump
  <2>1. /\ DOMAIN gossip_graphs \subseteq Collector
        /\ gossip_graphs \in [DOMAIN gossip_graphs -> Graph]
    BY DEF GUIInv, UploadInv, UploadTypes
  <2>2. PICK order \in SetToSeqs(DOMAIN gossip_graphs) :
            report' = compute_graph_differences(gossip_graphs, order)
    BY <1>1 DEF DifferDump
  <2>3. PICK graphs : graphs = gossip_graphs
    OBVIOUS
  <2>4. ReportOf(graphs, order)'
    BY <2>1, <2>2, <2>3 DEF ReportOf
  <2> QED
    BY <2>4 DEF ReportComputed
<1>2. CASE report' = NoReport
  <2>1. ReportOf(<< >>, << >>)'
    BY <1>2, NoGraphs DEF ReportOf, NoReport
  <2> QED
    BY <2>1 DEF ReportComputed
<1>3. CASE report' = report
  BY <1>3 DEF ReportComputed, ReportOf
<1>4. DifferDump \/ report' = NoReport \/ report' = report
  <2>1. ASSUME NEW c \in Collector, LdkStep(c) \/ UploadStep(c)
        PROVE  report' = report
    BY <2>1 DEF LdkStep, ChannelAnnounced, ChannelRemoved, ChannelUpdated, NodeAnnounced, Learns,
                UploadStep, UploadListNodes, UploadListChannels, UploadReadNode,
                UploadReadChannel, PostChunk, PostChunkFails, UploadGivesUp, UploadNothing,
                reportVars
  <2>2. ASSUME DifferStep
        PROVE  DifferDump \/ report' = NoReport \/ report' = report
    BY <2>2 DEF DifferStep, DifferDumpFails, DifferSend, DifferSendFails, DifferDone, DifferStop
  <2>3. ASSUME WriterStep \/ ControllerStop \/ ManagerStop \/ ControllerRestart
        PROVE  report' = NoReport \/ report' = report
    BY <2>3 DEF WriterStep, WriterWrite, WriterStop, ControllerStop, ManagerStop,
                ControllerRestart, reportVars
  <2>4. UNCHANGED guVars => report' = report
    BY DEF guVars, reportVars
  <2> QED
    BY <2>1, <2>2, <2>3, <2>4 DEF GUNext
<1> QED
  BY <1>1, <1>2, <1>3, <1>4

\* The report is always what compute_graph_differences makes of some uploads.
THEOREM ReportsComputed == GUSpec => []ReportComputed
<1>1. GUInit => ReportComputed
  <2>1. GUInit => ReportOf(<< >>, << >>)
    BY NoGraphs DEF GUInit, ReportOf, NoReport
  <2> QED
    BY <2>1 DEF ReportComputed
<1>2. GUIInv /\ ReportComputed /\ [GUNext]_guVars => ReportComputed'
  BY ReportStep
<1> QED
  BY <1>1, <1>2, GUInductive, PTL DEF GUSpec

\* The combined graph has everything anyone posted, and of each node and each
\* direction the newest information, in whatever order the HashMap and the uploads
\* come.
THEOREM ReportsNewest == GUSpec => []NewestWins
<1>1. ReportComputed => NewestWins
  BY ReportNewest
<1> QED
  BY <1>1, ReportsComputed, PTL

\* The counts of every collector are those of the nodes and directions it misses
\* and is behind on, and add up.
THEOREM ReportsCount == GUSpec => []DiffCorrect
<1>1. ReportComputed => DiffCorrect
  BY ReportCounts
<1> QED
  BY <1>1, ReportsComputed, PTL
=============================================================================
