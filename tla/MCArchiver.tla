----------------------------- MODULE MCArchiver -----------------------------
(* Small instances of Archiver for TLC. *)
EXTENDS Archiver

CONSTANTS o1, o2, o3, h1, h2

\* o1 and o3 are sightings of the same message.
MCHash == [o \in Observation |-> IF o = o2 THEN h2 ELSE h1]

MCBatch == <<<<o1, o2>>, <<o3>>>>
MCSmallBatch == <<<<o1>>, <<o2>>>>
MCPartialBatch == <<<<o1, o2>>>>

\* One delivery of every batch; or a second one of the first.
MCOnce == [b \in BatchId |-> 1]
MCFirstTwice == [b \in BatchId |-> IF b = 1 THEN 2 ELSE 1]
=============================================================================
