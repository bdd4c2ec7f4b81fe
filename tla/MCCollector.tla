---------------------------- MODULE MCCollector -----------------------------
(* A small instance of Collector for TLC. *)
EXTENDS Collector, TLC

CONSTANTS p1, p2, clear

MCAddrs == [p \in Peer |-> <<clear>>]

MCPeerLists == {IF p2 \in Peer THEN <<p1, p2>> ELSE <<p1>>}
=============================================================================
