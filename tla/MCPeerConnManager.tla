------------------------ MODULE MCPeerConnManager ------------------------
(* Small instances of PeerConnManager for TLC. *)
EXTENDS PeerConnManager, TLC

CONSTANTS p1, p2, a1, a2, clear, onion

\* The attempts are interchangeable: no action or property tells one from another.
AttemptSymmetry == Permutations(AttemptId)

\* p1 lists its onion address first; p2 has one clearnet address.
MCAddrs == [p \in Peer |-> IF p = p1 THEN <<onion, clear>> ELSE <<clear>>]

\* p1 answers only on its onion address, p2 never.
MCAlwaysUp == {<<p1, onion>>}
MCAlwaysDown == {<<p1, clear>>, <<p2, clear>>}

\* The list that is posted.
MCPeerLists == {<<p2, p1>>}
==========================================================================
