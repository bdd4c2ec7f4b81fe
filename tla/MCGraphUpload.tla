---------------------------- MODULE MCGraphUpload ----------------------------
(* Two nodes with a channel, and one to come. The third announcement repeats the second one's *)
(* data under a newer timestamp. *)
EXTENDS GraphUpload

CONSTANTS c1, c2, n1, n2, k1, k2

MCEnds == (k1 :> {n1, n2}) @@ (k2 :> {n1, n2})
First == [last_update |-> 1, data |-> "a"]
Second == [last_update |-> 2, data |-> "b"]
Third == [last_update |-> 3, data |-> "b"]
MCAnnouncement == {First, Second, Third}
MCUploads == (c1 :> 2) @@ (c2 :> 1)

MCInitGraph ==
    (c1 :> [nodes |-> (n1 :> Some(First)) @@ (n2 :> None),
            channels |-> k1 :> [one_to_two |-> Some(Third), two_to_one |-> None]]) @@
    (c2 :> [nodes |-> (n1 :> Some(Second)) @@ (n2 :> None),
            channels |-> k1 :> [one_to_two |-> Some(First), two_to_one |-> Some(Second)]])
=============================================================================
