----------------------------- MODULE ExportLog ------------------------------
(***************************************************************************)
(* What the exporter promises its consumers: messages are queued in the    *)
(* order of arrival, single messages may be discarded (the peer filter),   *)
(* and the front of the queue is appended to the log in batches, full or   *)
(* not: consumers rely on the limit of a batch, not on when one is sent. A *)
(* run of queued messages can vanish only with the end of service.         *)
(***************************************************************************)
EXTENDS Naturals, Sequences

CONSTANTS
    Message,    \* what can be queued
    BatchSize   \* messages appended to the log at a time, at most

VARIABLES log, queue, running

logVars == <<log, queue, running>>

\* The queue without the elements from position i to position j.
Without(i, j) == SubSeq(queue, 1, i - 1) \o SubSeq(queue, j + 1, Len(queue))

Init ==
    /\ log = << >>
    /\ queue = << >>
    /\ running = TRUE

Receive(m) ==
    /\ queue' = Append(queue, m)
    /\ UNCHANGED <<log, running>>

Discard ==
    /\ running
    /\ \E i \in 1..Len(queue) : queue' = Without(i, i)
    /\ UNCHANGED <<log, running>>

Publish(n) ==
    /\ n <= Len(queue)
    /\ log' = log \o SubSeq(queue, 1, n)
    /\ queue' = SubSeq(queue, n + 1, Len(queue))
    /\ UNCHANGED running

EndOfService ==
    /\ running' = FALSE
    /\ \/ queue' = queue
       \/ \E i \in 1..Len(queue) : \E j \in i..Len(queue) : queue' = Without(i, j)
    /\ UNCHANGED log

Next ==
    \/ \E m \in Message : Receive(m)
    \/ Discard
    \/ \E n \in 1..BatchSize : Publish(n)
    \/ EndOfService

Spec == Init /\ [][Next]_logVars
=============================================================================
