------------------------------ MODULE TxQueue ------------------------------
(***************************************************************************)
(* What a series asks of its ring of append IDs: a first-in first-out      *)
(* queue with the append ID of each of its newest samples.  Appends commit *)
(* in any order, so the IDs in the queue are not sorted, and a cleanup     *)
(* stops at the first ID that is not below the bound.                      *)
(***************************************************************************)
EXTENDS Integers, Sequences

CONSTANT AppendIDs    \* the IDs of appends; a low watermark is one of them

VARIABLE queue

QInit == queue = <<>>

Add(id) == queue' = Append(queue, id)

CleanupBelow(bound) ==
  \E n \in 0..Len(queue) :
    /\ \A j \in 1..n : queue[j] < bound
    /\ n < Len(queue) => queue[n + 1] >= bound
    /\ queue' = SubSeq(queue, n + 1, Len(queue))

QNext == \E id \in AppendIDs : Add(id) \/ CleanupBelow(id)

QSpec == QInit /\ [][QNext]_queue
=============================================================================
