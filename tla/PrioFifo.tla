------------------------------ MODULE PrioFifo ------------------------------
(***************************************************************************)
(* What a priority queue of the kernel promises: the first entry is of the *)
(* best priority and the longest there, and one may leave from anywhere.   *)
(* The run queue also takes a thread back in front of its equals.          *)
(***************************************************************************)
EXTENDS PrioSeq

CONSTANTS Nodes, Prios, Lowest

VARIABLES
    queue,      \* the entries, first to be taken first
    prio        \* the priority each was queued with

fifoVars == <<queue, prio>>

FifoInit == queue = <<>> /\ prio = [p \in Nodes |-> Lowest]

Arrive(p, k) ==
    /\ ~Queued(p, queue)
    /\ prio' = [prio EXCEPT ![p] = k]
    /\ queue' = Enqueue(queue, p, k, prio)

\* Only the run queue has this.
Return(p, k) ==
    /\ ~Queued(p, queue)
    /\ prio' = [prio EXCEPT ![p] = k]
    /\ queue' = EnqueueFirst(queue, p, k, prio)

Depart(p) ==
    /\ Queued(p, queue)
    /\ prio' = [prio EXCEPT ![p] = Lowest]
    /\ queue' = Dequeue(queue, p)

FifoNext ==
    \E p \in Nodes : Depart(p) \/ \E k \in Prios : Arrive(p, k) \/ Return(p, k)

FifoSpec == FifoInit /\ [][FifoNext]_fifoVars
=============================================================================
