------------------------------ MODULE PrioSeq -------------------------------
(***************************************************************************)
(* What the kernel's two-dimensional lists mean: a sequence of entries in  *)
(* priority order (0 is the best), first come first served within one      *)
(* priority.  Module PrioQueue has the pointers.                           *)
(***************************************************************************)
EXTENDS Integers, Sequences, FiniteSets

Queued(t, q) == \E i \in DOMAIN q : q[i] = t
Distinct(q)  == \A i, j \in DOMAIN q : q[i] = q[j] => i = j

\* Number of entries of q that an entry of priority p goes behind.
Ahead(q, p, prio) == Cardinality({i \in DOMAIN q : prio[q[i]] <= p})

Enqueue(q, t, p, prio) ==
    LET n == Ahead(q, p, prio)
    IN  [i \in 1..Len(q) + 1 |->
            IF i <= n THEN q[i] ELSE IF i = n + 1 THEN t ELSE q[i - 1]]

\* KCNextThread puts a thread that has quantum left in front of its equals.
EnqueueFirst(q, t, p, prio) ==
    LET n == Cardinality({i \in DOMAIN q : prio[q[i]] < p})
    IN  [i \in 1..Len(q) + 1 |->
            IF i <= n THEN q[i] ELSE IF i = n + 1 THEN t ELSE q[i - 1]]

Dequeue(q, t) ==
    IF ~Queued(t, q) THEN q
    ELSE LET n == CHOOSE i \in DOMAIN q : q[i] = t
         IN  [i \in 1..Len(q) - 1 |-> IF i < n THEN q[i] ELSE q[i + 1]]

\* t is the first of q and the only one of its priority.
HeadAlone(t, q, prio) ==
    Head(q) = t /\ \A i \in 2..Len(q) : prio[q[i]] # prio[t]
=============================================================================
