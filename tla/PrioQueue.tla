----------------------------- MODULE PrioQueue ------------------------------
(***************************************************************************)
(* The two-dimensional lists of the NK kernel with their hash: the queue   *)
(* of proxies of an object (PrioEnqueue, DequeuePrioProxy, LeaveCrit), the *)
(* run queue (MakeRun, RunqDequeue, KCNextThread) and the owned list of a  *)
(* thread (DoLinkCritMut, UnlinkCritMut) in kcalls.c.  The three are the   *)
(* same structure with other field names, and the code is repeated:        *)
(*                                                                         *)
(*   list --> best priority <--> next priority <--> ...   (prev, next)     *)
(*               |   ^              a ring through the entries of one      *)
(*               ...                priority, oldest on top (up, down)     *)
(*                                                                         *)
(* hash[b] is the first entry along the top whose priority falls in        *)
(* bucket b.  Each operator below is one splice of the pointers.           *)
(***************************************************************************)
EXTENDS PrioSeq

CONSTANTS
    Nodes,      \* proxies, threads or critical sections
    None,       \* NULL
    Prios,      \* the priorities, 0 the best
    Lowest,     \* what an entry that is not queued has (a bound, not used)
    HashScale   \* PRIORITY_LEVELS_HASHSCALE: priorities to a bucket

ASSUME QueueAssumption ==
    /\ None \notin Nodes
    /\ Lowest \in Nat /\ Prios \subseteq 0..Lowest
    /\ HashScale \in Nat \ {0}

VARIABLES
    list,       \* pProxList, pRunnable, pOwnedList
    hash,       \* pProxHash, pHashThread, pOwnedHash
    prev, next, \* pQPrev and pQNext, of the top entry of a priority
    up, down,   \* pQUp and pQDown; down is 0 out of the queue
    prio        \* the priority an entry is queued with

links == <<prev, next, up, down>>
vars == <<list, hash, links, prio>>

Buckets == 0..Lowest \div HashScale
Bucket(k) == k \div HashScale

Clear == [p \in Nodes |-> None]

Init ==
    /\ list = None
    /\ hash = [b \in Buckets |-> None]
    /\ prev = Clear /\ next = Clear /\ up = Clear /\ down = Clear
    /\ prio = [p \in Nodes |-> Lowest]

InQueue(p) == down[p] # None

\* f with f[x] = y, when there is an x.
Set(f, x, y) == IF x = None THEN f ELSE [f EXCEPT ![x] = y]

----------------------------------------------------------------------------
(* Putting an entry in *)

\* Mutant of AsHead: the old head does not learn of its predecessor.
AsHeadUnlinked(p, k) ==
    /\ list' = p
    /\ hash' = [hash EXCEPT ![Bucket(k)] = p]
    /\ next' = [next EXCEPT ![p] = list]
    /\ up' = [up EXCEPT ![p] = p] /\ down' = [down EXCEPT ![p] = p]
    /\ UNCHANGED prev

\* p becomes the head: of an empty queue, or of one it beats.
AsHead(p, k) ==
    /\ list' = p
    /\ hash' = [hash EXCEPT ![Bucket(k)] = p]
    /\ next' = [next EXCEPT ![p] = list]
    /\ prev' = Set(prev, list, p)
    /\ up' = [up EXCEPT ![p] = p] /\ down' = [down EXCEPT ![p] = p]

\* p, better than x which heads their bucket, goes before x.
Before(p, k, x) ==
    /\ hash' = [hash EXCEPT ![Bucket(k)] = p]
    /\ prev' = [prev EXCEPT ![p] = prev[x], ![x] = p]
    /\ next' = [next EXCEPT ![p] = x, ![prev[x]] = p]
    /\ up' = [up EXCEPT ![p] = p] /\ down' = [down EXCEPT ![p] = p]
    /\ UNCHANGED list

\* p goes to the end of the ring of x.
Below(p, k, x) ==
    /\ up' = [up EXCEPT ![p] = up[x], ![x] = p]
    /\ down' = [down EXCEPT ![p] = x, ![up[x]] = p]
    /\ UNCHANGED <<list, hash, prev, next>>

\* p goes between x and its successor, if any.
After(p, k, x) ==
    /\ hash' = [hash EXCEPT ![Bucket(k)] = IF @ = None THEN p ELSE @]
    /\ prev' = [Set(prev, next[x], p) EXCEPT ![p] = x]
    /\ next' = [next EXCEPT ![p] = next[x], ![x] = p]
    /\ up' = [up EXCEPT ![p] = p] /\ down' = [down EXCEPT ![p] = p]
    /\ UNCHANGED list

\* Where the search for priority k starts: its bucket, or the last one before it
\* that is not empty.
Start(k) ==
    LET filled == {b \in 0..Bucket(k) : hash[b] # None}
    IN  hash[CHOOSE b \in filled : \A d \in filled : d <= b]

\* Along the top from x, past every entry better than k (and equal to it).
LastBetter(x, k) ==
    LET walk[y \in Nodes] ==
            IF next[y] # None /\ k > prio[next[y]] THEN walk[next[y]] ELSE y
    IN  walk[x]
LastNotWorse(x, k) ==
    LET walk[y \in Nodes] ==
            IF next[y] # None /\ k >= prio[next[y]] THEN walk[next[y]] ELSE y
    IN  walk[x]

Beats(k) == list \in Nodes => k < prio[list]

\* PrioEnqueue of a fresh proxy.  It stops in front of an equal, unless it starts at one.
PrioEnqueue(p, k) ==
    /\ ~InQueue(p)
    /\ prio' = [prio EXCEPT ![p] = k]
    /\ \/ Beats(k) /\ AsHead(p, k)
       \/ /\ ~Beats(k) /\ k < prio[Start(k)]
          /\ Before(p, k, Start(k))
       \/ /\ ~Beats(k) /\ k >= prio[Start(k)]
          /\ LET x == LastBetter(Start(k), k)
             IN  IF k = prio[x] THEN Below(p, k, x)
                 ELSE IF next[x] # None /\ k = prio[next[x]] THEN Below(p, k, next[x])
                 ELSE After(p, k, x)

\* MakeRun and DoLinkCritMut: the search goes on to the equal itself.
Insert(p, k) ==
    /\ ~InQueue(p)
    /\ prio' = [prio EXCEPT ![p] = k]
    /\ \/ Beats(k) /\ AsHead(p, k)
       \/ /\ ~Beats(k) /\ k < prio[Start(k)]
          /\ Before(p, k, Start(k))
       \/ /\ ~Beats(k) /\ k >= prio[Start(k)]
          /\ LET x == LastNotWorse(Start(k), k)
             IN  IF k = prio[x] THEN Below(p, k, x) ELSE After(p, k, x)

\* p replaces x on top of the ring of x.
OnTop(p, k, x) ==
    /\ hash' = [hash EXCEPT ![Bucket(k)] = IF @ = x THEN p ELSE @]
    /\ next' = [Set(next, prev[x], p) EXCEPT ![p] = next[x], ![x] = None]
    /\ prev' = [Set(prev, next[x], p) EXCEPT ![p] = prev[x], ![x] = None]
    /\ up' = [up EXCEPT ![p] = up[x], ![x] = p]
    /\ down' = [down EXCEPT ![p] = x, ![up[x]] = p]
    /\ UNCHANGED list

\* KCNextThread puts the running thread back when a more urgent one waits: in
\* front of its equals if it has quantum left, else behind them.
PutBack(p, k, expired) ==
    /\ ~InQueue(p) /\ list # None /\ prio[list] < k
    /\ prio' = [prio EXCEPT ![p] = k]
    /\ \/ /\ k < prio[Start(k)]
          /\ Before(p, k, Start(k))
       \/ /\ k >= prio[Start(k)]
          /\ LET x == LastNotWorse(Start(k), k)
             IN  IF k # prio[x] THEN After(p, k, x)
                 ELSE IF expired THEN Below(p, k, x) ELSE OnTop(p, k, x)

\* ... or when its quantum is over and the head is its equal.
PutBackEqual(p) ==
    /\ ~InQueue(p) /\ list # None
    /\ prio' = [prio EXCEPT ![p] = prio[list]]
    /\ Below(p, prio[list], list)

----------------------------------------------------------------------------
(* Taking an entry out *)

\* Mutant of NextInBucket: the successor is taken whatever its bucket.
NextInAnyBucket(p) == next[p]

\* The successor of p along the top, if it is in the bucket of p.
NextInBucket(p) ==
    IF next[p] # None /\ Bucket(prio[next[p]]) = Bucket(prio[p]) THEN next[p] ELSE None

HashWithout(p) ==
    LET b == Bucket(prio[p])
    IN  IF hash[b] # p THEN hash
        ELSE [hash EXCEPT ![b] = IF down[p] # p THEN down[p] ELSE NextInBucket(p)]

IsTop(p) == prev[p] # None \/ p = list

\* p is alone in its ring: its neighbours along the top are joined.
RemoveAlone(p) ==
    /\ list' = IF prev[p] = None THEN next[p] ELSE list
    /\ next' = [Set(next, prev[p], next[p]) EXCEPT ![p] = None]
    /\ prev' = [Set(prev, next[p], prev[p]) EXCEPT ![p] = None]
    /\ up' = [up EXCEPT ![p] = None]
    /\ down' = [down EXCEPT ![p] = None]

\* p leaves a ring; if it was on top, the one below takes its place.
RemoveFromRing(p) ==
    LET d == down[p]
    IN  /\ up' = [up EXCEPT ![d] = up[p], ![p] = None]
        /\ down' = [down EXCEPT ![up[p]] = d, ![p] = None]
        /\ IF IsTop(p)
           THEN /\ list' = IF p = list THEN d ELSE list
                /\ next' = [Set(next, prev[p], d) EXCEPT ![d] = next[p], ![p] = None]
                /\ prev' = [Set(prev, next[p], d) EXCEPT ![d] = prev[p], ![p] = None]
           ELSE UNCHANGED <<list, prev, next>>

\* DequeuePrioProxy, RunqDequeue, UnlinkCritMut; LeaveCrit on the head.  (The fields
\* of an entry that is out are not read again before they are set.)
Remove(p) ==
    /\ InQueue(p)
    /\ prio' = [prio EXCEPT ![p] = Lowest]
    /\ hash' = HashWithout(p)
    /\ IF down[p] = p THEN RemoveAlone(p) ELSE RemoveFromRing(p)

----------------------------------------------------------------------------
\* PrioEnqueue is the insertion of the queues of proxies, Insert that of the run queue
\* and the owned lists, PutBack that of the run queue alone.  A list that mixes
\* them passes through every list of each kind.
Next ==
    \E p \in Nodes :
        \/ Remove(p) \/ PutBackEqual(p)
        \/ \E k \in Prios :
              \/ PrioEnqueue(p, k) \/ Insert(p, k)
              \/ \E expired \in BOOLEAN : PutBack(p, k, expired)

Spec == Init /\ [][Next]_vars

----------------------------------------------------------------------------
(* Properties *)

\* The entry a reader of the lists meets after y: the one below, or from the bottom of a
\* ring the next along the top.
Follow(y) ==
    IF y = None THEN None ELSE IF IsTop(down[y]) THEN next[down[y]] ELSE down[y]

\* The entries in the order the reader meets them.
Entries ==
    LET n == Cardinality({p \in Nodes : InQueue(p)})
        walk[i \in 1..n + 1] == IF i = 1 THEN list ELSE Follow(walk[i - 1])
        met == {i \in 1..n + 1 : walk[i] # None}
    IN  [i \in 1..Cardinality(met) |-> walk[i]]

F == INSTANCE PrioFifo WITH queue <- Entries

\* The pointers are the abstract queue: an event, mutex, semaphore or critical
\* section loses and overtakes no waiter, and the scheduler no thread, whatever
\* the hash says.
ImplementsFifo == F!FifoSpec

\* Every splice is the abstract action of its name: a proxy, or a thread made
\* runnable or out of quantum, goes behind its equals and a preempted thread in
\* front of them; one that leaves disturbs no other.
SplicesMatch ==
    [][\A p \in Nodes :
          /\ Remove(p) => F!Depart(p)
          /\ PutBackEqual(p) => F!Arrive(p, prio'[p])
          /\ \A k \in Prios :
                /\ PrioEnqueue(p, k) \/ Insert(p, k) \/ PutBack(p, k, TRUE) => F!Arrive(p, k)
                /\ PutBack(p, k, FALSE) => F!Return(p, k)]_vars

\* The hash leads each search to the first entry of its bucket, so that it starts
\* neither behind its place nor at an entry that has left.
HashExact ==
    LET q == Entries
    IN  \A b \in Buckets :
            LET inBucket == {i \in DOMAIN q : Bucket(prio[q[i]]) = b}
            IN  IF inBucket = {} THEN hash[b] = None
                ELSE \E i \in inBucket : hash[b] = q[i] /\ \A j \in inBucket : i <= j

\* What DequeuePrioProxy returns: a lone entry without predecessor is the head, and
\* taking it out changes the best priority of the queue.
ReturnsHeadAlone ==
    \A p \in Nodes : InQueue(p) =>
        ((down[p] = p /\ prev[p] = None) <=> HeadAlone(p, Entries, prio))

\* The hash and the links of the top serve their readers.
LinksExact == HashExact /\ ReturnsHeadAlone
=============================================================================
