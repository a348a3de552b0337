-------------------------- MODULE PrioQueueProofs ---------------------------
(***************************************************************************)
(* The pointers of the two-dimensional lists are a queue in the order of   *)
(* the priorities, first come first served, and the hash leads to the      *)
(* first entry of each of its buckets: proofs for any number of entries,   *)
(* any priorities and any scale of the hash.                               *)
(***************************************************************************)
EXTENDS PrioQueue, PrioSeqProofs

-----------------------------------------------------------------------------
(* The order of the entries of a queue *)

\* Two entries of a queue come one before the other.
LEMMA TotalOrder ==
    ASSUME NEW q \in Seq(Nodes), Distinct(q)
    PROVE  /\ \A u, v : Earlier(u, v, q) =>
                 Queued(u, q) /\ Queued(v, q) /\ u # v /\ ~Earlier(v, u, q)
           /\ \A u, v, w : Earlier(u, v, q) /\ Earlier(v, w, q) => Earlier(u, w, q)
           /\ \A u, v : Queued(u, q) /\ Queued(v, q) /\ u # v =>
                 Earlier(u, v, q) \/ Earlier(v, u, q)
           /\ \A u : Queued(u, q) => u \in Nodes
<1>1. Len(q) \in Nat /\ DOMAIN q = 1..Len(q) /\ \A i \in 1..Len(q) : q[i] \in Nodes
  BY LenProperties, ElementOfSeq
<1>2. \A i, j \in 1..Len(q) : q[i] = q[j] => i = j
  BY <1>1 DEF Distinct
<1>3. ASSUME NEW u, NEW v, Earlier(u, v, q)
      PROVE  Queued(u, q) /\ Queued(v, q) /\ u # v /\ ~Earlier(v, u, q)
  BY <1>1, <1>2, <1>3 DEF Earlier, Queued
<1>4. ASSUME NEW u, NEW v, NEW w, Earlier(u, v, q), Earlier(v, w, q)
      PROVE  Earlier(u, w, q)
  BY <1>1, <1>2, <1>4 DEF Earlier
<1>5. ASSUME NEW u, NEW v, Queued(u, q), Queued(v, q), u # v
      PROVE  Earlier(u, v, q) \/ Earlier(v, u, q)
  BY <1>1, <1>5 DEF Earlier, Queued
<1> QED
  BY <1>1, <1>3, <1>4, <1>5 DEF Queued

\* r is q with p put in behind the entries that are in A, and r is q without p.
Joins(r, q, p, A) ==
    /\ r \in Seq(Nodes) /\ Distinct(r)
    /\ \A u : Queued(u, r) <=> u = p \/ Queued(u, q)
    /\ \A u, v : Earlier(u, v, r) <=>
          \/ Earlier(u, v, q)
          \/ v = p /\ Queued(u, q) /\ u \in A
          \/ u = p /\ Queued(v, q) /\ v \notin A
Leaves(r, q, p) ==
    /\ r \in Seq(Nodes) /\ Distinct(r)
    /\ \A u : Queued(u, r) <=> u # p /\ Queued(u, q)
    /\ \A u, v : Earlier(u, v, r) <=> u # p /\ v # p /\ Earlier(u, v, q)

\* What is inserted behind the first n entries.
LEMMA InsertJoins ==
    ASSUME NEW q \in Seq(Nodes), Distinct(q), NEW p \in Nodes, ~Queued(p, q),
           NEW n \in 0..Len(q), NEW A,
           \A i \in 1..n : q[i] \in A, \A i \in n + 1..Len(q) : q[i] \notin A
    PROVE  Joins(InsertAt(q, p, n), q, p, A)
<1> DEFINE r == InsertAt(q, p, n)
<1>1. r \in Seq(Nodes) /\ Distinct(r) /\ \A u : Queued(u, r) <=> u = p \/ Queued(u, q)
  BY Inserted
<1>2. Len(q) \in Nat /\ DOMAIN q = 1..Len(q) /\ n \in Nat /\ n <= Len(q)
  BY LenProperties
<1>3. /\ DOMAIN r = 1..Len(q) + 1 /\ r[n + 1] = p
      /\ \A i \in 1..Len(q) : i <= n => r[i] = q[i]
      /\ \A i \in 1..Len(q) : i > n => r[i + 1] = q[i]
  BY <1>2 DEF InsertAt
<1>4. \A u, v : Earlier(u, v, r) =>
         \/ Earlier(u, v, q)
         \/ v = p /\ Queued(u, q) /\ u \in A
         \/ u = p /\ Queued(v, q) /\ v \notin A
  <2> SUFFICES ASSUME NEW u, NEW v, Earlier(u, v, r)
               PROVE  \/ Earlier(u, v, q)
                      \/ v = p /\ Queued(u, q) /\ u \in A
                      \/ u = p /\ Queued(v, q) /\ v \notin A
    OBVIOUS
  <2>1. \/ Earlier(u, v, q)
        \/ v = p /\ \E i \in 1..n : q[i] = u
        \/ u = p /\ \E i \in n + 1..Len(q) : q[i] = v
    BY InsertBefore
  <2> QED
    BY <1>2, <2>1 DEF Queued
<1> HIDE DEF r
<1>5. ASSUME NEW u, NEW v, Earlier(u, v, q) PROVE Earlier(u, v, r)
  <2>1. PICK i, j \in 1..Len(q) : i < j /\ q[i] = u /\ q[j] = v
    BY <1>2, <1>5 DEF Earlier
  <2> DEFINE x == IF i <= n THEN i ELSE i + 1
             y == IF j <= n THEN j ELSE j + 1
  <2>2. x \in 1..Len(q) + 1 /\ y \in 1..Len(q) + 1 /\ x < y
    BY <1>2, <2>1
  <2>3. r[x] = u /\ r[y] = v
    BY <1>2, <1>3, <2>1
  <2> HIDE DEF x, y
  <2> QED
    BY <1>3, <2>2, <2>3 DEF Earlier
<1>6. ASSUME NEW u, Queued(u, q), u \in A PROVE Earlier(u, p, r)
  <2>1. PICK i \in 1..Len(q) : q[i] = u
    BY <1>2, <1>6 DEF Queued
  <2>2. i <= n
    BY <1>2, <1>6, <2>1
  <2>3. i \in 1..Len(q) + 1 /\ n + 1 \in 1..Len(q) + 1 /\ i < n + 1
    BY <1>2, <2>2
  <2> QED
    BY <1>3, <2>1, <2>2, <2>3 DEF Earlier
<1>7. ASSUME NEW v, Queued(v, q), v \notin A PROVE Earlier(p, v, r)
  <2>1. PICK i \in 1..Len(q) : q[i] = v
    BY <1>2, <1>7 DEF Queued
  <2>2. i > n
    BY <1>2, <1>7, <2>1
  <2>3. i + 1 \in 1..Len(q) + 1 /\ n + 1 \in 1..Len(q) + 1 /\ n + 1 < i + 1
    BY <1>2, <2>2
  <2> QED
    BY <1>3, <2>1, <2>2, <2>3 DEF Earlier
<1>8. Joins(r, q, p, A)
  BY <1>1, <1>4, <1>5, <1>6, <1>7 DEF Joins
<1> QED
  BY <1>8 DEF r

\* Enqueue puts its entry behind those that are not less urgent,
LEMMA EnqueueJoins ==
    ASSUME NEW q \in Seq(Nodes), Distinct(q), NEW p \in Nodes, ~Queued(p, q),
           NEW f \in [Nodes -> Int], Ordered(q, f), NEW k \in Int
    PROVE  Joins(Enqueue(q, p, k, f), q, p, {u \in Nodes : f[u] <= k})
<1>1. PICK n \in 0..Len(q) :
         /\ Enqueue(q, p, k, f) = InsertAt(q, p, n)
         /\ \A i \in 1..n : f[q[i]] <= k
         /\ \A i \in n + 1..Len(q) : k < f[q[i]]
  BY EnqueueAt
<1>2. Len(q) \in Nat /\ \A i \in 1..Len(q) : q[i] \in Nodes /\ f[q[i]] \in Int
  BY LenProperties, ElementOfSeq
<1> DEFINE A == {u \in Nodes : f[u] <= k}
<1>3. \A i \in 1..n : q[i] \in A
  BY <1>1, <1>2
<1>4. \A i \in n + 1..Len(q) : q[i] \notin A
  BY <1>1, <1>2
<1> HIDE DEF A
<1>5. Joins(InsertAt(q, p, n), q, p, A)
  BY <1>3, <1>4, InsertJoins
<1> QED
  BY <1>1, <1>5 DEF A

\* and EnqueueFirst behind those that are more urgent.
LEMMA EnqueueFirstJoins ==
    ASSUME NEW q \in Seq(Nodes), Distinct(q), NEW p \in Nodes, ~Queued(p, q),
           NEW f \in [Nodes -> Int], Ordered(q, f), NEW k \in Int
    PROVE  Joins(EnqueueFirst(q, p, k, f), q, p, {u \in Nodes : f[u] < k})
<1> DEFINE n == Cardinality({i \in DOMAIN q : f[q[i]] < k})
<1>1. /\ n \in 0..Len(q)
      /\ \A i \in 1..n : f[q[i]] < k
      /\ \A i \in n + 1..Len(q) : k <= f[q[i]]
  BY BehindFirst
<1>2. EnqueueFirst(q, p, k, f) = InsertAt(q, p, n)
  BY DEF EnqueueFirst, InsertAt
<1>3. Len(q) \in Nat /\ \A i \in 1..Len(q) : q[i] \in Nodes /\ f[q[i]] \in Int
  BY LenProperties, ElementOfSeq
<1> HIDE DEF n
<1> DEFINE A == {u \in Nodes : f[u] < k}
<1>4. \A i \in 1..n : q[i] \in A
  BY <1>1, <1>3
<1>5. \A i \in n + 1..Len(q) : q[i] \notin A
  BY <1>1, <1>3
<1> HIDE DEF A
<1>6. Joins(InsertAt(q, p, n), q, p, A)
  BY <1>1, <1>4, <1>5, InsertJoins
<1> QED
  BY <1>2, <1>6 DEF A

\* Dequeue takes its entry out and leaves the order of the others.
LEMMA DequeueLeaves ==
    ASSUME NEW q \in Seq(Nodes), Distinct(q), NEW p, Queued(p, q)
    PROVE  Leaves(Dequeue(q, p), q, p)
<1> DEFINE r == Dequeue(q, p)
           n == CHOOSE i \in DOMAIN q : q[i] = p
<1>1. r \in Seq(Nodes) /\ Distinct(r) /\ \A u : Queued(u, r) <=> u # p /\ Queued(u, q)
  BY DequeueTakes
<1>2. Len(q) \in Nat /\ DOMAIN q = 1..Len(q) /\ n \in 1..Len(q) /\ q[n] = p
  BY LenProperties DEF Queued
<1>3. r = [i \in 1..Len(q) - 1 |-> IF i < n THEN q[i] ELSE q[i + 1]]
  BY DEF Dequeue
<1>4. \A u, v : Earlier(u, v, r) => Earlier(u, v, q)
  BY DequeueBefore
<1>5. \A u, v : Earlier(u, v, r) => Queued(u, r) /\ Queued(v, r)
  BY <1>1, TotalOrder
<1> HIDE DEF n, r
<1>6. ASSUME NEW u, NEW v, u # p, v # p, Earlier(u, v, q) PROVE Earlier(u, v, r)
  <2>1. PICK i, j \in 1..Len(q) : i < j /\ q[i] = u /\ q[j] = v
    BY <1>2, <1>6 DEF Earlier
  <2>2. i # n /\ j # n
    BY <1>2, <1>6, <2>1
  <2> DEFINE x == IF i < n THEN i ELSE i - 1
             y == IF j < n THEN j ELSE j - 1
  <2>3. x \in 1..Len(q) - 1 /\ y \in 1..Len(q) - 1 /\ x < y
    BY <1>2, <2>1, <2>2
  <2>4. r[x] = u /\ r[y] = v
    <3>1. x < n <=> i < n
      BY <1>2, <2>1, <2>2
    <3>2. y < n <=> j < n
      BY <1>2, <2>1, <2>2
    <3>3. i < n => x = i
      OBVIOUS
    <3>4. ~(i < n) => x + 1 = i
      BY <1>2, <2>1
    <3>5. j < n => y = j
      OBVIOUS
    <3>6. ~(j < n) => y + 1 = j
      BY <1>2, <2>1
    <3> HIDE DEF x, y
    <3> QED
      BY <1>3, <2>1, <2>3, <3>1, <3>2, <3>3, <3>4, <3>5, <3>6
  <2>5. DOMAIN r = 1..Len(q) - 1
    BY <1>3
  <2> HIDE DEF x, y
  <2> QED
    BY <2>3, <2>4, <2>5 DEF Earlier
<1>7. Leaves(r, q, p)
  BY <1>1, <1>4, <1>5, <1>6 DEF Leaves
<1> QED
  BY <1>7 DEF r

-----------------------------------------------------------------------------
(* The queue the pointers are *)

\* u is the first, or the last, of its priority in the queue q.
TopOf(u, q) == Queued(u, q) /\ \A v \in Nodes : Earlier(v, u, q) => prio[v] < prio[u]
BottomOf(u, q) == Queued(u, q) /\ \A v \in Nodes : Earlier(u, v, q) => prio[u] < prio[v]

\* v comes right after u in q.
Adjacent(u, v, q) ==
    Earlier(u, v, q) /\ \A w \in Nodes : ~(Earlier(u, w, q) /\ Earlier(w, v, q))

\* No entry of q has a priority between those of u and v.
Gap(u, v, q) == \A w \in Nodes : Queued(w, q) => ~(prio[u] < prio[w] /\ prio[w] < prio[v])

QueueOK(q) ==
    /\ q \in Seq(Nodes) /\ Distinct(q) /\ prio \in [Nodes -> 0..Lowest]
    /\ \A u \in Nodes : IF Queued(u, q) THEN prio[u] \in Prios ELSE prio[u] = Lowest
    /\ \A u, v \in Nodes : Earlier(u, v, q) => prio[u] <= prio[v]

\* Each priority is a ring.
RingsOK(q) ==
    /\ up \in [Nodes -> Nodes \cup {None}] /\ down \in [Nodes -> Nodes \cup {None}]
    /\ \A u \in Nodes : ~Queued(u, q) => up[u] = None /\ down[u] = None
    /\ \A u \in Nodes : Queued(u, q) =>
          /\ Queued(up[u], q) /\ down[up[u]] = u
          /\ Queued(down[u], q) /\ up[down[u]] = u
          /\ prio[down[u]] = prio[u]
          /\ \/ Adjacent(u, down[u], q)
             \/ BottomOf(u, q) /\ TopOf(down[u], q)

\* The tops of the rings are a list.
TopsOK(q) ==
    /\ list \in Nodes \cup {None}
    /\ next \in [Nodes -> Nodes \cup {None}] /\ prev \in [Nodes -> Nodes \cup {None}]
    /\ list = None => \A u \in Nodes : ~Queued(u, q)
    /\ list # None => /\ TopOf(list, q) /\ prev[list] = None
                      /\ \A u \in Nodes : Queued(u, q) => prio[list] <= prio[u]
    /\ \A u \in Nodes : next[u] # None =>
          /\ TopOf(u, q) /\ TopOf(next[u], q) /\ prev[next[u]] = u
          /\ prio[u] < prio[next[u]] /\ Gap(u, next[u], q)
    /\ \A u \in Nodes : prev[u] # None => next[prev[u]] = u
    /\ \A u \in Nodes : TopOf(u, q) =>
          /\ next[u] = None => \A v \in Nodes : Queued(v, q) => prio[v] <= prio[u]
          /\ prev[u] = None => u = list

\* The hash has the first of each bucket.
HashOK(q) ==
    /\ hash \in [Buckets -> Nodes \cup {None}]
    /\ \A b \in Buckets : hash[b] = None =>
          \A u \in Nodes : Queued(u, q) => Bucket(prio[u]) # b
    /\ \A b \in Buckets : hash[b] # None =>
          /\ Queued(hash[b], q) /\ Bucket(prio[hash[b]]) = b
          /\ \A u \in Nodes : Queued(u, q) /\ Bucket(prio[u]) = b =>
                u = hash[b] \/ Earlier(hash[b], u, q)

LinkedAs(q) == QueueOK(q) /\ RingsOK(q) /\ TopsOK(q) /\ HashOK(q)

-----------------------------------------------------------------------------
(* An entry that joins *)

\* The buckets of the priorities are in the order of the priorities.
LEMMA BucketOrder ==
    /\ \A k \in 0..Lowest : Bucket(k) \in Buckets /\ Bucket(k) \in Nat
    /\ \A k, l \in 0..Lowest : k <= l => Bucket(k) <= Bucket(l)
<1>1. ASSUME NEW k \in 0..Lowest, NEW l \in 0..Lowest, k <= l
      PROVE  /\ k \div HashScale \in Nat /\ l \div HashScale \in Nat
             /\ k \div HashScale <= l \div HashScale
  BY <1>1, QueueAssumption
<1>2. Lowest \in 0..Lowest /\ Lowest \div HashScale \in Nat
  BY QueueAssumption
<1>3. \A k \in 0..Lowest : k <= Lowest
  BY QueueAssumption
<1>4. ASSUME NEW k \in 0..Lowest
      PROVE  k \div HashScale \in Nat /\ k \div HashScale <= Lowest \div HashScale
  BY <1>1, <1>2, <1>3
<1>5. ASSUME NEW k \in 0..Lowest PROVE Bucket(k) \in Buckets /\ Bucket(k) \in Nat
  BY <1>2, <1>4 DEF Bucket, Buckets
<1>6. ASSUME NEW k \in 0..Lowest, NEW l \in 0..Lowest, k <= l
      PROVE  Bucket(k) <= Bucket(l)
  BY <1>1, <1>6 DEF Bucket
<1> QED
  BY <1>5, <1>6

\* A has the entries that one of priority k goes behind: all that are more urgent,
\* none that is less urgent.
Place(k, A) == \A u \in Nodes : (prio[u] < k => u \in A) /\ (u \in A => prio[u] <= k)

\* p, out of the queue q, joins it behind A with priority k, and makes it r.
Entered(q, r, p, k, A) ==
    /\ QueueOK(q) /\ p \in Nodes /\ ~Queued(p, q) /\ k \in Prios
    /\ Joins(r, q, p, A) /\ Place(k, A)

\* The result is a queue in the order of its priorities,
LEMMA EnterQueue ==
    ASSUME NEW q, NEW r, NEW p, NEW k, NEW A, Entered(q, r, p, k, A),
           prio' = [prio EXCEPT ![p] = k]
    PROVE  QueueOK(r)'
<1>1. prio \in [Nodes -> 0..Lowest] /\ k \in 0..Lowest /\ p \in Nodes /\ Lowest \in Nat
  BY QueueAssumption DEF Entered, QueueOK
<1>2. prio' \in [Nodes -> 0..Lowest] /\ prio'[p] = k /\ \A u \in Nodes : u # p => prio'[u] = prio[u]
  BY <1>1
<1>3. q \in Seq(Nodes) /\ Distinct(q) /\ ~Queued(p, q)
  BY DEF Entered, QueueOK
<1>4. /\ r \in Seq(Nodes) /\ Distinct(r)
      /\ \A u : Queued(u, r) <=> u = p \/ Queued(u, q)
      /\ \A u, v : Earlier(u, v, r) <=>
            \/ Earlier(u, v, q)
            \/ v = p /\ Queued(u, q) /\ u \in A
            \/ u = p /\ Queued(v, q) /\ v \notin A
  BY DEF Entered, Joins
<1>5. \A u \in Nodes : (prio[u] < k => u \in A) /\ (u \in A => prio[u] <= k)
  BY DEF Entered, Place
<1>6. \A u \in Nodes : IF Queued(u, r) THEN prio'[u] \in Prios ELSE prio'[u] = Lowest
  BY <1>2, <1>4 DEF Entered, QueueOK
<1>7. ASSUME NEW u \in Nodes, NEW v \in Nodes, Earlier(u, v, r) PROVE prio'[u] <= prio'[v]
  <2>1. CASE Earlier(u, v, q)
    <3>1. u # p /\ v # p /\ prio[u] <= prio[v]
      BY <1>3, <2>1, TotalOrder DEF Entered, QueueOK
    <3> QED
      BY <1>2, <3>1
  <2>2. CASE v = p /\ Queued(u, q) /\ u \in A
    BY <1>2, <1>3, <1>5, <2>2
  <2>3. CASE u = p /\ Queued(v, q) /\ v \notin A
    BY <1>1, <1>2, <1>3, <1>5, <2>3
  <2> QED
    BY <1>4, <1>7, <2>1, <2>2, <2>3
<1> QED
  BY <1>2, <1>4, <1>6, <1>7 DEF QueueOK

\* in which the others keep their places in the rings,
Placed(q, r, p, k, A) ==
    /\ prio'[p] = k /\ \A u \in Nodes : u # p => prio'[u] = prio[u]
    /\ TopOf(p, r)' <=> \A v \in Nodes : Queued(v, q) /\ v \in A => prio[v] < k
    /\ BottomOf(p, r)' <=> \A v \in Nodes : Queued(v, q) /\ v \notin A => k < prio[v]
    /\ \A u \in Nodes : u # p =>
          /\ TopOf(u, r)' <=> TopOf(u, q) /\ (prio[u] = k => u \in A)
          /\ BottomOf(u, r)' <=> BottomOf(u, q) /\ (prio[u] = k => u \notin A)
          /\ \A v \in Nodes : v # p =>
                (Adjacent(u, v, r) <=> Adjacent(u, v, q) /\ ~(u \in A /\ v \notin A))

\* An entry that joins the queue leaves the others in those places.
LEMMA EnterPlaces ==
    ASSUME NEW q, NEW r, NEW p, NEW k, NEW A, Entered(q, r, p, k, A),
           prio' = [prio EXCEPT ![p] = k]
    PROVE  Placed(q, r, p, k, A)
<1>1. prio \in [Nodes -> 0..Lowest] /\ k \in 0..Lowest /\ p \in Nodes /\ Lowest \in Nat
  BY QueueAssumption DEF Entered, QueueOK
<1>2. prio' \in [Nodes -> 0..Lowest] /\ prio'[p] = k /\ \A u \in Nodes : u # p => prio'[u] = prio[u]
  BY <1>1
<1>3. q \in Seq(Nodes) /\ Distinct(q) /\ ~Queued(p, q)
  BY DEF Entered, QueueOK
<1>4. /\ \A u : Queued(u, r) <=> u = p \/ Queued(u, q)
      /\ \A u, v : Earlier(u, v, r) <=>
            \/ Earlier(u, v, q)
            \/ v = p /\ Queued(u, q) /\ u \in A
            \/ u = p /\ Queued(v, q) /\ v \notin A
  BY DEF Entered, Joins
<1>5. \A u \in Nodes : (prio[u] < k => u \in A) /\ (u \in A => prio[u] <= k)
  BY DEF Entered, Place
<1>6. \A u, v : Earlier(u, v, q) => u # p /\ v # p /\ Queued(u, q) /\ Queued(v, q)
  BY <1>3, TotalOrder
<1>7. \A u, v \in Nodes : Earlier(u, v, q) => prio[u] <= prio[v]
  BY DEF Entered, QueueOK
<1>8. TopOf(p, r)' <=> \A v \in Nodes : Queued(v, q) /\ v \in A => prio[v] < k
  BY <1>1, <1>2, <1>3, <1>4, <1>6 DEF TopOf
<1>9. BottomOf(p, r)' <=> \A v \in Nodes : Queued(v, q) /\ v \notin A => k < prio[v]
  BY <1>1, <1>2, <1>3, <1>4, <1>6 DEF BottomOf
<1>10. ASSUME NEW u \in Nodes, u # p
       PROVE  TopOf(u, r)' <=> TopOf(u, q) /\ (prio[u] = k => u \in A)
  <2>1. \A v \in Nodes : Earlier(v, u, r) <=>
           Earlier(v, u, q) \/ (v = p /\ Queued(u, q) /\ u \notin A)
    BY <1>4, <1>10
  <2>2. TopOf(u, r)' <=> /\ Queued(u, q)
                         /\ \A v \in Nodes : Earlier(v, u, q) => prio[v] < prio[u]
                         /\ Queued(u, q) /\ u \notin A => k < prio[u]
    BY <1>1, <1>2, <1>4, <1>6, <1>10, <2>1 DEF TopOf
  <2>3. prio[u] \in Nat /\ k \in Nat
    BY <1>1
  <2> QED
    BY <1>5, <2>2, <2>3 DEF TopOf
<1>11. ASSUME NEW u \in Nodes, u # p
       PROVE  BottomOf(u, r)' <=> BottomOf(u, q) /\ (prio[u] = k => u \notin A)
  <2>1. \A v \in Nodes : Earlier(u, v, r) <=>
           Earlier(u, v, q) \/ (v = p /\ Queued(u, q) /\ u \in A)
    BY <1>4, <1>11
  <2>2. BottomOf(u, r)' <=> /\ Queued(u, q)
                            /\ \A v \in Nodes : Earlier(u, v, q) => prio[u] < prio[v]
                            /\ Queued(u, q) /\ u \in A => prio[u] < k
    BY <1>1, <1>2, <1>4, <1>6, <1>11, <2>1 DEF BottomOf
  <2>3. prio[u] \in Nat /\ k \in Nat
    BY <1>1
  <2> QED
    BY <1>5, <2>2, <2>3 DEF BottomOf
<1>12. ASSUME NEW u \in Nodes, NEW v \in Nodes, u # p, v # p
       PROVE  Adjacent(u, v, r) <=> Adjacent(u, v, q) /\ ~(u \in A /\ v \notin A)
  BY <1>1, <1>4, <1>6, <1>12 DEF Adjacent
<1> QED
  BY <1>2, <1>8, <1>9, <1>10, <1>11, <1>12 DEF Placed

\* A priority has one top and one bottom.
LEMMA OneTop ==
    ASSUME NEW q, QueueOK(q), NEW u \in Nodes, NEW v \in Nodes, prio[u] = prio[v]
    PROVE  /\ TopOf(u, q) /\ TopOf(v, q) => u = v
           /\ BottomOf(u, q) /\ BottomOf(v, q) => u = v
<1>1. q \in Seq(Nodes) /\ Distinct(q) /\ prio[u] \in Int /\ prio[v] \in Int
  BY QueueAssumption DEF QueueOK
<1>2. Queued(u, q) /\ Queued(v, q) /\ u # v => Earlier(u, v, q) \/ Earlier(v, u, q)
  BY <1>1, TotalOrder
<1> QED
  BY <1>1, <1>2 DEF TopOf, BottomOf

\* p goes along the top between x and y; no x is the front, no y is the end.
Splice(p, x, y) ==
    /\ list' = IF x = None THEN p ELSE list
    /\ next' = [Set(next, x, p) EXCEPT ![p] = y]
    /\ prev' = [Set(prev, y, p) EXCEPT ![p] = x]

\* x and y are neighbours along the top, and k is between their priorities.
Between(q, x, y, k) ==
    /\ x \in Nodes \cup {None} /\ y \in Nodes \cup {None}
    /\ x = None => y = list
    /\ x # None => TopOf(x, q) /\ prio[x] < k /\ next[x] = y
    /\ y # None => TopOf(y, q) /\ k < prio[y] /\ prev[y] = x

Fresh(q, k) == \A v \in Nodes : Queued(v, q) => prio[v] # k

\* An entry of a new priority becomes a top among the tops.
LEMMA SpliceTops ==
    ASSUME NEW q, NEW r, NEW p, NEW k, NEW A, NEW x, NEW y, Entered(q, r, p, k, A),
           prio' = [prio EXCEPT ![p] = k], TopsOK(q), Fresh(q, k), Between(q, x, y, k),
           Splice(p, x, y)
    PROVE  TopsOK(r)'
<1>1. prio \in [Nodes -> 0..Lowest] /\ k \in 0..Lowest /\ p \in Nodes /\ Lowest \in Nat
  BY QueueAssumption DEF Entered, QueueOK
<1>2. /\ \A u \in Nodes : prio[u] \in Int /\ prio'[u] \in Int
      /\ prio'[p] = k /\ k \in Int /\ \A u \in Nodes : u # p => prio'[u] = prio[u]
  BY <1>1
<1>3. ~Queued(p, q) /\ QueueOK(q) /\ None \notin Nodes
  BY QueueAssumption DEF Entered
<1>4. \A u \in Nodes : Queued(u, r) <=> u = p \/ Queued(u, q)
  BY DEF Entered, Joins
<1>5. TopOf(p, r)' /\ \A u \in Nodes : u # p => (TopOf(u, r)' <=> TopOf(u, q))
  <2>1. \A u \in Nodes : (prio[u] < k => u \in A) /\ (u \in A => prio[u] <= k)
    BY DEF Entered, Place
  <2>2. Placed(q, r, p, k, A)
    BY EnterPlaces
  <2>3. \A v \in Nodes : Queued(v, q) /\ v \in A => prio[v] < k
    BY <1>2, <2>1 DEF Fresh
  <2>4. \A v \in Nodes : TopOf(v, q) => Queued(v, q)
    BY DEF TopOf
  <2> QED
    BY <1>1, <2>2, <2>3, <2>4 DEF Placed, Fresh
<1>6. \A u \in Nodes : TopOf(u, q) => Queued(u, q)
  BY DEF TopOf
<1>7. /\ list \in Nodes \cup {None}
      /\ next \in [Nodes -> Nodes \cup {None}] /\ prev \in [Nodes -> Nodes \cup {None}]
      /\ x \in Nodes \cup {None} /\ y \in Nodes \cup {None}
  BY DEF TopsOK, Between
<1>8. x # p /\ y # p /\ (x = y => x = None)
  BY <1>1, <1>2, <1>3, <1>6, <1>7 DEF Between
<1>9. /\ next' \in [Nodes -> Nodes \cup {None}] /\ prev' \in [Nodes -> Nodes \cup {None}]
      /\ next'[p] = y /\ prev'[p] = x
      /\ x # None => next'[x] = p
      /\ y # None => prev'[y] = p
      /\ \A u \in Nodes : u # p /\ u # x => next'[u] = next[u]
      /\ \A u \in Nodes : u # p /\ u # y => prev'[u] = prev[u]
  BY <1>1, <1>7, <1>8 DEF Splice, Set
<1>10. list' = IF x = None THEN p ELSE list
  BY DEF Splice
<1>11. /\ list = None => \A u \in Nodes : ~Queued(u, q)
       /\ list # None => TopOf(list, q) /\ prev[list] = None
       /\ list # None => \A u \in Nodes : Queued(u, q) => prio[list] <= prio[u]
  BY DEF TopsOK
<1>12. \A u \in Nodes : next[u] # None =>
          /\ TopOf(u, q) /\ TopOf(next[u], q) /\ prev[next[u]] = u
          /\ prio[u] < prio[next[u]] /\ Gap(u, next[u], q)
  BY DEF TopsOK
<1>13. \A u \in Nodes : prev[u] # None => next[prev[u]] = u
  BY DEF TopsOK
<1>14. \A u \in Nodes : TopOf(u, q) =>
          /\ next[u] = None => \A v \in Nodes : Queued(v, q) => prio[v] <= prio[u]
          /\ prev[u] = None => u = list
  BY DEF TopsOK
<1>15. /\ x = None => y = list
       /\ x # None => TopOf(x, q) /\ prio[x] < k /\ next[x] = y
       /\ y # None => TopOf(y, q) /\ k < prio[y] /\ prev[y] = x
  BY DEF Between
\* What is in the list and better than k is no worse than x, and what is worse no better than y.
<1>16. \A u \in Nodes : Queued(u, q) =>
          /\ prio[u] < k => x # None /\ prio[u] <= prio[x]
          /\ k < prio[u] => y # None /\ prio[y] <= prio[u]
  <2> SUFFICES ASSUME NEW u \in Nodes, Queued(u, q)
               PROVE  /\ prio[u] < k => x # None /\ prio[u] <= prio[x]
                      /\ k < prio[u] => y # None /\ prio[y] <= prio[u]
    OBVIOUS
  <2>1. CASE x = None
    BY <1>2, <1>7, <1>11, <1>15, <2>1
  <2>2. CASE x # None /\ y = None
    BY <1>2, <1>7, <1>14, <1>15, <2>2
  <2>3. CASE x # None /\ y # None
    <3>1. x \in Nodes /\ y \in Nodes /\ Gap(x, y, q)
      BY <1>7, <1>12, <1>15, <2>3
    <3> QED
      BY <1>2, <1>15, <2>3, <3>1 DEF Gap
  <2> QED
    BY <2>1, <2>2, <2>3
<1>17. \A u \in Nodes : Queued(u, q) => prio[u] # k
  BY DEF Fresh
<1>18. /\ list' \in Nodes /\ list' # None
       /\ TopOf(list, r)' /\ prev'[list'] = None
       /\ \A u \in Nodes : Queued(u, r) => prio'[list'] <= prio'[u]
  <2>1. CASE x = None
    BY <1>1, <1>2, <1>3, <1>4, <1>5, <1>9, <1>10, <1>16, <1>17, <2>1 DEF TopOf
  <2>2. CASE x # None
    <3>1. Queued(x, q) /\ x \in Nodes
      BY <1>6, <1>7, <1>15, <2>2
    <3>2. list \in Nodes /\ list # None /\ TopOf(list, q) /\ prev[list] = None /\ list # y
      BY <1>3, <1>7, <1>11, <1>15, <2>2, <3>1
    <3>3. list # p /\ prio[list] <= prio[x] /\ prio[x] < k
      BY <1>3, <1>6, <1>11, <1>15, <2>2, <3>1, <3>2
    <3>4. list' = list /\ prev'[list] = None
      BY <1>9, <1>10, <2>2, <3>2, <3>3
    <3>5. TopOf(list, r)'
      BY <1>5, <3>2, <3>3, <3>4 DEF TopOf
    <3>6. \A u \in Nodes : Queued(u, r) => prio'[list'] <= prio'[u]
      BY <1>1, <1>2, <1>4, <1>11, <3>1, <3>2, <3>3, <3>4
    <3> QED
      BY <3>2, <3>4, <3>5, <3>6
  <2> QED
    BY <2>1, <2>2
<1>19. ASSUME NEW u \in Nodes, next'[u] # None
       PROVE  /\ TopOf(u, r)' /\ TopOf(next[u], r)' /\ prev'[next'[u]] = u
              /\ prio'[u] < prio'[next'[u]] /\ Gap(u, next[u], r)'
  <2>1. PICK v \in Nodes : v = next'[u]
    BY <1>9, <1>19
  <2>2. /\ Queued(u, r) /\ Queued(v, r) /\ TopOf(u, r)' /\ TopOf(v, r)'
        /\ prev'[v] = u /\ prio'[u] < prio'[v]
        /\ \A w \in Nodes : Queued(w, r) => ~(prio'[u] < prio'[w] /\ prio'[w] < prio'[v])
    <3>1. CASE u = p
      <4>1. v = y /\ y # None /\ v # p
        BY <1>3, <1>8, <1>9, <2>1, <3>1
      <4>2. Queued(v, q) /\ TopOf(v, q) /\ k < prio[v]
        BY <1>6, <1>15, <2>1, <4>1
      <4> QED
        BY <1>1, <1>2, <1>4, <1>5, <1>9, <1>16, <3>1, <4>1, <4>2
    <3>2. CASE u = x /\ x # None
      <4>1. v = p /\ u # p
        BY <1>8, <1>9, <2>1, <3>2
      <4>2. Queued(u, q) /\ TopOf(u, q) /\ prio[u] < k
        BY <1>6, <1>15, <3>2
      <4> QED
        BY <1>1, <1>2, <1>4, <1>5, <1>9, <1>16, <3>2, <4>1, <4>2
    <3>3. CASE u # p /\ u # x
      <4>1. v = next[u] /\ v # None
        BY <1>9, <1>19, <2>1, <3>3
      <4>2. /\ TopOf(u, q) /\ TopOf(v, q) /\ prev[v] = u /\ prio[u] < prio[v]
            /\ Gap(u, v, q)
        BY <1>12, <4>1
      <4>3. Queued(u, q) /\ Queued(v, q) /\ v # p /\ v # y
        BY <1>3, <1>6, <1>15, <3>3, <4>1, <4>2
      <4>4. ~(prio[u] < k /\ k < prio[v])
        <5> SUFFICES ASSUME prio[u] < k, k < prio[v] PROVE FALSE
          OBVIOUS
        <5>1. x \in Nodes /\ TopOf(x, q) /\ prio[u] <= prio[x] /\ prio[x] < k
          BY <1>7, <1>15, <1>16, <4>3
        <5>2. prio[x] = prio[u]
          BY <1>2, <1>6, <4>2, <5>1 DEF Gap
        <5> QED
          BY <1>3, <3>3, <4>2, <5>1, <5>2, OneTop
      <4>5. \A w \in Nodes : Queued(w, q) => ~(prio[u] < prio[w] /\ prio[w] < prio[v])
        BY <4>2 DEF Gap
      <4>6. prio'[u] = prio[u] /\ prio'[v] = prio[v] /\ prev'[v] = u
        BY <1>2, <1>9, <3>3, <4>2, <4>3
      <4> QED
        BY <1>2, <1>4, <1>5, <3>3, <4>2, <4>3, <4>4, <4>5, <4>6
    <3> QED
      BY <1>3, <2>1, <3>1, <3>2, <3>3
  <2>3. TopOf(next[u], r)' /\ Gap(u, next[u], r)'
    BY <2>1, <2>2 DEF TopOf, Gap
  <2> QED
    BY <2>1, <2>2, <2>3
<1>20. ASSUME NEW u \in Nodes, prev'[u] # None PROVE next'[prev'[u]] = u
  BY <1>7, <1>8, <1>9, <1>12, <1>13, <1>15, <1>20, <1>3, <1>6
<1>21. ASSUME NEW u \in Nodes, TopOf(u, r)'
       PROVE  /\ next'[u] = None => \A v \in Nodes : Queued(v, r) => prio'[v] <= prio'[u]
              /\ prev'[u] = None => u = list'
  <2>1. CASE u = p
    BY <1>2, <1>4, <1>9, <1>10, <1>16, <1>17, <2>1
  <2>2. CASE u # p /\ u = x
    BY <1>1, <1>3, <1>7, <1>8, <1>9, <1>10, <1>14, <1>15, <2>2
  <2>3. CASE u # p /\ u # x
    <3>1. TopOf(u, q) /\ Queued(u, q) /\ prio'[u] = prio[u]
      BY <1>2, <1>5, <1>6, <1>21, <2>3
    <3>2. prev'[u] = None => u = list'
      BY <1>1, <1>3, <1>9, <1>10, <1>14, <1>15, <2>3, <3>1
    <3>3. ASSUME next'[u] = None, NEW v \in Nodes, Queued(v, r) PROVE prio'[v] <= prio'[u]
      <4>1. next[u] = None /\ \A w \in Nodes : Queued(w, q) => prio[w] <= prio[u]
        BY <1>9, <1>14, <2>3, <3>1, <3>3
      <4>2. k <= prio[u]
        <5> SUFFICES ASSUME prio[u] < k PROVE FALSE
          BY <1>2
        <5>1. x \in Nodes /\ TopOf(x, q) /\ prio[u] <= prio[x] /\ prio[x] <= prio[u]
          BY <1>6, <1>7, <1>15, <1>16, <3>1, <4>1
        <5>2. prio[x] = prio[u]
          BY <1>2, <5>1
        <5> QED
          BY <1>3, <2>3, <3>1, <5>1, <5>2, OneTop
      <4> QED
        BY <1>2, <1>4, <3>1, <3>3, <4>1, <4>2
    <3> QED
      BY <3>2, <3>3
  <2> QED
    BY <2>1, <2>2, <2>3
<1> QED
  BY <1>9, <1>18, <1>19, <1>20, <1>21 DEF TopsOK

\* An entry of a new priority is a ring of its own,
LEMMA RingAlone ==
    ASSUME NEW q, NEW r, NEW p, NEW k, NEW A, Entered(q, r, p, k, A),
           prio' = [prio EXCEPT ![p] = k], RingsOK(q), Fresh(q, k),
           up' = [up EXCEPT ![p] = p], down' = [down EXCEPT ![p] = p]
    PROVE  RingsOK(r)'
<1>1. prio \in [Nodes -> 0..Lowest] /\ k \in 0..Lowest /\ p \in Nodes /\ Lowest \in Nat
  BY QueueAssumption DEF Entered, QueueOK
<1>2. /\ \A u \in Nodes : prio[u] \in Int
      /\ prio'[p] = k /\ k \in Int /\ \A u \in Nodes : u # p => prio'[u] = prio[u]
  BY <1>1
<1>3. ~Queued(p, q) /\ \A u : Queued(u, r) <=> u = p \/ Queued(u, q)
  BY DEF Entered, Joins
<1>4. \A u \in Nodes : (prio[u] < k => u \in A) /\ (u \in A => prio[u] <= k)
  BY DEF Entered, Place
<1>5. Placed(q, r, p, k, A)
  BY EnterPlaces
<1>6. /\ up \in [Nodes -> Nodes \cup {None}] /\ down \in [Nodes -> Nodes \cup {None}]
      /\ \A u : Queued(u, q) => u \in Nodes
  BY TotalOrder DEF RingsOK, Entered, QueueOK
<1>7. /\ up' \in [Nodes -> Nodes \cup {None}] /\ down' \in [Nodes -> Nodes \cup {None}]
      /\ up'[p] = p /\ down'[p] = p
      /\ \A u \in Nodes : u # p => up'[u] = up[u] /\ down'[u] = down[u]
  BY <1>1, <1>6
<1>8. \A u \in Nodes : ~Queued(u, r) => up'[u] = None /\ down'[u] = None
  BY <1>3, <1>7 DEF RingsOK
<1>9. TopOf(p, r)' /\ BottomOf(p, r)'
  BY <1>2, <1>4, <1>5 DEF Placed, Fresh
<1>10. ASSUME NEW u \in Nodes, Queued(u, r)
       PROVE  /\ Queued(up'[u], r) /\ down'[up'[u]] = u
              /\ Queued(down'[u], r) /\ up'[down'[u]] = u /\ prio'[down'[u]] = prio'[u]
              /\ Adjacent(u, down[u], r)' \/ (BottomOf(u, r)' /\ TopOf(down[u], r)')
  <2>1. CASE u = p
    <3>1. BottomOf(u, r)' /\ TopOf(down[u], r)'
      BY <1>7, <1>9, <2>1 DEF TopOf
    <3> QED
      BY <1>3, <1>7, <2>1, <3>1
  <2>2. CASE u # p
    <3>1. /\ Queued(u, q) /\ Queued(up[u], q) /\ down[up[u]] = u
          /\ Queued(down[u], q) /\ up[down[u]] = u /\ prio[down[u]] = prio[u]
          /\ Adjacent(u, down[u], q) \/ (BottomOf(u, q) /\ TopOf(down[u], q))
      BY <1>3, <1>10, <2>2 DEF RingsOK
    <3>2. /\ up[u] \in Nodes /\ up[u] # p /\ down[u] \in Nodes /\ down[u] # p
          /\ prio[u] # k /\ (u \in A <=> down[u] \in A)
      BY <1>2, <1>3, <1>4, <1>6, <3>1 DEF Fresh
    <3>3. Adjacent(u, down[u], q) => Adjacent(u, down[u], r)
      BY <1>5, <2>2, <3>2 DEF Placed
    <3>4. /\ BottomOf(u, q) => BottomOf(u, r)'
          /\ TopOf(down[u], q) => \A v : v = down[u] => TopOf(v, r)'
      BY <1>5, <2>2, <3>1, <3>2 DEF Placed
    <3>5. down'[u] = down[u] /\ up'[u] = up[u]
      BY <1>7, <2>2
    <3>6. Adjacent(u, down[u], r)' \/ (BottomOf(u, r)' /\ TopOf(down[u], r)')
      BY <3>1, <3>3, <3>4, <3>5 DEF Adjacent, TopOf
    <3> QED
      BY <1>2, <1>3, <1>7, <2>2, <3>1, <3>2, <3>5, <3>6
  <2> QED
    BY <2>1, <2>2
<1> QED
  BY <1>7, <1>8, <1>10 DEF RingsOK

\* and another joins the ring of its priority between its bottom and its top x.
LEMMA RingJoined ==
    ASSUME NEW q, NEW r, NEW p, NEW k, NEW A, NEW x, Entered(q, r, p, k, A),
           prio' = [prio EXCEPT ![p] = k], RingsOK(q), x \in Nodes, TopOf(x, q), prio[x] = k,
           \/ \A v \in Nodes : Queued(v, q) /\ prio[v] = k => v \in A
           \/ \A v \in Nodes : Queued(v, q) /\ prio[v] = k => v \notin A,
           up' = [up EXCEPT ![p] = up[x], ![x] = p],
           down' = [down EXCEPT ![p] = x, ![up[x]] = p]
    PROVE  RingsOK(r)'
<1>1. prio \in [Nodes -> 0..Lowest] /\ k \in 0..Lowest /\ p \in Nodes /\ Lowest \in Nat
  BY QueueAssumption DEF Entered, QueueOK
<1>2. /\ \A u \in Nodes : prio[u] \in Int
      /\ prio'[p] = k /\ k \in Int /\ \A u \in Nodes : u # p => prio'[u] = prio[u]
  BY <1>1
<1>3. ~Queued(p, q) /\ QueueOK(q) /\ \A u : Queued(u, r) <=> u = p \/ Queued(u, q)
  BY DEF Entered, Joins
<1>4. \A u \in Nodes : (prio[u] < k => u \in A) /\ (u \in A => prio[u] <= k)
  BY DEF Entered, Place
<1>5. Placed(q, r, p, k, A)
  BY EnterPlaces
<1>6. /\ up \in [Nodes -> Nodes \cup {None}] /\ down \in [Nodes -> Nodes \cup {None}]
      /\ \A u : Queued(u, q) => u \in Nodes
  BY TotalOrder DEF RingsOK, Entered, QueueOK
<1>7. PICK b : b = up[x]
  OBVIOUS
<1>8. \A u \in Nodes : Queued(u, q) =>
         /\ Queued(up[u], q) /\ down[up[u]] = u
         /\ Queued(down[u], q) /\ up[down[u]] = u /\ prio[down[u]] = prio[u]
         /\ Adjacent(u, down[u], q) \/ (BottomOf(u, q) /\ TopOf(down[u], q))
  BY DEF RingsOK
<1>9. Queued(x, q) /\ Queued(b, q) /\ b \in Nodes /\ down[b] = x /\ x # p /\ b # p
  BY <1>3, <1>6, <1>7, <1>8 DEF TopOf
<1>10. BottomOf(b, q) /\ prio[b] = k
  <2>1. prio[b] = prio[x] /\ (Adjacent(b, x, q) \/ BottomOf(b, q))
    BY <1>8, <1>9
  <2>2. ~Adjacent(b, x, q)
    BY <1>2, <1>9, <2>1 DEF Adjacent, TopOf
  <2> QED
    BY <2>1, <2>2
<1>11. /\ up' \in [Nodes -> Nodes \cup {None}] /\ down' \in [Nodes -> Nodes \cup {None}]
       /\ up'[p] = b /\ up'[x] = p /\ down'[p] = x /\ down'[b] = p
       /\ \A u \in Nodes : u # p /\ u # x => up'[u] = up[u]
       /\ \A u \in Nodes : u # p /\ u # b => down'[u] = down[u]
  BY <1>1, <1>6, <1>7, <1>9
<1>12. \A u \in Nodes : ~Queued(u, r) => up'[u] = None /\ down'[u] = None
  BY <1>3, <1>9, <1>11 DEF RingsOK
\* p is between the bottom and the top, on one side of the front or on the other.
<1>13. /\ Adjacent(b, p, r) \/ (BottomOf(b, r)' /\ TopOf(p, r)')
       /\ Adjacent(p, x, r) \/ (BottomOf(p, r)' /\ TopOf(x, r)')
  <2>1. \A u, v : Earlier(u, v, r) <=>
           \/ Earlier(u, v, q)
           \/ v = p /\ Queued(u, q) /\ u \in A
           \/ u = p /\ Queued(v, q) /\ v \notin A
    BY DEF Entered, Joins
  <2>2. \A u, v : Earlier(u, v, q) => u # p /\ v # p /\ Queued(u, q) /\ Queued(v, q)
    BY <1>3, TotalOrder DEF QueueOK
  <2>3. CASE \A v \in Nodes : Queued(v, q) /\ prio[v] = k => v \in A
    <3>1. b \in A /\ x \in A
      BY <1>9, <1>10, <2>3
    <3>2. \A v \in Nodes : Queued(v, q) /\ v \notin A => k < prio[v]
      BY <1>2, <1>4, <2>3
    <3>3. BottomOf(p, r)' /\ TopOf(x, r)'
      BY <1>5, <1>9, <3>1, <3>2 DEF Placed
    <3>4. Earlier(b, p, r)
      BY <1>9, <2>1, <3>1
    <3>5. ASSUME NEW w \in Nodes, Earlier(b, w, r), Earlier(w, p, r) PROVE FALSE
      <4>1. Queued(w, q) /\ w \in A
        BY <1>3, <2>1, <2>2, <3>5
      <4>2. Earlier(b, w, q)
        BY <1>3, <1>9, <2>1, <2>2, <3>5, <4>1
      <4> QED
        BY <1>2, <1>4, <1>9, <1>10, <4>1, <4>2 DEF BottomOf
    <3> QED
      BY <3>3, <3>4, <3>5 DEF Adjacent
  <2>4. CASE \A v \in Nodes : Queued(v, q) /\ prio[v] = k => v \notin A
    <3>1. b \notin A /\ x \notin A
      BY <1>9, <1>10, <2>4
    <3>2. \A v \in Nodes : Queued(v, q) /\ v \in A => prio[v] < k
      BY <1>2, <1>4, <2>4
    <3>3. BottomOf(b, r)' /\ TopOf(p, r)'
      BY <1>5, <1>9, <1>10, <3>1, <3>2 DEF Placed
    <3>4. Earlier(p, x, r)
      BY <1>9, <2>1, <3>1
    <3>5. ASSUME NEW w \in Nodes, Earlier(p, w, r), Earlier(w, x, r) PROVE FALSE
      <4>1. Queued(w, q) /\ w \notin A
        BY <1>3, <1>9, <2>1, <2>2, <3>5
      <4>2. Earlier(w, x, q)
        BY <1>3, <1>9, <2>1, <2>2, <3>5, <4>1
      <4> QED
        BY <1>2, <1>4, <1>9, <4>1, <4>2 DEF TopOf
    <3> QED
      BY <3>3, <3>4, <3>5 DEF Adjacent
  <2> QED
    BY <2>3, <2>4
<1>14. ASSUME NEW u \in Nodes, Queued(u, r)
       PROVE  /\ Queued(up'[u], r) /\ down'[up'[u]] = u
              /\ Queued(down'[u], r) /\ up'[down'[u]] = u /\ prio'[down'[u]] = prio'[u]
              /\ Adjacent(u, down[u], r)' \/ (BottomOf(u, r)' /\ TopOf(down[u], r)')
  <2>1. Queued(up'[u], r) /\ down'[up'[u]] = u
    <3>1. CASE u = p
      BY <1>3, <1>9, <1>11, <3>1
    <3>3. CASE u = x
      BY <1>3, <1>9, <1>11, <3>3
    <3>2. CASE u # p /\ u # x
      <4>1. Queued(up[u], q) /\ down[up[u]] = u /\ up[u] \in Nodes
        BY <1>3, <1>6, <1>8, <1>14, <3>2
      <4>2. up[u] # p /\ up[u] # b /\ up'[u] = up[u]
        BY <1>3, <1>9, <1>11, <3>2, <4>1
      <4> QED
        BY <1>3, <1>11, <4>1, <4>2
    <3> QED
      BY <3>1, <3>2, <3>3
  <2>2. PICK d : d = down'[u]
    OBVIOUS
  <2>3. /\ Queued(d, r) /\ up'[d] = u /\ prio'[d] = prio'[u]
        /\ Adjacent(u, d, r) \/ (BottomOf(u, r)' /\ TopOf(d, r)')
    <3>1. CASE u = p
      BY <1>2, <1>3, <1>9, <1>11, <1>13, <2>2, <3>1
    <3>2. CASE u = b
      <4>1. d = p /\ up'[p] = b /\ b # p
        BY <1>3, <1>9, <1>11, <2>2, <3>2
      <4>2. Queued(p, r) /\ prio'[p] = prio'[b]
        BY <1>2, <1>3, <1>9, <1>10, <4>1
      <4> QED
        BY <1>13, <3>2, <4>1, <4>2
    <3>3. CASE u # p /\ u # b
      <4>1. /\ Queued(u, q) /\ d = down[u] /\ Queued(d, q) /\ up[d] = u /\ prio[d] = prio[u]
            /\ Adjacent(u, d, q) \/ (BottomOf(u, q) /\ TopOf(d, q))
        BY <1>3, <1>8, <1>11, <1>14, <2>2, <3>3
      <4>2. d \in Nodes /\ d # p /\ d # x
        BY <1>3, <1>6, <1>7, <3>3, <4>1
      <4>3. u \in A <=> d \in A
        BY <1>2, <1>4, <4>1, <4>2
      <4>4. Adjacent(u, d, q) => Adjacent(u, d, r)
        BY <1>5, <3>3, <4>2, <4>3 DEF Placed
      <4>5. BottomOf(u, q) => prio[u] # k
        BY <1>3, <1>9, <1>10, <3>3, OneTop
      <4>6. BottomOf(u, q) /\ TopOf(d, q) => BottomOf(u, r)' /\ TopOf(d, r)'
        BY <1>5, <3>3, <4>1, <4>2, <4>5 DEF Placed
      <4>7. up'[d] = u
        BY <1>11, <4>1, <4>2
      <4> QED
        BY <1>2, <1>3, <3>3, <4>1, <4>2, <4>4, <4>6, <4>7
    <3> QED
      BY <3>1, <3>2, <3>3
  <2>4. Adjacent(u, down[u], r)' \/ (BottomOf(u, r)' /\ TopOf(down[u], r)')
    BY <2>2, <2>3 DEF Adjacent, TopOf
  <2> QED
    BY <2>1, <2>2, <2>3, <2>4
<1> QED
  BY <1>11, <1>12, <1>14 DEF RingsOK

\* The priorities of r are priorities of q.
NoNewPriority(q, r) ==
    \A v \in Nodes : Queued(v, r) => \E w \in Nodes : Queued(w, q) /\ prio[w] = prio'[v]

\* If no top comes or goes, the list of the tops still is one,
LEMMA TopsKept ==
    ASSUME NEW q, NEW r, TopsOK(q), prio \in [Nodes -> 0..Lowest], prio' \in [Nodes -> 0..Lowest],
           \A u \in Nodes : TopOf(u, r)' <=> TopOf(u, q),
           \A u \in Nodes : TopOf(u, q) => prio'[u] = prio[u],
           NoNewPriority(q, r), UNCHANGED <<list, prev, next>>
    PROVE  TopsOK(r)'
<1>1. /\ \A u \in Nodes : prio[u] \in Int /\ prio'[u] \in Int
      /\ list' = list /\ prev' = prev /\ next' = next /\ None \notin Nodes
  BY QueueAssumption
<1>2. \A v \in Nodes : Queued(v, r) => \E w \in Nodes : Queued(w, q) /\ prio[w] = prio'[v]
  BY DEF NoNewPriority
<1>3. list = None => \A u \in Nodes : ~Queued(u, r)
  BY <1>2 DEF TopsOK
<1>4. list # None => /\ list \in Nodes /\ TopOf(list, q) /\ prev[list] = None
                     /\ \A u \in Nodes : Queued(u, q) => prio[list] <= prio[u]
  BY DEF TopsOK
<1>5. list # None => /\ TopOf(list, r)' /\ prev'[list'] = None
                     /\ \A u \in Nodes : Queued(u, r) => prio'[list'] <= prio'[u]
  <2>1. \A u \in Nodes : list = u /\ TopOf(u, q) => TopOf(list, r)'
    BY <1>1 DEF TopOf
  <2> QED
    BY <1>1, <1>2, <1>4, <2>1
<1>6. ASSUME NEW u \in Nodes, next[u] # None
      PROVE  /\ TopOf(u, r)' /\ TopOf(next[u], r)' /\ prev'[next'[u]] = u
             /\ prio'[u] < prio'[next'[u]] /\ Gap(u, next[u], r)'
  <2>1. PICK v \in Nodes : v = next[u]
    BY <1>6 DEF TopsOK
  <2>2. /\ TopOf(u, q) /\ TopOf(v, q) /\ prev[v] = u /\ prio[u] < prio[v]
        /\ \A w \in Nodes : Queued(w, q) => ~(prio[u] < prio[w] /\ prio[w] < prio[v])
    BY <1>6, <2>1 DEF TopsOK, Gap
  <2>3. TopOf(u, r)' /\ TopOf(v, r)' /\ prio'[u] = prio[u] /\ prio'[v] = prio[v]
    BY <2>2
  <2>4. \A w \in Nodes : Queued(w, r) => ~(prio'[u] < prio'[w] /\ prio'[w] < prio'[v])
    BY <1>2, <2>2, <2>3
  <2>5. next'[u] = v
    BY <1>1, <2>1
  <2>6. TopOf(next[u], r)' /\ Gap(u, next[u], r)'
    BY <2>3, <2>4, <2>5 DEF TopOf, Gap
  <2> QED
    BY <1>1, <2>2, <2>3, <2>5, <2>6
<1>7. \A u \in Nodes : prev'[u] # None => next'[prev'[u]] = u
  BY <1>1 DEF TopsOK
<1>8. ASSUME NEW u \in Nodes, TopOf(u, r)'
      PROVE  /\ next[u] = None => \A v \in Nodes : Queued(v, r) => prio'[v] <= prio'[u]
             /\ prev[u] = None => u = list
  BY <1>1, <1>2, <1>8 DEF TopsOK
<1>9. /\ list' \in Nodes \cup {None}
      /\ next' \in [Nodes -> Nodes \cup {None}] /\ prev' \in [Nodes -> Nodes \cup {None}]
  BY <1>1 DEF TopsOK
<1> QED
  BY <1>1, <1>3, <1>5, <1>6, <1>7, <1>8, <1>9 DEF TopsOK

\* and also if one top takes the place of another of its priority.
LEMMA TopReplaced ==
    ASSUME NEW q, NEW r, NEW x, NEW y, TopsOK(q),
           prio \in [Nodes -> 0..Lowest], prio' \in [Nodes -> 0..Lowest],
           x \in Nodes, y \in Nodes, x # y, TopOf(x, q), ~TopOf(y, q), prio'[y] = prio[x],
           \A u \in Nodes : TopOf(u, r)' <=> u = y \/ (u # x /\ TopOf(u, q)),
           \A u \in Nodes : TopOf(u, q) /\ u # x => prio'[u] = prio[u],
           NoNewPriority(q, r), list' = IF x = list THEN y ELSE list,
           next' = [Set(next, prev[x], y) EXCEPT ![y] = next[x], ![x] = None],
           prev' = [Set(prev, next[x], y) EXCEPT ![y] = prev[x], ![x] = None]
    PROVE  TopsOK(r)'
<1>1. \A u \in Nodes : prio[u] \in Int /\ prio'[u] \in Int
  BY QueueAssumption
<1>2. \A v \in Nodes : Queued(v, r) => \E w \in Nodes : Queued(w, q) /\ prio[w] = prio'[v]
  BY DEF NoNewPriority
<1>3. /\ list \in Nodes \cup {None} /\ None \notin Nodes
      /\ next \in [Nodes -> Nodes \cup {None}] /\ prev \in [Nodes -> Nodes \cup {None}]
  BY QueueAssumption DEF TopsOK
<1>4. /\ list = None => \A u \in Nodes : ~Queued(u, q)
      /\ list # None => /\ TopOf(list, q) /\ prev[list] = None
                        /\ \A u \in Nodes : Queued(u, q) => prio[list] <= prio[u]
  BY DEF TopsOK
<1>5. \A u \in Nodes : next[u] # None =>
          /\ TopOf(u, q) /\ TopOf(next[u], q) /\ prev[next[u]] = u
          /\ prio[u] < prio[next[u]] /\ Gap(u, next[u], q)
  BY DEF TopsOK
<1>6. \A u \in Nodes : prev[u] # None => next[prev[u]] = u
  BY DEF TopsOK
<1>7. \A u \in Nodes : TopOf(u, q) =>
          /\ next[u] = None => \A v \in Nodes : Queued(v, q) => prio[v] <= prio[u]
          /\ prev[u] = None => u = list
  BY DEF TopsOK
<1>8. next[y] = None /\ prev[y] = None
  BY <1>3, <1>5, <1>6
<1>9. /\ next[x] # x /\ prev[x] # x /\ next[x] # y /\ prev[x] # y
      /\ next[x] = prev[x] => next[x] = None
  BY <1>1, <1>3, <1>5, <1>6
<1>10. /\ next' \in [Nodes -> Nodes \cup {None}] /\ prev' \in [Nodes -> Nodes \cup {None}]
       /\ next'[y] = next[x] /\ prev'[y] = prev[x] /\ next'[x] = None /\ prev'[x] = None
       /\ \A u \in Nodes : u = prev[x] => next'[u] = y
       /\ \A u \in Nodes : u = next[x] => prev'[u] = y
       /\ \A u \in Nodes : u # prev[x] /\ u # x /\ u # y => next'[u] = next[u]
       /\ \A u \in Nodes : u # next[x] /\ u # x /\ u # y => prev'[u] = prev[u]
  BY <1>3, <1>9 DEF Set
<1>11. list \in Nodes /\ list' \in Nodes /\ Queued(x, q)
  BY <1>3, <1>4 DEF TopOf
<1>12. /\ TopOf(list, r)' /\ prev'[list'] = None
       /\ \A u \in Nodes : Queued(u, r) => prio'[list'] <= prio'[u]
  <2>1. PICK l \in Nodes : l = list'
    BY <1>11
  <2>2. TopOf(l, r)' /\ prio'[l] = prio[list] /\ prev'[l] = None
    BY <1>3, <1>4, <1>5, <1>10, <1>11, <2>1
  <2>3. \A u \in Nodes : Queued(u, r) => prio'[l] <= prio'[u]
    BY <1>1, <1>2, <1>3, <1>4, <1>11, <2>2
  <2>4. TopOf(list, r)'
    BY <2>1, <2>2 DEF TopOf
  <2> QED
    BY <2>1, <2>2, <2>3, <2>4
\* What y, or a top beside it, has after it.
<1>13. ASSUME NEW u \in Nodes, next'[u] # None
       PROVE  /\ TopOf(u, r)' /\ TopOf(next[u], r)' /\ prev'[next'[u]] = u
              /\ prio'[u] < prio'[next'[u]] /\ Gap(u, next[u], r)'
  <2> DEFINE old(w) == IF w = y THEN x ELSE w
  <2>1. PICK v \in Nodes : v = next'[u]
    BY <1>10, <1>13
  <2>2. /\ u # x /\ next[old(u)] = old(v) /\ old(u) \in Nodes /\ old(v) \in Nodes
        /\ v # x /\ prev'[v] = u
    <3>1. u # x
      BY <1>10, <1>13
    <3>2. CASE u = y
      <4>1. v = next[x] /\ v # y /\ v # x
        BY <1>9, <1>10, <2>1, <3>2
      <4> QED
        BY <1>10, <2>1, <3>2, <4>1
    <3>3. CASE u # y /\ u = prev[x]
      <4>1. v = y /\ next[u] = x
        BY <1>3, <1>6, <1>10, <2>1, <3>3
      <4> QED
        BY <1>10, <3>1, <3>3, <4>1
    <3>4. CASE u # y /\ u # prev[x]
      <4>1. v = next[u] /\ v # None
        BY <1>3, <1>10, <2>1, <3>1, <3>4
      <4>2. prev[v] = u /\ v # y
        BY <1>5, <4>1
      <4>3. v # x /\ v # next[x]
        BY <1>3, <1>5, <3>1, <3>4, <4>1, <4>2
      <4> QED
        BY <1>10, <3>1, <3>4, <4>1, <4>2, <4>3
    <3> QED
      BY <3>2, <3>3, <3>4
  <2>3. /\ TopOf(old(u), q) /\ TopOf(old(v), q) /\ prev[old(v)] = old(u)
        /\ prio[old(u)] < prio[old(v)] /\ Gap(old(u), old(v), q)
    BY <1>3, <1>5, <2>2
  <2>5. TopOf(u, r)' /\ TopOf(v, r)' /\ prio'[u] = prio[old(u)] /\ prio'[v] = prio[old(v)]
    BY <2>2, <2>3
  <2>7. \A w \in Nodes : Queued(w, r) => ~(prio'[u] < prio'[w] /\ prio'[w] < prio'[v])
    <3>1. \A w \in Nodes : Queued(w, q) =>
             ~(prio[old(u)] < prio[w] /\ prio[w] < prio[old(v)])
      BY <2>3 DEF Gap
    <3> QED
      BY <1>2, <2>5, <3>1
  <2>8. TopOf(next[u], r)' /\ Gap(u, next[u], r)'
    BY <2>1, <2>5, <2>7 DEF TopOf, Gap
  <2> QED
    BY <1>1, <2>1, <2>2, <2>3, <2>5, <2>8
<1>14. ASSUME NEW u \in Nodes, prev'[u] # None PROVE next'[prev'[u]] = u
  BY <1>3, <1>5, <1>6, <1>8, <1>9, <1>10, <1>14
<1>15. ASSUME NEW u \in Nodes, TopOf(u, r)'
       PROVE  /\ next'[u] = None => \A v \in Nodes : Queued(v, r) => prio'[v] <= prio'[u]
              /\ prev'[u] = None => u = list'
  <2>1. CASE u = y
    BY <1>1, <1>2, <1>7, <1>10, <2>1
  <2>2. CASE u # y
    <3>1. u # x /\ TopOf(u, q) /\ prio'[u] = prio[u]
      BY <1>15, <2>2
    <3>2. next'[u] = None => next[u] = None
      BY <1>3, <1>10, <2>2, <3>1
    <3>3. prev'[u] = None => prev[u] = None
      BY <1>3, <1>10, <2>2, <3>1
    <3> QED
      BY <1>1, <1>2, <1>7, <3>1, <3>2, <3>3
  <2> QED
    BY <2>1, <2>2
<1> QED
  BY <1>3, <1>10, <1>11, <1>12, <1>13, <1>14, <1>15 DEF TopsOK

\* The hash keeps the first of a bucket, or takes p if all the others come after it.
LEMMA HashJoined ==
    ASSUME NEW q, NEW r, NEW p, NEW k, NEW A, Entered(q, r, p, k, A),
           prio' = [prio EXCEPT ![p] = k], HashOK(q),
           hash' \in [Buckets -> Nodes \cup {None}],
           \A b \in Buckets : b # Bucket(k) => hash'[b] = hash[b],
           \/ /\ hash'[Bucket(k)] = p
              /\ \A u \in Nodes : Queued(u, q) /\ Bucket(prio[u]) = Bucket(k) => u \notin A
           \/ /\ hash[Bucket(k)] # None /\ hash'[Bucket(k)] = hash[Bucket(k)]
              /\ hash[Bucket(k)] \in A
    PROVE  HashOK(r)'
<1>1. prio \in [Nodes -> 0..Lowest] /\ k \in 0..Lowest /\ p \in Nodes /\ Lowest \in Nat
  BY QueueAssumption DEF Entered, QueueOK
<1>2. prio'[p] = k /\ \A u \in Nodes : u # p => prio'[u] = prio[u]
  BY <1>1
<1>3. /\ ~Queued(p, q) /\ \A u : Queued(u, r) <=> u = p \/ Queued(u, q)
      /\ \A u, v : Earlier(u, v, r) <=>
            \/ Earlier(u, v, q)
            \/ v = p /\ Queued(u, q) /\ u \in A
            \/ u = p /\ Queued(v, q) /\ v \notin A
  BY DEF Entered, Joins
<1>4. Bucket(k) \in Buckets /\ None \notin Nodes
  BY <1>1, BucketOrder, QueueAssumption
<1>5. \A b \in Buckets : hash[b] = None =>
          \A u \in Nodes : Queued(u, q) => Bucket(prio[u]) # b
  BY DEF HashOK
<1>6. \A b \in Buckets : hash[b] # None =>
          /\ hash[b] \in Nodes /\ Queued(hash[b], q) /\ Bucket(prio[hash[b]]) = b
          /\ \A u \in Nodes : Queued(u, q) /\ Bucket(prio[u]) = b =>
                u = hash[b] \/ Earlier(hash[b], u, q)
  BY DEF HashOK
<1>7. ASSUME NEW b \in Buckets, hash'[b] = None, NEW u \in Nodes, Queued(u, r)
      PROVE  Bucket(prio'[u]) # b
  <2>1. b # Bucket(k) /\ hash[b] = None
    BY <1>1, <1>4, <1>7
  <2> QED
    BY <1>2, <1>3, <1>5, <1>7, <2>1
<1>8. ASSUME NEW b \in Buckets, hash'[b] # None
      PROVE  \A h : h = hash'[b] =>
                /\ Queued(h, r) /\ Bucket(prio'[h]) = b
                /\ \A u \in Nodes : Queued(u, r) /\ Bucket(prio'[u]) = b =>
                      u = h \/ Earlier(h, u, r)
  <2> SUFFICES ASSUME NEW h, h = hash'[b]
               PROVE  /\ Queued(h, r) /\ Bucket(prio'[h]) = b
                      /\ \A u \in Nodes : Queued(u, r) /\ Bucket(prio'[u]) = b =>
                            u = h \/ Earlier(h, u, r)
    OBVIOUS
  <2>1. CASE b # Bucket(k)
    BY <1>2, <1>3, <1>6, <1>8, <2>1
  <2>2. CASE b = Bucket(k) /\ h = p
    <3>1. \A u \in Nodes : Queued(u, q) /\ Bucket(prio[u]) = Bucket(k) => u \notin A
      BY <1>3, <1>4, <1>6, <2>2
    <3> QED
      BY <1>2, <1>3, <2>2, <3>1
  <2>3. CASE b = Bucket(k) /\ h # p
    <3>1. h = hash[b] /\ h # None /\ h \in A
      BY <2>3
    <3> QED
      BY <1>2, <1>3, <1>6, <2>3, <3>1
  <2> QED
    BY <2>1, <2>2, <2>3
<1>9. \A b \in Buckets : hash'[b] # None =>
         /\ Queued(hash'[b], r) /\ Bucket(prio'[hash'[b]]) = b
         /\ \A u \in Nodes : Queued(u, r) /\ Bucket(prio'[u]) = b =>
               u = hash'[b] \/ Earlier(hash'[b], u, r)
  BY <1>8
<1> QED
  BY <1>7, <1>9 DEF HashOK, Queued, Earlier

-----------------------------------------------------------------------------
(* Where the search ends *)

\* Among the tops that satisfy P there is one of the lowest priority.
LEMMA LowestTop ==
    ASSUME NEW q, QueueOK(q), NEW D \in SUBSET Nodes, D # {}
    PROVE  \E m \in D : \A y \in D : prio[y] <= prio[m]
<1>1. \A y \in Nodes : prio[y] \in 0..Lowest /\ Lowest \in Nat
  BY QueueAssumption DEF QueueOK
<1> DEFINE S == {Lowest - prio[y] : y \in D}
<1>2. S \in SUBSET Nat /\ S # {}
  BY <1>1
<1>3. PICK n \in S : \A l \in S : n <= l
  BY <1>2, LeastElement
<1>4. PICK m \in D : n = Lowest - prio[m]
  OBVIOUS
<1>5. \A y \in D : Lowest - prio[m] <= Lowest - prio[y]
  BY <1>3, <1>4
<1> QED
  BY <1>1, <1>5

\* It starts at the top of a ring in no later bucket: that of k, if it is not empty.
LEMMA StartsAtTop ==
    ASSUME NEW q, QueueOK(q), TopsOK(q), HashOK(q), NEW k \in 0..Lowest,
           list # None, prio[list] <= k
    PROVE  /\ Start(k) \in Nodes /\ TopOf(Start(k), q)
           /\ Bucket(prio[Start(k)]) <= Bucket(k)
           /\ hash[Bucket(prio[Start(k)])] = Start(k)
           /\ hash[Bucket(k)] # None => Start(k) = hash[Bucket(k)]
<1> DEFINE filled == {b \in 0..Bucket(k) : hash[b] # None}
           m == CHOOSE b \in filled : \A d \in filled : d <= b
<1>1. \A y \in Nodes : prio[y] \in 0..Lowest
  BY DEF QueueOK
<1>2. Bucket(k) \in Nat /\ \A b \in 0..Bucket(k) : b \in Buckets /\ b \in Nat
  <2>1. Lowest \in 0..Lowest /\ k <= Lowest
    BY QueueAssumption
  <2>2. Bucket(k) \in Nat /\ Bucket(Lowest) \in Nat /\ Bucket(k) <= Bucket(Lowest)
    BY <2>1, BucketOrder
  <2>3. Buckets = 0..Bucket(Lowest)
    BY DEF Buckets, Bucket
  <2> QED
    BY <2>2, <2>3
<1>3. /\ list \in Nodes /\ Queued(list, q)
      /\ \A u \in Nodes : Queued(u, q) => hash[Bucket(prio[u])] # None
  BY <1>1, BucketOrder DEF TopsOK, TopOf, HashOK
<1>4. Bucket(prio[list]) \in filled
  BY <1>1, <1>2, <1>3, BucketOrder
<1>5. \E b \in filled : \A d \in filled : d <= b
  <2> DEFINE S == {Bucket(k) - b : b \in filled}
  <2>1. S \in SUBSET Nat /\ S # {}
    BY <1>2, <1>4
  <2>2. PICK n \in S : \A l \in S : n <= l
    BY <2>1, LeastElement
  <2>3. PICK b \in filled : n = Bucket(k) - b
    OBVIOUS
  <2>4. \A d \in filled : Bucket(k) - b <= Bucket(k) - d
    BY <2>2, <2>3
  <2> QED
    BY <1>2, <2>4
<1>6. m \in filled /\ \A d \in filled : d <= m
  BY <1>5
<1>7. Start(k) = hash[m]
  BY DEF Start
<1> HIDE DEF m
<1>8. m \in Buckets /\ m \in Nat /\ m <= Bucket(k) /\ hash[m] # None
  BY <1>2, <1>6
<1>9. PICK s : s = hash[m]
  OBVIOUS
<1>10. /\ s \in Nodes /\ Queued(s, q) /\ Bucket(prio[s]) = m
       /\ \A u \in Nodes : Queued(u, q) /\ Bucket(prio[u]) = m => u = s \/ Earlier(s, u, q)
  BY <1>8, <1>9 DEF HashOK
<1>11. TopOf(s, q)
  <2> SUFFICES ASSUME NEW v \in Nodes, Earlier(v, s, q) PROVE prio[v] < prio[s]
    BY <1>10 DEF TopOf
  <2>1. Queued(v, q) /\ v # s /\ ~Earlier(s, v, q) /\ prio[v] <= prio[s]
    BY <1>10, TotalOrder DEF QueueOK
  <2>2. prio[v] # prio[s]
    BY <1>10, <2>1
  <2> QED
    BY <1>1, <1>10, <2>1, <2>2, QueueAssumption
<1>12. hash[Bucket(k)] # None => m = Bucket(k)
  <2> SUFFICES ASSUME hash[Bucket(k)] # None PROVE m = Bucket(k)
    OBVIOUS
  <2>1. Bucket(k) \in filled
    BY <1>2
  <2> QED
    BY <1>2, <1>6, <1>8, <2>1
<1> QED
  BY <1>7, <1>8, <1>9, <1>10, <1>11, <1>12

\* f leads every entry along the top to the last of those better than b.
Walks(f, b) ==
    f = [y \in Nodes |-> IF next[y] # None /\ b > prio[next[y]] THEN f[next[y]] ELSE y]

\* x is the last that the search past the entries better than b reaches from s.
Arrives(q, x, s, b) ==
    /\ x \in Nodes /\ TopOf(x, q) /\ prio[s] <= prio[x]
    /\ x = s \/ prio[x] < b
    /\ next[x] # None => b <= prio[next[x]]

\* The search along the top is a function: from each entry it comes to an end.
LEMMA WalkExists ==
    ASSUME NEW q, QueueOK(q), TopsOK(q), NEW b \in Int
    PROVE  \E f : Walks(f, b)
<1> DEFINE D == {y \in Nodes : TopOf(y, q) /\ prio[y] < b}
           on(y) == next[y] # None /\ b > prio[next[y]]
<1>1. \A y \in Nodes : prio[y] \in Int
  BY QueueAssumption DEF QueueOK
<1>2. \A y \in Nodes : on(y) => next[y] \in Nodes /\ next[y] \in D
  BY <1>1 DEF TopsOK
<1>3. PICK m : D # {} => m \in D /\ \A y \in D : prio[y] <= prio[m]
  <2>1. D # {} => \E m \in D : \A y \in D : prio[y] <= prio[m]
    BY LowestTop
  <2> QED
    BY <2>1
<1> DEFINE f == [y \in Nodes |-> IF on(y) THEN m ELSE y]
<1>4. ASSUME NEW y \in Nodes, on(y) PROVE f[next[y]] = m
  <2>1. PICK z \in Nodes : z = next[y]
    BY <1>2, <1>4
  <2>2. z \in D /\ m \in D /\ prio[z] <= prio[m]
    BY <1>2, <1>3, <1>4, <2>1
  <2>3. CASE ~on(z)
    <3>1. prio[z] = prio[m]
      <4> SUFFICES ASSUME prio[z] < prio[m] PROVE FALSE
        BY <1>1, <2>2
      <4>1. Queued(m, q) /\ m \in Nodes /\ prio[m] < b /\ TopOf(z, q)
        BY <2>2 DEF TopOf
      <4>2. next[z] # None
        BY <1>1, <4>1 DEF TopsOK
      <4>3. next[z] \in Nodes /\ b <= prio[next[z]] /\ Gap(z, next[z], q)
        BY <1>1, <2>3, <4>2 DEF TopsOK
      <4> QED
        BY <1>1, <4>1, <4>3 DEF Gap
    <3>2. z = m
      BY <2>2, <3>1, OneTop
    <3> QED
      BY <2>1, <2>3, <3>2
  <2>4. CASE on(z)
    BY <2>1, <2>4
  <2> QED
    BY <2>3, <2>4
<1>5. f = [y \in Nodes |-> IF next[y] # None /\ b > prio[next[y]] THEN f[next[y]] ELSE y]
  <2>1. \A y \in Nodes : (IF on(y) THEN m ELSE y) =
           IF next[y] # None /\ b > prio[next[y]] THEN f[next[y]] ELSE y
    BY <1>4
  <2> QED
    BY <2>1
<1>6. Walks(f, b)
  BY <1>5 DEF Walks
<1> QED
  BY <1>6

\* From a top entry the search comes to the last of the tops it passes.
LEMMA WalkArrives ==
    ASSUME NEW q, QueueOK(q), TopsOK(q), NEW b \in Int, NEW f, Walks(f, b),
           NEW s \in Nodes, TopOf(s, q)
    PROVE  Arrives(q, f[s], s, b)
<1>1. \A y \in Nodes : prio[y] \in Int
  BY QueueAssumption DEF QueueOK
<1>2. \A y \in Nodes : f[y] = IF next[y] # None /\ b > prio[next[y]] THEN f[next[y]] ELSE y
  BY DEF Walks
<1> DEFINE D == {y \in Nodes : TopOf(y, q) /\ ~Arrives(q, f[y], y, b)}
<1>3. ASSUME NEW y \in D PROVE \E z \in D : prio[y] < prio[z]
  <2>1. y \in Nodes /\ TopOf(y, q) /\ ~Arrives(q, f[y], y, b)
    OBVIOUS
  <2>2. next[y] # None /\ b > prio[next[y]]
    <3> SUFFICES ASSUME ~(next[y] # None /\ b > prio[next[y]]) PROVE FALSE
      OBVIOUS
    <3>1. f[y] = y
      BY <1>2, <2>1
    <3>2. next[y] # None => next[y] \in Nodes
      BY <2>1 DEF TopsOK
    <3> QED
      BY <1>1, <2>1, <3>1, <3>2 DEF Arrives
  <2>3. PICK z \in Nodes : z = next[y]
    BY <2>1, <2>2 DEF TopsOK
  <2>4. f[y] = f[z] /\ TopOf(z, q) /\ prio[y] < prio[z] /\ prio[z] < b
    BY <1>1, <1>2, <2>1, <2>2, <2>3 DEF TopsOK
  <2>5. ~Arrives(q, f[z], z, b)
    BY <1>1, <2>1, <2>4 DEF Arrives
  <2> QED
    BY <2>4, <2>5
<1>4. D = {}
  <2> SUFFICES ASSUME D # {} PROVE FALSE
    OBVIOUS
  <2>1. D \in SUBSET Nodes
    OBVIOUS
  <2> HIDE DEF D
  <2>2. PICK m \in D : \A y \in D : prio[y] <= prio[m]
    BY <2>1, LowestTop
  <2>3. PICK z \in D : prio[m] < prio[z]
    BY <1>3
  <2> QED
    BY <1>1, <2>1, <2>2, <2>3
<1> QED
  BY <1>4

\* LastBetter stops before the first that is not better than k,
LEMMA LastBetterArrives ==
    ASSUME NEW q, QueueOK(q), TopsOK(q), NEW k \in Int, NEW s \in Nodes, TopOf(s, q)
    PROVE  Arrives(q, LastBetter(s, k), s, k)
<1>1. \E f : Walks(f, k)
  BY WalkExists
<1>2. PICK f : f = CHOOSE g : Walks(g, k)
  OBVIOUS
<1>3. Walks(f, k)
  BY <1>1, <1>2
<1>4. LastBetter(s, k) = f[s]
  BY <1>2 DEF LastBetter, Walks
<1>5. Arrives(q, f[s], s, k)
  BY <1>3, WalkArrives
<1> QED
  BY <1>4, <1>5

\* and LastNotWorse before the first that k beats.
LEMMA LastNotWorseArrives ==
    ASSUME NEW q, QueueOK(q), TopsOK(q), NEW k \in Int, NEW s \in Nodes, TopOf(s, q)
    PROVE  Arrives(q, LastNotWorse(s, k), s, k + 1)
<1> DEFINE Past(f) ==
             f = [y \in Nodes |-> IF next[y] # None /\ k >= prio[next[y]] THEN f[next[y]] ELSE y]
<1>1. \A y \in Nodes : next[y] # None => (k >= prio[next[y]] <=> k + 1 > prio[next[y]])
  <2>1. \A y \in Nodes : next[y] # None => prio[next[y]] \in Int
    BY QueueAssumption DEF QueueOK, TopsOK
  <2> QED
    BY <2>1
<1>2. ASSUME NEW f PROVE Past(f) <=> Walks(f, k + 1)
  <2>1. [y \in Nodes |-> IF next[y] # None /\ k >= prio[next[y]] THEN f[next[y]] ELSE y] =
        [y \in Nodes |-> IF next[y] # None /\ k + 1 > prio[next[y]] THEN f[next[y]] ELSE y]
    BY <1>1
  <2> QED
    BY <2>1 DEF Walks
<1>3. PICK f : f = CHOOSE g : Past(g)
  OBVIOUS
<1>4. LastNotWorse(s, k) = f[s]
  BY <1>3 DEF LastNotWorse
<1> HIDE DEF Past
<1>5. \E g : Walks(g, k + 1)
  BY WalkExists
<1>6. Past(f)
  BY <1>2, <1>3, <1>5
<1>7. Arrives(q, f[s], s, k + 1)
  BY <1>2, <1>6, WalkArrives
<1> QED
  BY <1>4, <1>7

-----------------------------------------------------------------------------
(* The splices that put an entry in *)

\* The entries that one of priority k goes behind, and those that a thread which goes
\* in front of its equals does.
LEMMA EntersBehind ==
    ASSUME NEW q, LinkedAs(q), NEW p \in Nodes, ~InQueue(p), NEW k \in Prios, NEW r, NEW A
    PROVE  /\ r = Enqueue(q, p, k, prio) /\ A = {u \in Nodes : prio[u] <= k} =>
                 Entered(q, r, p, k, A)
           /\ r = EnqueueFirst(q, p, k, prio) /\ A = {u \in Nodes : prio[u] < k} =>
                 Entered(q, r, p, k, A)
<1>1. /\ q \in Seq(Nodes) /\ Distinct(q) /\ prio \in [Nodes -> 0..Lowest]
      /\ k \in Int /\ Lowest \in Nat /\ QueueOK(q)
  BY QueueAssumption DEF LinkedAs, QueueOK
<1>2. prio \in [Nodes -> Int] /\ \A u \in Nodes : prio[u] \in Int
  BY <1>1
<1>3. ~Queued(p, q)
  <2>1. \A u \in Nodes : Queued(u, q) => Queued(up[u], q) /\ down[up[u]] = u
                                         /\ Queued(down[u], q)
    BY DEF LinkedAs, RingsOK
  <2>2. ~Queued(None, q)
    BY <1>1, TotalOrder, QueueAssumption
  <2> QED
    BY <2>1, <2>2 DEF InQueue
<1>4. Ordered(q, prio)
  <2>1. DOMAIN q = 1..Len(q) /\ \A i \in DOMAIN q : q[i] \in Nodes
    BY <1>1, LenProperties, ElementOfSeq
  <2>2. \A i, j \in DOMAIN q : i < j => Earlier(q[i], q[j], q)
    BY DEF Earlier
  <2> QED
    BY <1>1, <2>1, <2>2 DEF Ordered, QueueOK
<1>5. ASSUME r = Enqueue(q, p, k, prio), A = {u \in Nodes : prio[u] <= k}
      PROVE  Entered(q, r, p, k, A)
  <2>1. Joins(Enqueue(q, p, k, prio), q, p, {u \in Nodes : prio[u] <= k})
    BY <1>1, <1>2, <1>3, <1>4, EnqueueJoins
  <2>2. Place(k, A)
    BY <1>1, <1>2, <1>5 DEF Place
  <2> QED
    BY <1>1, <1>3, <1>5, <2>1, <2>2 DEF Entered
<1>6. ASSUME r = EnqueueFirst(q, p, k, prio), A = {u \in Nodes : prio[u] < k}
      PROVE  Entered(q, r, p, k, A)
  <2>1. Joins(EnqueueFirst(q, p, k, prio), q, p, {u \in Nodes : prio[u] < k})
    BY <1>1, <1>2, <1>3, <1>4, EnqueueFirstJoins
  <2>2. Place(k, A)
    BY <1>1, <1>2, <1>6 DEF Place
  <2> QED
    BY <1>1, <1>3, <1>6, <2>1, <2>2 DEF Entered
<1> QED
  BY <1>5, <1>6

\* AsHead: p beats all.
LEMMA HeadLinked ==
    ASSUME NEW q, NEW r, NEW p, NEW k, NEW A, LinkedAs(q), Entered(q, r, p, k, A),
           prio' = [prio EXCEPT ![p] = k], Beats(k), AsHead(p, k)
    PROVE  LinkedAs(r)'
<1>1. /\ QueueOK(q) /\ RingsOK(q) /\ TopsOK(q) /\ HashOK(q) /\ p \in Nodes
      /\ k \in 0..Lowest /\ k \in Int /\ None \notin Nodes /\ ~Queued(p, q)
  BY QueueAssumption DEF LinkedAs, Entered
<1>2. \A u \in Nodes : prio[u] \in Int
  BY QueueAssumption, <1>1 DEF QueueOK
<1>3. \A u \in Nodes : Queued(u, q) => k < prio[u]
  BY <1>1, <1>2 DEF TopsOK, Beats
<1>4. PICK y : y = list
  OBVIOUS
<1>5. Fresh(q, k)
  BY <1>1, <1>2, <1>3 DEF Fresh
<1>6. Between(q, None, y, k)
  BY <1>1, <1>3, <1>4 DEF Between, TopsOK, TopOf
<1>7. Splice(p, None, y)
  <2>1. prev \in [Nodes -> Nodes \cup {None}] /\ prev[p] = None
    BY <1>1 DEF TopsOK, TopOf
  <2>2. y \in Nodes \cup {None} /\ y # p
    BY <1>1, <1>4 DEF TopsOK, TopOf
  <2>3. Set(prev, y, p) = [Set(prev, y, p) EXCEPT ![p] = None]
    BY <1>1, <2>1, <2>2 DEF Set
  <2> QED
    BY <1>4, <2>3 DEF AsHead, Splice, Set
<1>8. TopsOK(r)'
  BY <1>1, <1>5, <1>6, <1>7, SpliceTops
<1>9. RingsOK(r)'
  BY <1>1, <1>5, RingAlone DEF AsHead
<1>10. QueueOK(r)'
  BY EnterQueue
<1>11. HashOK(r)'
  <2>1. Bucket(k) \in Buckets /\ hash \in [Buckets -> Nodes \cup {None}]
    BY <1>1, BucketOrder DEF HashOK
  <2>2. /\ hash' \in [Buckets -> Nodes \cup {None}] /\ hash'[Bucket(k)] = p
        /\ \A b \in Buckets : b # Bucket(k) => hash'[b] = hash[b]
    BY <1>1, <2>1 DEF AsHead
  <2>3. \A u \in Nodes : Queued(u, q) => u \notin A
    BY <1>1, <1>2, <1>3 DEF Entered, Place
  <2> QED
    BY <1>1, <2>2, <2>3, HashJoined
<1> QED
  BY <1>8, <1>9, <1>10, <1>11 DEF LinkedAs

\* Before: p beats the first of its bucket.
LEMMA BeforeLinked ==
    ASSUME NEW q, NEW r, NEW p, NEW k, NEW A, LinkedAs(q), Entered(q, r, p, k, A),
           prio' = [prio EXCEPT ![p] = k], list # None, prio[list] <= k, k < prio[Start(k)],
           Before(p, k, Start(k))
    PROVE  LinkedAs(r)'
<1>1. /\ QueueOK(q) /\ RingsOK(q) /\ TopsOK(q) /\ HashOK(q) /\ p \in Nodes
      /\ k \in 0..Lowest /\ k \in Int /\ None \notin Nodes /\ ~Queued(p, q)
  BY QueueAssumption DEF LinkedAs, Entered
<1>2. \A u \in Nodes : prio[u] \in Int /\ prio[u] \in 0..Lowest
  BY QueueAssumption, <1>1 DEF QueueOK
<1>3. PICK s : s = Start(k)
  OBVIOUS
<1>4. /\ s \in Nodes /\ TopOf(s, q) /\ Bucket(prio[s]) <= Bucket(k)
      /\ hash[Bucket(prio[s])] = s /\ k < prio[s]
  BY <1>1, <1>3, StartsAtTop
<1>5. Bucket(prio[s]) = Bucket(k) /\ Bucket(k) \in Buckets
  <2>1. Bucket(k) <= Bucket(prio[s]) /\ Bucket(k) \in Nat /\ Bucket(prio[s]) \in Nat
    BY <1>1, <1>2, <1>4, BucketOrder
  <2> QED
    BY <1>1, <1>4, <2>1, BucketOrder
<1>6. \A u \in Nodes : Queued(u, q) /\ Bucket(prio[u]) = Bucket(k) => prio[s] <= prio[u]
  <2>1. \A u \in Nodes : Queued(u, q) /\ Bucket(prio[u]) = Bucket(k) => u = s \/ Earlier(s, u, q)
    BY <1>1, <1>4, <1>5 DEF HashOK
  <2> QED
    BY <1>1, <1>2, <1>4, <2>1 DEF QueueOK
<1>7. \A u \in Nodes : Queued(u, q) /\ prio[u] <= prio[s] => prio[u] < k \/ prio[u] = prio[s]
  <2> SUFFICES ASSUME NEW u \in Nodes, Queued(u, q), prio[u] <= prio[s], k <= prio[u]
               PROVE  prio[u] = prio[s]
    BY <1>1, <1>2
  <2>1. /\ Bucket(k) <= Bucket(prio[u]) /\ Bucket(prio[u]) <= Bucket(prio[s])
        /\ Bucket(k) \in Nat /\ Bucket(prio[u]) \in Nat
    BY <1>1, <1>2, <1>4, BucketOrder
  <2>2. Bucket(prio[u]) = Bucket(k)
    BY <1>5, <2>1
  <2> QED
    BY <1>2, <1>4, <1>6, <2>2
<1>8. PICK x : x = prev[s]
  OBVIOUS
<1>9. x \in Nodes /\ next[x] = s
  <2>1. s # list
    BY <1>1, <1>2, <1>4
  <2> QED
    BY <1>4, <1>8, <2>1, <1>1 DEF TopsOK
<1>10. TopOf(x, q) /\ prio[x] < prio[s]
  BY <1>1, <1>4, <1>9 DEF TopsOK
<1>11. prio[x] < k
  BY <1>2, <1>4, <1>7, <1>9, <1>10 DEF TopOf
<1>12. Between(q, x, s, k)
  BY <1>1, <1>4, <1>8, <1>9, <1>10, <1>11 DEF Between
<1>13. Fresh(q, k)
  BY <1>1, <1>2, <1>4, <1>7 DEF Fresh
<1>14. Splice(p, x, s)
  <2>1. prev \in [Nodes -> Nodes \cup {None}] /\ next \in [Nodes -> Nodes \cup {None}]
    BY <1>1 DEF TopsOK
  <2>2. x # None /\ s # None /\ p # x /\ p # s
    BY <1>1, <1>4, <1>9, <1>10 DEF TopOf
  <2>3. /\ prev' = [prev EXCEPT ![p] = x, ![s] = p] /\ next' = [next EXCEPT ![p] = s, ![x] = p]
        /\ list' = list
    BY <1>3, <1>8 DEF Before
  <2>4. [prev EXCEPT ![p] = x, ![s] = p] = [[prev EXCEPT ![s] = p] EXCEPT ![p] = x]
    BY <1>1, <1>4, <1>9, <2>1, <2>2
  <2>5. [next EXCEPT ![p] = s, ![x] = p] = [[next EXCEPT ![x] = p] EXCEPT ![p] = s]
    BY <1>1, <1>4, <1>9, <2>1, <2>2
  <2> QED
    BY <2>2, <2>3, <2>4, <2>5 DEF Splice, Set
<1>15. TopsOK(r)'
  BY <1>1, <1>12, <1>13, <1>14, SpliceTops
<1>16. RingsOK(r)'
  BY <1>1, <1>13, RingAlone DEF Before
<1>17. QueueOK(r)'
  BY EnterQueue
<1>18. HashOK(r)'
  <2>1. /\ hash' \in [Buckets -> Nodes \cup {None}] /\ hash'[Bucket(k)] = p
        /\ \A b \in Buckets : b # Bucket(k) => hash'[b] = hash[b]
    BY <1>1, <1>5 DEF Before, HashOK
  <2>2. \A u \in Nodes : Queued(u, q) /\ Bucket(prio[u]) = Bucket(k) => u \notin A
    BY <1>1, <1>2, <1>4, <1>6 DEF Entered, Place
  <2> QED
    BY <1>1, <2>1, <2>2, HashJoined
<1> QED
  BY <1>15, <1>16, <1>17, <1>18 DEF LinkedAs

\* After: p comes after the top x and before the next.
LEMMA AfterLinked ==
    ASSUME NEW q, NEW r, NEW p, NEW k, NEW A, NEW x, LinkedAs(q), Entered(q, r, p, k, A),
           prio' = [prio EXCEPT ![p] = k], x \in Nodes, TopOf(x, q), prio[x] < k,
           next[x] # None => k < prio[next[x]],
           hash[Bucket(k)] # None => prio[hash[Bucket(k)]] <= k,
           After(p, k, x)
    PROVE  LinkedAs(r)'
<1>1. /\ QueueOK(q) /\ RingsOK(q) /\ TopsOK(q) /\ HashOK(q) /\ p \in Nodes
      /\ k \in 0..Lowest /\ k \in Int /\ None \notin Nodes /\ ~Queued(p, q)
  BY QueueAssumption DEF LinkedAs, Entered
<1>2. \A u \in Nodes : prio[u] \in Int /\ prio[u] \in 0..Lowest
  BY QueueAssumption, <1>1 DEF QueueOK
<1>3. PICK y : y = next[x]
  OBVIOUS
<1>4. Fresh(q, k)
  <2> SUFFICES ASSUME NEW u \in Nodes, Queued(u, q), prio[u] = k PROVE FALSE
    BY DEF Fresh
  <2>1. next[x] # None
    BY <1>1, <1>2 DEF TopsOK
  <2>2. Gap(x, next[x], q) /\ next[x] \in Nodes
    BY <1>1, <2>1 DEF TopsOK
  <2> QED
    BY <1>2, <2>1, <2>2 DEF Gap
<1>5. Between(q, x, y, k)
  BY <1>1, <1>3 DEF Between, TopsOK
<1>6. Splice(p, x, y)
  <2>1. prev \in [Nodes -> Nodes \cup {None}] /\ next \in [Nodes -> Nodes \cup {None}]
    BY <1>1 DEF TopsOK
  <2>2. x # None /\ p # x
    BY <1>1 DEF TopOf
  <2>3. /\ prev' = [Set(prev, y, p) EXCEPT ![p] = x] /\ next' = [next EXCEPT ![p] = y, ![x] = p]
        /\ list' = list
    BY <1>3 DEF After
  <2>4. y \in Nodes \cup {None}
    BY <1>3, <2>1
  <2>5. [next EXCEPT ![p] = y, ![x] = p] = [[next EXCEPT ![x] = p] EXCEPT ![p] = y]
    BY <1>1, <2>1, <2>2, <2>4
  <2> QED
    BY <2>2, <2>3, <2>5 DEF Splice, Set
<1>7. TopsOK(r)'
  BY <1>1, <1>4, <1>5, <1>6, SpliceTops
<1>8. RingsOK(r)'
  BY <1>1, <1>4, RingAlone DEF After
<1>9. QueueOK(r)'
  BY EnterQueue
<1>10. HashOK(r)'
  <2>1. Bucket(k) \in Buckets /\ hash \in [Buckets -> Nodes \cup {None}]
    BY <1>1, BucketOrder DEF HashOK
  <2>2. /\ hash' \in [Buckets -> Nodes \cup {None}]
        /\ hash'[Bucket(k)] = IF hash[Bucket(k)] = None THEN p ELSE hash[Bucket(k)]
        /\ \A b \in Buckets : b # Bucket(k) => hash'[b] = hash[b]
    BY <1>1, <2>1 DEF After
  <2>3. CASE hash[Bucket(k)] = None
    <3>1. \A u \in Nodes : Queued(u, q) => Bucket(prio[u]) # Bucket(k)
      BY <1>1, <2>1, <2>3 DEF HashOK
    <3> QED
      BY <1>1, <2>2, <2>3, <3>1, HashJoined
  <2>4. CASE hash[Bucket(k)] # None
    <3>1. PICK h \in Nodes : h = hash[Bucket(k)] /\ Queued(h, q)
      BY <1>1, <2>1, <2>4 DEF HashOK
    <3>2. prio[h] < k
      BY <1>1, <1>2, <1>4, <2>4, <3>1 DEF Fresh
    <3>3. h \in A
      BY <3>1, <3>2 DEF Entered, Place
    <3> QED
      BY <1>1, <2>2, <2>4, <3>1, <3>3, HashJoined
  <2> QED
    BY <2>3, <2>4
<1> QED
  BY <1>7, <1>8, <1>9, <1>10 DEF LinkedAs

\* Below: p goes behind its equals, in the ring of their top x.
LEMMA BelowLinked ==
    ASSUME NEW q, NEW r, NEW p, NEW k, NEW A, NEW x, LinkedAs(q), Entered(q, r, p, k, A),
           A = {u \in Nodes : prio[u] <= k},
           prio' = [prio EXCEPT ![p] = k], x \in Nodes, TopOf(x, q), prio[x] = k,
           Below(p, k, x)
    PROVE  LinkedAs(r)'
<1>1. /\ QueueOK(q) /\ RingsOK(q) /\ TopsOK(q) /\ HashOK(q) /\ p \in Nodes
      /\ k \in 0..Lowest /\ k \in Int /\ None \notin Nodes /\ ~Queued(p, q)
  BY QueueAssumption DEF LinkedAs, Entered
<1>2. \A u \in Nodes : prio[u] \in Int /\ prio[u] \in 0..Lowest
  BY QueueAssumption, <1>1 DEF QueueOK
<1>3. QueueOK(r)'
  BY EnterQueue
<1>4. \A v \in Nodes : Queued(v, q) /\ prio[v] = k => v \in A
  BY <1>1, <1>2
<1>5. RingsOK(r)'
  BY <1>1, <1>4, RingJoined DEF Below
<1>6. Placed(q, r, p, k, A)
  BY EnterPlaces
<1>7. \A u \in Nodes : TopOf(u, r)' <=> TopOf(u, q)
  <2>1. Queued(x, q) /\ x \in A
    BY <1>4 DEF TopOf
  <2>2. ~TopOf(p, r)'
    BY <1>2, <1>6, <2>1 DEF Placed
  <2>3. ~TopOf(p, q)
    BY <1>1 DEF TopOf
  <2>4. \A u \in Nodes : u # p => (TopOf(u, r)' <=> TopOf(u, q))
    BY <1>4, <1>6 DEF Placed, TopOf
  <2> QED
    BY <2>2, <2>3, <2>4
<1>8. \A u \in Nodes : TopOf(u, q) => prio'[u] = prio[u]
  BY <1>1, <1>6 DEF Placed, TopOf
<1>9. NoNewPriority(q, r)
  <2>1. \A u : Queued(u, r) <=> u = p \/ Queued(u, q)
    BY DEF Entered, Joins
  <2> QED
    BY <1>6, <2>1 DEF NoNewPriority, Placed, TopOf
<1>10. TopsOK(r)'
  <2>1. prio \in [Nodes -> 0..Lowest] /\ prio' \in [Nodes -> 0..Lowest]
    BY <1>1, <1>3 DEF QueueOK
  <2> QED
    BY <1>1, <1>7, <1>8, <1>9, <2>1, TopsKept DEF Below
<1>11. HashOK(r)'
  <2>1. /\ Bucket(k) \in Buckets /\ hash \in [Buckets -> Nodes \cup {None}] /\ hash' = hash
        /\ Queued(x, q)
    BY <1>1, BucketOrder DEF HashOK, Below, TopOf
  <2>2. hash[Bucket(k)] # None
    BY <1>1, <2>1 DEF HashOK
  <2>3. PICK h \in Nodes : h = hash[Bucket(k)] /\ (x = h \/ Earlier(h, x, q))
    BY <1>1, <2>1, <2>2 DEF HashOK
  <2>4. h \in A
    BY <1>1, <1>2, <2>3 DEF QueueOK
  <2>5. hash[Bucket(k)] \in A /\ hash'[Bucket(k)] = hash[Bucket(k)]
    BY <2>1, <2>3, <2>4
  <2> QED
    BY <1>1, <2>1, <2>2, <2>5, HashJoined
<1> QED
  BY <1>3, <1>5, <1>10, <1>11 DEF LinkedAs

\* OnTop: p takes the place of x on top of their ring.
LEMMA OnTopLinked ==
    ASSUME NEW q, NEW r, NEW p, NEW k, NEW A, NEW x, LinkedAs(q), Entered(q, r, p, k, A),
           A = {u \in Nodes : prio[u] < k},
           prio' = [prio EXCEPT ![p] = k], x \in Nodes, TopOf(x, q), prio[x] = k, x # list,
           OnTop(p, k, x)
    PROVE  LinkedAs(r)'
<1>1. /\ QueueOK(q) /\ RingsOK(q) /\ TopsOK(q) /\ HashOK(q) /\ p \in Nodes
      /\ k \in 0..Lowest /\ k \in Int /\ None \notin Nodes /\ ~Queued(p, q)
  BY QueueAssumption DEF LinkedAs, Entered
<1>2. \A u \in Nodes : prio[u] \in Int /\ prio[u] \in 0..Lowest
  BY QueueAssumption, <1>1 DEF QueueOK
<1>3. QueueOK(r)'
  BY EnterQueue
<1>4. \A v \in Nodes : Queued(v, q) /\ prio[v] = k => v \notin A
  BY <1>1, <1>2
<1>5. RingsOK(r)'
  BY <1>1, <1>4, RingJoined DEF OnTop
<1>6. Placed(q, r, p, k, A)
  BY EnterPlaces
<1>7. x # p /\ ~TopOf(p, q) /\ prio'[p] = prio[x]
  BY <1>1, <1>6 DEF TopOf, Placed
<1>8. \A u \in Nodes : TopOf(u, r)' <=> u = p \/ (u # x /\ TopOf(u, q))
  <2>1. TopOf(p, r)'
    BY <1>2, <1>6 DEF Placed
  <2>2. ~TopOf(x, r)'
    BY <1>2, <1>6, <1>7 DEF Placed
  <2>3. \A u \in Nodes : u # p /\ u # x => (TopOf(u, r)' <=> TopOf(u, q))
    <3>1. \A u \in Nodes : TopOf(u, q) /\ prio[u] = k => u = x
      BY <1>1, OneTop
    <3> QED
      BY <1>6, <3>1 DEF Placed
  <2> QED
    BY <1>7, <2>1, <2>2, <2>3
<1>9. \A u \in Nodes : TopOf(u, q) /\ u # x => prio'[u] = prio[u]
  BY <1>1, <1>6 DEF Placed, TopOf
<1>10. NoNewPriority(q, r)
  <2>1. \A u : Queued(u, r) <=> u = p \/ Queued(u, q)
    BY DEF Entered, Joins
  <2> QED
    BY <1>6, <2>1 DEF NoNewPriority, Placed, TopOf
<1>11. TopsOK(r)'
  <2>1. prio \in [Nodes -> 0..Lowest] /\ prio' \in [Nodes -> 0..Lowest]
    BY <1>1, <1>3 DEF QueueOK
  <2>2. list' = IF x = list THEN p ELSE list
    BY DEF OnTop
  <2> QED
    BY <1>1, <1>7, <1>8, <1>9, <1>10, <2>1, <2>2, TopReplaced DEF OnTop
<1>12. HashOK(r)'
  <2>1. /\ Bucket(k) \in Buckets /\ hash \in [Buckets -> Nodes \cup {None}] /\ Queued(x, q)
    BY <1>1, BucketOrder DEF HashOK, TopOf
  <2>2. /\ hash' \in [Buckets -> Nodes \cup {None}]
        /\ hash'[Bucket(k)] = IF hash[Bucket(k)] = x THEN p ELSE hash[Bucket(k)]
        /\ \A b \in Buckets : b # Bucket(k) => hash'[b] = hash[b]
    BY <1>1, <2>1 DEF OnTop
  <2>3. hash[Bucket(k)] # None
    BY <1>1, <2>1 DEF HashOK
  <2>4. PICK h \in Nodes : /\ h = hash[Bucket(k)] /\ (x = h \/ Earlier(h, x, q))
                           /\ \A u \in Nodes : Queued(u, q) /\ Bucket(prio[u]) = Bucket(k) =>
                                 u = h \/ Earlier(h, u, q)
    BY <1>1, <2>1, <2>3 DEF HashOK
  <2>5. CASE h = x
    <3>1. \A u \in Nodes : Queued(u, q) /\ Bucket(prio[u]) = Bucket(k) => u \notin A
      BY <1>1, <1>2, <2>4, <2>5 DEF QueueOK
    <3> QED
      BY <1>1, <2>2, <2>4, <2>5, <3>1, HashJoined
  <2>6. CASE h # x
    <3>1. h \in A
      BY <1>2, <2>4, <2>6 DEF TopOf
    <3>2. hash[Bucket(k)] \in A /\ hash'[Bucket(k)] = hash[Bucket(k)]
      BY <2>2, <2>4, <2>6, <3>1
    <3> QED
      BY <1>1, <2>2, <2>3, <3>2, HashJoined
  <2> QED
    BY <2>5, <2>6
<1> QED
  BY <1>3, <1>5, <1>11, <1>12 DEF LinkedAs

\* PrioEnqueue, Insert and the return of a thread without quantum put their entry behind
\* those that are not less urgent,
LEMMA ArriveLinked ==
    ASSUME NEW q, LinkedAs(q), NEW p \in Nodes, NEW k \in Prios, NEW r,
           r = Enqueue(q, p, k, prio),
           PrioEnqueue(p, k) \/ Insert(p, k) \/ PutBack(p, k, TRUE)
    PROVE  LinkedAs(r)'
<1>1. /\ QueueOK(q) /\ TopsOK(q) /\ HashOK(q) /\ k \in 0..Lowest /\ k \in Int
      /\ None \notin Nodes
  BY QueueAssumption DEF LinkedAs
<1>2. \A u \in Nodes : prio[u] \in Int
  BY QueueAssumption, <1>1 DEF QueueOK
<1>3. ~InQueue(p) /\ prio' = [prio EXCEPT ![p] = k]
  BY DEF PrioEnqueue, Insert, PutBack
<1>4. PICK A : A = {u \in Nodes : prio[u] <= k}
  OBVIOUS
<1>5. Entered(q, r, p, k, A)
  BY <1>3, <1>4, EntersBehind
<1>6. CASE Beats(k) /\ AsHead(p, k)
  BY <1>3, <1>5, <1>6, HeadLinked
<1>7. ASSUME ~(Beats(k) /\ AsHead(p, k)) PROVE list # None /\ prio[list] <= k
  BY <1>1, <1>2, <1>7 DEF PrioEnqueue, Insert, PutBack, Beats, TopsOK
<1>8. CASE list # None /\ prio[list] <= k /\ k < prio[Start(k)] /\ Before(p, k, Start(k))
  BY <1>3, <1>5, <1>8, BeforeLinked
<1>9. ASSUME NEW x, x \in Nodes, TopOf(x, q), k = prio[x], Below(p, k, x) PROVE LinkedAs(r)'
  BY <1>3, <1>4, <1>5, <1>9, BelowLinked
<1>10. ASSUME list # None, prio[list] <= k, NEW x, x \in Nodes, TopOf(x, q), prio[x] < k,
              next[x] # None => k < prio[next[x]], After(p, k, x), k >= prio[Start(k)]
       PROVE  LinkedAs(r)'
  <2>1. hash[Bucket(k)] # None => prio[hash[Bucket(k)]] <= k
    BY <1>1, <1>2, <1>10, StartsAtTop
  <2> QED
    BY <1>3, <1>5, <1>10, <2>1, AfterLinked
<1>11. ASSUME list # None, prio[list] <= k PROVE Start(k) \in Nodes /\ TopOf(Start(k), q)
  BY <1>1, <1>11, StartsAtTop
<1>12. CASE /\ list # None /\ prio[list] <= k /\ k >= prio[Start(k)]
            /\ LET x == LastBetter(Start(k), k)
               IN  IF k = prio[x] THEN Below(p, k, x)
                   ELSE IF next[x] # None /\ k = prio[next[x]] THEN Below(p, k, next[x])
                   ELSE After(p, k, x)
  <2>1. PICK x : x = LastBetter(Start(k), k)
    OBVIOUS
  <2>2. Arrives(q, x, Start(k), k)
    BY <1>1, <1>11, <1>12, <2>1, LastBetterArrives
  <2>3. CASE k = prio[x]
    BY <1>9, <1>12, <2>1, <2>2, <2>3 DEF Arrives
  <2>4. CASE k # prio[x] /\ next[x] # None /\ k = prio[next[x]]
    <3>1. PICK y : y = next[x]
      OBVIOUS
    <3>2. y \in Nodes /\ TopOf(y, q) /\ k = prio[y]
      BY <1>1, <2>2, <2>4, <3>1 DEF Arrives, TopsOK
    <3>3. Below(p, k, y)
      BY <1>12, <2>1, <2>4, <3>1
    <3> QED
      BY <1>9, <3>2, <3>3
  <2>5. CASE k # prio[x] /\ ~(next[x] # None /\ k = prio[next[x]])
    <3>1. After(p, k, x)
      BY <1>12, <2>1, <2>5
    <3>2. x \in Nodes /\ TopOf(x, q) /\ prio[x] < k
      BY <1>1, <1>2, <1>11, <1>12, <2>2, <2>5 DEF Arrives
    <3>3. next[x] # None => k < prio[next[x]]
      BY <1>1, <1>2, <2>2, <2>5 DEF Arrives, TopsOK
    <3> QED
      BY <1>10, <1>12, <3>1, <3>2, <3>3
  <2> QED
    BY <2>3, <2>4, <2>5
<1>13. CASE /\ list # None /\ prio[list] <= k /\ k >= prio[Start(k)]
            /\ LET x == LastNotWorse(Start(k), k)
               IN  IF k = prio[x] THEN Below(p, k, x) ELSE After(p, k, x)
  <2>1. PICK x : x = LastNotWorse(Start(k), k)
    OBVIOUS
  <2>2. Arrives(q, x, Start(k), k + 1)
    BY <1>1, <1>11, <1>13, <2>1, LastNotWorseArrives
  <2>3. CASE k = prio[x]
    BY <1>9, <1>13, <2>1, <2>2, <2>3 DEF Arrives
  <2>4. CASE k # prio[x]
    <3>1. After(p, k, x)
      BY <1>13, <2>1, <2>4
    <3>2. x \in Nodes /\ TopOf(x, q) /\ prio[x] < k
      BY <1>1, <1>2, <1>11, <1>13, <2>2, <2>4 DEF Arrives
    <3>3. next[x] # None => k < prio[next[x]]
      BY <1>1, <1>2, <2>2, <2>4 DEF Arrives, TopsOK
    <3> QED
      BY <1>10, <1>13, <3>1, <3>2, <3>3
  <2> QED
    BY <2>3, <2>4
<1>14. CASE PrioEnqueue(p, k)
  BY <1>6, <1>7, <1>8, <1>12, <1>14 DEF PrioEnqueue
<1>15. CASE Insert(p, k)
  BY <1>6, <1>7, <1>8, <1>13, <1>15 DEF Insert
<1>16. CASE PutBack(p, k, TRUE)
  <2>1. list # None /\ prio[list] <= k
    BY <1>1, <1>2, <1>16 DEF PutBack, TopsOK
  <2>2. \/ k < prio[Start(k)] /\ Before(p, k, Start(k))
        \/ /\ k >= prio[Start(k)]
           /\ LET x == LastNotWorse(Start(k), k)
              IN  IF k = prio[x] THEN Below(p, k, x) ELSE After(p, k, x)
    BY <1>16 DEF PutBack
  <2> QED
    BY <1>8, <1>13, <2>1, <2>2
<1> QED
  BY <1>14, <1>15, <1>16

\* the return of one with quantum left behind those that are more urgent,
LEMMA ReturnLinked ==
    ASSUME NEW q, LinkedAs(q), NEW p \in Nodes, NEW k \in Prios, NEW r,
           r = EnqueueFirst(q, p, k, prio), PutBack(p, k, FALSE)
    PROVE  LinkedAs(r)'
<1>1. /\ QueueOK(q) /\ TopsOK(q) /\ HashOK(q) /\ k \in 0..Lowest /\ k \in Int
      /\ None \notin Nodes
  BY QueueAssumption DEF LinkedAs
<1>2. \A u \in Nodes : prio[u] \in Int
  BY QueueAssumption, <1>1 DEF QueueOK
<1>3. ~InQueue(p) /\ prio' = [prio EXCEPT ![p] = k] /\ list # None /\ prio[list] < k
  BY DEF PutBack
<1>4. PICK A : A = {u \in Nodes : prio[u] < k}
  OBVIOUS
<1>5. Entered(q, r, p, k, A)
  BY <1>3, <1>4, EntersBehind
<1>6. list \in Nodes /\ prio[list] <= k
  BY <1>1, <1>2, <1>3 DEF TopsOK
<1>7. Start(k) \in Nodes /\ TopOf(Start(k), q)
  BY <1>1, <1>3, <1>6, StartsAtTop
<1>8. CASE k < prio[Start(k)] /\ Before(p, k, Start(k))
  BY <1>3, <1>5, <1>6, <1>8, BeforeLinked
<1>9. CASE /\ k >= prio[Start(k)]
           /\ LET x == LastNotWorse(Start(k), k)
              IN  IF k # prio[x] THEN After(p, k, x) ELSE OnTop(p, k, x)
  <2>1. PICK x : x = LastNotWorse(Start(k), k)
    OBVIOUS
  <2>2. Arrives(q, x, Start(k), k + 1)
    BY <1>1, <1>7, <2>1, LastNotWorseArrives
  <2>3. x \in Nodes /\ TopOf(x, q)
    BY <2>2 DEF Arrives
  <2>4. CASE k = prio[x]
    <3>1. OnTop(p, k, x) /\ x # list
      BY <1>2, <1>3, <1>6, <1>9, <2>1, <2>4
    <3> QED
      BY <1>3, <1>4, <1>5, <2>3, <2>4, <3>1, OnTopLinked
  <2>5. CASE k # prio[x]
    <3>1. After(p, k, x)
      BY <1>9, <2>1, <2>5
    <3>2. prio[x] < k
      BY <1>1, <1>2, <1>7, <1>9, <2>2, <2>5 DEF Arrives
    <3>3. next[x] # None => k < prio[next[x]]
      BY <1>1, <1>2, <2>2, <2>5 DEF Arrives, TopsOK
    <3>4. hash[Bucket(k)] # None => prio[hash[Bucket(k)]] <= k
      BY <1>1, <1>2, <1>3, <1>6, <1>7, <1>9, StartsAtTop
    <3> QED
      BY <1>3, <1>5, <2>3, <3>1, <3>2, <3>3, <3>4, AfterLinked
  <2> QED
    BY <2>4, <2>5
<1> QED
  BY <1>8, <1>9 DEF PutBack

\* and a thread that is the equal of the head goes behind it.
LEMMA EqualLinked ==
    ASSUME NEW q, LinkedAs(q), NEW p \in Nodes, NEW k, k = prio[list], NEW r,
           r = Enqueue(q, p, k, prio), PutBackEqual(p)
    PROVE  LinkedAs(r)' /\ k \in Prios
<1>1. QueueOK(q) /\ TopsOK(q) /\ list # None
  BY DEF LinkedAs, PutBackEqual
<1>2. PICK x \in Nodes : x = list /\ TopOf(x, q)
  BY <1>1 DEF TopsOK
<1>3. k \in Prios
  BY <1>1, <1>2 DEF QueueOK, TopOf
<1>4. PICK A : A = {u \in Nodes : prio[u] <= k}
  OBVIOUS
<1>5. ~InQueue(p) /\ prio' = [prio EXCEPT ![p] = k] /\ Below(p, k, x)
  BY <1>2 DEF PutBackEqual
<1>6. Entered(q, r, p, k, A)
  BY <1>3, <1>4, <1>5, EntersBehind
<1>7. LinkedAs(r)'
  BY <1>2, <1>4, <1>5, <1>6, BelowLinked
<1> QED
  BY <1>3, <1>7

-----------------------------------------------------------------------------
(* An entry that leaves *)

\* p leaves the queue q, and r is what it leaves.
Left(q, r, p) == QueueOK(q) /\ p \in Nodes /\ Queued(p, q) /\ Leaves(r, q, p)

\* What is left is a queue in the order of its priorities,
LEMMA LeaveQueue ==
    ASSUME NEW q, NEW r, NEW p, Left(q, r, p), prio' = [prio EXCEPT ![p] = Lowest]
    PROVE  QueueOK(r)'
<1>1. prio \in [Nodes -> 0..Lowest] /\ p \in Nodes /\ Lowest \in 0..Lowest
  BY QueueAssumption DEF Left, QueueOK
<1>2. /\ prio' \in [Nodes -> 0..Lowest] /\ prio'[p] = Lowest
      /\ \A u \in Nodes : u # p => prio'[u] = prio[u]
  BY <1>1
<1>3. /\ r \in Seq(Nodes) /\ Distinct(r)
      /\ \A u : Queued(u, r) <=> u # p /\ Queued(u, q)
      /\ \A u, v : Earlier(u, v, r) <=> u # p /\ v # p /\ Earlier(u, v, q)
  BY DEF Left, Leaves
<1>4. \A u \in Nodes : IF Queued(u, r) THEN prio'[u] \in Prios ELSE prio'[u] = Lowest
  BY <1>2, <1>3 DEF Left, QueueOK
<1>5. \A u, v \in Nodes : Earlier(u, v, r) => prio'[u] <= prio'[v]
  BY <1>2, <1>3 DEF Left, QueueOK
<1> QED
  BY <1>2, <1>3, <1>4, <1>5 DEF QueueOK

\* in which the others keep their places: only the one below a top gets another.
Kept(q, r, p) ==
    /\ \A u \in Nodes : u # p => prio'[u] = prio[u]
    /\ ~TopOf(p, r)'
    /\ \A u \in Nodes : u # p =>
          /\ TopOf(u, q) => TopOf(u, r)'
          /\ BottomOf(u, q) => BottomOf(u, r)'
          /\ ~TopOf(p, q) => (TopOf(u, r)' <=> TopOf(u, q))
          /\ Fresh(r, prio[p]) => (TopOf(u, r)' <=> TopOf(u, q))
    /\ \A u, v \in Nodes : u # p /\ v # p /\ Adjacent(u, v, q) => Adjacent(u, v, r)

\* An entry that leaves the queue leaves the others in those places.
LEMMA LeavePlaces ==
    ASSUME NEW q, NEW r, NEW p, Left(q, r, p), prio' = [prio EXCEPT ![p] = Lowest]
    PROVE  Kept(q, r, p)
<1>1. prio \in [Nodes -> 0..Lowest] /\ p \in Nodes /\ Lowest \in 0..Lowest
  BY QueueAssumption DEF Left, QueueOK
<1>2. \A u \in Nodes : prio[u] \in Int /\ (u # p => prio'[u] = prio[u])
  BY <1>1
<1>3. /\ q \in Seq(Nodes) /\ Distinct(q) /\ Queued(p, q)
      /\ \A u : Queued(u, r) <=> u # p /\ Queued(u, q)
      /\ \A u, v : Earlier(u, v, r) <=> u # p /\ v # p /\ Earlier(u, v, q)
  BY DEF Left, Leaves, QueueOK
<1>4. \A u, v \in Nodes : Earlier(u, v, q) => prio[u] <= prio[v] /\ Queued(u, q) /\ Queued(v, q)
  BY <1>3, TotalOrder DEF Left, QueueOK
<1>5. ~TopOf(p, r)'
  BY <1>3 DEF TopOf
<1>6. ASSUME NEW u \in Nodes, u # p
      PROVE  /\ TopOf(u, r)' <=> /\ Queued(u, q)
                                 /\ \A v \in Nodes : v # p /\ Earlier(v, u, q) => prio[v] < prio[u]
             /\ BottomOf(u, r)' <=> /\ Queued(u, q)
                                    /\ \A v \in Nodes : v # p /\ Earlier(u, v, q) =>
                                          prio[u] < prio[v]
  BY <1>2, <1>3, <1>6 DEF TopOf, BottomOf
<1>7. ASSUME NEW u \in Nodes, u # p
      PROVE  /\ TopOf(u, q) => TopOf(u, r)'
             /\ BottomOf(u, q) => BottomOf(u, r)'
  BY <1>6, <1>7 DEF TopOf, BottomOf
<1>8. ASSUME NEW u \in Nodes, u # p, TopOf(u, r)', ~TopOf(p, q) PROVE TopOf(u, q)
  <2>1. PICK t \in Nodes : Earlier(t, p, q) /\ ~(prio[t] < prio[p])
    BY <1>3, <1>8 DEF TopOf
  <2>2. t # p /\ (Earlier(p, u, q) => Earlier(t, u, q))
    BY <1>3, <2>1, TotalOrder
  <2>3. prio[t] = prio[p]
    BY <1>1, <1>2, <1>4, <2>1
  <2>4. Earlier(p, u, q) => prio[p] < prio[u]
    BY <1>2, <1>6, <1>8, <2>2, <2>3
  <2> QED
    BY <1>6, <1>8, <2>4 DEF TopOf
<1>9. ASSUME NEW u \in Nodes, u # p, TopOf(u, r)', Fresh(r, prio[p]) PROVE TopOf(u, q)
  <2>1. Queued(u, q) /\ prio[u] # prio[p]
    BY <1>3, <1>6, <1>9 DEF Fresh
  <2>2. Earlier(p, u, q) => prio[p] < prio[u]
    BY <1>1, <1>2, <1>4, <2>1
  <2> QED
    BY <1>6, <1>9, <2>2 DEF TopOf
<1>10. \A u, v \in Nodes : u # p /\ v # p /\ Adjacent(u, v, q) => Adjacent(u, v, r)
  BY <1>3 DEF Adjacent
<1> QED
  BY <1>2, <1>5, <1>7, <1>8, <1>9, <1>10 DEF Kept

\* The top of a lone entry goes: its neighbours are joined.
LEMMA TopLeaves ==
    ASSUME NEW q, NEW r, NEW p, Left(q, r, p), prio' = [prio EXCEPT ![p] = Lowest],
           TopsOK(q), TopOf(p, q), Fresh(r, prio[p]),
           list' = IF prev[p] = None THEN next[p] ELSE list,
           next' = [Set(next, prev[p], next[p]) EXCEPT ![p] = None],
           prev' = [Set(prev, next[p], prev[p]) EXCEPT ![p] = None]
    PROVE  TopsOK(r)'
<1>1. /\ prio \in [Nodes -> 0..Lowest] /\ p \in Nodes /\ Lowest \in 0..Lowest
      /\ QueueOK(q) /\ None \notin Nodes
  BY QueueAssumption DEF Left, QueueOK
<1>2. \A u \in Nodes : prio[u] \in Int /\ (u # p => prio'[u] = prio[u])
  BY <1>1
<1>3. \A u : Queued(u, r) <=> u # p /\ Queued(u, q)
  BY DEF Left, Leaves
<1>4. \A u \in Nodes : Queued(u, r) => prio[u] # prio[p]
  BY DEF Fresh
<1>5. ~TopOf(p, r)' /\ \A u \in Nodes : u # p => (TopOf(u, r)' <=> TopOf(u, q))
  BY LeavePlaces DEF Kept
<1>6. \A u \in Nodes : TopOf(u, q) => Queued(u, q)
  BY DEF TopOf
<1>7. PICK x, y : x = prev[p] /\ y = next[p]
  OBVIOUS
<1>8. /\ list \in Nodes \cup {None}
      /\ next \in [Nodes -> Nodes \cup {None}] /\ prev \in [Nodes -> Nodes \cup {None}]
      /\ x \in Nodes \cup {None} /\ y \in Nodes \cup {None}
  BY <1>1, <1>7 DEF TopsOK
<1>9. /\ list = None => \A u \in Nodes : ~Queued(u, q)
      /\ list # None => /\ TopOf(list, q) /\ prev[list] = None
                        /\ \A u \in Nodes : Queued(u, q) => prio[list] <= prio[u]
  BY DEF TopsOK
<1>10. \A u \in Nodes : next[u] # None =>
          /\ TopOf(u, q) /\ TopOf(next[u], q) /\ prev[next[u]] = u
          /\ prio[u] < prio[next[u]]
          /\ \A w \in Nodes : Queued(w, q) => ~(prio[u] < prio[w] /\ prio[w] < prio[next[u]])
  BY DEF TopsOK, Gap
<1>11. \A u \in Nodes : prev[u] # None => next[prev[u]] = u
  BY DEF TopsOK
<1>12. \A u \in Nodes : TopOf(u, q) =>
          /\ next[u] = None => \A v \in Nodes : Queued(v, q) => prio[v] <= prio[u]
          /\ prev[u] = None => u = list
  BY DEF TopsOK
<1>13. /\ x # None => x \in Nodes /\ next[x] = p /\ TopOf(x, q) /\ prio[x] < prio[p]
       /\ y # None => y \in Nodes /\ prev[y] = p /\ TopOf(y, q) /\ prio[p] < prio[y]
       /\ x # p /\ y # p /\ (x = y => x = None)
  BY <1>1, <1>2, <1>7, <1>8, <1>10, <1>11
<1>14. /\ next' \in [Nodes -> Nodes \cup {None}] /\ prev' \in [Nodes -> Nodes \cup {None}]
       /\ next'[p] = None /\ prev'[p] = None
       /\ x # None => next'[x] = y
       /\ y # None => prev'[y] = x
       /\ \A u \in Nodes : u # p /\ u # x => next'[u] = next[u]
       /\ \A u \in Nodes : u # p /\ u # y => prev'[u] = prev[u]
  BY <1>1, <1>7, <1>8, <1>13 DEF Set
<1>15. list' = IF x = None THEN y ELSE list
  BY <1>7
\* What is not p is no better than y or no worse than x.
<1>16. \A u \in Nodes : Queued(u, r) =>
          /\ prio[u] < prio[p] => x # None /\ prio[u] <= prio[x]
          /\ prio[p] < prio[u] => y # None /\ prio[y] <= prio[u]
  <2> SUFFICES ASSUME NEW u \in Nodes, Queued(u, q), u # p
               PROVE  /\ prio[u] < prio[p] => x # None /\ prio[u] <= prio[x]
                      /\ prio[p] < prio[u] => y # None /\ prio[y] <= prio[u]
    BY <1>3
  <2>1. x = None => p = list /\ prio[p] <= prio[u]
    BY <1>1, <1>7, <1>9, <1>12
  <2>2. y = None => prio[u] <= prio[p]
    BY <1>1, <1>7, <1>12
  <2>3. x # None => ~(prio[x] < prio[u] /\ prio[u] < prio[p])
    BY <1>10, <1>13, <1>1
  <2>4. y # None => ~(prio[p] < prio[u] /\ prio[u] < prio[y])
    BY <1>1, <1>7, <1>10
  <2> QED
    BY <1>1, <1>2, <1>13, <2>1, <2>2, <2>3, <2>4
<1>17. \A u \in Nodes : Queued(u, r) => prio[u] < prio[p] \/ prio[p] < prio[u]
  BY <1>1, <1>2, <1>4
<1>18. list' = None => \A u \in Nodes : ~Queued(u, r)
  BY <1>3, <1>9, <1>15, <1>16, <1>17
<1>19. /\ list' \in Nodes \cup {None}
       /\ list' # None => /\ TopOf(list, r)' /\ prev'[list'] = None
                          /\ \A u \in Nodes : Queued(u, r) => prio'[list'] <= prio'[u]
  <2>1. CASE x = None
    <3>1. y # None => TopOf(y, r)' /\ prev'[y] = None /\ y \in Nodes
      BY <1>5, <1>13, <1>14, <2>1
    <3>2. \A u \in Nodes : Queued(u, r) => y # None /\ prio[y] <= prio[u]
      BY <1>16, <1>17, <2>1
    <3>3. \A u \in Nodes : Queued(u, r) => y # None /\ prio'[y] <= prio'[u]
      BY <1>2, <1>3, <1>13, <3>2
    <3>4. y = list' => (TopOf(y, r)' <=> TopOf(list, r)')
      BY DEF TopOf
    <3> QED
      BY <1>8, <1>15, <2>1, <3>1, <3>3, <3>4
  <2>2. CASE x # None
    <3>1. /\ list \in Nodes /\ list # None /\ TopOf(list, q) /\ prev[list] = None /\ list' = list
          /\ list # p
      BY <1>1, <1>3, <1>6, <1>7, <1>8, <1>9, <1>13, <1>15, <2>2
    <3>2. list # y
      BY <1>1, <1>13, <2>2, <3>1
    <3>3. TopOf(list, r)' /\ prev'[list] = None
      BY <1>5, <1>14, <3>1, <3>2 DEF TopOf
    <3>4. \A u \in Nodes : Queued(u, r) => prio'[list] <= prio'[u]
      BY <1>2, <1>3, <1>9, <3>1
    <3> QED
      BY <3>1, <3>3, <3>4
  <2> QED
    BY <2>1, <2>2
<1>20. ASSUME NEW u \in Nodes, next'[u] # None
       PROVE  /\ TopOf(u, r)' /\ TopOf(next[u], r)' /\ prev'[next'[u]] = u
              /\ prio'[u] < prio'[next'[u]] /\ Gap(u, next[u], r)'
  <2>1. PICK v \in Nodes : v = next'[u]
    BY <1>14, <1>20
  <2>2. /\ TopOf(u, r)' /\ TopOf(v, r)' /\ u # p /\ v # p
        /\ prev'[v] = u /\ prio[u] < prio[v]
        /\ \A w \in Nodes : Queued(w, r) => ~(prio[u] < prio[w] /\ prio[w] < prio[v])
    <3>1. u # p
      BY <1>14, <1>20
    <3>2. CASE u = x
      <4>1. v = y /\ v # None /\ u # None
        BY <1>1, <1>14, <1>20, <2>1, <3>2
      <4>2. TopOf(u, r)' /\ TopOf(v, r)' /\ v # p /\ prev'[v] = u
        BY <1>5, <1>13, <1>14, <3>1, <3>2, <4>1
      <4>3. prio[u] < prio[v]
        BY <1>1, <1>2, <1>13, <3>2, <4>1
      <4> QED
        BY <1>1, <1>2, <1>13, <1>16, <1>17, <3>1, <3>2, <4>1, <4>2, <4>3
    <3>3. CASE u # x
      <4>1. v = next[u] /\ v # None
        BY <1>1, <1>14, <2>1, <3>1, <3>3
      <4>2. prev[v] = u /\ v # p /\ v # y
        BY <1>7, <1>10, <1>13, <3>1, <3>3, <4>1
      <4>3. TopOf(u, r)' /\ TopOf(v, r)' /\ prev'[v] = u /\ prio[u] < prio[v]
        BY <1>5, <1>10, <1>14, <3>1, <4>1, <4>2
      <4>4. \A w \in Nodes : Queued(w, r) => ~(prio[u] < prio[w] /\ prio[w] < prio[v])
        BY <1>3, <1>10, <4>1
      <4> QED
        BY <3>1, <4>2, <4>3, <4>4
    <3> QED
      BY <3>2, <3>3
  <2>3. prio'[u] = prio[u] /\ prio'[v] = prio[v]
    BY <1>2, <2>2
  <2>4. \A w \in Nodes : Queued(w, r) => ~(prio'[u] < prio'[w] /\ prio'[w] < prio'[v])
    BY <1>2, <1>3, <2>2, <2>3
  <2>5. TopOf(next[u], r)' /\ Gap(u, next[u], r)'
    BY <2>1, <2>2, <2>4 DEF TopOf, Gap
  <2> QED
    BY <2>1, <2>2, <2>3, <2>5
<1>21. ASSUME NEW u \in Nodes, prev'[u] # None PROVE next'[prev'[u]] = u
  <2>1. CASE u = y
    BY <1>1, <1>13, <1>14, <1>21, <2>1
  <2>2. CASE u # y
    <3>1. u # p /\ prev'[u] = prev[u] /\ next[prev[u]] = u /\ prev[u] \in Nodes
      BY <1>8, <1>11, <1>14, <1>21, <2>2
    <3>2. prev[u] # p /\ prev[u] # x
      BY <1>7, <1>13, <2>2, <3>1, <1>1
    <3> QED
      BY <1>14, <3>1, <3>2
  <2> QED
    BY <2>1, <2>2
<1>22. ASSUME NEW u \in Nodes, TopOf(u, r)'
       PROVE  /\ next'[u] = None => \A v \in Nodes : Queued(v, r) => prio'[v] <= prio'[u]
              /\ prev'[u] = None => u = list'
  <2>1. u # p /\ TopOf(u, q) /\ prio'[u] = prio[u]
    BY <1>2, <1>5, <1>22
  <2>2. ASSUME next'[u] = None, NEW v \in Nodes, Queued(v, r) PROVE prio'[v] <= prio'[u]
    <3>1. v # p /\ Queued(v, q) /\ prio'[v] = prio[v]
      BY <1>2, <1>3, <2>2
    <3>2. CASE u = x
      <4>1. y = None
        BY <1>1, <1>14, <2>2, <3>2
      <4>2. prio[v] < prio[p] /\ prio[v] <= prio[x]
        BY <1>16, <1>17, <2>2, <4>1
      <4> QED
        BY <2>1, <3>1, <3>2, <4>2
    <3>3. CASE u # x
      BY <1>12, <1>14, <2>1, <2>2, <3>1, <3>3
    <3> QED
      BY <3>2, <3>3
  <2>3. ASSUME prev'[u] = None PROVE u = list'
    <3>1. CASE u = y
      BY <1>1, <1>14, <1>15, <2>3, <3>1
    <3>2. CASE u # y
      <4>1. u = list
        BY <1>12, <1>14, <2>1, <2>3, <3>2
      <4>2. x # None
        BY <1>1, <1>7, <1>12, <2>1, <4>1
      <4> QED
        BY <1>15, <4>1, <4>2
    <3> QED
      BY <3>1, <3>2
  <2> QED
    BY <2>2, <2>3
<1> QED
  BY <1>14, <1>18, <1>19, <1>20, <1>21, <1>22 DEF TopsOK

\* The ring of a lone entry goes.
LEMMA RingLeaves ==
    ASSUME NEW q, NEW r, NEW p, Left(q, r, p), prio' = [prio EXCEPT ![p] = Lowest],
           RingsOK(q), down[p] = p,
           up' = [up EXCEPT ![p] = None], down' = [down EXCEPT ![p] = None]
    PROVE  RingsOK(r)'
<1>1. p \in Nodes /\ Queued(p, q) /\ \A u : Queued(u, r) <=> u # p /\ Queued(u, q)
  BY DEF Left, Leaves
<1>2. /\ up \in [Nodes -> Nodes \cup {None}] /\ down \in [Nodes -> Nodes \cup {None}]
      /\ \A u : Queued(u, q) => u \in Nodes
  BY TotalOrder DEF RingsOK, Left, QueueOK
<1>3. /\ up' \in [Nodes -> Nodes \cup {None}] /\ down' \in [Nodes -> Nodes \cup {None}]
      /\ up'[p] = None /\ down'[p] = None
      /\ \A u \in Nodes : u # p => up'[u] = up[u] /\ down'[u] = down[u]
  BY <1>1, <1>2
<1>4. \A u \in Nodes : ~Queued(u, r) => up'[u] = None /\ down'[u] = None
  BY <1>1, <1>3 DEF RingsOK
<1>5. ASSUME NEW u \in Nodes, Queued(u, r)
      PROVE  /\ Queued(up'[u], r) /\ down'[up'[u]] = u
             /\ Queued(down'[u], r) /\ up'[down'[u]] = u /\ prio'[down'[u]] = prio'[u]
             /\ Adjacent(u, down[u], r)' \/ (BottomOf(u, r)' /\ TopOf(down[u], r)')
  <2>1. /\ u # p /\ Queued(u, q) /\ Queued(up[u], q) /\ down[up[u]] = u
        /\ Queued(down[u], q) /\ up[down[u]] = u /\ prio[down[u]] = prio[u]
        /\ Adjacent(u, down[u], q) \/ (BottomOf(u, q) /\ TopOf(down[u], q))
    BY <1>1, <1>5 DEF RingsOK
  <2>2. up[p] = p
    BY <1>1 DEF RingsOK
  <2>3. PICK d \in Nodes : d = down[u]
    BY <1>2, <2>1
  <2>4. up[u] \in Nodes /\ up[u] # p /\ d # p
    BY <1>2, <2>1, <2>2, <2>3
  <2>5. prio'[u] = prio[u] /\ prio'[d] = prio[d]
    BY <2>1, <2>4, LeavePlaces DEF Kept
  <2>6. /\ Adjacent(u, d, q) => Adjacent(u, d, r)
        /\ BottomOf(u, q) /\ TopOf(d, q) => BottomOf(u, r)' /\ TopOf(d, r)'
    BY <2>1, <2>4, LeavePlaces DEF Kept
  <2>7. down'[u] = d
    BY <1>3, <2>1, <2>3
  <2>8. Adjacent(u, down[u], r)' \/ (BottomOf(u, r)' /\ TopOf(down[u], r)')
    BY <2>1, <2>3, <2>6, <2>7 DEF Adjacent, TopOf
  <2> QED
    BY <1>1, <1>3, <2>1, <2>3, <2>4, <2>5, <2>7, <2>8
<1> QED
  BY <1>3, <1>4, <1>5 DEF RingsOK

\* The ring of another closes over it,
LEMMA RingCloses ==
    ASSUME NEW q, NEW r, NEW p, NEW d, NEW b, Left(q, r, p), prio' = [prio EXCEPT ![p] = Lowest],
           RingsOK(q), d = down[p], d # p, b = up[p],
           up' = [up EXCEPT ![d] = b, ![p] = None], down' = [down EXCEPT ![b] = d, ![p] = None]
    PROVE  RingsOK(r)'
<1>1. /\ p \in Nodes /\ Queued(p, q) /\ \A u : Queued(u, r) <=> u # p /\ Queued(u, q)
      /\ \A u, v : Earlier(u, v, r) <=> u # p /\ v # p /\ Earlier(u, v, q)
      /\ q \in Seq(Nodes) /\ Distinct(q) /\ QueueOK(q)
  BY DEF Left, Leaves, QueueOK
<1>2. /\ up \in [Nodes -> Nodes \cup {None}] /\ down \in [Nodes -> Nodes \cup {None}]
      /\ \A u : Queued(u, q) => u \in Nodes
  BY <1>1, TotalOrder DEF RingsOK
<1>3. \A u \in Nodes : prio[u] \in Int
  BY <1>1, QueueAssumption DEF QueueOK
<1>4. \A u \in Nodes : Queued(u, q) =>
         /\ Queued(up[u], q) /\ down[up[u]] = u
         /\ Queued(down[u], q) /\ up[down[u]] = u /\ prio[down[u]] = prio[u]
         /\ Adjacent(u, down[u], q) \/ (BottomOf(u, q) /\ TopOf(down[u], q))
  BY DEF RingsOK
<1>5. /\ d \in Nodes /\ b \in Nodes /\ b # p /\ Queued(d, q) /\ Queued(b, q)
      /\ down[b] = p /\ up[d] = p /\ prio[d] = prio[p] /\ prio[b] = prio[p]
  BY <1>1, <1>2, <1>4
<1>6. /\ up' \in [Nodes -> Nodes \cup {None}] /\ down' \in [Nodes -> Nodes \cup {None}]
      /\ up'[p] = None /\ down'[p] = None /\ up'[d] = b /\ down'[b] = d
      /\ \A u \in Nodes : u # p /\ u # d => up'[u] = up[u]
      /\ \A u \in Nodes : u # p /\ u # b => down'[u] = down[u]
  BY <1>1, <1>2, <1>5
<1>7. \A u \in Nodes : ~Queued(u, r) => up'[u] = None /\ down'[u] = None
  BY <1>1, <1>5, <1>6 DEF RingsOK
<1>8. Kept(q, r, p)
  BY LeavePlaces
<1>9. Adjacent(b, d, r) \/ (BottomOf(b, r)' /\ TopOf(d, r)')
  <2>1. /\ Adjacent(b, p, q) \/ (BottomOf(b, q) /\ TopOf(p, q))
        /\ Adjacent(p, d, q) \/ (BottomOf(p, q) /\ TopOf(d, q))
    BY <1>1, <1>4, <1>5
  <2>2. /\ TopOf(d, q) => TopOf(d, r)'
        /\ BottomOf(b, q) => BottomOf(b, r)'
        /\ prio'[b] = prio[b] /\ prio'[d] = prio[d]
        /\ \A u \in Nodes : u # p => prio'[u] = prio[u]
    BY <1>5, <1>8 DEF Kept
  <2>3. \A w : Queued(w, q) /\ w # p => Earlier(w, p, q) \/ Earlier(p, w, q)
    BY <1>1, TotalOrder
  <2>4. \A u, v : Earlier(u, v, q) => Queued(u, q) /\ Queued(v, q)
    BY <1>1, TotalOrder
  <2>5. CASE Adjacent(b, p, q) /\ Adjacent(p, d, q)
    <3>1. Earlier(b, d, q)
      BY <1>1, <2>5, TotalOrder DEF Adjacent
    <3>2. \A w \in Nodes : ~(Earlier(b, w, r) /\ Earlier(w, d, r))
      BY <1>1, <2>3, <2>4, <2>5 DEF Adjacent
    <3> QED
      BY <1>1, <1>5, <3>1, <3>2 DEF Adjacent
  <2>6. CASE Adjacent(b, p, q) /\ BottomOf(p, q) /\ TopOf(d, q)
    <3>1. ASSUME NEW v \in Nodes, Earlier(b, v, r) PROVE prio[b] < prio[v]
      <4>1. v # p /\ Queued(v, q) /\ Earlier(b, v, q)
        BY <1>1, <2>4, <3>1
      <4>2. Earlier(p, v, q)
        BY <2>3, <2>6, <4>1 DEF Adjacent
      <4> QED
        BY <1>5, <2>6, <4>2 DEF BottomOf
    <3>2. \A v \in Nodes : Earlier(b, v, r) => prio'[b] < prio'[v]
      BY <1>1, <2>2, <3>1
    <3>3. BottomOf(b, r)'
      BY <1>1, <1>5, <3>2 DEF BottomOf
    <3> QED
      BY <2>2, <2>6, <3>3
  <2>7. CASE BottomOf(b, q) /\ Adjacent(p, d, q) /\ TopOf(p, q)
    <3>1. ASSUME NEW v \in Nodes, Earlier(v, d, r) PROVE prio[v] < prio[d]
      <4>1. v # p /\ Queued(v, q) /\ Earlier(v, d, q)
        BY <1>1, <2>4, <3>1
      <4>2. Earlier(v, p, q)
        BY <2>3, <2>7, <4>1 DEF Adjacent
      <4> QED
        BY <1>5, <2>7, <4>2 DEF TopOf
    <3>2. \A v \in Nodes : Earlier(v, d, r) => prio'[v] < prio'[d]
      BY <1>1, <2>2, <3>1
    <3>3. TopOf(d, r)'
      BY <1>1, <1>5, <3>2 DEF TopOf
    <3> QED
      BY <2>2, <2>7, <3>3
  <2>8. ~(BottomOf(b, q) /\ BottomOf(p, q))
    BY <1>1, <1>5, OneTop
  <2> QED
    BY <2>1, <2>5, <2>6, <2>7, <2>8
<1>10. ASSUME NEW u \in Nodes, Queued(u, r)
      PROVE  /\ Queued(up'[u], r) /\ down'[up'[u]] = u
             /\ Queued(down'[u], r) /\ up'[down'[u]] = u /\ prio'[down'[u]] = prio'[u]
             /\ Adjacent(u, down[u], r)' \/ (BottomOf(u, r)' /\ TopOf(down[u], r)')
  <2>1. /\ u # p /\ Queued(u, q) /\ Queued(up[u], q) /\ down[up[u]] = u
        /\ Queued(down[u], q) /\ up[down[u]] = u /\ prio[down[u]] = prio[u]
        /\ Adjacent(u, down[u], q) \/ (BottomOf(u, q) /\ TopOf(down[u], q))
        /\ up[u] \in Nodes /\ down[u] \in Nodes
    BY <1>1, <1>2, <1>4, <1>10
  <2>2. Queued(up'[u], r) /\ down'[up'[u]] = u
    <3>1. CASE u = d
      BY <1>1, <1>5, <1>6, <3>1
    <3>2. CASE u # d
      <4>1. up'[u] = up[u] /\ up[u] # p /\ up[u] # b
        BY <1>5, <1>6, <2>1, <3>2
      <4> QED
        BY <1>1, <1>6, <2>1, <4>1
    <3> QED
      BY <3>1, <3>2
  <2>3. PICK c \in Nodes : c = down'[u]
    <3>1. down'[u] \in Nodes
      BY <1>5, <1>6, <2>1
    <3> QED
      BY <3>1
  <2>4. /\ Queued(c, r) /\ up'[c] = u /\ prio[c] = prio[u] /\ c # p
        /\ Adjacent(u, c, r) \/ (BottomOf(u, r)' /\ TopOf(c, r)')
    <3>1. CASE u = b
      BY <1>1, <1>5, <1>6, <1>9, <2>3, <3>1
    <3>2. CASE u # b
      <4>1. c = down[u] /\ c # p /\ c # d
        BY <1>5, <1>6, <2>1, <2>3, <3>2
      <4>2. /\ Adjacent(u, c, q) => Adjacent(u, c, r)
            /\ BottomOf(u, q) /\ TopOf(c, q) => BottomOf(u, r)' /\ TopOf(c, r)'
        BY <1>8, <2>1, <4>1 DEF Kept
      <4> QED
        BY <1>1, <1>6, <2>1, <4>1, <4>2
    <3> QED
      BY <3>1, <3>2
  <2>5. prio'[c] = prio'[u]
    BY <2>1, <2>4, LeavePlaces DEF Kept
  <2>6. Adjacent(u, down[u], r)' \/ (BottomOf(u, r)' /\ TopOf(down[u], r)')
    BY <2>3, <2>4 DEF Adjacent, TopOf
  <2> QED
    BY <2>2, <2>3, <2>4, <2>5, <2>6
<1> QED
  BY <1>6, <1>7, <1>10 DEF RingsOK

\* d takes the place of p on top.
Succeeds(d, p, q, r) ==
    /\ d \in Nodes /\ Queued(d, q) /\ ~TopOf(d, q) /\ prio[d] = prio[p] /\ prio'[d] = prio[p]
    /\ Adjacent(p, d, q)
    /\ \A u \in Nodes : TopOf(u, r)' <=> u = d \/ (u # p /\ TopOf(u, q))

\* If the one that leaves was on top, the one below it is.
LEMMA TopBelow ==
    ASSUME NEW q, NEW r, NEW p, NEW d, Left(q, r, p), prio' = [prio EXCEPT ![p] = Lowest],
           RingsOK(q), d = down[p], d # p, TopOf(p, q)
    PROVE  Succeeds(d, p, q, r)
<1>1. /\ p \in Nodes /\ Queued(p, q) /\ \A u : Queued(u, r) <=> u # p /\ Queued(u, q)
      /\ \A u, v : Earlier(u, v, r) <=> u # p /\ v # p /\ Earlier(u, v, q)
      /\ q \in Seq(Nodes) /\ Distinct(q) /\ QueueOK(q)
  BY DEF Left, Leaves, QueueOK
<1>2. \A u \in Nodes : prio[u] \in Int
  BY <1>1, QueueAssumption DEF QueueOK
<1>3. d \in Nodes /\ Queued(d, q) /\ prio[d] = prio[p]
  BY <1>1, TotalOrder DEF RingsOK
<1>4. ~TopOf(d, q)
  BY <1>1, <1>3, OneTop
<1>5. Adjacent(p, d, q)
  BY <1>1, <1>4 DEF RingsOK
<1>6. \A u \in Nodes : u # p => prio'[u] = prio[u]
  BY LeavePlaces DEF Kept
<1>7. TopOf(d, r)'
  <2>1. ASSUME NEW v \in Nodes, Earlier(v, d, r) PROVE prio[v] < prio[d]
    <3>1. v # p /\ Queued(v, q) /\ Earlier(v, d, q)
      BY <1>1, <2>1, TotalOrder
    <3>2. Earlier(v, p, q)
      BY <1>1, <1>5, <3>1, TotalOrder DEF Adjacent
    <3> QED
      BY <1>3, <3>2 DEF TopOf
  <2>2. \A v \in Nodes : Earlier(v, d, r) => prio'[v] < prio'[d]
    BY <1>1, <1>3, <1>6, <2>1
  <2> QED
    BY <1>1, <1>3, <2>2 DEF TopOf
<1>8. ASSUME NEW u \in Nodes, TopOf(u, r)', u # d PROVE u # p /\ TopOf(u, q)
  <2>1. u # p /\ Queued(u, q) /\ prio'[u] = prio[u]
    BY <1>1, <1>6, <1>8 DEF TopOf
  <2>2. \A v \in Nodes : v # p /\ Earlier(v, u, q) => prio[v] < prio[u]
    BY <1>1, <1>6, <1>8, <2>1 DEF TopOf
  <2>3. Earlier(p, u, q) => prio[p] < prio[u]
    <3> SUFFICES ASSUME Earlier(p, u, q) PROVE prio[p] < prio[u]
      OBVIOUS
    <3>1. Earlier(d, u, q)
      BY <1>1, <1>3, <1>5, <1>8, <2>1, TotalOrder DEF Adjacent
    <3> QED
      BY <1>3, <2>2, <3>1
  <2> QED
    BY <2>1, <2>2, <2>3 DEF TopOf
<1>9. \A u \in Nodes : u # p /\ TopOf(u, q) => TopOf(u, r)'
  BY LeavePlaces DEF Kept
<1> QED
  BY <1>3, <1>4, <1>5, <1>6, <1>7, <1>8, <1>9 DEF Succeeds

\* The hash goes on to the entry below, or to the next in its bucket.
LEMMA HashLeft ==
    ASSUME NEW q, NEW r, NEW p, Left(q, r, p), prio' = [prio EXCEPT ![p] = Lowest],
           RingsOK(q), TopsOK(q), HashOK(q), hash' = HashWithout(p),
           down[p] = p => TopOf(p, q) /\ Fresh(r, prio[p])
    PROVE  HashOK(r)'
<1>1. /\ p \in Nodes /\ Queued(p, q) /\ \A u : Queued(u, r) <=> u # p /\ Queued(u, q)
      /\ \A u, v : Earlier(u, v, r) <=> u # p /\ v # p /\ Earlier(u, v, q)
      /\ q \in Seq(Nodes) /\ Distinct(q) /\ QueueOK(q) /\ None \notin Nodes
  BY QueueAssumption DEF Left, Leaves, QueueOK
<1>2. /\ \A u \in Nodes : prio[u] \in Int /\ prio[u] \in 0..Lowest
      /\ \A u \in Nodes : u # p => prio'[u] = prio[u]
      /\ \A u : Queued(u, q) => u \in Nodes
      /\ \A u, v \in Nodes : Earlier(u, v, q) => prio[u] <= prio[v]
  BY <1>1, QueueAssumption, TotalOrder DEF QueueOK
<1>3. PICK c \in Buckets : c = Bucket(prio[p])
  BY <1>1, <1>2, BucketOrder
<1>4. /\ hash \in [Buckets -> Nodes \cup {None}]
      /\ \A b \in Buckets : hash[b] = None =>
             \A u \in Nodes : Queued(u, q) => Bucket(prio[u]) # b
      /\ \A b \in Buckets : hash[b] # None =>
             /\ hash[b] \in Nodes /\ Queued(hash[b], q) /\ Bucket(prio[hash[b]]) = b
             /\ \A u \in Nodes : Queued(u, q) /\ Bucket(prio[u]) = b =>
                   u = hash[b] \/ Earlier(hash[b], u, q)
  BY DEF HashOK
\* What a bucket may have in the end.
<1>5. ASSUME NEW h \in [Buckets -> Nodes \cup {None}],
             \A b \in Buckets : h[b] = None =>
                \A u \in Nodes : Queued(u, r) => Bucket(prio[u]) # b,
             \A b \in Buckets : h[b] # None =>
                /\ Queued(h[b], r) /\ Bucket(prio[h[b]]) = b
                /\ \A u \in Nodes : Queued(u, r) /\ Bucket(prio[u]) = b =>
                      u = h[b] \/ Earlier(h[b], u, r),
             hash' = h
      PROVE  HashOK(r)'
  <2>1. \A u \in Nodes : Queued(u, r) => prio'[u] = prio[u]
    BY <1>1, <1>2
  <2>2. \A b \in Buckets : h[b] # None => prio'[h[b]] = prio[h[b]]
    BY <1>5, <2>1
  <2>3. \A b \in Buckets : hash'[b] = None =>
           \A u \in Nodes : Queued(u, r) => Bucket(prio'[u]) # b
    BY <1>5, <2>1
  <2>4. \A b \in Buckets : hash'[b] # None =>
           /\ Queued(hash'[b], r) /\ Bucket(prio'[hash'[b]]) = b
           /\ \A u \in Nodes : Queued(u, r) /\ Bucket(prio'[u]) = b =>
                 u = hash'[b] \/ Earlier(hash'[b], u, r)
    BY <1>5, <2>1, <2>2
  <2> QED
    BY <1>5, <2>3, <2>4 DEF HashOK, Queued, Earlier
<1>6. CASE hash[c] # p
  <2>1. hash' = hash
    BY <1>3, <1>6 DEF HashWithout
  <2>2. \A b \in Buckets : hash[b] = None =>
           \A u \in Nodes : Queued(u, r) => Bucket(prio[u]) # b
    BY <1>1, <1>4
  <2>3. \A b \in Buckets : hash[b] # None =>
           /\ Queued(hash[b], r) /\ Bucket(prio[hash[b]]) = b
           /\ \A u \in Nodes : Queued(u, r) /\ Bucket(prio[u]) = b =>
                 u = hash[b] \/ Earlier(hash[b], u, r)
    BY <1>1, <1>3, <1>4, <1>6
  <2> QED
    BY <1>4, <1>5, <2>1, <2>2, <2>3
<1>7. CASE hash[c] = p
  <2>1. PICK n : n = IF down[p] # p THEN down[p] ELSE NextInBucket(p)
    OBVIOUS
  <2>2. hash' = [hash EXCEPT ![c] = n]
    BY <1>3, <1>7, <2>1 DEF HashWithout
  <2>3. \A u \in Nodes : Queued(u, r) /\ Bucket(prio[u]) = c => Earlier(p, u, q)
    BY <1>1, <1>4, <1>7
  <2>4. /\ n \in Nodes \cup {None}
        /\ n = None => \A u \in Nodes : Queued(u, r) => Bucket(prio[u]) # c
        /\ n # None => /\ Queued(n, r) /\ Bucket(prio[n]) = c
                       /\ \A u \in Nodes : Queued(u, r) /\ Bucket(prio[u]) = c =>
                             u = n \/ Earlier(n, u, r)
    <3>1. CASE down[p] # p
      <4>1. TopOf(p, q)
        <5> SUFFICES ASSUME NEW v \in Nodes, Earlier(v, p, q) PROVE prio[v] < prio[p]
          BY <1>1 DEF TopOf
        <5>1. prio[v] <= prio[p] /\ Queued(v, q) /\ v # p /\ ~Earlier(p, v, q)
          BY <1>1, <1>2, TotalOrder
        <5>2. prio[v] # prio[p]
          BY <1>1, <1>3, <2>3, <5>1
        <5> QED
          BY <1>1, <1>2, <5>1, <5>2
      <4>2. /\ n \in Nodes /\ Queued(n, q) /\ prio[n] = prio[p] /\ n # p /\ Adjacent(p, n, q)
        BY <2>1, <3>1, <4>1, TopBelow DEF Succeeds
      <4>3. ASSUME NEW u \in Nodes, Queued(u, r), Bucket(prio[u]) = c, u # n
            PROVE  Earlier(n, u, r)
        <5>1. Earlier(p, u, q) /\ Queued(u, q) /\ u # p
          BY <1>1, <2>3, <4>3
        <5>2. Earlier(n, u, q)
          BY <1>1, <4>2, <4>3, <5>1, TotalOrder DEF Adjacent
        <5> QED
          BY <1>1, <4>2, <5>1, <5>2
      <4> QED
        BY <1>1, <1>3, <4>2, <4>3
    <3>2. CASE down[p] = p
      <4>1. TopOf(p, q) /\ \A u \in Nodes : Queued(u, r) => prio[u] # prio[p]
        BY <3>2 DEF Fresh
      <4>2. n = NextInBucket(p)
        BY <2>1, <3>2
      <4>3. /\ next[p] = None => \A v \in Nodes : Queued(v, q) => prio[v] <= prio[p]
            /\ next[p] # None =>
                  /\ next[p] \in Nodes /\ TopOf(next[p], q) /\ prio[p] < prio[next[p]]
                  /\ \A w \in Nodes : Queued(w, q) =>
                        ~(prio[p] < prio[w] /\ prio[w] < prio[next[p]])
        BY <1>1, <4>1 DEF TopsOK, Gap
      <4>4. ASSUME NEW u \in Nodes, Queued(u, r), Bucket(prio[u]) = c
            PROVE  next[p] # None /\ prio[next[p]] <= prio[u]
        <5>1. Queued(u, q) /\ prio[p] < prio[u]
          BY <1>1, <1>2, <2>3, <4>1, <4>4
        <5> QED
          BY <1>1, <1>2, <4>3, <5>1
      <4>5. CASE next[p] # None /\ Bucket(prio[next[p]]) = Bucket(prio[p])
        <5>1. n = next[p] /\ n \in Nodes /\ TopOf(n, q) /\ prio[p] < prio[n] /\ Bucket(prio[n]) = c
          BY <1>3, <4>2, <4>3, <4>5 DEF NextInBucket
        <5>2. Queued(n, q) /\ n # p
          BY <1>1, <1>2, <5>1 DEF TopOf
        <5>3. ASSUME NEW u \in Nodes, Queued(u, r), Bucket(prio[u]) = c, u # n
              PROVE  Earlier(n, u, r)
          <6>1. Queued(u, q) /\ u # p /\ prio[n] <= prio[u]
            BY <1>1, <4>4, <5>1, <5>3
          <6>2. ~Earlier(u, n, q)
            BY <1>2, <5>1, <6>1 DEF TopOf
          <6> QED
            BY <1>1, <5>2, <5>3, <6>1, <6>2, TotalOrder
        <5> QED
          BY <1>1, <5>1, <5>2, <5>3
      <4>6. CASE ~(next[p] # None /\ Bucket(prio[next[p]]) = Bucket(prio[p]))
        <5>1. n = None
          BY <4>2, <4>6 DEF NextInBucket
        <5>2. ASSUME NEW u \in Nodes, Queued(u, r), Bucket(prio[u]) = c PROVE FALSE
          <6>1. PICK v \in Nodes : v = next[p] /\ prio[p] < prio[v] /\ prio[v] <= prio[u]
            BY <4>3, <4>4, <5>2
          <6>2. /\ Bucket(prio[p]) <= Bucket(prio[v]) /\ Bucket(prio[v]) <= Bucket(prio[u])
                /\ Bucket(prio[p]) \in Nat /\ Bucket(prio[v]) \in Nat
            BY <1>1, <1>2, <6>1, BucketOrder
          <6>3. Bucket(prio[v]) = Bucket(prio[p])
            BY <1>3, <5>2, <6>2
          <6> QED
            BY <1>1, <4>6, <6>1, <6>3
        <5> QED
          BY <5>1, <5>2
      <4> QED
        BY <4>5, <4>6
    <3> QED
      BY <3>1, <3>2
  <2>5. PICK h : h = [hash EXCEPT ![c] = n]
    OBVIOUS
  <2>6. /\ h \in [Buckets -> Nodes \cup {None}] /\ h[c] = n /\ hash' = h
        /\ \A b \in Buckets : b # c => h[b] = hash[b]
    BY <1>4, <2>2, <2>4, <2>5
  <2>7. \A b \in Buckets : h[b] = None =>
           \A u \in Nodes : Queued(u, r) => Bucket(prio[u]) # b
    BY <1>1, <1>4, <2>4, <2>6
  <2>8. \A b \in Buckets : h[b] # None =>
           /\ Queued(h[b], r) /\ Bucket(prio[h[b]]) = b
           /\ \A u \in Nodes : Queued(u, r) /\ Bucket(prio[u]) = b =>
                 u = h[b] \/ Earlier(h[b], u, r)
    <3> SUFFICES ASSUME NEW b \in Buckets, h[b] # None
                 PROVE  /\ Queued(h[b], r) /\ Bucket(prio[h[b]]) = b
                        /\ \A u \in Nodes : Queued(u, r) /\ Bucket(prio[u]) = b =>
                              u = h[b] \/ Earlier(h[b], u, r)
      OBVIOUS
    <3>1. CASE b = c
      BY <2>4, <2>6, <3>1
    <3>2. CASE b # c
      <4>1. /\ h[b] \in Nodes /\ Queued(h[b], q) /\ Bucket(prio[h[b]]) = b
            /\ \A u \in Nodes : Queued(u, q) /\ Bucket(prio[u]) = b =>
                  u = h[b] \/ Earlier(h[b], u, q)
        BY <1>4, <2>6, <3>2
      <4> QED
        BY <1>1, <1>3, <3>2, <4>1
    <3> QED
      BY <3>1, <3>2
  <2> QED
    BY <1>5, <2>6, <2>7, <2>8
<1> QED
  BY <1>6, <1>7

\* Remove takes its entry out of the queue.
LEMMA RemoveLinked ==
    ASSUME NEW q, LinkedAs(q), NEW p \in Nodes, NEW r, r = Dequeue(q, p), Remove(p)
    PROVE  LinkedAs(r)' /\ Queued(p, q)
<1>1. /\ QueueOK(q) /\ RingsOK(q) /\ TopsOK(q) /\ HashOK(q)
      /\ q \in Seq(Nodes) /\ Distinct(q) /\ prio \in [Nodes -> 0..Lowest] /\ None \notin Nodes
  BY QueueAssumption DEF LinkedAs, QueueOK
<1>2. prio' = [prio EXCEPT ![p] = Lowest] /\ hash' = HashWithout(p) /\ InQueue(p)
  BY DEF Remove
<1>3. Queued(p, q)
  BY <1>1, <1>2 DEF InQueue, RingsOK
<1>4. Left(q, r, p)
  BY <1>1, <1>3, DequeueLeaves DEF Left
<1>5. QueueOK(r)'
  BY <1>2, <1>4, LeaveQueue
<1>6. prio' \in [Nodes -> 0..Lowest]
  BY <1>5 DEF QueueOK
<1>7. \A u : Queued(u, r) <=> u # p /\ Queued(u, q)
  BY <1>4 DEF Left, Leaves
<1>8. down[p] = p => TopOf(p, q) /\ Fresh(r, prio[p])
  <2> SUFFICES ASSUME down[p] = p PROVE TopOf(p, q) /\ Fresh(r, prio[p])
    OBVIOUS
  <2>1. ~Adjacent(p, p, q)
    BY <1>1, TotalOrder DEF Adjacent
  <2>2. TopOf(p, q) /\ BottomOf(p, q)
    BY <1>1, <1>3, <2>1 DEF RingsOK
  <2>3. ASSUME NEW v \in Nodes, Queued(v, r), prio[v] = prio[p] PROVE FALSE
    <3>1. Earlier(v, p, q) \/ Earlier(p, v, q)
      BY <1>1, <1>3, <1>7, <2>3, TotalOrder
    <3>2. prio[v] \in Int
      BY <1>1, QueueAssumption
    <3> QED
      BY <2>2, <2>3, <3>1, <3>2 DEF TopOf, BottomOf
  <2> QED
    BY <2>2, <2>3 DEF Fresh
<1>9. HashOK(r)'
  BY <1>1, <1>2, <1>4, <1>8, HashLeft
<1>10. CASE down[p] = p
  <2>1. RemoveAlone(p)
    BY <1>10 DEF Remove
  <2>2. TopsOK(r)'
    BY <1>1, <1>2, <1>4, <1>8, <1>10, <2>1, TopLeaves DEF RemoveAlone
  <2>3. RingsOK(r)'
    BY <1>1, <1>2, <1>4, <1>10, <2>1, RingLeaves DEF RemoveAlone
  <2> QED
    BY <1>3, <1>5, <1>9, <2>2, <2>3 DEF LinkedAs
<1>11. CASE down[p] # p
  <2>1. RemoveFromRing(p)
    BY <1>11 DEF Remove
  <2>2. PICK d, b : d = down[p] /\ b = up[p]
    OBVIOUS
  <2>3. up' = [up EXCEPT ![d] = b, ![p] = None] /\ down' = [down EXCEPT ![b] = d, ![p] = None]
    BY <2>1, <2>2 DEF RemoveFromRing
  <2>4. RingsOK(r)'
    BY <1>1, <1>2, <1>4, <1>11, <2>2, <2>3, RingCloses
  <2>5. Kept(q, r, p)
    BY <1>2, <1>4, LeavePlaces
  <2>6. TopOf(p, q) <=> IsTop(p)
    BY <1>1 DEF IsTop, TopsOK
  <2>7. ASSUME NEW v \in Nodes, Queued(v, r) PROVE v \in Nodes /\ Queued(v, q) /\ prio[v] = prio'[v]
    BY <1>7, <2>5, <2>7 DEF Kept
  <2>8. NoNewPriority(q, r)
    BY <2>7 DEF NoNewPriority
  <2>9. CASE TopOf(p, q)
    <3>1. /\ d \in Nodes /\ ~TopOf(d, q) /\ prio'[d] = prio[p] /\ d # p
          /\ \A u \in Nodes : TopOf(u, r)' <=> u = d \/ (u # p /\ TopOf(u, q))
      <4>1. RingsOK(q) /\ d # p /\ d = down[p] /\ prio' = [prio EXCEPT ![p] = Lowest]
        BY <1>1, <1>2, <1>11, <2>2
      <4>2. Succeeds(d, p, q, r)
        BY <1>4, <2>9, <4>1, TopBelow
      <4> QED
        BY <4>1, <4>2 DEF Succeeds
    <3>2. /\ list' = IF p = list THEN d ELSE list
          /\ next' = [Set(next, prev[p], d) EXCEPT ![d] = next[p], ![p] = None]
          /\ prev' = [Set(prev, next[p], d) EXCEPT ![d] = prev[p], ![p] = None]
      BY <2>1, <2>2, <2>6, <2>9 DEF RemoveFromRing
    <3>3. \A u \in Nodes : TopOf(u, q) /\ u # p => prio'[u] = prio[u]
      BY <2>5 DEF Kept
    <3>4. TopsOK(r)'
      BY <1>1, <1>6, <2>8, <2>9, <3>1, <3>2, <3>3, TopReplaced
    <3> QED
      BY <1>3, <1>5, <1>9, <2>4, <3>4 DEF LinkedAs
  <2>10. CASE ~TopOf(p, q)
    <3>1. UNCHANGED <<list, prev, next>>
      BY <2>1, <2>6, <2>10 DEF RemoveFromRing
    <3>2. \A u \in Nodes : TopOf(u, r)' <=> TopOf(u, q)
      BY <2>5, <2>10 DEF Kept
    <3>3. \A u \in Nodes : TopOf(u, q) => prio'[u] = prio[u]
      BY <2>5, <2>10 DEF Kept
    <3>4. TopsOK(r)'
      BY <1>1, <1>6, <2>8, <3>1, <3>2, <3>3, TopsKept
    <3> QED
      BY <1>3, <1>5, <1>9, <2>4, <3>4 DEF LinkedAs
  <2> QED
    BY <2>9, <2>10
<1> QED
  BY <1>3, <1>10, <1>11

-----------------------------------------------------------------------------
(* The readers of the lists *)

\* What has left the queue has no ring, and the queue has all that have one.
LEMMA QueuedAre ==
    ASSUME NEW q, LinkedAs(q)
    PROVE  {p \in Nodes : InQueue(p)} = {q[i] : i \in 1..Len(q)}
<1>1. q \in Seq(Nodes) /\ Distinct(q) /\ DOMAIN q = 1..Len(q)
  BY LenProperties DEF LinkedAs, QueueOK
<1>2. \A u : Queued(u, q) => u \in Nodes
  BY <1>1, TotalOrder
<1>3. \A u \in Nodes : InQueue(u) <=> Queued(u, q)
  <2>1. \A u \in Nodes : IF Queued(u, q) THEN Queued(down[u], q) ELSE down[u] = None
    BY DEF LinkedAs, RingsOK
  <2> QED
    BY <1>2, <2>1, QueueAssumption DEF InQueue
<1> QED
  BY <1>1, <1>2, <1>3 DEF Queued

\* The list starts with the first entry of the queue.
LEMMA ListIsFirst ==
    ASSUME NEW q, LinkedAs(q)
    PROVE  list = IF Len(q) = 0 THEN None ELSE q[1]
<1>1. /\ q \in Seq(Nodes) /\ Distinct(q) /\ DOMAIN q = 1..Len(q) /\ Len(q) \in Nat
      /\ prio \in [Nodes -> 0..Lowest] /\ Lowest \in Nat
  BY QueueAssumption, LenProperties DEF LinkedAs, QueueOK
<1>2. \A i \in 1..Len(q) : q[i] \in Nodes /\ Queued(q[i], q)
  BY <1>1, ElementOfSeq DEF Queued
<1>3. CASE list = None
  <2>1. \A u \in Nodes : ~Queued(u, q)
    BY <1>3 DEF LinkedAs, TopsOK
  <2> QED
    BY <1>1, <1>2, <1>3, <2>1
<1>4. CASE list # None
  <2>1. TopOf(list, q) /\ \A u \in Nodes : Queued(u, q) => prio[list] <= prio[u]
    BY <1>4 DEF LinkedAs, TopsOK
  <2>2. PICK j \in 1..Len(q) : list = q[j]
    BY <1>1, <2>1 DEF TopOf, Queued
  <2>3. 1 \in 1..Len(q) /\ q[1] \in Nodes /\ Queued(q[1], q) /\ list \in Nodes
    BY <1>1, <1>2, <2>2
  <2>4. prio[list] <= prio[q[1]] /\ prio[list] \in Int /\ prio[q[1]] \in Int
    BY <1>1, <2>1, <2>3
  <2>5. CASE j # 1
    <3>1. Earlier(q[1], list, q)
      BY <1>1, <2>2, <2>3, <2>5 DEF Earlier
    <3>2. prio[q[1]] < prio[list]
      BY <2>1, <2>3, <3>1 DEF TopOf
    <3> QED
      BY <2>4, <3>2
  <2> QED
    BY <1>1, <2>2, <2>3, <2>5
<1> QED
  BY <1>3, <1>4

\* From each entry the reader goes on to the next of the queue.
LEMMA FollowIsNext ==
    ASSUME NEW q, LinkedAs(q), NEW i \in 1..Len(q)
    PROVE  Follow(q[i]) = IF i = Len(q) THEN None ELSE q[i + 1]
<1>1. /\ q \in Seq(Nodes) /\ Distinct(q) /\ DOMAIN q = 1..Len(q) /\ Len(q) \in Nat
      /\ prio \in [Nodes -> 0..Lowest] /\ Lowest \in Nat /\ None \notin Nodes
      /\ \A u, v \in Nodes : Earlier(u, v, q) => prio[u] <= prio[v]
  BY QueueAssumption, LenProperties DEF LinkedAs, QueueOK
<1>2. \A j \in 1..Len(q) : q[j] \in Nodes /\ Queued(q[j], q)
  BY <1>1, ElementOfSeq DEF Queued
<1>3. \A u \in Nodes : prio[u] \in Int
  BY <1>1
<1>4. PICK u : u = q[i]
  OBVIOUS
<1>5. PICK d : d = down[u]
  OBVIOUS
<1>6. /\ u \in Nodes /\ Queued(u, q) /\ Queued(d, q) /\ prio[d] = prio[u]
      /\ Adjacent(u, d, q) \/ (BottomOf(u, q) /\ TopOf(d, q))
  BY <1>2, <1>4, <1>5 DEF LinkedAs, RingsOK
<1>7. d \in Nodes /\ u # None
  BY <1>1, <1>6, TotalOrder
<1>8. Follow(u) = IF IsTop(d) THEN next[d] ELSE d
  BY <1>5, <1>7 DEF Follow
<1>9. \A j \in 1..Len(q) : Earlier(u, q[j], q) <=> i < j
  BY <1>1, <1>4 DEF Earlier, Distinct
<1>10. PICK m, n : m = i + 1 /\ n = Len(q) /\ i \in Int /\ 1 <= i /\ i <= n /\ n \in Int
  BY <1>1
<1>11. /\ \A j \in 1..n : i < j => j \in Int /\ m <= j /\ m \in 1..n /\ i # n
       /\ i # n => m \in 1..n /\ i < m
  BY <1>10
<1>12. i # n => m \in 1..n /\ Earlier(u, q[m], q)
  BY <1>9, <1>10, <1>11
<1>13. \A j \in 1..n : i < j /\ j # m => m \in 1..n /\ i # n /\ Earlier(q[m], q[j], q)
  <2>1. ASSUME NEW j \in 1..n, i < j, j # m
        PROVE  m \in 1..n /\ i # n /\ Earlier(q[m], q[j], q)
    <3>1. m <= j /\ m \in 1..n /\ j \in Int /\ i # n
      BY <1>11, <2>1
    <3>2. m < j
      BY <1>10, <2>1, <3>1
    <3>3. DOMAIN q = 1..n
      BY <1>1, <1>10
    <3> QED
      BY <2>1, <3>1, <3>2, <3>3 DEF Earlier
  <2> QED
    BY <2>1
<1>14. i \in 1..n /\ \A j \in 1..n : q[j] \in Nodes /\ Queued(q[j], q)
  BY <1>2, <1>10
<1>15. CASE Adjacent(u, d, q)
  <2>1. PICK j \in 1..n : d = q[j]
    BY <1>1, <1>6, <1>10 DEF Queued
  <2>2. Earlier(u, d, q) /\ \A w \in Nodes : ~(Earlier(u, w, q) /\ Earlier(w, d, q))
    BY <1>15 DEF Adjacent
  <2>3. i < j
    BY <1>9, <1>10, <2>1, <2>2
  <2>4. j = m
    <3> SUFFICES ASSUME j # m
                 PROVE  FALSE
      OBVIOUS
    <3> QED
      BY <1>12, <1>13, <1>14, <2>1, <2>2, <2>3
  <2>5. ~IsTop(d)
    <3>1. ~TopOf(d, q)
      BY <1>3, <1>6, <1>7, <2>2 DEF TopOf
    <3>2. /\ \A v \in Nodes : next[v] # None => TopOf(next[v], q)
          /\ \A v \in Nodes : prev[v] # None => next[prev[v]] = v
          /\ prev \in [Nodes -> Nodes \cup {None}]
          /\ list # None => TopOf(list, q)
      BY DEF LinkedAs, TopsOK
    <3> QED
      BY SMTT(30), <1>1, <1>7, <3>1, <3>2 DEF IsTop
  <2> QED
    <3>1. i # n /\ Follow(u) = q[m]
      BY <1>8, <1>11, <2>1, <2>3, <2>4, <2>5
    <3> QED
      BY <1>4, <1>10, <3>1
<1>16. CASE BottomOf(u, q) /\ TopOf(d, q)
  <2>1. IsTop(d) /\ (next[d] = None => \A v \in Nodes : Queued(v, q) => prio[v] <= prio[d])
    BY <1>7, <1>16 DEF LinkedAs, TopsOK, IsTop
  <2>2. \A v \in Nodes : Earlier(u, v, q) => prio[u] < prio[v]
    BY <1>16 DEF BottomOf
  <2>3. CASE next[d] = None
    <3>1. \A v \in Nodes : Queued(v, q) => prio[v] <= prio[u]
      BY <1>6, <2>1, <2>3
    <3>2. i = n
      <4> SUFFICES ASSUME i # n
                   PROVE  FALSE
        OBVIOUS
      <4>1. PICK w \in Nodes : w = q[m] /\ Queued(w, q) /\ Earlier(u, w, q)
        BY <1>12, <1>14
      <4>2. prio[u] < prio[w] /\ prio[w] <= prio[u]
        BY <2>2, <3>1, <4>1
      <4> QED
        BY <1>3, <1>6, <4>2
    <3> QED
      BY <1>4, <1>8, <1>10, <2>1, <2>3, <3>2
  <2>4. CASE next[d] # None
    <3>1. PICK v \in Nodes : v = next[d] /\ TopOf(v, q) /\ prio[d] < prio[v] /\ Gap(d, v, q)
      BY <1>7, <2>4 DEF LinkedAs, TopsOK
    <3>2. PICK j \in 1..n : v = q[j]
      BY <1>1, <1>10, <3>1 DEF TopOf, Queued
    <3>3. i < j
      <4> SUFFICES ASSUME ~(i < j)
                   PROVE  FALSE
        OBVIOUS
      <4>1. u = v \/ Earlier(v, u, q)
        <5>1. j = i \/ j < i
          BY <1>10, <3>2
        <5> QED
          BY <1>1, <1>4, <1>10, <3>2, <5>1 DEF Earlier
      <4>2. prio[v] <= prio[u]
        BY <1>1, <1>3, <1>6, <4>1
      <4> QED
        BY <1>3, <1>6, <3>1, <4>2
    <3>4. j = m
      <4> SUFFICES ASSUME j # m
                   PROVE  FALSE
        OBVIOUS
      <4>1. PICK w \in Nodes :
               w = q[m] /\ Queued(w, q) /\ Earlier(u, w, q) /\ Earlier(w, v, q)
        BY <1>12, <1>13, <1>14, <3>2, <3>3
      <4>2. prio[u] < prio[w] /\ prio[w] < prio[v]
        BY <2>2, <3>1, <4>1 DEF TopOf
      <4> QED
        BY <1>6, <3>1, <4>1, <4>2 DEF Gap
    <3> QED
      <4>1. i # n /\ Follow(u) = q[m]
        BY <1>8, <1>11, <2>1, <3>1, <3>2, <3>3, <3>4
      <4> QED
        BY <1>4, <1>10, <4>1
  <2> QED
    BY <2>3, <2>4
<1> QED
  BY <1>6, <1>15, <1>16

\* What the readers of the lists meet is the queue.
LEMMA EntriesAre ==
    ASSUME NEW q, LinkedAs(q)
    PROVE  Entries = q
<1> DEFINE n == Cardinality({p \in Nodes : InQueue(p)})
           walk == CHOOSE f : f = [i \in 1..n + 1 |->
                                      IF i = 1 THEN list ELSE Follow(f[i - 1])]
           met == {i \in 1..n + 1 : walk[i] # None}
<1>1. Entries = [i \in 1..Cardinality(met) |-> walk[i]]
  BY DEF Entries
<1> HIDE DEF walk, n
<1>2. /\ q \in Seq(Nodes) /\ Distinct(q) /\ DOMAIN q = 1..Len(q) /\ Len(q) \in Nat
      /\ q = [i \in 1..Len(q) |-> q[i]] /\ None \notin Nodes
      /\ \A i \in 1..Len(q) : q[i] \in Nodes
  BY LenProperties, ElementOfSeq, QueueAssumption DEF LinkedAs, QueueOK
<1>3. IsFiniteSet(1..Len(q)) /\ Cardinality(1..Len(q)) = Len(q)
  <2>1. 1 \in Int /\ Len(q) \in Int
    BY <1>2
  <2>2. Cardinality(1..Len(q)) = (IF 1 > Len(q) THEN 0 ELSE Len(q) - 1 + 1)
    BY <2>1, FS_Interval
  <2>3. IsFiniteSet(1..Len(q))
    BY <2>1, FS_Interval
  <2> QED
    BY <1>2, <2>2, <2>3
<1>4. n = Len(q)
  <2> DEFINE Q == {q[i] : i \in 1..Len(q)}
  <2>1. [i \in 1..Len(q) |-> q[i]] \in Bijection(1..Len(q), Q)
    BY <1>2 DEF Distinct, Bijection, Injection, Surjection, IsInjective
  <2>2. Cardinality(Q) = Len(q)
    BY <1>3, <2>1, FS_Bijection DEF ExistsBijection
  <2> QED
    BY <2>2, QueuedAre DEF n
<1>5. walk = [i \in 1..n + 1 |-> IF i = 1 THEN list ELSE Follow(walk[i - 1])]
  <2> DEFINE w == [i \in 1..n + 1 |-> IF i <= n THEN q[i] ELSE None]
             Step(f) == [i \in 1..n + 1 |-> IF i = 1 THEN list ELSE Follow(f[i - 1])]
  <2>1. ASSUME NEW i \in 1..n + 1
        PROVE  w[i] = IF i = 1 THEN list ELSE Follow(w[i - 1])
    <3>1. CASE i = 1
      BY <1>2, <1>4, <3>1, ListIsFirst
    <3>2. CASE i # 1
      <4>1. PICK j : j = i - 1 /\ j \in 1..n /\ i = j + 1 /\ j \in 1..n + 1 /\ j <= n
        BY <1>2, <1>4, <3>2
      <4>2. w[j] = q[j] /\ Follow(q[j]) = IF j = n THEN None ELSE q[j + 1]
        BY <1>4, <4>1, FollowIsNext
      <4>3. w[i] = IF j = n THEN None ELSE q[j + 1]
        BY <1>2, <1>4, <4>1
      <4> QED
        BY <3>2, <4>1, <4>2, <4>3
    <3> QED
      BY <3>1, <3>2
  <2>2. w = Step(w)
    <3> HIDE DEF w
    <3>1. w = [i \in 1..n + 1 |-> w[i]]
      BY DEF w
    <3> QED
      BY <2>1, <3>1
  <2>3. \E f : f = Step(f)
    BY <2>2
  <2>4. walk = CHOOSE f : f = Step(f)
    BY DEF walk
  <2> HIDE DEF Step, w
  <2>5. walk = Step(walk)
    BY <2>3, <2>4
  <2> QED
    BY <2>5 DEF Step
<1>6. \A i \in 1..n + 1 : walk[i] = IF i = 1 THEN list ELSE Follow(walk[i - 1])
  BY <1>5
<1>7. \A i \in 1..n + 1 : walk[i] = IF i <= n THEN q[i] ELSE None
  <2> DEFINE Off == {i \in 1..n + 1 : walk[i] # IF i <= n THEN q[i] ELSE None}
  <2> SUFFICES ASSUME Off # {}
               PROVE  FALSE
    OBVIOUS
  <2>1. Off \subseteq Nat
    BY <1>2, <1>4
  <2>2. PICK i \in Off : \A j \in Off : i <= j
    BY <2>1, LeastElement
  <2>3. i \in 1..n + 1 /\ walk[i] # IF i <= n THEN q[i] ELSE None
    BY <2>2
  <2>4. CASE i = 1
    BY <1>2, <1>4, <1>6, <2>3, <2>4, ListIsFirst
  <2>5. CASE i # 1
    <3>1. PICK j : j = i - 1 /\ j \in 1..n /\ i = j + 1 /\ j \in 1..n + 1 /\ j <= n /\ ~(i <= j)
      BY <1>2, <1>4, <2>3, <2>5
    <3>2. j \notin Off
      BY <2>2, <3>1
    <3>3. walk[j] = q[j]
      BY <3>1, <3>2
    <3>4. walk[i] = IF j = n THEN None ELSE q[j + 1]
      BY <1>4, <1>6, <2>3, <2>5, <3>1, <3>3, FollowIsNext
    <3> QED
      BY <1>2, <1>4, <2>3, <3>1, <3>4
  <2> QED
    BY <2>4, <2>5
<1>8. met = 1..Len(q)
  BY <1>2, <1>4, <1>7
<1>9. Cardinality(met) = Len(q)
  BY <1>3, <1>8
<1>10. \A i \in 1..Len(q) : walk[i] = q[i]
  BY <1>2, <1>4, <1>7
<1> QED
  BY <1>1, <1>2, <1>9, <1>10

\* What the readers of the hash and of the top of the lists rely on.
LEMMA LinkedSound ==
    ASSUME NEW q, LinkedAs(q)
    PROVE  LinksExact
<1>1. /\ q \in Seq(Nodes) /\ Distinct(q) /\ DOMAIN q = 1..Len(q) /\ Len(q) \in Nat
      /\ None \notin Nodes /\ prio \in [Nodes -> 0..Lowest] /\ Lowest \in Nat
  BY LenProperties, QueueAssumption DEF LinkedAs, QueueOK
<1>2. \A i \in DOMAIN q : q[i] \in Nodes /\ Queued(q[i], q)
  BY <1>1, ElementOfSeq DEF Queued
<1>3. Entries = q
  BY EntriesAre
<1>4. ASSUME NEW b \in Buckets, NEW B, B = {i \in DOMAIN q : Bucket(prio[q[i]]) = b}
      PROVE  IF B = {} THEN hash[b] = None
             ELSE \E i \in B : hash[b] = q[i] /\ \A j \in B : i <= j
  <2>1. CASE hash[b] = None
    <3>1. \A u \in Nodes : Queued(u, q) => Bucket(prio[u]) # b
      BY <2>1 DEF LinkedAs, HashOK
    <3> QED
      BY <1>2, <1>4, <2>1, <3>1
  <2>2. CASE hash[b] # None
    <3>1. /\ Queued(hash[b], q) /\ Bucket(prio[hash[b]]) = b
          /\ \A u \in Nodes : Queued(u, q) /\ Bucket(prio[u]) = b =>
                u = hash[b] \/ Earlier(hash[b], u, q)
      BY <2>2 DEF LinkedAs, HashOK
    <3>2. PICK i \in DOMAIN q : hash[b] = q[i]
      BY <3>1 DEF Queued
    <3>3. i \in B
      BY <1>4, <3>1, <3>2
    <3>4. ASSUME NEW j \in B
          PROVE  i <= j
      <4>1. j \in DOMAIN q /\ (q[j] = q[i] \/ Earlier(q[i], q[j], q))
        BY <1>2, <1>4, <3>1, <3>2
      <4>2. q[j] = q[i] => j = i
        BY <1>1, <3>2, <4>1 DEF Distinct
      <4>3. Earlier(q[i], q[j], q) => i < j
        BY <1>1, <3>2, <4>1 DEF Distinct, Earlier
      <4> QED
        BY <1>1, <3>2, <4>1, <4>2, <4>3
    <3> QED
      BY <3>2, <3>3, <3>4
  <2> QED
    BY <2>1, <2>2
<1>5. HashExact
  <2> SUFFICES ASSUME NEW b \in Buckets
               PROVE  LET inBucket == {i \in DOMAIN q : Bucket(prio[q[i]]) = b}
                      IN  IF inBucket = {} THEN hash[b] = None
                          ELSE \E i \in inBucket :
                                  hash[b] = q[i] /\ \A j \in inBucket : i <= j
    BY <1>3 DEF HashExact
  <2>1. PICK B : B = {i \in DOMAIN q : Bucket(prio[q[i]]) = b}
    OBVIOUS
  <2> QED
    BY <1>4, <2>1
<1>6. ASSUME NEW p \in Nodes, InQueue(p)
      PROVE  (down[p] = p /\ prev[p] = None) <=> HeadAlone(p, q, prio)
  <2>1. PICK n \in DOMAIN q : p = q[n]
    BY <1>1, <1>6, QueuedAre
  <2>2. 1 \in DOMAIN q /\ Head(q) = q[1] /\ list = q[1] /\ Queued(p, q)
    BY <1>1, <1>2, <2>1, ListIsFirst
  <2>3. TopOf(list, q) /\ prev[list] = None
    BY <1>1, <1>2, <2>2 DEF LinkedAs, TopsOK
  <2>4. /\ Queued(down[p], q) /\ prio[down[p]] = prio[p]
        /\ Adjacent(p, down[p], q) \/ (BottomOf(p, q) /\ TopOf(down[p], q))
    BY <2>2 DEF LinkedAs, RingsOK
  <2>5. ASSUME down[p] = p, prev[p] = None
        PROVE  HeadAlone(p, q, prio)
    <3>1. BottomOf(p, q) /\ TopOf(p, q)
      BY <1>1, <2>4, <2>5, TotalOrder DEF Adjacent
    <3>2. p = list
      BY <2>5, <3>1 DEF LinkedAs, TopsOK
    <3>3. ASSUME NEW i \in 2..Len(q)
          PROVE  prio[q[i]] # prio[p]
      <4>1. i \in DOMAIN q /\ 1 < i
        BY <1>1
      <4>2. Earlier(p, q[i], q) /\ q[i] \in Nodes
        BY <1>2, <2>2, <3>2, <4>1 DEF Earlier
      <4>3. prio[p] < prio[q[i]]
        BY <3>1, <4>2 DEF BottomOf
      <4> QED
        BY <1>1, <4>2, <4>3
    <3> QED
      BY <2>2, <3>2, <3>3 DEF HeadAlone
  <2>6. ASSUME HeadAlone(p, q, prio)
        PROVE  down[p] = p /\ prev[p] = None
    <3>1. PICK j \in DOMAIN q : down[p] = q[j]
      BY <2>4 DEF Queued
    <3>2. p = q[1] /\ \A i \in 2..Len(q) : prio[q[i]] # prio[p]
      BY <2>2, <2>6 DEF HeadAlone
    <3>3. j \notin 2..Len(q)
      BY <2>4, <3>1, <3>2
    <3>4. j = 1
      BY <1>1, <3>1, <3>3
    <3> QED
      BY <2>2, <2>3, <3>1, <3>2, <3>4
  <2> QED
    BY <2>5, <2>6
<1>7. ReturnsHeadAlone
  BY <1>3, <1>6 DEF ReturnsHeadAlone
<1> QED
  BY <1>5, <1>7 DEF LinksExact

-----------------------------------------------------------------------------
(* Every step *)

\* The inductive invariant: the pointers and the hash are those of the queue that a
\* reader of the lists meets.
Linked == LinkedAs(Entries)

\* The queue that is linked is the one the readers meet, before a step and after it.
ReadBack == \A r : LinkedAs(r) => Linked /\ Entries = r

\* EntriesAre, in the form that is used of two states.
LEMMA LinkedBy == ReadBack
BY EntriesAre DEF Linked, ReadBack

\* An empty list is linked as the empty queue.
LEMMA EmptyLinked == Init => LinkedAs(<<>>)
<1> SUFFICES ASSUME Init
             PROVE  LinkedAs(<<>>)
  OBVIOUS
<1>1. <<>> \in Seq(Nodes) /\ Distinct(<<>>) /\ DOMAIN <<>> = {}
  BY DEF Distinct
<1>2. /\ \A u : ~Queued(u, <<>>)
      /\ \A u, v : ~Earlier(u, v, <<>>)
  BY <1>1 DEF Queued, Earlier
<1>3. Lowest \in Nat /\ None \notin Nodes
  BY QueueAssumption
<1>4. QueueOK(<<>>)
  BY <1>1, <1>2, <1>3 DEF Init, QueueOK
<1>5. RingsOK(<<>>)
  BY <1>2 DEF Init, Clear, RingsOK
<1>6. TopsOK(<<>>)
  BY <1>2 DEF Init, Clear, TopsOK, TopOf
<1>7. HashOK(<<>>)
  BY <1>2 DEF Init, HashOK
<1> QED
  BY <1>4, <1>5, <1>6, <1>7 DEF LinkedAs

\* The abstract queue means by its operators what the lists do.
LEMMA FifoIs ==
    /\ \A q, p : F!Queued(p, q) <=> Queued(p, q)
    /\ \A q, p, k, f : F!Enqueue(q, p, k, f) = Enqueue(q, p, k, f)
    /\ \A q, p, k, f : F!EnqueueFirst(q, p, k, f) = EnqueueFirst(q, p, k, f)
    /\ \A q, p : F!Dequeue(q, p) = Dequeue(q, p)
<1>1. \A q, p : F!Queued(p, q) <=> Queued(p, q)
  BY DEF F!Queued, Queued
<1>2. \A S : F!Cardinality(S) = Cardinality(S)
  BY DEF F!Cardinality, Cardinality
<1>3. \A q, k, f : F!Ahead(q, k, f) = Ahead(q, k, f)
  BY <1>2 DEF F!Ahead, Ahead
<1>4. \A q, p, k, f : F!Enqueue(q, p, k, f) = Enqueue(q, p, k, f)
  BY <1>3 DEF F!Enqueue, Enqueue
<1>5. \A q, p, k, f : F!EnqueueFirst(q, p, k, f) = EnqueueFirst(q, p, k, f)
  BY <1>2 DEF F!EnqueueFirst, EnqueueFirst
<1>6. \A q, p : F!Dequeue(q, p) = Dequeue(q, p)
  BY <1>1 DEF F!Dequeue, Dequeue
<1> QED
  BY <1>1, <1>4, <1>5, <1>6

\* An entry that is not in a ring is not in the queue.
LEMMA OutOfQueue ==
    ASSUME NEW q, LinkedAs(q), NEW p \in Nodes, ~InQueue(p)
    PROVE  ~Queued(p, q)
<1>1. DOMAIN q = 1..Len(q)
  BY LenProperties DEF LinkedAs, QueueOK
<1> QED
  BY <1>1, QueuedAre DEF Queued

\* Every splice keeps the links and is the abstract action of its name.
LEMMA SpliceIs ==
    ASSUME Linked, NEW p \in Nodes
    PROVE  /\ Remove(p) => Linked' /\ F!Depart(p)
           /\ PutBackEqual(p) => /\ Linked' /\ prio'[p] \in Prios
                                 /\ F!Arrive(p, prio'[p])
           /\ \A k \in Prios :
                 /\ PrioEnqueue(p, k) \/ Insert(p, k) \/ PutBack(p, k, TRUE) =>
                       Linked' /\ F!Arrive(p, k)
                 /\ PutBack(p, k, FALSE) => Linked' /\ F!Return(p, k)
<1>1. PICK q : q = Entries
  OBVIOUS
<1>2. LinkedAs(q) /\ prio \in [Nodes -> 0..Lowest]
  BY <1>1 DEF Linked, LinkedAs, QueueOK
<1>3. \A r : LinkedAs(r)' => Linked' /\ Entries' = r
  <2>1. ReadBack'
    BY LinkedBy, PTL
  <2> QED
    BY <2>1 DEF ReadBack
<1>4. ASSUME Remove(p)
      PROVE  Linked' /\ F!Depart(p)
  <2>1. PICK r : r = Dequeue(q, p)
    OBVIOUS
  <2>2. LinkedAs(r)' /\ Queued(p, q)
    BY <1>2, <1>4, <2>1, RemoveLinked
  <2>3. Linked' /\ Entries' = r /\ prio' = [prio EXCEPT ![p] = Lowest]
    BY <1>3, <1>4, <2>2 DEF Remove
  <2> QED
    BY <1>1, <2>1, <2>2, <2>3, FifoIs DEF F!Depart
<1>5. ASSUME PutBackEqual(p)
      PROVE  Linked' /\ prio'[p] \in Prios /\ F!Arrive(p, prio'[p])
  <2>1. PICK k : k = prio[list]
    OBVIOUS
  <2>2. PICK r : r = Enqueue(q, p, k, prio)
    OBVIOUS
  <2>3. LinkedAs(r)' /\ k \in Prios
    BY <1>2, <1>5, <2>1, <2>2, EqualLinked
  <2>4. Linked' /\ Entries' = r
    BY <1>3, <2>3
  <2>5. ~InQueue(p) /\ prio' = [prio EXCEPT ![p] = k]
    BY <1>5, <2>1 DEF PutBackEqual
  <2>6. ~Queued(p, q) /\ prio'[p] = k
    BY <1>2, <2>5, OutOfQueue
  <2> QED
    BY <1>1, <2>2, <2>3, <2>4, <2>5, <2>6, FifoIs DEF F!Arrive
<1>6. ASSUME NEW k \in Prios, PrioEnqueue(p, k) \/ Insert(p, k) \/ PutBack(p, k, TRUE)
      PROVE  Linked' /\ F!Arrive(p, k)
  <2>1. PICK r : r = Enqueue(q, p, k, prio)
    OBVIOUS
  <2>2. LinkedAs(r)'
    BY <1>2, <1>6, <2>1, ArriveLinked
  <2>3. Linked' /\ Entries' = r
    BY <1>3, <2>2
  <2>4. ~InQueue(p) /\ prio' = [prio EXCEPT ![p] = k]
    BY <1>6 DEF PrioEnqueue, Insert, PutBack
  <2>5. ~Queued(p, q)
    BY <1>2, <2>4, OutOfQueue
  <2> QED
    BY <1>1, <2>1, <2>3, <2>4, <2>5, FifoIs DEF F!Arrive
<1>7. ASSUME NEW k \in Prios, PutBack(p, k, FALSE)
      PROVE  Linked' /\ F!Return(p, k)
  <2>1. PICK r : r = EnqueueFirst(q, p, k, prio)
    OBVIOUS
  <2>2. LinkedAs(r)'
    BY <1>2, <1>7, <2>1, ReturnLinked
  <2>3. Linked' /\ Entries' = r
    BY <1>3, <2>2
  <2>4. ~InQueue(p) /\ prio' = [prio EXCEPT ![p] = k]
    BY <1>7 DEF PutBack
  <2>5. ~Queued(p, q)
    BY <1>2, <2>4, OutOfQueue
  <2> QED
    BY <1>1, <2>1, <2>3, <2>4, <2>5, FifoIs DEF F!Return
<1> QED
  BY <1>4, <1>5, <1>6, <1>7

\* A step that changes nothing leaves the queue as it is.
LEMMA StutterLinked == Linked /\ UNCHANGED vars => Linked' /\ Entries' = Entries
<1> SUFFICES ASSUME Linked, UNCHANGED vars
             PROVE  Linked' /\ Entries' = Entries
  OBVIOUS
<1>1. PICK q : q = Entries
  OBVIOUS
<1>2. LinkedAs(q)
  BY <1>1 DEF Linked
<1>3. LinkedAs(q)'
  BY <1>2 DEF vars, links, LinkedAs, QueueOK, RingsOK, TopsOK, HashOK, TopOf, BottomOf,
              Adjacent, Gap
<1>4. ReadBack'
  BY LinkedBy, PTL
<1> QED
  BY <1>1, <1>3, <1>4 DEF ReadBack

\* The links hold initially and after every step.
LEMMA LinkedHolds == Spec => []Linked
<1>1. Init => Linked
  BY EmptyLinked, LinkedBy DEF ReadBack
<1>2. Linked /\ [Next]_vars => Linked'
  <2> SUFFICES ASSUME Linked, [Next]_vars
               PROVE  Linked'
    OBVIOUS
  <2>1. CASE Next
    <3>1. PICK p \in Nodes :
             \/ Remove(p) \/ PutBackEqual(p)
             \/ \E k \in Prios :
                   \/ PrioEnqueue(p, k) \/ Insert(p, k)
                   \/ PutBack(p, k, TRUE) \/ PutBack(p, k, FALSE)
      BY <2>1 DEF Next
    <3> QED
      BY <3>1, SpliceIs
  <2>2. CASE UNCHANGED vars
    BY <2>2, StutterLinked
  <2> QED
    BY <2>1, <2>2
<1> QED
  BY <1>1, <1>2, PTL DEF Spec

-----------------------------------------------------------------------------
(* What the lists promise *)

\* The hash leads each search to the first entry of its bucket, and a lone entry without
\* predecessor is the head: LinksExact, for any entries, priorities and scale.
THEOREM LinksAreExact == Spec => []LinksExact
<1>1. Linked => LinksExact
  BY LinkedSound DEF Linked
<1> QED
  BY <1>1, LinkedHolds, PTL

\* Every splice of the pointers is the abstract action of its name: SplicesMatch.
THEOREM SplicesAreSteps == Spec => SplicesMatch
<1>1. Linked /\ [Next]_vars =>
         [\A p \in Nodes :
             /\ Remove(p) => F!Depart(p)
             /\ PutBackEqual(p) => F!Arrive(p, prio'[p])
             /\ \A k \in Prios :
                   /\ PrioEnqueue(p, k) \/ Insert(p, k) \/ PutBack(p, k, TRUE) => F!Arrive(p, k)
                   /\ PutBack(p, k, FALSE) => F!Return(p, k)]_vars
  BY SpliceIs
<1> QED
  BY <1>1, LinkedHolds, PTL DEF Spec, SplicesMatch

\* The lists are the abstract queue: ImplementsFifo, by the mapping that reads its
\* entries off the pointers.
THEOREM ListsAreQueues == Spec => ImplementsFifo
<1>1. Init => F!FifoInit
  <2> SUFFICES ASSUME Init
               PROVE  F!FifoInit
    OBVIOUS
  <2>1. Entries = <<>>
    BY EmptyLinked, EntriesAre
  <2> QED
    BY <2>1 DEF Init, F!FifoInit
<1>2. Linked /\ [Next]_vars => [F!FifoNext]_F!fifoVars
  <2> SUFFICES ASSUME Linked, [Next]_vars
               PROVE  [F!FifoNext]_F!fifoVars
    OBVIOUS
  <2>1. CASE Next
    <3>1. PICK p \in Nodes :
             \/ Remove(p) \/ PutBackEqual(p)
             \/ \E k \in Prios :
                   \/ PrioEnqueue(p, k) \/ Insert(p, k)
                   \/ PutBack(p, k, TRUE) \/ PutBack(p, k, FALSE)
      BY <2>1 DEF Next
    <3>2. F!Depart(p) \/ \E k \in Prios : F!Arrive(p, k) \/ F!Return(p, k)
      BY <3>1, SpliceIs
    <3> QED
      BY <3>2 DEF F!FifoNext
  <2>2. CASE UNCHANGED vars
    BY <2>2, StutterLinked DEF vars, F!fifoVars
  <2> QED
    BY <2>1, <2>2
<1> QED
  BY <1>1, <1>2, LinkedHolds, PTL DEF Spec, ImplementsFifo, F!FifoSpec
=============================================================================
