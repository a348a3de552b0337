--------------------------- MODULE PrioSeqProofs ----------------------------
(***************************************************************************)
(* What the operations on queues do, for any entries and priorities.       *)
(***************************************************************************)
EXTENDS PrioSeq, FiniteSetTheorems, SequenceTheorems, WellFoundedInduction, TLAPS

\* Best priority first.
Ordered(q, prio) == \A i, j \in DOMAIN q : i < j => prio[q[i]] <= prio[q[j]]

\* u comes before v in the queue q.
Earlier(u, v, q) == \E i, j \in DOMAIN q : i < j /\ q[i] = u /\ q[j] = v

\* What is inserted behind the first n entries of a queue.
InsertAt(q, t, n) == [i \in 1..Len(q) + 1 |->
                       IF i <= n THEN q[i] ELSE IF i = n + 1 THEN t ELSE q[i - 1]]

-----------------------------------------------------------------------------
(* Entries put in and taken out *)

\* A nonempty set of naturals has a least element.
LEMMA LeastElement ==
    ASSUME NEW S \in SUBSET Nat, S # {}
    PROVE  \E x \in S : \A y \in S : x <= y
<1> DEFINE R == {ss \in Nat \X Nat : ss[1] < ss[2]}
<1>1. IsWellFoundedOn(OpToRel(<, Nat), Nat)
  BY NatLessThanWellFounded
<1>2. IsWellFoundedOn(R, Nat)
  BY <1>1 DEF OpToRel
<1> HIDE DEF R
<1>3. \E x \in S : \A y \in S : <<y, x>> \notin R
  BY <1>2, WFMin
<1>4. \A x, y \in S : <<y, x>> \notin R => x <= y
  BY DEF R
<1> QED
  BY <1>3, <1>4

\* The number of entries a new one goes behind is at most the length of the queue.
LEMMA PrefixSize ==
    ASSUME NEW T, NEW q \in Seq(T), NEW S \in SUBSET (DOMAIN q)
    PROVE  Cardinality(S) \in 0..Len(q)
<1>1. Len(q) \in Nat /\ DOMAIN q = 1..Len(q)
  BY LenProperties
<1>2. IsFiniteSet(1..Len(q)) /\ Cardinality(1..Len(q)) = Len(q)
  <2>1. 1 \in Int /\ Len(q) \in Int
    BY <1>1
  <2>2. Cardinality(1..Len(q)) = (IF 1 > Len(q) THEN 0 ELSE Len(q) - 1 + 1)
    BY <2>1, FS_Interval
  <2>3. IsFiniteSet(1..Len(q))
    BY <2>1, FS_Interval
  <2> QED
    BY <1>1, <2>2, <2>3
<1>3. IsFiniteSet(S) /\ Cardinality(S) <= Len(q)
  BY <1>1, <1>2, FS_Subset
<1> QED
  BY <1>3, <1>1, FS_CardinalityType

\* Inserting behind the first n entries of a queue makes a queue, and inserts.
LEMMA Insertion ==
    ASSUME NEW T, NEW q \in Seq(T), NEW t \in T, NEW n \in 0..Len(q)
    PROVE  LET r == [i \in 1..Len(q) + 1 |->
                       IF i <= n THEN q[i] ELSE IF i = n + 1 THEN t ELSE q[i - 1]]
           IN  r \in Seq(T) /\ Len(r) = Len(q) + 1
<1> DEFINE r == [i \in 1..Len(q) + 1 |->
                   IF i <= n THEN q[i] ELSE IF i = n + 1 THEN t ELSE q[i - 1]]
<1>1. Len(q) \in Nat /\ \A i \in 1..Len(q) : q[i] \in T
  BY LenProperties, ElementOfSeq
<1>2. r \in [1..Len(q) + 1 -> T]
  BY <1>1
<1>3. r \in Seq(T) /\ Len(r) = Len(q) + 1
  BY <1>1, <1>2
<1> QED
  BY <1>3

\* What is put in keeps the queue a queue of its entries,
LEMMA EnqueueType ==
    ASSUME NEW T, NEW q \in Seq(T), NEW t \in T, NEW p, NEW prio
    PROVE  Enqueue(q, t, p, prio) \in Seq(T) /\ EnqueueFirst(q, t, p, prio) \in Seq(T)
<1>1. Ahead(q, p, prio) \in 0..Len(q)
  BY PrefixSize DEF Ahead
<1>2. Cardinality({i \in DOMAIN q : prio[q[i]] < p}) \in 0..Len(q)
  BY PrefixSize
<1> QED
  BY <1>1, <1>2, Insertion DEF Enqueue, EnqueueFirst

\* and so does what is taken out.
LEMMA DequeueType ==
    ASSUME NEW T, NEW q \in Seq(T), NEW t
    PROVE  Dequeue(q, t) \in Seq(T)
<1>1. CASE ~Queued(t, q)
  BY <1>1 DEF Dequeue
<1>2. CASE Queued(t, q)
  <2> DEFINE n == CHOOSE i \in DOMAIN q : q[i] = t
             r == [i \in 1..Len(q) - 1 |-> IF i < n THEN q[i] ELSE q[i + 1]]
  <2>1. Len(q) \in Nat /\ DOMAIN q = 1..Len(q) /\ \A i \in 1..Len(q) : q[i] \in T
    BY LenProperties, ElementOfSeq
  <2>2. n \in 1..Len(q) /\ q[n] = t
    BY <1>2, <2>1 DEF Queued
  <2> HIDE DEF n
  <2>3. Len(q) - 1 \in Nat /\ r \in [1..Len(q) - 1 -> T]
    BY <2>1, <2>2
  <2>4. r \in Seq(T)
    BY <2>3
  <2> QED
    BY <1>2, <2>4 DEF Dequeue, n
<1> QED
  BY <1>1, <1>2

\* Nothing else is queued after Enqueue than what was put in,
LEMMA EnqueueKeeps ==
    ASSUME NEW T, NEW q \in Seq(T), Distinct(q), NEW t \in T, ~Queued(t, q), NEW p, NEW prio
    PROVE  /\ Distinct(Enqueue(q, t, p, prio))
           /\ \A u : Queued(u, Enqueue(q, t, p, prio)) => u = t \/ Queued(u, q)
<1> DEFINE n == Ahead(q, p, prio)
           r == [i \in 1..Len(q) + 1 |->
                   IF i <= n THEN q[i] ELSE IF i = n + 1 THEN t ELSE q[i - 1]]
<1>1. Len(q) \in Nat /\ DOMAIN q = 1..Len(q)
  BY LenProperties
<1>2. n \in 0..Len(q)
  BY PrefixSize DEF Ahead
<1> HIDE DEF n
<1>3. \A i \in 1..Len(q) : q[i] # t
  BY <1>1 DEF Queued
<1>4. Distinct(r)
  BY <1>1, <1>2, <1>3 DEF Distinct
<1>5. \A u : Queued(u, r) => u = t \/ Queued(u, q)
  BY <1>1, <1>2 DEF Queued
<1> QED
  BY <1>4, <1>5 DEF Enqueue, n

\* nothing more after Dequeue,
LEMMA DequeueKeeps ==
    ASSUME NEW T, NEW q \in Seq(T), Distinct(q), NEW t
    PROVE  /\ Distinct(Dequeue(q, t))
           /\ \A u : Queued(u, Dequeue(q, t)) => u # t /\ Queued(u, q)
<1>1. CASE ~Queued(t, q)
  BY <1>1 DEF Dequeue
<1>2. CASE Queued(t, q)
  <2> DEFINE n == CHOOSE i \in DOMAIN q : q[i] = t
             r == [i \in 1..Len(q) - 1 |-> IF i < n THEN q[i] ELSE q[i + 1]]
  <2>1. Len(q) \in Nat /\ DOMAIN q = 1..Len(q)
    BY LenProperties
  <2>2. n \in 1..Len(q) /\ q[n] = t
    BY <1>2, <2>1 DEF Queued
  <2> HIDE DEF n
  <2>3. \A i \in 1..Len(q) : q[i] = t => i = n
    BY <2>1, <2>2 DEF Distinct
  <2>4. Distinct(r)
    BY <2>1, <2>2 DEF Distinct
  <2>5. \A u : Queued(u, r) => u # t /\ Queued(u, q)
    BY <2>1, <2>2, <2>3 DEF Queued
  <2> QED
    BY <1>2, <2>4, <2>5 DEF Dequeue, n
<1> QED
  BY <1>1, <1>2

\* or without the first.
LEMMA TailKeeps ==
    ASSUME NEW T, NEW q \in Seq(T), Distinct(q), q # <<>>
    PROVE  /\ Distinct(Tail(q))
           /\ \A u : Queued(u, Tail(q)) => u # Head(q) /\ Queued(u, q)
<1>1. Len(q) \in Nat \ {0} /\ DOMAIN q = 1..Len(q)
  BY LenProperties, EmptySeq
<1>2. Tail(q) \in Seq(T) /\ Len(Tail(q)) = Len(q) - 1 /\ Head(q) = q[1]
      /\ \A i \in 1..Len(Tail(q)) : Tail(q)[i] = q[i + 1]
  BY HeadTailProperties
<1>3. DOMAIN Tail(q) = 1..Len(q) - 1
  BY <1>2, LenProperties
<1> QED
  BY <1>1, <1>2, <1>3 DEF Distinct, Queued

-----------------------------------------------------------------------------
(* Queues in order *)

\* An initial part of the positions of a queue is as long as it is large.
LEMMA InitialPart ==
    ASSUME NEW N \in Nat, NEW S \in SUBSET (1..N),
           \A i \in S, j \in 1..N : j <= i => j \in S
    PROVE  S = 1..Cardinality(S) /\ Cardinality(S) \in 0..N
<1> DEFINE Rest == {i \in 1..N + 1 : i \notin S}
<1>1. Rest \in SUBSET Nat /\ N + 1 \in Rest
  OBVIOUS
<1>2. PICK x \in Rest : \A y \in Rest : x <= y
  <2> HIDE DEF Rest
  <2> QED
    BY <1>1, LeastElement
<1>3. x \in 1..N + 1 /\ x \notin S
  BY <1>2
<1>4. S = 1..x - 1
  <2>1. ASSUME NEW i \in S PROVE i \in 1..x - 1
    <3>1. ~(x <= i)
      BY <1>3
    <3> QED
      BY <1>3, <3>1
  <2>2. ASSUME NEW i \in 1..x - 1 PROVE i \in S
    <3>1. i \in 1..N + 1 /\ ~(x <= i)
      BY <1>3
    <3> QED
      BY <1>2, <3>1
  <2> QED
    BY <2>1, <2>2
<1>5. Cardinality(1..x - 1) = x - 1
  <2>1. Cardinality(1..x - 1) = (IF 1 > x - 1 THEN 0 ELSE x - 1 - 1 + 1)
    BY <1>3, FS_Interval
  <2> QED
    BY <1>3, <2>1
<1> QED
  BY <1>3, <1>4, <1>5

\* What is inserted is queued with the others, in order if its place is in order.
LEMMA Inserted ==
    ASSUME NEW T, NEW q \in Seq(T), Distinct(q), NEW t \in T, ~Queued(t, q), NEW n \in 0..Len(q)
    PROVE  /\ InsertAt(q, t, n) \in Seq(T) /\ InsertAt(q, t, n) # <<>>
           /\ Distinct(InsertAt(q, t, n))
           /\ \A u : Queued(u, InsertAt(q, t, n)) <=> u = t \/ Queued(u, q)
           /\ Head(InsertAt(q, t, n)) = (IF n = 0 THEN t ELSE Head(q))
           /\ \A prio \in [T -> Int] :
                 (/\ Ordered(q, prio)
                  /\ \A i \in 1..n : prio[q[i]] <= prio[t]
                  /\ \A i \in n + 1..Len(q) : prio[t] <= prio[q[i]])
                 => Ordered(InsertAt(q, t, n), prio)
<1> DEFINE r == InsertAt(q, t, n)
<1>1. Len(q) \in Nat /\ DOMAIN q = 1..Len(q) /\ \A i \in 1..Len(q) : q[i] \in T /\ q[i] # t
  BY LenProperties, ElementOfSeq DEF Queued
<1>2. r \in Seq(T) /\ Len(r) = Len(q) + 1 /\ DOMAIN r = 1..Len(q) + 1
  BY Insertion DEF InsertAt
<1>3. \A i \in 1..Len(q) + 1 :
         r[i] = IF i <= n THEN q[i] ELSE IF i = n + 1 THEN t ELSE q[i - 1]
  BY DEF InsertAt
<1>a. /\ \A i \in 1..n : r[i] = q[i] /\ i \in 1..Len(q)
      /\ r[n + 1] = t
      /\ \A i \in n + 2..Len(q) + 1 :
            r[i] = q[i - 1] /\ i - 1 \in n + 1..Len(q) /\ i - 1 \in 1..Len(q)
  BY <1>1, <1>3
<1>4. r # <<>> /\ Head(r) = r[1]
  BY <1>1, <1>2, HeadTailProperties, EmptySeq
<1> HIDE DEF r
<1>5. Distinct(r)
  <2> SUFFICES ASSUME NEW i \in 1..Len(q) + 1, NEW j \in 1..Len(q) + 1, i < j
               PROVE  r[i] # r[j]
    BY <1>1, <1>2 DEF Distinct
  <2>1. \A k, l \in 1..Len(q) : q[k] = q[l] => k = l
    BY <1>1 DEF Distinct
  <2>2. CASE j <= n
    <3>1. i \in 1..n /\ j \in 1..n
      BY <1>1, <2>2
    <3> QED
      BY <1>a, <2>1, <3>1
  <2>3. CASE j = n + 1
    <3>1. i \in 1..n
      BY <1>1, <2>3
    <3> QED
      BY <1>1, <1>a, <2>3, <3>1
  <2>4. CASE j > n + 1 /\ i <= n
    <3>1. j \in n + 2..Len(q) + 1 /\ i \in 1..n /\ j - 1 # i
      BY <1>1, <2>4
    <3> QED
      BY <1>a, <2>1, <3>1
  <2>5. CASE j > n + 1 /\ i = n + 1
    <3>1. j \in n + 2..Len(q) + 1
      BY <1>1, <2>5
    <3> QED
      BY <1>1, <1>a, <2>5, <3>1
  <2>6. CASE i > n + 1
    <3>1. j \in n + 2..Len(q) + 1 /\ i \in n + 2..Len(q) + 1 /\ i - 1 # j - 1
      BY <1>1, <2>6
    <3> QED
      BY <1>a, <2>1, <3>1
  <2> QED
    BY <1>1, <2>2, <2>3, <2>4, <2>5, <2>6
<1>6. ASSUME NEW u PROVE Queued(u, r) <=> u = t \/ Queued(u, q)
  <2>1. Queued(u, r) => u = t \/ Queued(u, q)
    BY <1>1, <1>2, <1>3 DEF Queued
  <2>2. Queued(t, r)
    <3>1. n + 1 \in 1..Len(q) + 1 /\ r[n + 1] = t
      BY <1>1, <1>3
    <3> QED
      BY <1>2, <3>1 DEF Queued
  <2>3. ASSUME NEW i \in DOMAIN q, q[i] = u PROVE Queued(u, r)
    <3>1. CASE i <= n
      <4>1. i \in DOMAIN r /\ r[i] = u
        BY <1>1, <1>2, <1>3, <2>3, <3>1
      <4> QED
        BY <4>1 DEF Queued
    <3>2. CASE ~(i <= n)
      <4>1. i + 1 \in DOMAIN r /\ r[i + 1] = u
        BY <1>1, <1>2, <1>3, <2>3, <3>2
      <4> QED
        BY <4>1 DEF Queued
    <3> QED
      BY <3>1, <3>2
  <2> QED
    BY <2>1, <2>2, <2>3 DEF Queued
<1>7. Head(r) = IF n = 0 THEN t ELSE Head(q)
  <2>1. CASE n = 0
    BY <1>1, <1>3, <1>4, <2>1
  <2>2. CASE n # 0
    <3>1. q # <<>> /\ Head(q) = q[1]
      BY <1>1, <2>2, HeadTailProperties, EmptySeq
    <3> QED
      BY <1>1, <1>3, <1>4, <2>2, <3>1
  <2> QED
    BY <2>1, <2>2
<1>8. ASSUME NEW prio \in [T -> Int], Ordered(q, prio),
             \A i \in 1..n : prio[q[i]] <= prio[t],
             \A i \in n + 1..Len(q) : prio[t] <= prio[q[i]]
      PROVE  Ordered(r, prio)
  <2> SUFFICES ASSUME NEW i \in 1..Len(q) + 1, NEW j \in 1..Len(q) + 1, i < j
               PROVE  prio[r[i]] <= prio[r[j]]
    BY <1>2 DEF Ordered
  <2>1. \A k, l \in 1..Len(q) : k < l => prio[q[k]] <= prio[q[l]]
    BY <1>1, <1>8 DEF Ordered
  <2>7. /\ \A k \in 1..n : prio[q[k]] <= prio[t]
        /\ \A k \in n + 1..Len(q) : prio[t] <= prio[q[k]]
    BY <1>1, <1>8
  <2>2. CASE j <= n
    <3>1. i \in 1..n /\ j \in 1..n
      BY <1>1, <2>2
    <3> QED
      BY <1>a, <2>1, <3>1
  <2>3. CASE j = n + 1
    <3>1. i \in 1..n
      BY <1>1, <2>3
    <3> QED
      BY <1>1, <1>a, <2>7, <2>3, <3>1
  <2>4. CASE j > n + 1 /\ i <= n
    <3>1. j \in n + 2..Len(q) + 1 /\ i \in 1..n /\ i < j - 1
      BY <1>1, <2>4
    <3> QED
      BY <1>a, <2>1, <3>1
  <2>5. CASE j > n + 1 /\ i = n + 1
    <3>1. j \in n + 2..Len(q) + 1
      BY <1>1, <2>5
    <3> QED
      BY <1>1, <1>a, <2>7, <2>5, <3>1
  <2>6. CASE i > n + 1
    <3>1. j \in n + 2..Len(q) + 1 /\ i \in n + 2..Len(q) + 1 /\ i - 1 < j - 1
      BY <1>1, <2>6
    <3> QED
      BY <1>a, <2>1, <3>1
  <2> QED
    BY <1>1, <2>2, <2>3, <2>4, <2>5, <2>6
<1> QED
  BY <1>2, <1>4, <1>5, <1>6, <1>7, <1>8 DEF r

\* Where Enqueue puts t, and EnqueueFirst.
LEMMA Behind ==
    ASSUME NEW T, NEW q \in Seq(T), NEW prio \in [T -> Int], Ordered(q, prio), NEW p \in Int
    PROVE  /\ Ahead(q, p, prio) \in 0..Len(q)
           /\ \A i \in 1..Ahead(q, p, prio) : prio[q[i]] <= p
           /\ \A i \in Ahead(q, p, prio) + 1..Len(q) : p < prio[q[i]]
<1> DEFINE S == {i \in DOMAIN q : prio[q[i]] <= p}
<1>1. /\ Len(q) \in Nat /\ DOMAIN q = 1..Len(q)
      /\ \A i \in 1..Len(q) : q[i] \in T /\ prio[q[i]] \in Int
  BY LenProperties, ElementOfSeq
<1>2. \A i \in S, j \in 1..Len(q) : j <= i => j \in S
  <2> SUFFICES ASSUME NEW i \in S, NEW j \in 1..Len(q), j <= i PROVE j \in S
    OBVIOUS
  <2>1. i \in 1..Len(q) /\ prio[q[i]] <= p
    BY <1>1
  <2>2. prio[q[j]] <= prio[q[i]]
    BY <1>1, <2>1 DEF Ordered
  <2> QED
    BY <1>1, <2>1, <2>2
<1>3. S \in SUBSET (1..Len(q))
  BY <1>1
<1> HIDE DEF S
<1>4. S = 1..Cardinality(S) /\ Cardinality(S) \in 0..Len(q)
  BY <1>1, <1>2, <1>3, InitialPart
<1>5. Ahead(q, p, prio) = Cardinality(S)
  BY DEF Ahead, S
<1>6. \A i \in 1..Len(q) : i \in S <=> prio[q[i]] <= p
  BY <1>1 DEF S
<1> DEFINE n == Cardinality(S)
<1>7. n \in 0..Len(q) /\ S = 1..n
  BY <1>4
<1> HIDE DEF n
<1>8. \A i \in 1..n : prio[q[i]] <= p
  BY <1>6, <1>7
<1>9. \A i \in n + 1..Len(q) : p < prio[q[i]]
  <2> SUFFICES ASSUME NEW i \in n + 1..Len(q) PROVE p < prio[q[i]]
    OBVIOUS
  <2>1. i \in 1..Len(q) /\ i \notin S
    BY <1>1, <1>7
  <2> QED
    BY <1>1, <1>6, <2>1
<1> QED
  BY <1>5, <1>7, <1>8, <1>9 DEF n

\* An entry that EnqueueFirst puts in goes behind those that are more urgent.
LEMMA BehindFirst ==
    ASSUME NEW T, NEW q \in Seq(T), NEW prio \in [T -> Int], Ordered(q, prio), NEW p \in Int
    PROVE  LET n == Cardinality({i \in DOMAIN q : prio[q[i]] < p})
           IN  /\ n \in 0..Len(q)
               /\ \A i \in 1..n : prio[q[i]] < p
               /\ \A i \in n + 1..Len(q) : p <= prio[q[i]]
<1> DEFINE S == {i \in DOMAIN q : prio[q[i]] < p}
           n == Cardinality(S)
<1>1. /\ Len(q) \in Nat /\ DOMAIN q = 1..Len(q)
      /\ \A i \in 1..Len(q) : q[i] \in T /\ prio[q[i]] \in Int
  BY LenProperties, ElementOfSeq
<1>2. \A i \in S, j \in 1..Len(q) : j <= i => j \in S
  <2> SUFFICES ASSUME NEW i \in S, NEW j \in 1..Len(q), j <= i PROVE j \in S
    OBVIOUS
  <2>1. i \in 1..Len(q) /\ prio[q[i]] < p
    BY <1>1
  <2>2. prio[q[j]] <= prio[q[i]]
    BY <1>1, <2>1 DEF Ordered
  <2> QED
    BY <1>1, <2>1, <2>2
<1>3. S \in SUBSET (1..Len(q)) /\ \A i \in 1..Len(q) : i \in S <=> prio[q[i]] < p
  BY <1>1
<1> HIDE DEF S
<1>4. n \in 0..Len(q) /\ S = 1..n
  BY <1>1, <1>2, <1>3, InitialPart
<1> HIDE DEF n
<1>5. \A i \in 1..n : prio[q[i]] < p
  BY <1>3, <1>4
<1>6. \A i \in n + 1..Len(q) : p <= prio[q[i]]
  <2> SUFFICES ASSUME NEW i \in n + 1..Len(q) PROVE p <= prio[q[i]]
    OBVIOUS
  <2>1. i \in 1..Len(q) /\ i \notin S
    BY <1>1, <1>4
  <2> QED
    BY <1>1, <1>3, <2>1
<1> QED
  BY <1>4, <1>5, <1>6 DEF n, S

\* Enqueue puts its entry behind those that are not less urgent.
LEMMA EnqueueAt ==
    ASSUME NEW T, NEW q \in Seq(T), Distinct(q), NEW t \in T, ~Queued(t, q),
           NEW prio \in [T -> Int], Ordered(q, prio), NEW p \in Int
    PROVE  \E n \in 0..Len(q) :
              /\ Enqueue(q, t, p, prio) = InsertAt(q, t, n)
              /\ \A i \in 1..n : prio[q[i]] <= p
              /\ \A i \in n + 1..Len(q) : p < prio[q[i]]
              /\ n = 0 <=> q = <<>> \/ p < prio[Head(q)]
<1> DEFINE n == Ahead(q, p, prio)
<1>1. /\ n \in 0..Len(q)
      /\ \A i \in 1..n : prio[q[i]] <= p
      /\ \A i \in n + 1..Len(q) : p < prio[q[i]]
  BY Behind
<1>2. Enqueue(q, t, p, prio) = InsertAt(q, t, n)
  BY DEF Enqueue, InsertAt
<1> HIDE DEF n
<1>3. /\ Len(q) \in Nat /\ DOMAIN q = 1..Len(q)
      /\ \A i \in 1..Len(q) : q[i] \in T /\ q[i] # t /\ prio[q[i]] \in Int
  BY LenProperties, ElementOfSeq DEF Queued
<1>4. n = 0 <=> q = <<>> \/ p < prio[Head(q)]
  <2>1. CASE q = <<>>
    BY <1>1, <2>1
  <2>2. CASE q # <<>>
    <3>1. Len(q) > 0 /\ Head(q) = q[1]
      BY <1>3, <2>2, HeadTailProperties, EmptySeq
    <3>2. CASE n = 0
      <4>1. 1 \in n + 1..Len(q)
        BY <1>3, <3>1, <3>2
      <4> QED
        BY <1>1, <3>1, <3>2, <4>1
    <3>3. CASE n # 0
      <4>1. 1 \in 1..n /\ 1 \in 1..Len(q)
        BY <1>1, <1>3, <3>1, <3>3
      <4> QED
        BY <1>1, <1>3, <2>2, <3>1, <3>3, <4>1
    <3> QED
      BY <3>2, <3>3
  <2> QED
    BY <2>1, <2>2
<1> QED
  BY <1>1, <1>2, <1>4

\* So the queue holds one entry more,
LEMMA EnqueueQueue ==
    ASSUME NEW T, NEW q \in Seq(T), Distinct(q), NEW t \in T, ~Queued(t, q),
           NEW prio \in [T -> Int], Ordered(q, prio), NEW p \in Int
    PROVE  /\ Enqueue(q, t, p, prio) \in Seq(T) /\ Enqueue(q, t, p, prio) # <<>>
           /\ Distinct(Enqueue(q, t, p, prio))
           /\ \A u : Queued(u, Enqueue(q, t, p, prio)) <=> u = t \/ Queued(u, q)
<1> PICK n \in 0..Len(q) : Enqueue(q, t, p, prio) = InsertAt(q, t, n)
  BY EnqueueAt
<1> QED
  BY Inserted

\* which is the first if it is more urgent than all others,
LEMMA EnqueueHead ==
    ASSUME NEW T, NEW q \in Seq(T), Distinct(q), NEW t \in T, ~Queued(t, q),
           NEW prio \in [T -> Int], Ordered(q, prio), NEW p \in Int
    PROVE  IF q = <<>> \/ p < prio[Head(q)] THEN Head(Enqueue(q, t, p, prio)) = t
           ELSE Head(Enqueue(q, t, p, prio)) = Head(q)
<1> PICK n \in 0..Len(q) : /\ Enqueue(q, t, p, prio) = InsertAt(q, t, n)
                           /\ n = 0 <=> q = <<>> \/ p < prio[Head(q)]
  BY EnqueueAt
<1>1. Head(InsertAt(q, t, n)) = (IF n = 0 THEN t ELSE Head(q))
  BY Inserted
<1> QED
  BY <1>1

\* and it is in order once the entry has the priority p.
LEMMA EnqueueOrder ==
    ASSUME NEW T, NEW q \in Seq(T), Distinct(q), NEW t \in T, ~Queued(t, q),
           NEW prio \in [T -> Int], Ordered(q, prio), NEW p \in Int,
           NEW after \in [T -> Int], after[t] = p, \A u \in T \ {t} : after[u] = prio[u]
    PROVE  Ordered(Enqueue(q, t, p, prio), after)
<1> PICK n \in 0..Len(q) :
        /\ Enqueue(q, t, p, prio) = InsertAt(q, t, n)
        /\ \A i \in 1..n : prio[q[i]] <= p
        /\ \A i \in n + 1..Len(q) : p < prio[q[i]]
  BY EnqueueAt, ZenonT(60)
<1>3. /\ Len(q) \in Nat /\ DOMAIN q = 1..Len(q)
      /\ \A i \in 1..Len(q) : q[i] \in T /\ q[i] # t /\ prio[q[i]] \in Int
  BY LenProperties, ElementOfSeq DEF Queued
<1>5. Ordered(InsertAt(q, t, n), after)
  <2>1. \A i \in 1..Len(q) : after[q[i]] = prio[q[i]]
    BY <1>3
  <2>2. Ordered(q, after)
    BY <1>3, <2>1 DEF Ordered
  <2>3. \A i \in 1..n : after[q[i]] <= after[t]
    BY <1>3, <2>1
  <2>4. \A i \in n + 1..Len(q) : after[t] <= after[q[i]]
    <3> SUFFICES ASSUME NEW i \in n + 1..Len(q) PROVE after[t] <= after[q[i]]
      OBVIOUS
    <3>1. i \in 1..Len(q) /\ p < prio[q[i]]
      BY <1>3
    <3> QED
      BY <1>3, <2>1, <3>1
  <2> QED
    BY <2>2, <2>3, <2>4, Inserted
<1> QED
  BY <1>5

\* What EnqueueFirst makes of an ordered queue.
LEMMA EnqueueFirstOrder ==
    ASSUME NEW T, NEW q \in Seq(T), Distinct(q), NEW t \in T, ~Queued(t, q),
           NEW prio \in [T -> Int], Ordered(q, prio)
    PROVE  LET r == EnqueueFirst(q, t, prio[t], prio)
           IN  /\ r \in Seq(T) /\ r # <<>> /\ Distinct(r) /\ Ordered(r, prio)
               /\ \A u : Queued(u, r) <=> u = t \/ Queued(u, q)
               /\ q # <<>> /\ prio[Head(q)] < prio[t] => Head(r) = Head(q)
<1> DEFINE n == Cardinality({i \in DOMAIN q : prio[q[i]] < prio[t]})
<1>1. /\ n \in 0..Len(q)
      /\ \A i \in 1..n : prio[q[i]] < prio[t]
      /\ \A i \in n + 1..Len(q) : prio[t] <= prio[q[i]]
  BY BehindFirst
<1>2. EnqueueFirst(q, t, prio[t], prio) = InsertAt(q, t, n)
  BY DEF EnqueueFirst, InsertAt
<1> HIDE DEF n
<1>3. /\ Len(q) \in Nat /\ \A i \in 1..Len(q) : q[i] \in T /\ prio[q[i]] \in Int
  BY LenProperties, ElementOfSeq
<1>4. \A i \in 1..n : prio[q[i]] <= prio[t]
  <2> SUFFICES ASSUME NEW i \in 1..n PROVE prio[q[i]] <= prio[t]
    OBVIOUS
  <2>1. i \in 1..Len(q) /\ prio[q[i]] < prio[t]
    BY <1>1, <1>3
  <2> QED
    BY <1>3, <2>1
<1>5. q # <<>> /\ prio[Head(q)] < prio[t] => n # 0
  <2> SUFFICES ASSUME q # <<>>, prio[Head(q)] < prio[t], n = 0 PROVE FALSE
    OBVIOUS
  <2>1. Len(q) > 0 /\ Head(q) = q[1]
    BY <1>3, HeadTailProperties, EmptySeq
  <2>2. 1 \in n + 1..Len(q) /\ 1 \in 1..Len(q)
    BY <1>3, <2>1
  <2> QED
    BY <1>1, <1>3, <2>1, <2>2
<1>6. /\ InsertAt(q, t, n) \in Seq(T) /\ InsertAt(q, t, n) # <<>> /\ Distinct(InsertAt(q, t, n))
      /\ \A u : Queued(u, InsertAt(q, t, n)) <=> u = t \/ Queued(u, q)
      /\ Head(InsertAt(q, t, n)) = (IF n = 0 THEN t ELSE Head(q))
  BY <1>1, Inserted
<1>7. Ordered(InsertAt(q, t, n), prio)
  BY <1>1, <1>4, Inserted
<1> QED
  BY <1>2, <1>5, <1>6, <1>7

\* What Dequeue leaves of an ordered queue.
LEMMA DequeueOrder ==
    ASSUME NEW T, NEW q \in Seq(T), Distinct(q), NEW t, NEW prio \in [T -> Int], Ordered(q, prio)
    PROVE  LET r == Dequeue(q, t)
           IN  /\ r \in Seq(T) /\ Distinct(r) /\ Ordered(r, prio)
               /\ \A u : Queued(u, r) <=> u # t /\ Queued(u, q)
               /\ r # <<>> => q # <<>> /\ prio[Head(q)] <= prio[Head(r)]
               /\ q # <<>> /\ Head(q) # t => r # <<>> /\ Head(r) = Head(q)
               /\ Queued(t, q) /\ ~HeadAlone(t, q, prio) =>
                     r # <<>> /\ prio[Head(r)] = prio[Head(q)]
<1>1. CASE ~Queued(t, q)
  <2>1. \A u : Queued(u, q) => u # t
    BY <1>1
  <2>2. q # <<>> => Head(q) \in T
    BY HeadTailProperties
  <2> QED
    BY <1>1, <2>1, <2>2 DEF Dequeue
<1>2. CASE Queued(t, q)
  <2> DEFINE n == CHOOSE i \in DOMAIN q : q[i] = t
             r == [i \in 1..Len(q) - 1 |-> IF i < n THEN q[i] ELSE q[i + 1]]
  <2>1. /\ Len(q) \in Nat /\ DOMAIN q = 1..Len(q)
        /\ \A i \in 1..Len(q) : q[i] \in T /\ prio[q[i]] \in Int
    BY LenProperties, ElementOfSeq
  <2>2. n \in 1..Len(q) /\ q[n] = t
    BY <1>2, <2>1 DEF Queued
  <2> HIDE DEF n
  <2>3. Dequeue(q, t) = r
    BY <1>2 DEF Dequeue, n
  <2>4. r \in Seq(T) /\ Distinct(r) /\ \A u : Queued(u, r) => u # t /\ Queued(u, q)
    <3> HIDE DEF r
    <3>1. Dequeue(q, t) \in Seq(T)
      BY DequeueType
    <3>2. Distinct(Dequeue(q, t)) /\ \A u : Queued(u, Dequeue(q, t)) => u # t /\ Queued(u, q)
      BY DequeueKeeps
    <3> QED
      BY <2>3, <3>1, <3>2
  <2>5. /\ DOMAIN r = 1..Len(q) - 1 /\ Len(r) = Len(q) - 1
        /\ \A i \in 1..n - 1 : r[i] = q[i] /\ i \in 1..Len(q)
        /\ \A i \in n..Len(q) - 1 : r[i] = q[i + 1] /\ i + 1 \in 1..Len(q)
    BY <2>1, <2>2, <2>4, LenProperties
  <2> HIDE DEF r
  <2>6. ASSUME NEW u, u # t, Queued(u, q) PROVE Queued(u, r)
    <3>1. PICK i \in 1..Len(q) : q[i] = u
      BY <2>1, <2>6 DEF Queued
    <3>2. CASE i < n
      <4>1. i \in 1..n - 1 /\ i \in 1..Len(q) - 1
        BY <2>1, <2>2, <3>2
      <4> QED
        BY <2>5, <3>1, <4>1 DEF Queued
    <3>3. CASE i > n
      <4>1. i - 1 \in n..Len(q) - 1 /\ i - 1 \in 1..Len(q) - 1 /\ i - 1 + 1 = i
        BY <2>1, <2>2, <3>3
      <4> QED
        BY <2>5, <3>1, <4>1 DEF Queued
    <3> QED
      BY <2>1, <2>2, <2>6, <3>1, <3>2, <3>3
  <2>7. \A i, j \in 1..Len(q) : i < j => prio[q[i]] <= prio[q[j]]
    BY <2>1 DEF Ordered
  <2>8. Ordered(r, prio)
    <3> SUFFICES ASSUME NEW i \in 1..Len(q) - 1, NEW j \in 1..Len(q) - 1, i < j
                 PROVE  prio[r[i]] <= prio[r[j]]
      BY <2>5 DEF Ordered
    <3>1. CASE j < n
      <4>1. i \in 1..n - 1 /\ j \in 1..n - 1
        BY <2>1, <2>2, <3>1
      <4> QED
        BY <2>5, <2>7, <4>1
    <3>2. CASE i < n /\ ~(j < n)
      <4>1. i \in 1..n - 1 /\ j \in n..Len(q) - 1 /\ i < j + 1
        BY <2>1, <2>2, <3>2
      <4> QED
        BY <2>5, <2>7, <4>1
    <3>3. CASE ~(i < n)
      <4>1. i \in n..Len(q) - 1 /\ j \in n..Len(q) - 1 /\ i + 1 < j + 1
        BY <2>1, <2>2, <3>3
      <4> QED
        BY <2>5, <2>7, <4>1
    <3> QED
      BY <3>1, <3>2, <3>3
  <2>9. q # <<>> /\ Head(q) = q[1] /\ 1 \in 1..Len(q)
    BY <2>1, <2>2, HeadTailProperties, EmptySeq
  <2>10. r # <<>> => /\ Head(r) = r[1] /\ 1 \in 1..Len(q) - 1 /\ 2 \in 1..Len(q)
                     /\ r[1] = (IF n = 1 THEN q[2] ELSE q[1])
    <3> SUFFICES ASSUME r # <<>> PROVE /\ Head(r) = r[1] /\ 1 \in 1..Len(q) - 1 /\ 2 \in 1..Len(q)
                                       /\ r[1] = (IF n = 1 THEN q[2] ELSE q[1])
      OBVIOUS
    <3>1. Head(r) = r[1] /\ 1 \in 1..Len(q) - 1
      BY <2>1, <2>4, <2>5, HeadTailProperties, EmptySeq
    <3>2. n = 1 => 1 \in n..Len(q) - 1
      BY <2>1, <3>1
    <3>3. n # 1 => 1 \in 1..n - 1
      BY <2>2
    <3> QED
      BY <2>1, <2>5, <3>1, <3>2, <3>3
  <2>11. r # <<>> => prio[Head(q)] <= prio[Head(r)]
    BY <2>1, <2>7, <2>9, <2>10
  <2>12. n # 1 => r # <<>>
    <3>1. n # 1 => 1 \in 1..Len(q) - 1
      BY <2>1, <2>2
    <3> QED
      BY <2>1, <2>4, <2>5, <3>1, EmptySeq
  <2>13. Head(q) # t => n # 1
    BY <2>2, <2>9
  <2>14. ASSUME ~HeadAlone(t, q, prio) PROVE r # <<>> /\ prio[Head(r)] = prio[Head(q)]
    <3>1. CASE Head(q) # t
      BY <2>9, <2>10, <2>12, <2>13, <3>1
    <3>2. CASE Head(q) = t
      <4>1. PICK i \in 2..Len(q) : prio[q[i]] = prio[t]
        BY <2>14, <3>2 DEF HeadAlone
      <4>2. n = 1
        BY <2>1, <2>2, <2>9, <3>2 DEF Distinct
      <4>3. r # <<>>
        <5>1. 1 \in 1..Len(q) - 1
          BY <2>1, <4>1
        <5> QED
          BY <2>1, <2>4, <2>5, <5>1, EmptySeq
      <4>4. Head(r) = q[2]
        BY <2>10, <4>2, <4>3
      <4>5. i \in 1..Len(q) /\ 2 \in 1..Len(q) /\ (i = 2 \/ 2 < i) /\ prio[q[1]] = prio[t]
        BY <2>1, <2>9, <3>2, <4>1
      <4>6. prio[q[1]] <= prio[q[2]] /\ prio[q[2]] <= prio[q[i]]
        BY <2>1, <2>7, <2>9, <4>5
      <4> QED
        BY <2>1, <2>9, <4>1, <4>3, <4>4, <4>5, <4>6
    <3> QED
      BY <3>1, <3>2
  <2> QED
    BY <2>3, <2>4, <2>6, <2>8, <2>9, <2>10, <2>11, <2>12, <2>13, <2>14
<1> QED
  BY <1>1, <1>2

\* What taking the head leaves of it.
LEMMA TailOrder ==
    ASSUME NEW T, NEW q \in Seq(T), Distinct(q), q # <<>>, NEW prio \in [T -> Int], Ordered(q, prio)
    PROVE  /\ Tail(q) \in Seq(T) /\ Distinct(Tail(q)) /\ Ordered(Tail(q), prio)
           /\ Head(q) \in T /\ Queued(Head(q), q)
           /\ \A u : Queued(u, Tail(q)) <=> u # Head(q) /\ Queued(u, q)
           /\ Tail(q) # <<>> => prio[Head(q)] <= prio[Head(Tail(q))]
<1>1. Len(q) \in Nat \ {0} /\ DOMAIN q = 1..Len(q)
  BY LenProperties, EmptySeq
<1>2. /\ Tail(q) \in Seq(T) /\ Len(Tail(q)) = Len(q) - 1 /\ Head(q) = q[1] /\ Head(q) \in T
      /\ \A i \in 1..Len(Tail(q)) : Tail(q)[i] = q[i + 1]
  BY HeadTailProperties
<1>3. DOMAIN Tail(q) = 1..Len(q) - 1 /\ \A i \in 1..Len(q) - 1 : Tail(q)[i] = q[i + 1]
  BY <1>2, LenProperties
<1>4. Distinct(Tail(q)) /\ \A u : Queued(u, Tail(q)) => u # Head(q) /\ Queued(u, q)
  BY TailKeeps
<1>5. \A i, j \in 1..Len(q) : i < j => prio[q[i]] <= prio[q[j]]
  BY <1>1 DEF Ordered
<1>6. Ordered(Tail(q), prio)
  <2> SUFFICES ASSUME NEW i \in 1..Len(q) - 1, NEW j \in 1..Len(q) - 1, i < j
               PROVE  prio[Tail(q)[i]] <= prio[Tail(q)[j]]
    BY <1>3 DEF Ordered
  <2>1. i + 1 \in 1..Len(q) /\ j + 1 \in 1..Len(q) /\ i + 1 < j + 1
    BY <1>1
  <2> QED
    BY <1>3, <1>5, <2>1
<1>7. Queued(Head(q), q)
  <2>1. 1 \in DOMAIN q
    BY <1>1
  <2> QED
    BY <1>2, <2>1 DEF Queued
<1>8. ASSUME NEW u, u # Head(q), Queued(u, q) PROVE Queued(u, Tail(q))
  <2>1. PICK i \in 1..Len(q) : q[i] = u
    BY <1>1, <1>8 DEF Queued
  <2>2. i - 1 \in 1..Len(q) - 1 /\ i - 1 + 1 = i
    BY <1>1, <1>2, <1>8, <2>1
  <2> QED
    BY <1>3, <2>1, <2>2 DEF Queued
<1>9. ASSUME Tail(q) # <<>> PROVE prio[Head(q)] <= prio[Head(Tail(q))]
  <2>1. Head(Tail(q)) = Tail(q)[1] /\ Len(Tail(q)) # 0
    BY <1>2, <1>9, HeadTailProperties, EmptySeq
  <2>2. 1 \in 1..Len(q) - 1 /\ 1 \in 1..Len(q) /\ 2 \in 1..Len(q)
    BY <1>1, <1>2, <2>1
  <2>3. Head(Tail(q)) = q[2]
    BY <1>3, <2>1, <2>2
  <2> QED
    BY <1>2, <1>5, <2>2, <2>3
<1> QED
  BY <1>2, <1>4, <1>6, <1>7, <1>8, <1>9

\* Nobody is in an empty queue.
LEMMA EmptyQueue == \A u : ~Queued(u, <<>>)
BY DEF Queued

-----------------------------------------------------------------------------
(* Queues whatever their order *)

\* Enqueue adds one entry,
LEMMA EnqueueAdds ==
    ASSUME NEW T, NEW q \in Seq(T), Distinct(q), NEW t \in T, ~Queued(t, q), NEW p, NEW prio
    PROVE  /\ Enqueue(q, t, p, prio) \in Seq(T) /\ Distinct(Enqueue(q, t, p, prio))
           /\ Enqueue(q, t, p, prio) # <<>>
           /\ \A u : Queued(u, Enqueue(q, t, p, prio)) <=> u = t \/ Queued(u, q)
<1> DEFINE n == Ahead(q, p, prio)
<1>1. n \in 0..Len(q)
  BY PrefixSize DEF Ahead
<1>2. Enqueue(q, t, p, prio) = InsertAt(q, t, n)
  BY DEF Enqueue, InsertAt
<1> HIDE DEF n
<1> QED
  BY <1>1, <1>2, Inserted

\* and so does Append.
LEMMA AppendAdds ==
    ASSUME NEW T, NEW q \in Seq(T), Distinct(q), NEW t \in T, ~Queued(t, q)
    PROVE  /\ Append(q, t) \in Seq(T) /\ Distinct(Append(q, t)) /\ Append(q, t) # <<>>
           /\ \A u : Queued(u, Append(q, t)) <=> u = t \/ Queued(u, q)
<1>1. Len(q) \in Nat /\ \A i \in 1..Len(q) : q[i] \in T
  BY LenProperties, ElementOfSeq
<1>2. InsertAt(q, t, Len(q)) = Append(q, t)
  <2>1. /\ Append(q, t) \in Seq(T) /\ Len(Append(q, t)) = Len(q) + 1
        /\ \A i \in 1..Len(q) : Append(q, t)[i] = q[i]
        /\ Append(q, t)[Len(q) + 1] = t
    BY AppendProperties
  <2>2. InsertAt(q, t, Len(q)) \in Seq(T) /\ Len(InsertAt(q, t, Len(q))) = Len(q) + 1
    BY <1>1, Insertion DEF InsertAt
  <2>3. \A i \in 1..Len(q) + 1 : InsertAt(q, t, Len(q))[i] = IF i <= Len(q) THEN q[i] ELSE t
    BY <1>1 DEF InsertAt
  <2>4. \A i \in 1..Len(q) + 1 : i <= Len(q) => i \in 1..Len(q)
    BY <1>1
  <2>5. \A i \in 1..Len(q) + 1 : ~(i <= Len(q)) => i = Len(q) + 1
    BY <1>1
  <2>6. \A i \in 1..Len(q) + 1 : InsertAt(q, t, Len(q))[i] = Append(q, t)[i]
    BY <2>1, <2>3, <2>4, <2>5
  <2> QED
    BY <2>1, <2>2, <2>6, SeqEqual
<1>3. Len(q) \in 0..Len(q)
  BY <1>1
<1>4. /\ InsertAt(q, t, Len(q)) \in Seq(T) /\ Distinct(InsertAt(q, t, Len(q)))
      /\ InsertAt(q, t, Len(q)) # <<>>
      /\ \A u : Queued(u, InsertAt(q, t, Len(q))) <=> u = t \/ Queued(u, q)
  BY <1>3, Inserted
<1> QED
  BY <1>2, <1>4

\* Dequeue takes one entry out,
LEMMA DequeueTakes ==
    ASSUME NEW T, NEW q \in Seq(T), Distinct(q), NEW t
    PROVE  /\ Dequeue(q, t) \in Seq(T) /\ Distinct(Dequeue(q, t))
           /\ \A u : Queued(u, Dequeue(q, t)) <=> u # t /\ Queued(u, q)
<1> DEFINE flat == [x \in T |-> 0]
<1>1. flat \in [T -> Int]
  OBVIOUS
<1>2. Ordered(q, flat)
  <2>1. DOMAIN q = 1..Len(q) /\ \A i \in DOMAIN q : q[i] \in T
    BY LenProperties, ElementOfSeq
  <2>2. \A i \in DOMAIN q : flat[q[i]] = 0
    BY <2>1
  <2> QED
    BY <2>2 DEF Ordered
<1> HIDE DEF flat
<1> QED
  BY <1>1, <1>2, DequeueOrder

\* and Tail the first.
LEMMA TailTakes ==
    ASSUME NEW T, NEW q \in Seq(T), Distinct(q), q # <<>>
    PROVE  /\ Tail(q) \in Seq(T) /\ Distinct(Tail(q))
           /\ Head(q) \in T /\ Queued(Head(q), q)
           /\ \A u : Queued(u, Tail(q)) <=> u # Head(q) /\ Queued(u, q)
<1> DEFINE flat == [x \in T |-> 0]
<1>1. flat \in [T -> Int]
  OBVIOUS
<1>2. Ordered(q, flat)
  <2>1. DOMAIN q = 1..Len(q) /\ \A i \in DOMAIN q : q[i] \in T
    BY LenProperties, ElementOfSeq
  <2>2. \A i \in DOMAIN q : flat[q[i]] = 0
    BY <2>1
  <2> QED
    BY <2>2 DEF Ordered
<1> HIDE DEF flat
<1> QED
  BY <1>1, <1>2, TailOrder

\* An entry put in front.
LEMMA ConsAdds ==
    ASSUME NEW T, NEW q \in Seq(T), Distinct(q), NEW t \in T, ~Queued(t, q)
    PROVE  /\ <<t>> \o q \in Seq(T) /\ Distinct(<<t>> \o q) /\ <<t>> \o q # <<>>
           /\ \A u : Queued(u, <<t>> \o q) <=> u = t \/ Queued(u, q)
<1>1. Len(q) \in Nat /\ \A i \in 1..Len(q) : q[i] \in T
  BY LenProperties, ElementOfSeq
<1>2. InsertAt(q, t, 0) = <<t>> \o q
  <2>1. <<t>> \in Seq(T) /\ Len(<<t>>) = 1 /\ <<t>>[1] = t
    OBVIOUS
  <2>2. <<t>> \o q \in Seq(T) /\ Len(<<t>> \o q) = Len(q) + 1
    BY <1>1, <2>1, ConcatProperties
  <2>3. \A i \in 1..1 + Len(q) : (<<t>> \o q)[i] = IF i <= 1 THEN <<t>>[i] ELSE q[i - 1]
    BY <2>1, ConcatProperties
  <2>4. InsertAt(q, t, 0) \in Seq(T) /\ Len(InsertAt(q, t, 0)) = Len(q) + 1
    BY <1>1, Insertion DEF InsertAt
  <2>5. \A i \in 1..Len(q) + 1 : InsertAt(q, t, 0)[i] = IF i = 1 THEN t ELSE q[i - 1]
    BY <1>1 DEF InsertAt
  <2>6. \A i \in 1..Len(q) + 1 : i \in 1..1 + Len(q) /\ (i <= 1 <=> i = 1)
    BY <1>1
  <2>7. \A i \in 1..Len(q) + 1 : InsertAt(q, t, 0)[i] = (<<t>> \o q)[i]
    BY <2>1, <2>3, <2>5, <2>6
  <2> QED
    BY <2>2, <2>4, <2>7, SeqEqual
<1>3. 0 \in 0..Len(q)
  BY <1>1
<1>4. /\ InsertAt(q, t, 0) \in Seq(T) /\ Distinct(InsertAt(q, t, 0)) /\ InsertAt(q, t, 0) # <<>>
      /\ \A u : Queued(u, InsertAt(q, t, 0)) <=> u = t \/ Queued(u, q)
  BY <1>3, Inserted
<1> QED
  BY <1>2, <1>4

-----------------------------------------------------------------------------
(* The order of the others *)

\* What is inserted comes after the first n entries and before the others.
LEMMA InsertBefore ==
    ASSUME NEW T, NEW q \in Seq(T), NEW t \in T, NEW n \in 0..Len(q), NEW u, NEW v,
           Earlier(u, v, InsertAt(q, t, n))
    PROVE  \/ Earlier(u, v, q)
           \/ v = t /\ \E i \in 1..n : q[i] = u
           \/ u = t /\ \E i \in n + 1..Len(q) : q[i] = v
<1>1. Len(q) \in Nat /\ DOMAIN q = 1..Len(q) /\ n \in Nat /\ n <= Len(q)
  BY LenProperties
<1>2. DOMAIN InsertAt(q, t, n) = 1..Len(q) + 1
  BY DEF InsertAt
<1>3. PICK i, j \in 1..Len(q) + 1 : i < j /\ InsertAt(q, t, n)[i] = u /\ InsertAt(q, t, n)[j] = v
  BY <1>2 DEF Earlier
<1>4. \A k \in 1..Len(q) + 1 :
         InsertAt(q, t, n)[k] = IF k <= n THEN q[k] ELSE IF k = n + 1 THEN t ELSE q[k - 1]
  BY DEF InsertAt
<1>5. CASE j = n + 1
  BY <1>1, <1>3, <1>4, <1>5
<1>6. CASE i = n + 1
  <2>1. j - 1 \in n + 1..Len(q) /\ ~(j <= n) /\ j # n + 1
    BY <1>1, <1>3, <1>6
  <2> QED
    BY <1>3, <1>4, <1>6, <2>1
<1>7. CASE i # n + 1 /\ j # n + 1
  <2> DEFINE x == IF i <= n THEN i ELSE i - 1
             y == IF j <= n THEN j ELSE j - 1
  <2>1. x \in 1..Len(q) /\ y \in 1..Len(q) /\ x < y
    BY <1>1, <1>3, <1>7
  <2>2. q[x] = u /\ q[y] = v
    BY <1>3, <1>4, <1>7
  <2> HIDE DEF x, y
  <2> QED
    BY <1>1, <2>1, <2>2 DEF Earlier
<1> QED
  BY <1>5, <1>6, <1>7

\* Taking an entry out leaves the order of the others.
LEMMA DequeueBefore ==
    ASSUME NEW T, NEW q \in Seq(T), NEW t, NEW u, NEW v, Earlier(u, v, Dequeue(q, t))
    PROVE  Earlier(u, v, q)
<1>1. CASE ~Queued(t, q)
  BY <1>1 DEF Dequeue
<1>2. CASE Queued(t, q)
  <2> DEFINE n == CHOOSE i \in DOMAIN q : q[i] = t
             r == [i \in 1..Len(q) - 1 |-> IF i < n THEN q[i] ELSE q[i + 1]]
  <2>1. Len(q) \in Nat /\ DOMAIN q = 1..Len(q)
    BY LenProperties
  <2>2. n \in 1..Len(q)
    BY <1>2, <2>1 DEF Queued
  <2> HIDE DEF n
  <2>3. PICK i, j \in 1..Len(q) - 1 : i < j /\ r[i] = u /\ r[j] = v
    BY <1>2 DEF Dequeue, Earlier, n
  <2> DEFINE x == IF i < n THEN i ELSE i + 1
             y == IF j < n THEN j ELSE j + 1
  <2>4. x \in 1..Len(q) /\ y \in 1..Len(q) /\ x < y
    BY <2>1, <2>2, <2>3
  <2>5. q[x] = u /\ q[y] = v
    BY <2>3
  <2> HIDE DEF x, y
  <2> QED
    BY <2>1, <2>4, <2>5 DEF Earlier
<1> QED
  BY <1>1, <1>2
=============================================================================
