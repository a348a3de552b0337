---------------------------- MODULE SleepProofs ----------------------------
(***************************************************************************)
(* Proofs about the list of sleepers: whoever is woken, suspended or given *)
(* another priority at whatever point of a search, and however late the    *)
(* timer is, for any threads, times and clock width.                       *)
(***************************************************************************)
EXTENDS SleepList, PrioSeqProofs

-----------------------------------------------------------------------------
(* The inductive invariant *)

\* The columns: who hangs in one has nothing below it, and is in no other place.
ColumnsOK ==
    /\ Distinct(top) /\ \A h \in Thread : Distinct(tail[h])
    /\ \A h, v \in Thread : Queued(v, tail[h]) => tail[v] = <<>> /\ ~Queued(v, top)
    /\ \A h, k, v \in Thread : Queued(v, tail[h]) /\ Queued(v, tail[k]) => h = k

\* Where a thread is, by its run state.
PlaceOK(t) ==
    /\ state[t] = "running" <=> runth = t
    /\ state[t] = "runnable" <=> Queued(t, runq)
    /\ state[t] = "needsrun" => \E r \in Thread : pc[r] = "signal" /\ target[r] = t
    /\ state[t] = "blocked" => Sleeping(t) \/ t \in suspended
    /\ Sleeping(t) => state[t] \in {"blocked", "needsrun"} /\ pc[t] = "asleep"
    /\ t \in suspended => state[t] = "blocked" /\ ~Sleeping(t)
    /\ pc[t] = "signal" => target[t] \in Thread

\* A search that nobody has disturbed stands on a sleeper.
SearchOK(t) ==
    /\ crab[t].pth # None => pc[t] = "crab"
    /\ crab[t].vertical => crab[t].pth # None
    /\ crab[t].ok /\ crab[t].pth # None =>
          IF crab[t].vertical THEN Sleeping(crab[t].pth) ELSE Queued(crab[t].pth, top)

ListsInv ==
    /\ TypeOK /\ ColumnsOK /\ Distinct(runq) /\ Carried
    /\ \A t \in Thread : PlaceOK(t) /\ SearchOK(t)

-----------------------------------------------------------------------------
(* and what it takes for the times *)

\* The columns are in the order of their times.
TopInOrder == \A u, v \in Thread : Earlier(u, v, top) => Diff(wake(u), wake(v)) < 0
ColumnsOfOneTime == \A h, v \in Thread : Queued(v, tail[h]) => wake(v) = wake(h)

\* How long ago t was to wake up.
Age(t) == Diff(CurMSec, wake(t))
Left == Diff(CurMSec, dwReschedTime)

\* No two sleepers are half the clock apart.
AgesOK == \A t \in Thread : Timed(t) => Age(t) \in MaxLate + 1 - Half..MaxLate

SearchTimeOK(t) ==
    crab[t].ok /\ crab[t].pth # None =>
        IF crab[t].vertical THEN wake(crab[t].pth) = wake(t)
        ELSE Diff(wake(crab[t].pth), wake(t)) < 0

\* A column off the list has slept its time,
OffOK == \A h, v \in Thread : Queued(v, tail[h]) /\ ~Queued(h, top) => Age(v) >= 0

\* and the timer comes for those on it.
TimerOK ==
    /\ ~resched => Left \in 1 - Half..MaxLate
    /\ \A x \in Thread : Queued(x, top) =>
          IF resched THEN Diff(wake(x), dwReschedTime) >= 0 ELSE Age(x) <= Left

TimesInv ==
    /\ TopInOrder /\ ColumnsOfOneTime /\ AgesOK /\ OffOK /\ TimerOK
    /\ \A t \in Thread : SearchTimeOK(t)

-----------------------------------------------------------------------------
(* More about queues: what comes before what *)

\* An entry that takes the place of another.
LEMMA InPlace ==
    ASSUME NEW T, NEW q \in Seq(T), Distinct(q), NEW t \in T, Queued(t, q),
           NEW d \in T, ~Queued(d, q)
    PROVE  LET r == [i \in DOMAIN q |-> IF q[i] = t THEN d ELSE q[i]]
           IN  /\ r \in Seq(T) /\ Distinct(r) /\ r # <<>>
               /\ \A u : Queued(u, r) <=> u = d \/ (u # t /\ Queued(u, q))
               /\ \A u, v : Earlier(u, v, r) =>
                     Earlier(IF u = d THEN t ELSE u, IF v = d THEN t ELSE v, q)
               /\ r[1] = IF q[1] = t THEN d ELSE q[1]
<1> DEFINE r == [i \in DOMAIN q |-> IF q[i] = t THEN d ELSE q[i]]
<1>1. Len(q) \in Nat /\ DOMAIN q = 1..Len(q) /\ \A i \in 1..Len(q) : q[i] \in T /\ q[i] # d
  BY LenProperties, ElementOfSeq DEF Queued
<1>2. r \in [1..Len(q) -> T]
  BY <1>1
<1>3. r \in Seq(T) /\ DOMAIN r = 1..Len(q)
  BY <1>1, <1>2
<1>4. PICK n \in 1..Len(q) : q[n] = t
  BY <1>1 DEF Queued
<1>5. \A i \in 1..Len(q) : r[i] = IF q[i] = t THEN d ELSE q[i]
  BY <1>1
<1> HIDE DEF r
<1>6. Distinct(r)
  BY <1>1, <1>3, <1>5 DEF Distinct
<1>7. \A u : Queued(u, r) <=> u = d \/ (u # t /\ Queued(u, q))
  BY <1>1, <1>3, <1>4, <1>5 DEF Queued
<1>8. \A u, v : Earlier(u, v, r) => Earlier(IF u = d THEN t ELSE u, IF v = d THEN t ELSE v, q)
  BY <1>1, <1>3, <1>5 DEF Earlier
<1>9. r # <<>> /\ r[1] = IF q[1] = t THEN d ELSE q[1]
  BY <1>1, <1>3, <1>4, <1>5
<1> QED
  BY <1>3, <1>6, <1>7, <1>8, <1>9 DEF r

\* An entry put between two parts of a queue.
LEMMA Splice ==
    ASSUME NEW T, NEW q \in Seq(T), NEW t \in T, NEW n \in 0..Len(q)
    PROVE  SubSeq(q, 1, n) \o <<t>> \o SubSeq(q, n + 1, Len(q)) = InsertAt(q, t, n)
<1> DEFINE a == SubSeq(q, 1, n)
           b == SubSeq(q, n + 1, Len(q))
<1>1. Len(q) \in Nat /\ n \in Nat /\ n <= Len(q) /\ \A i \in 1..Len(q) : q[i] \in T
  BY LenProperties, ElementOfSeq
<1>2. a \in Seq(T) /\ Len(a) = n /\ \A i \in 1..n : a[i] = q[i]
  <2>1. 1 \in Int /\ n \in Int /\ \A i \in 1..n : q[i] \in T
    BY <1>1
  <2>2. /\ a \in Seq(T) /\ Len(a) = IF 1 <= n THEN n - 1 + 1 ELSE 0
        /\ \A i \in 1..n - 1 + 1 : a[i] = q[1 + i - 1]
    BY <2>1, SubSeqProperties
  <2>3. (IF 1 <= n THEN n - 1 + 1 ELSE 0) = n /\ n - 1 + 1 = n /\ \A i \in 1..n : 1 + i - 1 = i
    BY <1>1
  <2> HIDE DEF a
  <2> QED
    BY <2>2, <2>3
<1>3. /\ b \in Seq(T) /\ Len(b) = Len(q) - n
      /\ \A i \in 1..Len(q) - n : b[i] = q[n + i]
  <2>1. n + 1 \in Int /\ Len(q) \in Int /\ \A i \in n + 1..Len(q) : q[i] \in T
    BY <1>1
  <2>2. /\ b \in Seq(T) /\ Len(b) = IF n + 1 <= Len(q) THEN Len(q) - (n + 1) + 1 ELSE 0
        /\ \A i \in 1..Len(q) - (n + 1) + 1 : b[i] = q[n + 1 + i - 1]
    BY <2>1, SubSeqProperties
  <2>3. /\ (IF n + 1 <= Len(q) THEN Len(q) - (n + 1) + 1 ELSE 0) = Len(q) - n
        /\ Len(q) - (n + 1) + 1 = Len(q) - n /\ \A i \in 1..Len(q) - n : n + 1 + i - 1 = n + i
    BY <1>1
  <2> HIDE DEF b
  <2> QED
    BY <2>2, <2>3
<1> HIDE DEF a, b
<1>4. <<t>> \in Seq(T) /\ Len(<<t>>) = 1 /\ <<t>>[1] = t
  OBVIOUS
<1> DEFINE one == <<t>>
           front == a \o one
           c == front \o b
<1>5. one \in Seq(T) /\ Len(one) = 1 /\ one[1] = t
  BY <1>4
<1> HIDE DEF one
<1>6. /\ front \in Seq(T) /\ Len(front) = Len(a) + Len(one)
      /\ \A i \in 1..Len(a) + Len(one) : front[i] = IF i <= Len(a) THEN a[i] ELSE one[i - Len(a)]
  <2>1. a \in Seq(T) /\ one \in Seq(T)
    BY <1>2, <1>5
  <2> QED
    BY <2>1, ConcatProperties
<1> HIDE DEF front
<1>7. /\ c \in Seq(T) /\ Len(c) = Len(front) + Len(b)
      /\ \A i \in 1..Len(front) + Len(b) :
            c[i] = IF i <= Len(front) THEN front[i] ELSE b[i - Len(front)]
  <2>1. front \in Seq(T) /\ b \in Seq(T)
    BY <1>3, <1>6
  <2> QED
    BY <2>1, ConcatProperties
<1> HIDE DEF c
<1>8. Len(front) = n + 1 /\ \A i \in 1..n + 1 : front[i] = IF i <= n THEN q[i] ELSE t
  <2>1. Len(a) + Len(one) = n + 1
    BY <1>1, <1>2, <1>5
  <2>2. \A i \in 1..n + 1 : IF i <= n THEN i \in 1..n ELSE i - n = 1
    BY <1>1
  <2> QED
    BY <1>2, <1>5, <1>6, <2>1, <2>2
<1>9. Len(c) = Len(q) + 1
  BY <1>1, <1>3, <1>7, <1>8
<1>10. InsertAt(q, t, n) \in Seq(T) /\ Len(InsertAt(q, t, n)) = Len(q) + 1
  BY Insertion DEF InsertAt
<1>11. ASSUME NEW i \in 1..Len(q) + 1 PROVE InsertAt(q, t, n)[i] = c[i]
  <2>1. InsertAt(q, t, n)[i] = IF i <= n THEN q[i] ELSE IF i = n + 1 THEN t ELSE q[i - 1]
    BY DEF InsertAt
  <2>2. i \in 1..Len(front) + Len(b)
    BY <1>7, <1>9
  <2>3. CASE i <= n + 1
    <3>1. c[i] = front[i] /\ i \in 1..n + 1
      BY <1>1, <1>7, <1>8, <2>2, <2>3
    <3>2. i <= n \/ i = n + 1
      BY <1>1, <2>3
    <3> QED
      BY <1>1, <1>8, <2>1, <3>1, <3>2
  <2>4. CASE ~(i <= n + 1)
    <3>1. c[i] = b[i - (n + 1)]
      BY <1>7, <1>8, <2>2, <2>4
    <3>2. i - (n + 1) \in 1..Len(q) - n /\ n + (i - (n + 1)) = i - 1 /\ ~(i <= n) /\ i # n + 1
      BY <1>1, <2>4
    <3> QED
      BY <1>3, <2>1, <3>1, <3>2
  <2> QED
    BY <2>3, <2>4
<1>12. InsertAt(q, t, n) = c
  BY <1>7, <1>9, <1>10, <1>11, SeqEqual
<1> QED
  BY <1>12 DEF a, b, c, front, one

\* What comes after the first of a queue comes after it.
LEMMA TailBefore ==
    ASSUME NEW T, NEW q \in Seq(T), q # <<>>
    PROVE  /\ \A u, v : Earlier(u, v, Tail(q)) => Earlier(u, v, q)
           /\ \A v : Queued(v, Tail(q)) => Earlier(Head(q), v, q)
           /\ Head(q) = q[1] /\ Tail(q) # <<>> => Earlier(q[1], Head(Tail(q)), q)
<1>1. Len(q) \in Nat \ {0} /\ DOMAIN q = 1..Len(q)
  BY LenProperties, EmptySeq
<1>2. /\ Tail(q) \in Seq(T) /\ Len(Tail(q)) = Len(q) - 1 /\ Head(q) = q[1]
      /\ \A i \in 1..Len(Tail(q)) : Tail(q)[i] = q[i + 1]
  BY HeadTailProperties
<1>3. DOMAIN Tail(q) = 1..Len(q) - 1 /\ \A i \in 1..Len(q) - 1 : Tail(q)[i] = q[i + 1]
  BY <1>2, LenProperties
<1>4. \A i \in 1..Len(q) - 1 : i + 1 \in 1..Len(q) /\ 1 < i + 1 /\ 1 \in 1..Len(q)
  BY <1>1
<1>5. \A i, j \in 1..Len(q) - 1 : i < j => i + 1 < j + 1
  BY <1>1
<1>6. \A u, v : Earlier(u, v, Tail(q)) => Earlier(u, v, q)
  BY <1>1, <1>3, <1>4, <1>5 DEF Earlier
<1>7. \A v : Queued(v, Tail(q)) => Earlier(Head(q), v, q)
  BY <1>1, <1>2, <1>3, <1>4 DEF Earlier, Queued
<1>8. Tail(q) # <<>> => Queued(Head(Tail(q)), Tail(q))
  <2>1. Tail(q) # <<>> => 1 \in DOMAIN Tail(q)
    BY <1>2, EmptySeq, LenProperties
  <2> QED
    BY <1>2, <2>1 DEF Queued
<1> QED
  BY <1>2, <1>6, <1>7, <1>8

-----------------------------------------------------------------------------
(* The operations on the two lists *)

ListTypes == top \in Seq(Thread) /\ tail \in [Thread -> Seq(Thread)]

\* The first of a queue is in it.
LEMMA HeadQueued ==
    ASSUME NEW T, NEW q \in Seq(T), q # <<>>
    PROVE  Head(q) \in T /\ Queued(Head(q), q) /\ Head(q) = q[1]
<1>1. Len(q) \in Nat \ {0} /\ DOMAIN q = 1..Len(q)
  BY LenProperties, EmptySeq
<1>2. Head(q) = q[1] /\ Head(q) \in T
  BY HeadTailProperties
<1> QED
  BY <1>1, <1>2 DEF Queued

\* Only threads are queued, and none in an empty queue.
LEMMA QueuedIsIn ==
    ASSUME NEW T, NEW q \in Seq(T), NEW u, Queued(u, q)
    PROVE  u \in T /\ q # <<>>
<1>1. DOMAIN q = 1..Len(q) /\ \A i \in 1..Len(q) : q[i] \in T
  BY LenProperties, ElementOfSeq
<1> QED
  BY <1>1, EmptyQueue DEF Queued

\* The column a sleeper hangs in.
LEMMA ColumnOf ==
    ASSUME ListTypes, ColumnsOK, NEW t \in Thread
    PROVE  /\ Queued(t, top) => Column(t) = t
           /\ \A h \in Thread : Queued(t, tail[h]) => Column(t) = h
<1>1. \A h \in Thread : Queued(t, tail[h]) => ~Queued(t, top)
  BY DEF ColumnsOK
<1>2. ASSUME Queued(t, top) PROVE Column(t) = t
  <2>1. \A h \in Thread : (h = t /\ Queued(t, top)) \/ Queued(t, tail[h]) <=> h = t
    BY <1>1, <1>2
  <2> QED
    BY <2>1 DEF Column
<1>3. ASSUME NEW h \in Thread, Queued(t, tail[h]) PROVE Column(t) = h
  <2>1. \A k \in Thread : (k = t /\ Queued(t, top)) \/ Queued(t, tail[k]) <=> k = h
    BY <1>1, <1>3 DEF ColumnsOK
  <2> QED
    BY <2>1 DEF Column
<1> QED
  BY <1>2, <1>3

\* RunqDequeue passes on what hangs below a thread that leaves the run queue.
LEMMA TailsParted ==
    ASSUME ListTypes, ColumnsOK, NEW t \in Thread, ~Sleeping(t),
           top' = top, tail' = TailsWithout(t)
    PROVE  /\ ListTypes' /\ ColumnsOK'
           /\ \A v \in Thread : Sleeping(v)' <=> Sleeping(v) /\ v \notin Released(t)
           /\ tail'[t] = <<>>
           /\ \A h \in Thread : tail'[h] # <<>> =>
                 h # t /\ (tail[h] # <<>> \/ (h \in Released(t) /\ tail[t] # <<>>))
           /\ \A h, v \in Thread : Queued(v, tail'[h]) =>
                 Queued(v, tail[h]) \/ (h \in Released(t) /\ Queued(v, tail[t]))
           /\ Released(t) \subseteq Thread
           /\ \A v \in Released(t) : Hangs(v) /\ Queued(v, tail[t])
<1>1. CASE tail[t] = <<>>
  <2>1. Released(t) = {}
    BY <1>1 DEF Released
  <2>2. tail' = tail
    BY <2>1 DEF TailsWithout, ListTypes
  <2> QED
    BY <1>1, <2>1, <2>2 DEF ListTypes, ColumnsOK, Sleeping, Hangs
<1>2. CASE tail[t] # <<>>
  <2> DEFINE d == Head(tail[t])
             r == Tail(tail[t])
  <2>1. tail[t] \in Seq(Thread) /\ Distinct(tail[t])
    BY DEF ListTypes, ColumnsOK
  <2>2. /\ r \in Seq(Thread) /\ Distinct(r) /\ d \in Thread /\ Queued(d, tail[t])
        /\ \A u : Queued(u, r) <=> u # d /\ Queued(u, tail[t])
    BY <1>2, <2>1, TailTakes
  <2>3. Released(t) = {d}
    BY <1>2 DEF Released
  <2> HIDE DEF d, r
  <2>4. d # t /\ tail[d] = <<>> /\ ~Queued(d, top)
    BY <1>2, <2>2 DEF ColumnsOK
  <2>5. \A h \in Thread : tail'[h] = IF h = t THEN <<>> ELSE IF h = d THEN r ELSE tail[h]
    BY <2>3 DEF TailsWithout, r
  <2>6. \A h, v \in Thread : Queued(v, tail'[h]) <=>
           IF h = t THEN FALSE ELSE IF h = d THEN v # d /\ Queued(v, tail[t])
           ELSE Queued(v, tail[h])
    BY <2>2, <2>5, EmptyQueue
  <2>7. ListTypes'
    <3>1. tail' \in [Thread -> Seq(Thread)]
      <4> DEFINE f(h) == IF h = t /\ Released(t) # {} THEN <<>>
                         ELSE IF h \in Released(t) THEN Tail(tail[t]) ELSE tail[h]
      <4>1. tail' = [h \in Thread |-> f(h)]
        BY DEF TailsWithout
      <4> HIDE DEF f
      <4>2. \A h \in Thread : f(h) = tail'[h]
        BY <4>1
      <4>3. \A h \in Thread : tail'[h] \in Seq(Thread)
        <5>1. <<>> \in Seq(Thread) /\ \A h \in Thread : tail[h] \in Seq(Thread)
          BY DEF ListTypes
        <5> QED
          BY <2>2, <2>5, <5>1
      <4> QED
        BY <4>1, <4>2, <4>3
    <3> QED
      BY <3>1 DEF ListTypes
  <2>8. ColumnsOK'
    <3>1. Distinct(top') /\ \A h \in Thread : Distinct(tail'[h])
      <4>1. Distinct(<<>>)
        BY DEF Distinct
      <4> QED
        BY <2>2, <2>5, <4>1 DEF ColumnsOK
    <3>2. \A h, v \in Thread : Queued(v, tail'[h]) => tail'[v] = <<>> /\ ~Queued(v, top')
      BY <2>2, <2>4, <2>5, <2>6 DEF ColumnsOK
    <3>3. \A h, k, v \in Thread : Queued(v, tail'[h]) /\ Queued(v, tail'[k]) => h = k
      BY <2>2, <2>4, <2>6 DEF ColumnsOK
    <3> QED
      BY <3>1, <3>2, <3>3 DEF ColumnsOK
  <2>9. ASSUME NEW v \in Thread
        PROVE  Sleeping(v)' <=> Sleeping(v) /\ v \notin Released(t)
    <3>1. ASSUME NEW h \in Thread, Queued(v, tail[h]), v # d
          PROVE  \E k \in Thread : Queued(v, tail'[k])
      BY <2>2, <2>4, <2>6, <3>1 DEF ColumnsOK
    <3>2. ASSUME NEW h \in Thread, Queued(v, tail'[h])
          PROVE  v # d /\ \E k \in Thread : Queued(v, tail[k])
      BY <2>2, <2>6, <3>2 DEF ColumnsOK
    <3> QED
      BY <2>3, <2>4, <3>1, <3>2 DEF Sleeping, Hangs
  <2>10. \A h \in Thread : tail'[h] # <<>> =>
            h # t /\ (tail[h] # <<>> \/ (h \in Released(t) /\ tail[t] # <<>>))
    BY <1>2, <2>3, <2>5
  <2>11. \A h, v \in Thread : Queued(v, tail'[h]) =>
            Queued(v, tail[h]) \/ (h \in Released(t) /\ Queued(v, tail[t]))
    BY <2>3, <2>6
  <2>12. \A v \in Released(t) : v \in Thread /\ Hangs(v) /\ Queued(v, tail[t])
    BY <2>2, <2>3 DEF Hangs
  <2> QED
    BY <2>5, <2>7, <2>8, <2>9, <2>10, <2>11, <2>12
<1> QED
  BY <1>1, <1>2

\* SleepqDequeue takes a sleeper out, and the one below it may get its place.
LEMMA SleeperOut ==
    ASSUME ListTypes, ColumnsOK, NEW t \in Thread, Sleeping(t), SleepqDequeue(t)
    PROVE  /\ ListTypes' /\ ColumnsOK'
           /\ \A v \in Thread : Sleeping(v)' <=> Sleeping(v) /\ v # t
           /\ \A v \in Thread : Queued(v, top) /\ v # t => Queued(v, top')
           /\ \A v \in Thread : Queued(v, top') =>
                 Queued(v, top) \/ (Queued(t, top) /\ Queued(v, tail[t]))
           /\ \A h \in Thread : tail'[h] # <<>> =>
                 Queued(h, top') \/ (tail[h] # <<>> /\ ~Queued(h, top))
           /\ \A h, v \in Thread : Queued(v, tail'[h]) =>
                 \/ Queued(v, tail[h]) /\ (Queued(h, top) => Queued(h, top'))
                 \/ Queued(h, top') /\ Queued(h, tail[t]) /\ Queued(v, tail[t])
           /\ \A u, v : Earlier(u, v, top') =>
                 \E x, y : /\ Earlier(x, y, top)
                           /\ x = u \/ (x = t /\ Queued(u, tail[t]))
                           /\ y = v \/ (y = t /\ Queued(v, tail[t]))
<1>1. CASE Queued(t, top) /\ tail[t] # <<>>
  <2> DEFINE d == Head(tail[t])
             r == Tail(tail[t])
  <2>1. tail[t] \in Seq(Thread) /\ Distinct(tail[t]) /\ top \in Seq(Thread) /\ Distinct(top)
    BY DEF ListTypes, ColumnsOK
  <2>2. /\ r \in Seq(Thread) /\ Distinct(r) /\ d \in Thread /\ Queued(d, tail[t])
        /\ \A u : Queued(u, r) <=> u # d /\ Queued(u, tail[t])
    BY <1>1, <2>1, TailTakes
  <2>3. /\ top' = [i \in DOMAIN top |-> IF top[i] = t THEN d ELSE top[i]]
        /\ tail' = [tail EXCEPT ![d] = r, ![t] = <<>>]
    BY <1>1 DEF SleepqDequeue
  <2> HIDE DEF d, r
  <2>4. d # t /\ tail[d] = <<>> /\ ~Queued(d, top)
    BY <1>1, <2>2 DEF ColumnsOK
  <2>5. /\ top' \in Seq(Thread) /\ Distinct(top')
        /\ \A u : Queued(u, top') <=> u = d \/ (u # t /\ Queued(u, top))
        /\ \A u, v : Earlier(u, v, top') =>
              Earlier(IF u = d THEN t ELSE u, IF v = d THEN t ELSE v, top)
    BY <1>1, <2>1, <2>2, <2>3, <2>4, InPlace
  <2>6. \A h \in Thread : tail'[h] = IF h = t THEN <<>> ELSE IF h = d THEN r ELSE tail[h]
    BY <2>2, <2>3 DEF ListTypes
  <2>7. \A h, v \in Thread : Queued(v, tail'[h]) <=>
           IF h = t THEN FALSE ELSE IF h = d THEN v # d /\ Queued(v, tail[t])
           ELSE Queued(v, tail[h])
    BY <2>2, <2>6, EmptyQueue
  <2>8. ListTypes'
    <3>1. tail' \in [Thread -> Seq(Thread)]
      <4>1. <<>> \in Seq(Thread)
        OBVIOUS
      <4> QED
        BY <2>2, <2>3, <4>1 DEF ListTypes
    <3> QED
      BY <2>5, <3>1 DEF ListTypes
  <2>9. ColumnsOK'
    <3>1. \A h \in Thread : Distinct(tail'[h])
      <4>1. Distinct(<<>>)
        BY DEF Distinct
      <4> QED
        BY <2>2, <2>6, <4>1 DEF ColumnsOK
    <3>2. \A h, v \in Thread : Queued(v, tail'[h]) => tail'[v] = <<>> /\ ~Queued(v, top')
      BY <1>1, <2>2, <2>4, <2>5, <2>6, <2>7 DEF ColumnsOK
    <3>3. \A h, k, v \in Thread : Queued(v, tail'[h]) /\ Queued(v, tail'[k]) => h = k
      BY <2>2, <2>4, <2>7 DEF ColumnsOK
    <3> QED
      BY <2>5, <3>1, <3>2, <3>3 DEF ColumnsOK
  <2>10. ASSUME NEW v \in Thread PROVE Sleeping(v)' <=> Sleeping(v) /\ v # t
    <3>1. ASSUME NEW h \in Thread, Queued(v, tail[h]), v # d
          PROVE  v # t /\ \E k \in Thread : Queued(v, tail'[k])
      BY <1>1, <2>2, <2>4, <2>7, <3>1 DEF ColumnsOK
    <3>2. ASSUME NEW h \in Thread, Queued(v, tail'[h])
          PROVE  v # t /\ \E k \in Thread : Queued(v, tail[k])
      BY <1>1, <2>2, <2>7, <3>2 DEF ColumnsOK
    <3> QED
      BY <2>2, <2>4, <2>5, <3>1, <3>2 DEF Sleeping, Hangs
  <2>11. \A v \in Thread : /\ Queued(v, top) /\ v # t => Queued(v, top')
                           /\ Queued(v, top') => \/ Queued(v, top)
                                                 \/ Queued(t, top) /\ Queued(v, tail[t])
    BY <1>1, <2>2, <2>5
  <2>12. \A h \in Thread : tail'[h] # <<>> => Queued(h, top') \/ (tail[h] # <<>> /\ ~Queued(h, top))
    BY <2>5, <2>6
  <2>13. \A h, v \in Thread : Queued(v, tail'[h]) =>
            \/ Queued(v, tail[h]) /\ (Queued(h, top) => Queued(h, top'))
            \/ Queued(h, top') /\ Queued(h, tail[t]) /\ Queued(v, tail[t])
    BY <2>2, <2>5, <2>7
  <2>14. \A u, v : Earlier(u, v, top') =>
            \E x, y : /\ Earlier(x, y, top)
                      /\ x = u \/ (x = t /\ Queued(u, tail[t]))
                      /\ y = v \/ (y = t /\ Queued(v, tail[t]))
    BY <2>2, <2>5
  <2> QED
    BY <2>8, <2>9, <2>10, <2>11, <2>12, <2>13, <2>14
<1>2. CASE ~(Queued(t, top) /\ tail[t] # <<>>)
  <2>1. top' = Dequeue(top, t) /\ tail' = [h \in Thread |-> Dequeue(tail[h], t)]
    BY <1>2 DEF SleepqDequeue
  <2>2. /\ top' \in Seq(Thread) /\ Distinct(top')
        /\ \A u : Queued(u, top') <=> u # t /\ Queued(u, top)
    BY <2>1, DequeueTakes DEF ListTypes, ColumnsOK
  <2>3. \A u, v : Earlier(u, v, top') => Earlier(u, v, top)
    BY <2>1, DequeueBefore DEF ListTypes
  <2>4. ASSUME NEW h \in Thread
        PROVE  /\ tail'[h] \in Seq(Thread) /\ Distinct(tail'[h])
               /\ \A u : Queued(u, tail'[h]) <=> u # t /\ Queued(u, tail[h])
    <3>1. tail[h] \in Seq(Thread) /\ Distinct(tail[h]) /\ tail'[h] = Dequeue(tail[h], t)
      BY <2>1 DEF ListTypes, ColumnsOK
    <3> QED
      BY <3>1, DequeueTakes
  <2>5. \A h \in Thread : tail'[h] # <<>> => tail[h] # <<>>
    <3> SUFFICES ASSUME NEW h \in Thread, tail'[h] # <<>> PROVE tail[h] # <<>>
      OBVIOUS
    <3>1. Queued(Head(tail'[h]), tail'[h])
      BY <2>4, HeadQueued
    <3> QED
      BY <2>4, <3>1, EmptyQueue
  <2>6. tail[t] = <<>>
    BY <1>2 DEF Sleeping, Hangs, ColumnsOK
  <2>7. \A h \in Thread : tail[h] = <<>> => tail'[h] = <<>>
    BY <2>5
  <2>8. ListTypes'
    <3>1. tail' = [h \in Thread |-> tail'[h]]
      BY <2>1
    <3> QED
      BY <2>2, <2>4, <3>1 DEF ListTypes
  <2>9. ColumnsOK'
    BY <2>2, <2>4, <2>7 DEF ColumnsOK
  <2>10. \A v \in Thread : Sleeping(v)' <=> Sleeping(v) /\ v # t
    BY <2>2, <2>4 DEF Sleeping, Hangs
  <2>11. \A h \in Thread : tail'[h] # <<>> => h # t
    BY <2>5, <2>6
  <2>12. \A h \in Thread : tail'[h] # <<>> => Queued(h, top') \/ (tail[h] # <<>> /\ ~Queued(h, top))
    BY <2>2, <2>5, <2>11
  <2>13. \A h, v \in Thread :
            Queued(v, tail'[h]) => Queued(v, tail[h]) /\ (Queued(h, top) => Queued(h, top'))
    <3> SUFFICES ASSUME NEW h \in Thread, NEW v \in Thread, Queued(v, tail'[h])
                 PROVE  Queued(v, tail[h]) /\ (Queued(h, top) => Queued(h, top'))
      OBVIOUS
    <3>1. Queued(v, tail[h]) /\ h # t
      BY <2>4, <2>6, EmptyQueue
    <3> QED
      BY <2>2, <3>1
  <2>14. \A u, v : Earlier(u, v, top') =>
            \E x, y : /\ Earlier(x, y, top)
                      /\ x = u \/ (x = t /\ Queued(u, tail[t]))
                      /\ y = v \/ (y = t /\ Queued(v, tail[t]))
    BY <2>3
  <2> QED
    BY <2>2, <2>8, <2>9, <2>10, <2>12, <2>13, <2>14
<1> QED
  BY <1>1, <1>2

\* The first of a queue comes before the others.
LEMMA HeadBefore ==
    ASSUME NEW T, NEW q \in Seq(T), q # <<>>, NEW u, Queued(u, q)
    PROVE  u = Head(q) \/ Earlier(Head(q), u, q)
<1>1. Len(q) \in Nat \ {0} /\ DOMAIN q = 1..Len(q) /\ Head(q) = q[1]
  BY LenProperties, EmptySeq, HeadQueued
<1>2. PICK i \in 1..Len(q) : q[i] = u
  BY <1>1 DEF Queued
<1>3. i = 1 \/ 1 < i
  BY <1>1
<1> QED
  BY <1>1, <1>2, <1>3 DEF Earlier

\* The timer takes the first column off the list.
LEMMA FirstOff ==
    ASSUME ListTypes, ColumnsOK, top # <<>>, top' = Tail(top), tail' = tail
    PROVE  /\ ListTypes' /\ ColumnsOK'
           /\ Head(top) \in Thread /\ Queued(Head(top), top) /\ Head(top) = top[1]
           /\ \A v \in Thread : Sleeping(v)' <=> Sleeping(v) /\ v # Head(top)
           /\ \A v \in Thread : Queued(v, top') <=> Queued(v, top) /\ v # Head(top)
<1>1. /\ Tail(top) \in Seq(Thread) /\ Distinct(Tail(top)) /\ Head(top) \in Thread
      /\ Queued(Head(top), top)
      /\ \A u : Queued(u, Tail(top)) <=> u # Head(top) /\ Queued(u, top)
  BY TailTakes DEF ListTypes, ColumnsOK
<1>2. Head(top) = top[1]
  BY HeadQueued DEF ListTypes
<1>3. \A h \in Thread : ~Queued(Head(top), tail[h])
  BY <1>1 DEF ColumnsOK
<1>4. ListTypes' /\ ColumnsOK'
  BY <1>1 DEF ListTypes, ColumnsOK
<1>5. \A v \in Thread : Sleeping(v)' <=> Sleeping(v) /\ v # Head(top)
  BY <1>1, <1>3 DEF Sleeping, Hangs
<1> QED
  BY <1>1, <1>2, <1>4, <1>5

\* A place below a sleeper,
LEMMA PutBelow ==
    ASSUME ListTypes, ColumnsOK, NEW t \in Thread, ~Sleeping(t), tail[t] = <<>>,
           NEW p \in Thread, Sleeping(p), top' = top, InsertBelow(p, t)
    PROVE  /\ ListTypes' /\ ColumnsOK'
           /\ \A v \in Thread : Sleeping(v)' <=> Sleeping(v) \/ v = t
           /\ \E h \in Thread :
                 /\ (h = p /\ Queued(p, top)) \/ Queued(p, tail[h])
                 /\ \A k, v \in Thread : Queued(v, tail'[k]) <=>
                       Queued(v, tail[k]) \/ (v = t /\ k = h)
                 /\ \A k \in Thread \ {h} : tail'[k] = tail[k]
                 /\ \E n \in 0..Len(tail[h]) :
                       /\ tail'[h] = InsertAt(tail[h], t, n)
                       /\ IF n = 0 THEN h = p ELSE tail[h][n] = p
<1> DEFINE h == Column(p)
           n == IF h = p THEN 0 ELSE CHOOSE i \in DOMAIN tail[h] : tail[h][i] = p
           q == tail[h]
<1>1. h \in Thread /\ ((h = p /\ Queued(p, top)) \/ Queued(p, q))
  <2>1. CASE Queued(p, top)
    BY <2>1, ColumnOf
  <2>2. CASE Hangs(p)
    <3>1. PICK k \in Thread : Queued(p, tail[k])
      BY <2>2 DEF Hangs
    <3>2. Column(p) = k
      BY <3>1, ColumnOf
    <3> QED
      BY <3>1, <3>2
  <2> QED
    BY <2>1, <2>2 DEF Sleeping
<1>2. h # t /\ ~Queued(t, q)
  <2>1. h # t
    BY <1>1, EmptyQueue DEF Sleeping
  <2>2. ~Queued(t, q)
    BY <1>1 DEF Sleeping, Hangs
  <2> QED
    BY <2>1, <2>2
<1>3. q \in Seq(Thread) /\ Distinct(q) /\ Len(q) \in Nat /\ DOMAIN q = 1..Len(q)
  BY <1>1, LenProperties DEF ListTypes, ColumnsOK
<1>4. n \in 0..Len(q) /\ IF n = 0 THEN h = p ELSE q[n] = p
  <2>1. CASE h = p
    BY <1>3, <2>1
  <2>2. CASE h # p
    <3>1. \E i \in DOMAIN q : q[i] = p
      BY <1>1, <2>2 DEF Queued
    <3>2. n \in DOMAIN q /\ q[n] = p
      BY <2>2, <3>1
    <3> HIDE DEF n
    <3> QED
      BY <1>3, <3>2
  <2> QED
    BY <2>1, <2>2
<1>5. tail' = [tail EXCEPT ![h] = SubSeq(q, 1, n) \o <<t>> \o SubSeq(q, n + 1, Len(q))]
  BY DEF InsertBelow
<1> HIDE DEF n
<1> HIDE DEF h
<1>6. SubSeq(q, 1, n) \o <<t>> \o SubSeq(q, n + 1, Len(q)) = InsertAt(q, t, n)
  BY <1>3, <1>4, Splice
<1>7. /\ InsertAt(q, t, n) \in Seq(Thread) /\ Distinct(InsertAt(q, t, n))
      /\ InsertAt(q, t, n) # <<>>
      /\ \A u : Queued(u, InsertAt(q, t, n)) <=> u = t \/ Queued(u, q)
  BY <1>2, <1>3, <1>4, Inserted
<1>8. tail' = [tail EXCEPT ![h] = InsertAt(q, t, n)]
  BY <1>5, <1>6
<1>9. tail'[h] = InsertAt(q, t, n) /\ \A k \in Thread \ {h} : tail'[k] = tail[k]
  BY <1>1, <1>8 DEF ListTypes
<1>10. \A k, v \in Thread : Queued(v, tail'[k]) <=> Queued(v, tail[k]) \/ (v = t /\ k = h)
  BY <1>7, <1>9
<1>11. ListTypes'
  BY <1>7, <1>8 DEF ListTypes
<1>12. ColumnsOK'
  <2>1. Distinct(top') /\ \A k \in Thread : Distinct(tail'[k])
    BY <1>7, <1>9 DEF ColumnsOK
  <2>2. tail[h] # <<>> => ~Hangs(h)
    BY <1>1 DEF Hangs, ColumnsOK
  <2>3. ~Hangs(h)
    BY <1>1, <2>2, EmptyQueue DEF Hangs, ColumnsOK
  <2>4. \A k, v \in Thread : Queued(v, tail'[k]) => tail'[v] = <<>> /\ ~Queued(v, top')
    <3> SUFFICES ASSUME NEW k \in Thread, NEW v \in Thread, Queued(v, tail'[k])
                 PROVE  tail'[v] = <<>> /\ ~Queued(v, top')
      OBVIOUS
    <3>1. CASE v = t
      BY <1>2, <1>9, <3>1 DEF Sleeping
    <3>2. CASE v # t
      BY <1>9, <1>10, <2>3, <3>2 DEF Hangs, ColumnsOK
    <3> QED
      BY <3>1, <3>2
  <2>5. \A k, l, v \in Thread : Queued(v, tail'[k]) /\ Queued(v, tail'[l]) => k = l
    BY <1>10 DEF Sleeping, Hangs, ColumnsOK
  <2> QED
    BY <2>1, <2>4, <2>5 DEF ColumnsOK
<1>13. \A v \in Thread : Sleeping(v)' <=> Sleeping(v) \/ v = t
  BY <1>1, <1>10 DEF Sleeping, Hangs
<1> QED
  BY <1>1, <1>4, <1>9, <1>10, <1>11, <1>12, <1>13

\* on top of a column, the nth,
PutsOnTop(t, n, next) ==
    /\ top' = [top EXCEPT ![n] = t]
    /\ tail' = [tail EXCEPT ![t] = <<next>> \o tail[next], ![next] = <<>>]

\* who then is on top, what hangs where, and what comes before what.
TopAfter(t, next) ==
    \A v \in Thread : Queued(v, top') <=> v = t \/ (v # next /\ Queued(v, top))
HangAfter(t, next) ==
    \A k, v \in Thread : Queued(v, tail'[k]) =>
        \/ k = t /\ (v = next \/ Queued(v, tail[next]))
        \/ k # t /\ k # next /\ Queued(v, tail[k])
OrderAfter(t, next) ==
    \A u, v : Earlier(u, v, top') =>
        \E x, y : /\ Earlier(x, y, top)
                  /\ x = u \/ (x = next /\ u = t)
                  /\ y = v \/ (y = next /\ v = t)

\* A sleeper is put on top of a column: the columns stay columns.
LEMMA PutOnTop ==
    ASSUME ListTypes, ColumnsOK, NEW t \in Thread, ~Sleeping(t), tail[t] = <<>>,
           NEW n \in DOMAIN top, NEW next, next = top[n], PutsOnTop(t, n, next)
    PROVE  /\ ListTypes' /\ ColumnsOK' /\ next \in Thread /\ Queued(next, top)
           /\ \A v \in Thread : Sleeping(v)' <=> Sleeping(v) \/ v = t
           /\ TopAfter(t, next) /\ HangAfter(t, next) /\ OrderAfter(t, next)
           /\ tail'[t] = <<next>> \o tail[next] /\ tail'[next] = <<>>
           /\ \A k \in Thread \ {t, next} : tail'[k] = tail[k]
<1> USE DEF PutsOnTop, TopAfter, HangAfter, OrderAfter
<1>1. /\ top \in Seq(Thread) /\ Distinct(top) /\ DOMAIN top = 1..Len(top)
      /\ \A i \in DOMAIN top : top[i] \in Thread
  BY LenProperties, ElementOfSeq DEF ListTypes, ColumnsOK
<1>2. next \in Thread /\ Queued(next, top) /\ ~Queued(t, top) /\ next # t
  BY <1>1 DEF Queued, Sleeping
<1>3. top' = [i \in DOMAIN top |-> IF top[i] = next THEN t ELSE top[i]]
  BY <1>1 DEF Distinct
<1>4. /\ top' \in Seq(Thread) /\ Distinct(top')
      /\ \A u : Queued(u, top') <=> u = t \/ (u # next /\ Queued(u, top))
      /\ \A u, v : Earlier(u, v, top') =>
            Earlier(IF u = t THEN next ELSE u, IF v = t THEN next ELSE v, top)
  <2> DEFINE r == [i \in DOMAIN top |-> IF top[i] = next THEN t ELSE top[i]]
  <2>1. /\ r \in Seq(Thread) /\ Distinct(r)
        /\ \A u : Queued(u, r) <=> u = t \/ (u # next /\ Queued(u, top))
        /\ \A u, v : Earlier(u, v, r) =>
              Earlier(IF u = t THEN next ELSE u, IF v = t THEN next ELSE v, top)
    <3>1. top \in Seq(Thread) /\ Distinct(top) /\ next \in Thread /\ Queued(next, top)
      BY <1>1, <1>2
    <3>2. ~Queued(t, top)
      BY <1>2
    <3> QED
      BY <3>1, <3>2, InPlace
  <2>2. top' = r
    BY <1>3
  <2> HIDE DEF r
  <2> QED
    BY <2>1, <2>2
<1>5. tail[next] \in Seq(Thread) /\ Distinct(tail[next]) /\ ~Queued(next, tail[next])
  BY <1>2 DEF ListTypes, ColumnsOK
<1> DEFINE q == <<next>> \o tail[next]
<1>6. /\ q \in Seq(Thread) /\ Distinct(q) /\ q # <<>>
      /\ \A u : Queued(u, q) <=> u = next \/ Queued(u, tail[next])
  BY <1>2, <1>5, ConsAdds
<1>7. tail' = [tail EXCEPT ![t] = q, ![next] = <<>>]
  OBVIOUS
<1> HIDE DEF q
<1>8. /\ tail'[t] = q /\ tail'[next] = <<>>
      /\ \A k \in Thread \ {t, next} : tail'[k] = tail[k]
  BY <1>2, <1>7 DEF ListTypes
<1>9. ListTypes'
  <2>1. <<>> \in Seq(Thread)
    OBVIOUS
  <2>2. tail' \in [Thread -> Seq(Thread)]
    BY <1>6, <1>7, <2>1 DEF ListTypes
  <2> QED
    BY <1>4, <2>2 DEF ListTypes
<1>10. \A k, v \in Thread : Queued(v, tail'[k]) <=>
          IF k = t THEN v = next \/ Queued(v, tail[next]) ELSE k # next /\ Queued(v, tail[k])
  BY <1>6, <1>8, EmptyQueue
<1>11. ColumnsOK'
  <2>1. \A k \in Thread : Distinct(tail'[k])
    <3>1. Distinct(<<>>)
      BY DEF Distinct
    <3> QED
      BY <1>6, <1>8, <3>1 DEF ColumnsOK
  <2>2. ~Hangs(next)
    BY <1>2 DEF Hangs, ColumnsOK
  <2>3. \A k, v \in Thread : Queued(v, tail'[k]) => tail'[v] = <<>> /\ ~Queued(v, top')
    <3> SUFFICES ASSUME NEW k \in Thread, NEW v \in Thread, Queued(v, tail'[k])
                 PROVE  tail'[v] = <<>> /\ ~Queued(v, top')
      OBVIOUS
    <3>1. CASE v = next
      BY <1>2, <1>4, <1>8, <3>1
    <3>2. CASE v # next
      <4>1. PICK l \in Thread : Queued(v, tail[l])
        BY <1>2, <1>10, <3>2
      <4>2. tail[v] = <<>> /\ ~Queued(v, top) /\ v # t
        BY <4>1 DEF ColumnsOK, Sleeping, Hangs
      <4> QED
        BY <1>4, <1>8, <3>2, <4>2
    <3> QED
      BY <3>1, <3>2
  <2>4. \A k, l, v \in Thread : Queued(v, tail'[k]) /\ Queued(v, tail'[l]) => k = l
    BY <1>2, <1>10, <2>2 DEF Hangs, ColumnsOK
  <2> QED
    BY <1>4, <2>1, <2>3, <2>4 DEF ColumnsOK
<1>12. \A v \in Thread : Sleeping(v)' <=> Sleeping(v) \/ v = t
  <2> SUFFICES ASSUME NEW v \in Thread PROVE Sleeping(v)' <=> Sleeping(v) \/ v = t
    OBVIOUS
  <2>1. ASSUME NEW k \in Thread, Queued(v, tail[k]) PROVE \E l \in Thread : Queued(v, tail'[l])
    <3>1. k # t
      BY <2>1, EmptyQueue
    <3>2. CASE k = next
      BY <1>10, <2>1, <3>2
    <3>3. CASE k # next
      BY <1>10, <2>1, <3>1, <3>3
    <3> QED
      BY <3>2, <3>3
  <2>2. Queued(next, tail'[t])
    BY <1>2, <1>10
  <2>3. ASSUME NEW k \in Thread, Queued(v, tail'[k])
        PROVE  v = next \/ \E l \in Thread : Queued(v, tail[l])
    BY <1>2, <1>10, <2>3
  <2> QED
    BY <1>2, <1>4, <2>1, <2>2, <2>3 DEF Sleeping, Hangs
<1>13. ASSUME NEW u, NEW v, Earlier(u, v, top')
       PROVE  \E x, y : /\ Earlier(x, y, top)
                        /\ x = u \/ (x = next /\ u = t)
                        /\ y = v \/ (y = next /\ v = t)
  <2>1. PICK x : x = IF u = t THEN next ELSE u
    OBVIOUS
  <2>2. PICK y : y = IF v = t THEN next ELSE v
    OBVIOUS
  <2>3. Earlier(x, y, top)
    BY <1>4, <1>13, <2>1, <2>2
  <2> QED
    BY <2>1, <2>2, <2>3
<1> QED
  BY <1>2, <1>4, <1>8, <1>9, <1>10, <1>11, <1>12, <1>13 DEF q

\* or in a column of one's own, behind the first n.
PutsAfter(t, n) ==
    top' = SubSeq(top, 1, n) \o <<t>> \o SubSeq(top, n + 1, Len(top)) /\ tail' = tail

\* A sleeper is put in a column of its own: the columns stay columns.
LEMMA PutBetween ==
    ASSUME ListTypes, ColumnsOK, NEW t \in Thread, ~Sleeping(t), tail[t] = <<>>,
           NEW n \in 0..Len(top), PutsAfter(t, n)
    PROVE  /\ ListTypes' /\ ColumnsOK'
           /\ \A v \in Thread : Sleeping(v)' <=> Sleeping(v) \/ v = t
           /\ \A v \in Thread : Queued(v, top') <=> v = t \/ Queued(v, top)
           /\ \A u, v : Earlier(u, v, top') =>
                 \/ Earlier(u, v, top)
                 \/ v = t /\ \E i \in 1..n : top[i] = u
                 \/ u = t /\ \E i \in n + 1..Len(top) : top[i] = v
<1> USE DEF PutsAfter
<1>1. top \in Seq(Thread) /\ Distinct(top) /\ ~Queued(t, top)
  BY DEF ListTypes, ColumnsOK, Sleeping
<1>2. top' = InsertAt(top, t, n)
  BY <1>1, Splice
<1>3. /\ top' \in Seq(Thread) /\ Distinct(top')
      /\ \A u : Queued(u, top') <=> u = t \/ Queued(u, top)
  <2>1. /\ InsertAt(top, t, n) \in Seq(Thread) /\ Distinct(InsertAt(top, t, n))
        /\ \A u : Queued(u, InsertAt(top, t, n)) <=> u = t \/ Queued(u, top)
    BY <1>1, Inserted
  <2> QED
    BY <1>2, <2>1
<1>4. \A u, v : Earlier(u, v, top') =>
         \/ Earlier(u, v, top)
         \/ v = t /\ \E i \in 1..n : top[i] = u
         \/ u = t /\ \E i \in n + 1..Len(top) : top[i] = v
  <2>1. \A u, v : Earlier(u, v, InsertAt(top, t, n)) =>
           \/ Earlier(u, v, top)
           \/ v = t /\ \E i \in 1..n : top[i] = u
           \/ u = t /\ \E i \in n + 1..Len(top) : top[i] = v
    BY <1>1, InsertBefore
  <2> QED
    BY <1>2, <2>1
<1>5. ListTypes'
  BY <1>3 DEF ListTypes
<1>6. ColumnsOK'
  BY <1>3 DEF ColumnsOK, Sleeping, Hangs
<1>7. \A v \in Thread : Sleeping(v)' <=> Sleeping(v) \/ v = t
  BY <1>3 DEF Sleeping, Hangs
<1> QED
  BY <1>3, <1>4, <1>5, <1>6, <1>7

\* What RunqDequeue leaves of the run queue.
LEMMA RunqParted ==
    ASSUME NEW q \in Seq(Thread), Distinct(q), NEW t \in Thread, Queued(t, q), NEW prio,
           ListTypes, \A d \in Woken(t) : ~Queued(d, q)
    PROVE  LET r == RunqWithout(q, t, prio)
           IN  /\ r \in Seq(Thread) /\ Distinct(r)
               /\ \A u : Queued(u, r) <=> u \in Woken(t) \/ (u # t /\ Queued(u, q))
<1>1. CASE Woken(t) = {}
  BY <1>1, DequeueTakes DEF RunqWithout
<1>2. CASE Woken(t) # {}
  <2> DEFINE d == Head(tail[t])
  <2>1. tail[t] # <<>> /\ Woken(t) = {d}
    BY <1>2 DEF Woken, Released
  <2>2. d \in Thread /\ ~Queued(d, q) /\ d # t
    <3>1. tail[t] \in Seq(Thread)
      BY DEF ListTypes
    <3>2. d \in Thread
      BY <2>1, <3>1, HeadQueued
    <3> QED
      BY <2>1, <3>2
  <2>3. RunqWithout(q, t, prio) =
           IF prio[d] = prio[t] THEN [i \in DOMAIN q |-> IF q[i] = t THEN d ELSE q[i]]
           ELSE Dequeue(Enqueue(q, d, prio[d], prio), t)
    BY <1>2 DEF RunqWithout
  <2> HIDE DEF d
  <2>4. CASE prio[d] = prio[t]
    <3> DEFINE r == [i \in DOMAIN q |-> IF q[i] = t THEN d ELSE q[i]]
    <3>1. /\ r \in Seq(Thread) /\ Distinct(r)
          /\ \A u : Queued(u, r) <=> u = d \/ (u # t /\ Queued(u, q))
      BY <2>2, InPlace
    <3>2. RunqWithout(q, t, prio) = r
      BY <2>3, <2>4
    <3> HIDE DEF r
    <3> QED
      BY <2>1, <3>1, <3>2
  <2>5. CASE prio[d] # prio[t]
    <3> DEFINE e == Enqueue(q, d, prio[d], prio)
    <3>1. e \in Seq(Thread) /\ Distinct(e) /\ \A u : Queued(u, e) <=> u = d \/ Queued(u, q)
      BY <2>2, EnqueueAdds
    <3>2. RunqWithout(q, t, prio) = Dequeue(e, t)
      BY <2>3, <2>5
    <3> HIDE DEF e
    <3>3. /\ Dequeue(e, t) \in Seq(Thread) /\ Distinct(Dequeue(e, t))
          /\ \A u : Queued(u, Dequeue(e, t)) <=> u # t /\ Queued(u, e)
      BY <3>1, DequeueTakes
    <3> QED
      BY <2>1, <2>2, <3>1, <3>2, <3>3
  <2> QED
    BY <2>4, <2>5
<1> QED
  BY <1>1, <1>2

\* The next thread down a column.
LEMMA BelowIs ==
    ASSUME ListTypes, ColumnsOK, NEW p \in Thread, Sleeping(p), Below(p) # None
    PROVE  \E h \in Thread : \E n \in 1..Len(tail[h]) :
              /\ Below(p) = tail[h][n]
              /\ IF n = 1 THEN h = p /\ Queued(p, top) ELSE tail[h][n - 1] = p
<1> DEFINE h == Column(p)
           c == <<h>> \o tail[h]
           i == CHOOSE k \in DOMAIN c : c[k] = p
<1>1. h \in Thread /\ ((h = p /\ Queued(p, top)) \/ (h # p /\ Queued(p, tail[h])))
  <2>1. CASE Queued(p, top)
    BY <2>1, ColumnOf
  <2>2. CASE Hangs(p)
    <3>1. PICK k \in Thread : Queued(p, tail[k])
      BY <2>2 DEF Hangs
    <3>2. Column(p) = k
      BY <3>1, ColumnOf
    <3>3. k # p
      BY <3>1, EmptyQueue DEF ColumnsOK
    <3> QED
      BY <3>1, <3>2, <3>3
  <2> QED
    BY <2>1, <2>2 DEF Sleeping
<1>2. Below(p) = IF i = Len(c) THEN None ELSE c[i + 1]
  BY DEF Below
<1> HIDE DEF h
<1>3. tail[h] \in Seq(Thread) /\ Len(tail[h]) \in Nat /\ DOMAIN tail[h] = 1..Len(tail[h])
  BY <1>1, LenProperties DEF ListTypes
<1>4. /\ Len(c) = Len(tail[h]) + 1 /\ DOMAIN c = 1..Len(c)
      /\ \A k \in 1..Len(tail[h]) + 1 : c[k] = IF k = 1 THEN h ELSE tail[h][k - 1]
  <2> DEFINE a == <<h>>
             b == tail[h]
  <2>1. a \in Seq(Thread) /\ Len(a) = 1 /\ a[1] = h
    BY <1>1
  <2>2. c = a \o b
    OBVIOUS
  <2>3. b \in Seq(Thread) /\ Len(b) \in Nat
    BY <1>3
  <2> HIDE DEF a, b, c
  <2>4. /\ a \o b \in Seq(Thread) /\ Len(a \o b) = Len(a) + Len(b)
        /\ \A k \in 1..Len(a) + Len(b) : (a \o b)[k] = IF k <= Len(a) THEN a[k] ELSE b[k - Len(a)]
    BY <2>1, <2>3, ConcatProperties
  <2>5. DOMAIN c = 1..Len(c) /\ Len(c) = Len(b) + 1
    BY <2>1, <2>2, <2>3, <2>4, LenProperties
  <2>6. \A k \in 1..Len(b) + 1 : c[k] = IF k <= 1 THEN a[k] ELSE b[k - 1]
    BY <2>1, <2>2, <2>3, <2>4
  <2>7. \A k \in 1..Len(b) + 1 : k <= 1 <=> k = 1
    BY <2>3
  <2> QED
    BY <2>1, <2>5, <2>6, <2>7 DEF b
<1> HIDE DEF c
<1>5. \E k \in DOMAIN c : c[k] = p
  <2>1. CASE h = p
    <3>1. 1 \in DOMAIN c /\ c[1] = p
      BY <1>3, <1>4, <2>1
    <3> QED
      BY <3>1
  <2>2. CASE Queued(p, tail[h])
    <3>1. PICK k \in 1..Len(tail[h]) : tail[h][k] = p
      BY <1>3, <2>2 DEF Queued
    <3>2. k + 1 \in DOMAIN c /\ k + 1 # 1 /\ (k + 1) - 1 = k
      BY <1>3, <1>4
    <3>3. c[k + 1] = p
      BY <1>4, <3>1, <3>2
    <3> QED
      BY <3>2, <3>3
  <2> QED
    BY <1>1, <2>1, <2>2
<1>6. i \in 1..Len(tail[h]) + 1 /\ c[i] = p
  BY <1>4, <1>5
<1> HIDE DEF i
<1>7. i # Len(c) /\ Below(p) = c[i + 1]
  BY <1>2
<1>8. i \in 1..Len(tail[h])
  BY <1>3, <1>4, <1>6, <1>7
<1>9. Below(p) = tail[h][i]
  <2>1. i + 1 \in 1..Len(tail[h]) + 1 /\ i + 1 # 1 /\ (i + 1) - 1 = i
    BY <1>3, <1>8
  <2> QED
    BY <1>4, <1>7, <2>1
<1>10. CASE i = 1
  <2>1. h = p
    BY <1>4, <1>6, <1>10
  <2> QED
    BY <1>1, <1>8, <1>9, <1>10, <2>1
<1>11. CASE i # 1
  <2>1. tail[h][i - 1] = p
    BY <1>4, <1>6, <1>11
  <2> QED
    BY <1>1, <1>8, <1>9, <1>11, <2>1
<1> QED
  BY <1>10, <1>11

\* Where a search to the right stands, and the next top.
LEMMA TopPosition ==
    ASSUME top \in Seq(Thread), Distinct(top), NEW t \in Thread,
           At(t) = None \/ Queued(At(t), top)
    PROVE  LET n == IF At(t) = None THEN 0 ELSE CHOOSE i \in DOMAIN top : top[i] = At(t)
           IN  /\ n \in 0..Len(top) /\ (n > 0 => At(t) # None /\ top[n] = At(t))
               /\ n = 0 => At(t) = None
               /\ NextTop(t) = IF n + 1 > Len(top) THEN None ELSE top[n + 1]
<1> DEFINE n == IF At(t) = None THEN 0 ELSE CHOOSE i \in DOMAIN top : top[i] = At(t)
<1>1. Len(top) \in Nat /\ DOMAIN top = 1..Len(top)
  BY LenProperties
<1>2. CASE At(t) = None
  <2>1. n = 0
    BY <1>2
  <2>2. NextTop(t) = IF 1 > Len(top) THEN None ELSE top[1]
    BY <1>2 DEF NextTop
  <2> HIDE DEF n
  <2> QED
    BY <1>1, <1>2, <2>1, <2>2 DEF n
<1>3. CASE At(t) # None
  <2> DEFINE m == CHOOSE i \in DOMAIN top : top[i] = At(t)
  <2>1. m \in 1..Len(top) /\ top[m] = At(t)
    BY <1>1, <1>3 DEF Queued
  <2>2. n = m
    BY <1>3
  <2>3. NextTop(t) = IF 1 + m > Len(top) THEN None ELSE top[1 + m]
    BY <1>3 DEF NextTop
  <2> HIDE DEF n, m
  <2>4. 1 + m = m + 1 /\ m > 0 /\ m \in 0..Len(top)
    BY <1>1, <2>1
  <2>5. /\ n \in 0..Len(top) /\ (n > 0 => At(t) # None /\ top[n] = At(t))
        /\ n = 0 => At(t) = None
        /\ NextTop(t) = IF n + 1 > Len(top) THEN None ELSE top[n + 1]
    BY <1>3, <2>1, <2>2, <2>3, <2>4
  <2> QED
    BY <2>5 DEF n
<1> QED
  BY <1>2, <1>3

-----------------------------------------------------------------------------
(* The steps of one thread's call *)

\* No search stands on a thread whose wCount2 has changed.
LEMMA ForgetKeeps ==
    ASSUME TypeOK, NEW S, Forget(S), \A u \in Thread : SearchOK(u),
           \A v \in Thread : v \notin S => (Sleeping(v) => Sleeping(v)'),
           \A v \in Thread : v \notin S => (Queued(v, top) => Queued(v, top')),
           \A u \in Thread : pc[u] = "crab" => pc'[u] = "crab"
    PROVE  /\ crab' \in [Thread -> [pth : Thread \cup {None}, ok : BOOLEAN,
                                    vertical : BOOLEAN, wake : 0..W - 1]]
           /\ \A u \in Thread : /\ SearchOK(u)' /\ wake(u)' = wake(u)
                                /\ crab'[u].pth = crab[u].pth
                                /\ crab'[u].vertical = crab[u].vertical
                                /\ crab'[u].ok => crab[u].ok
<1> DEFINE f(u) == IF crab[u].pth \in S THEN [crab[u] EXCEPT !.ok = FALSE] ELSE crab[u]
<1>1. crab' = [u \in Thread |-> f(u)]
  BY DEF Forget
<1>2. ASSUME NEW u \in Thread
      PROVE  /\ f(u) \in [pth : Thread \cup {None}, ok : BOOLEAN,
                          vertical : BOOLEAN, wake : 0..W - 1]
             /\ f(u).pth = crab[u].pth /\ f(u).vertical = crab[u].vertical
             /\ f(u).wake = crab[u].wake
             /\ f(u).ok => crab[u].ok /\ crab[u].pth \notin S
  <2>1. crab[u] \in [pth : Thread \cup {None}, ok : BOOLEAN, vertical : BOOLEAN, wake : 0..W - 1]
    BY DEF TypeOK
  <2> HIDE DEF f
  <2>2. CASE crab[u].pth \in S
    <3>1. f(u) = [crab[u] EXCEPT !.ok = FALSE]
      BY <2>2 DEF f
    <3> QED
      BY <2>1, <3>1
  <2>3. CASE crab[u].pth \notin S
    <3>1. f(u) = crab[u]
      BY <2>3 DEF f
    <3> QED
      BY <2>1, <2>3, <3>1
  <2> QED
    BY <2>2, <2>3
<1> HIDE DEF f
<1>3. \A u \in Thread : crab'[u] = f(u)
  BY <1>1
<1>4. ASSUME NEW u \in Thread PROVE SearchOK(u)' /\ wake(u)' = wake(u)
  <2>1. crab[u].pth # None => crab[u].pth \in Thread
    BY DEF TypeOK
  <2>2. wake(u)' = wake(u)
    BY <1>2, <1>3 DEF wake
  <2>3. SearchOK(u)
    OBVIOUS
  <2>4. /\ crab'[u].pth # None => pc'[u] = "crab"
        /\ crab'[u].vertical => crab'[u].pth # None
    BY <1>2, <1>3, <2>3 DEF SearchOK
  <2>5. ASSUME crab'[u].ok, crab'[u].pth # None
        PROVE  (IF crab[u].vertical THEN Sleeping(crab[u].pth) ELSE Queued(crab[u].pth, top))'
    <3>1. /\ crab'[u].pth = crab[u].pth /\ crab'[u].vertical = crab[u].vertical
          /\ crab[u].ok /\ crab[u].pth \notin S /\ crab[u].pth # None
      BY <1>2, <1>3, <2>5
    <3>2. IF crab[u].vertical THEN Sleeping(crab[u].pth) ELSE Queued(crab[u].pth, top)
      BY <2>3, <3>1 DEF SearchOK
    <3>3. PICK p \in Thread : p = crab[u].pth
      BY <2>1, <3>1
    <3>4. /\ Sleeping(p) => Sleeping(p)'
          /\ Queued(p, top) => Queued(p, top')
      BY <3>1, <3>3
    <3>5. crab'[u].pth = p
      BY <3>1, <3>3
    <3>6. CASE crab[u].vertical
      <4>1. Sleeping(p)' /\ crab'[u].vertical
        BY <3>1, <3>2, <3>3, <3>4, <3>6
      <4> QED
        BY <3>5, <4>1 DEF Sleeping, Hangs
    <3>7. CASE ~crab[u].vertical
      <4>1. Queued(p, top') /\ ~crab'[u].vertical
        BY <3>1, <3>2, <3>3, <3>4, <3>7
      <4> QED
        BY <3>5, <4>1
    <3> QED
      BY <3>6, <3>7
  <2> QED
    BY <2>2, <2>4, <2>5 DEF SearchOK
<1>5. crab' \in [Thread -> [pth : Thread \cup {None}, ok : BOOLEAN,
                            vertical : BOOLEAN, wake : 0..W - 1]]
  BY <1>1, <1>2
<1> QED
  BY <1>2, <1>3, <1>4, <1>5

\* The running thread is in no list, and nothing hangs below it.
LEMMA RunningFacts ==
    ASSUME ListsInv, NEW t \in Thread, runth = t
    PROVE  /\ state[t] = "running" /\ ~Sleeping(t) /\ ~Queued(t, runq) /\ tail[t] = <<>>
           /\ t \notin suspended /\ ListTypes
<1>1. PlaceOK(t) /\ TypeOK /\ Carried
  BY DEF ListsInv
<1>2. state[t] = "running" /\ ~Sleeping(t) /\ ~Queued(t, runq) /\ t \notin suspended
  BY <1>1 DEF PlaceOK
<1>3. tail[t] = <<>>
  BY <1>1, <1>2 DEF Carried, Sleeping
<1> QED
  BY <1>1, <1>2, <1>3 DEF TypeOK, ListTypes

\* A step of the call that leaves the lists alone.
LEMMA CallStep ==
    ASSUME ListsInv, NEW t \in Thread, runth = t, pc[t] # "signal",
           UNCHANGED <<clockVars, listVars, schedVars, prioVars, suspended, target>>,
           needSleep' \subseteq Thread,
           NEW x \in {"run", "crab"}, pc' = [pc EXCEPT ![t] = x],
           NEW c \in [pth : Thread \cup {None}, ok : BOOLEAN, vertical : BOOLEAN, wake : 0..W - 1],
           crab' = [crab EXCEPT ![t] = c],
           c.pth # None => x = "crab",
           c.vertical => c.pth # None,
           c.pth # None => IF c.vertical THEN Sleeping(c.pth) ELSE Queued(c.pth, top)
    PROVE  ListsInv'
<1>1. /\ top' = top /\ tail' = tail /\ runq' = runq /\ runth' = runth /\ resched' = resched
      /\ state' = state /\ suspended' = suspended /\ target' = target
      /\ CurMSec' = CurMSec /\ dwReschedTime' = dwReschedTime /\ cprio' = cprio /\ bprio' = bprio
  BY DEF clockVars, listVars, schedVars, prioVars
<1>2. TypeOK /\ ColumnsOK /\ Distinct(runq) /\ Carried
  BY DEF ListsInv
<1>3. TypeOK'
  BY <1>1, <1>2 DEF TypeOK
<1>4. ColumnsOK' /\ Distinct(runq)' /\ Carried'
  BY <1>1, <1>2 DEF ColumnsOK, Carried
<1>5. \A u \in Thread : Sleeping(u)' <=> Sleeping(u)
  BY <1>1 DEF Sleeping, Hangs
<1>6. \A u \in Thread : /\ pc'[u] = IF u = t THEN x ELSE pc[u]
                        /\ crab'[u] = IF u = t THEN c ELSE crab[u]
  BY <1>2 DEF TypeOK
<1>7. ASSUME NEW u \in Thread PROVE PlaceOK(u)'
  <2>1. PlaceOK(u) /\ ~Sleeping(t) /\ state[t] = "running"
    BY RunningFacts DEF ListsInv
  <2>2. state'[u] = "needsrun" => \E r \in Thread : pc'[r] = "signal" /\ target'[r] = u
    BY <1>1, <1>6, <2>1 DEF PlaceOK
  <2> QED
    BY <1>1, <1>5, <1>6, <2>1, <2>2 DEF PlaceOK
<1>8. ASSUME NEW u \in Thread PROVE SearchOK(u)'
  <2>1. SearchOK(u)
    BY DEF ListsInv
  <2>2. CASE u = t
    BY <1>1, <1>6, <2>2 DEF SearchOK, Sleeping, Hangs
  <2>3. CASE u # t
    BY <1>1, <1>6, <2>1, <2>3 DEF SearchOK, Sleeping, Hangs
  <2> QED
    BY <2>2, <2>3
<1> QED
  BY <1>3, <1>4, <1>7, <1>8 DEF ListsInv

\* Clock values.
LEMMA AddType == ASSUME NEW a \in Int, NEW d \in Int PROVE Add(a, d) \in 0..W - 1
<1>1. W \in Nat /\ W > 0
  BY SleepListAssumption DEF W
<1>2. a + d \in Int
  OBVIOUS
<1> QED
  BY <1>1, <1>2 DEF Add

\* A search that starts, for the time w.
LEMMA StartType ==
    ASSUME NEW w \in 0..W - 1
    PROVE  /\ Start(w) \in [pth : Thread \cup {None}, ok : BOOLEAN, vertical : BOOLEAN,
                            wake : 0..W - 1]
           /\ Start(w).pth = None /\ Start(w).ok = TRUE /\ Start(w).vertical = FALSE
           /\ Start(w).wake = w
BY DEF Start

\* A thread begins to sleep: nothing is moved yet.
LEMMA BeginSleepLists ==
    ASSUME ListsInv, NEW t \in Thread, NEW d \in Times, BeginSleep(t, d) PROVE ListsInv'
<1>1. /\ runth = t /\ pc[t] = "run" /\ pc' = [pc EXCEPT ![t] = "crab"]
      /\ crab' = [crab EXCEPT ![t] = Start(Add(CurMSec, d))]
      /\ UNCHANGED <<clockVars, listVars, schedVars, prioVars, needSleep, suspended, target>>
  BY DEF BeginSleep, Runs
<1>2. CurMSec \in Int /\ d \in Int /\ needSleep \subseteq Thread
  BY SleepListAssumption DEF ListsInv, TypeOK, W
<1>3. Add(CurMSec, d) \in 0..W - 1
  BY <1>2, AddType
<1> DEFINE c == Start(Add(CurMSec, d))
<1>4. /\ c \in [pth : Thread \cup {None}, ok : BOOLEAN, vertical : BOOLEAN, wake : 0..W - 1]
      /\ c.pth = None /\ c.vertical = FALSE
  BY <1>3, StartType
<1>5. crab' = [crab EXCEPT ![t] = c] /\ pc[t] # "signal" /\ needSleep' \subseteq Thread
      /\ UNCHANGED <<clockVars, listVars, schedVars, prioVars, suspended, target>>
  BY <1>1, <1>2
<1> HIDE DEF c
<1> QED
  BY <1>1, <1>4, <1>5, CallStep

\* A call ends, or was not needed.
LEMMA CallEnds ==
    ASSUME ListsInv, NEW t \in Thread, SleepNot(t) \/ Return(t) PROVE ListsInv'
<1>1. /\ runth = t /\ pc[t] # "signal" /\ pc' = [pc EXCEPT ![t] = "run"]
      /\ crab' = [crab EXCEPT ![t] = Start(CurMSec)] /\ needSleep' \subseteq needSleep
      /\ UNCHANGED <<clockVars, listVars, schedVars, prioVars, suspended, target>>
  BY DEF SleepNot, Return, Runs, InCall
<1>2. CurMSec \in 0..W - 1 /\ needSleep \subseteq Thread
  BY DEF ListsInv, TypeOK
<1> DEFINE c == Start(CurMSec)
<1>3. /\ c \in [pth : Thread \cup {None}, ok : BOOLEAN, vertical : BOOLEAN, wake : 0..W - 1]
      /\ c.pth = None /\ c.vertical = FALSE
  BY <1>2, StartType
<1>4. crab' = [crab EXCEPT ![t] = c] /\ needSleep' \subseteq Thread
  BY <1>1, <1>2
<1> HIDE DEF c
<1> QED
  BY <1>1, <1>3, <1>4, CallStep

\* Where a search goes on is a sleeper.
LEMMA StepsToSleeper ==
    ASSUME ListsInv, NEW t \in Thread, ~Moved(t), StepTo(t) # None
    PROVE  /\ StepTo(t) \in Thread
           /\ IF crab[t].vertical
              THEN /\ Sleeping(At(t)) /\ At(t) \in Thread
                   /\ StepTo(t) = Below(At(t)) /\ Hangs(StepTo(t))
                   /\ cprio[t] >= cprio[StepTo(t)]
              ELSE /\ StepTo(t) = NextTop(t) /\ Queued(StepTo(t), top)
                   /\ LET d == Diff(wake(StepTo(t)), wake(t))
                      IN  d < 0 \/ (d = 0 /\ cprio[t] >= cprio[StepTo(t)])
<1>1. TypeOK /\ ColumnsOK /\ SearchOK(t) /\ ListTypes
  BY DEF ListsInv, TypeOK, ListTypes
<1>2. At(t) = None \/ crab[t].ok
  BY DEF Moved
<1>3. CASE crab[t].vertical
  <2>1. At(t) \in Thread /\ Sleeping(At(t))
    BY <1>1, <1>2, <1>3 DEF SearchOK, At, TypeOK
  <2>2. StepTo(t) = Below(At(t)) /\ Below(At(t)) # None /\ cprio[t] >= cprio[Below(At(t))]
    BY <1>3 DEF StepTo
  <2>3. PICK h \in Thread : \E n \in 1..Len(tail[h]) : Below(At(t)) = tail[h][n]
    BY <1>1, <2>1, <2>2, BelowIs
  <2>4. Below(At(t)) \in Thread /\ Queued(Below(At(t)), tail[h])
    <3>1. tail[h] \in Seq(Thread)
      BY <1>1 DEF ListTypes
    <3>2. DOMAIN tail[h] = 1..Len(tail[h]) /\ \A n \in 1..Len(tail[h]) : tail[h][n] \in Thread
      BY <3>1, LenProperties, ElementOfSeq
    <3> QED
      BY <2>3, <3>2 DEF Queued
  <2> QED
    BY <1>3, <2>1, <2>2, <2>4 DEF Hangs
<1>4. CASE ~crab[t].vertical
  <2>1. At(t) = None \/ Queued(At(t), top)
    BY <1>1, <1>2, <1>4 DEF SearchOK, At
  <2>2. StepTo(t) = NextTop(t) /\ NextTop(t) # None
        /\ LET d == Diff(wake(NextTop(t)), wake(t))
           IN  d < 0 \/ (d = 0 /\ cprio[t] >= cprio[NextTop(t)])
    BY <1>4 DEF StepTo
  <2>3. PICK n \in 0..Len(top) : NextTop(t) = IF n + 1 > Len(top) THEN None ELSE top[n + 1]
    BY <1>1, <2>1, TopPosition DEF ListTypes, ColumnsOK
  <2>4. /\ Len(top) \in Nat /\ DOMAIN top = 1..Len(top)
        /\ \A i \in 1..Len(top) : top[i] \in Thread
    BY <1>1, LenProperties, ElementOfSeq DEF ListTypes
  <2>5. n + 1 \in 1..Len(top) /\ NextTop(t) = top[n + 1]
    BY <2>2, <2>3, <2>4
  <2>6. NextTop(t) \in Thread /\ Queued(NextTop(t), top)
    BY <2>4, <2>5 DEF Queued
  <2> QED
    BY <1>4, <2>2, <2>6
<1> QED
  BY <1>3, <1>4

\* What the search has done after a step of it.
LEMMA SteppedType ==
    ASSUME ListsInv, NEW t \in Thread, ~Moved(t), StepTo(t) # None
    PROVE  /\ Stepped(t) \in [pth : Thread \cup {None}, ok : BOOLEAN, vertical : BOOLEAN,
                              wake : 0..W - 1]
           /\ Stepped(t).pth = StepTo(t) /\ Stepped(t).ok = TRUE /\ Stepped(t).wake = wake(t)
           /\ Stepped(t).vertical <=> crab[t].vertical \/ wake(StepTo(t)) = wake(t)
<1>1. StepTo(t) \in Thread
  BY StepsToSleeper
<1>2. crab[t] \in [pth : Thread \cup {None}, ok : BOOLEAN, vertical : BOOLEAN, wake : 0..W - 1]
  BY DEF ListsInv, TypeOK
<1> QED
  BY <1>1, <1>2 DEF Stepped, wake

\* A step of the search moves nothing, and ends on a sleeper.
LEMMA SleepSearchLists ==
    ASSUME ListsInv, NEW t \in Thread, SleepSearch(t) PROVE ListsInv'
<1>1. /\ runth = t /\ pc[t] # "signal" /\ pc' = [pc EXCEPT ![t] = "crab"]
      /\ needSleep' \subseteq needSleep
      /\ UNCHANGED <<clockVars, listVars, schedVars, prioVars, suspended, target>>
  BY DEF SleepSearch, Runs, InCall
<1>2. needSleep' \subseteq Thread /\ wake(t) \in 0..W - 1
  BY <1>1 DEF ListsInv, TypeOK, wake
<1>3. CASE Moved(t) \/ Inverted(t)
  <2> DEFINE c == Start(wake(t))
  <2>1. crab' = [crab EXCEPT ![t] = c]
    BY <1>3 DEF SleepSearch
  <2>2. /\ c \in [pth : Thread \cup {None}, ok : BOOLEAN, vertical : BOOLEAN, wake : 0..W - 1]
        /\ c.pth = None /\ c.vertical = FALSE
    BY <1>2, StartType
  <2> HIDE DEF c
  <2> QED
    BY <1>1, <1>2, <2>1, <2>2, CallStep
<1>4. CASE ~(Moved(t) \/ Inverted(t))
  <2> DEFINE c == Stepped(t)
  <2>1. crab' = [crab EXCEPT ![t] = c] /\ StepTo(t) # None
    BY <1>4 DEF SleepSearch
  <2>2. /\ c \in [pth : Thread \cup {None}, ok : BOOLEAN, vertical : BOOLEAN, wake : 0..W - 1]
        /\ c.pth = StepTo(t) /\ (c.vertical <=> crab[t].vertical \/ wake(StepTo(t)) = wake(t))
    BY <1>4, <2>1, SteppedType
  <2>3. IF crab[t].vertical THEN Hangs(StepTo(t)) ELSE Queued(StepTo(t), top)
    BY <1>4, <2>1, StepsToSleeper
  <2> HIDE DEF c
  <2>4. IF c.vertical THEN Sleeping(c.pth) ELSE Queued(c.pth, top)
    BY <2>2, <2>3 DEF Sleeping
  <2>5. c.vertical => c.pth # None
    BY <2>1, <2>2
  <2> QED
    BY <1>1, <1>2, <2>1, <2>2, <2>4, <2>5, CallStep
<1> QED
  BY <1>3, <1>4

\* A sleeper is marked to run, by a thread that will see to it.
LEMMA SignalLists ==
    ASSUME ListsInv, NEW r \in Thread, NEW t \in Thread, Signal(r, t) PROVE ListsInv'
<1>1. /\ runth = r /\ pc[r] = "run" /\ state[t] = "blocked" /\ Sleeping(t)
      /\ state' = [state EXCEPT ![t] = "needsrun"]
      /\ pc' = [pc EXCEPT ![r] = "signal"] /\ target' = [target EXCEPT ![r] = t]
      /\ CurMSec' = CurMSec /\ dwReschedTime' = dwReschedTime /\ top' = top /\ tail' = tail
      /\ runq' = runq /\ runth' = runth /\ resched' = resched /\ cprio' = cprio /\ bprio' = bprio
      /\ needSleep' = needSleep /\ suspended' = suspended /\ crab' = crab
  BY DEF Signal, Runs, clockVars, listVars, prioVars
<1>2. TypeOK /\ ColumnsOK /\ Distinct(runq) /\ Carried
  BY DEF ListsInv
<1>3. TypeOK'
  BY <1>1, <1>2 DEF TypeOK
<1>4. \A u \in Thread : /\ state'[u] = IF u = t THEN "needsrun" ELSE state[u]
                        /\ pc'[u] = IF u = r THEN "signal" ELSE pc[u]
                        /\ target'[u] = IF u = r THEN t ELSE target[u]
  BY <1>1, <1>2 DEF TypeOK
<1>5. ColumnsOK' /\ Distinct(runq)' /\ Carried'
  BY <1>1, <1>2, <1>4 DEF ColumnsOK, Carried
<1>6. \A u \in Thread : Sleeping(u)' <=> Sleeping(u)
  BY <1>1 DEF Sleeping, Hangs
<1>7. ASSUME NEW u \in Thread PROVE PlaceOK(u)'
  <2>1. PlaceOK(u) /\ PlaceOK(t)
    BY DEF ListsInv
  <2>2. ~Sleeping(r) /\ state[r] = "running"
    BY <1>1, RunningFacts
  <2>3. state'[u] = "needsrun" => \E k \in Thread : pc'[k] = "signal" /\ target'[k] = u
    <3>1. CASE u = t
      BY <1>4, <3>1
    <3>2. CASE state'[u] = "needsrun" /\ u # t
      <4>1. PICK k \in Thread : pc[k] = "signal" /\ target[k] = u
        BY <1>4, <2>1, <3>2 DEF PlaceOK
      <4>2. k # r
        BY <1>1, <4>1
      <4> QED
        BY <1>4, <4>1, <4>2
    <3> QED
      BY <3>1, <3>2
  <2> QED
    BY <1>1, <1>4, <1>6, <2>1, <2>2, <2>3 DEF PlaceOK
<1>8. ASSUME NEW u \in Thread PROVE SearchOK(u)'
  <2>1. SearchOK(u)
    BY DEF ListsInv
  <2> QED
    BY <1>1, <1>4, <2>1 DEF SearchOK, Sleeping, Hangs
<1> QED
  BY <1>3, <1>5, <1>7, <1>8 DEF ListsInv

\* A thread is put in its place: below another, on top of a column or in its own.
LEMMA SleepPlaceLists ==
    ASSUME ListsInv, NEW t \in Thread, SleepPlace(t)
    PROVE  /\ ListsInv'
           /\ \A u \in Thread : Sleeping(u)' <=> Sleeping(u) \/ u = t
           /\ \A u \in Thread : u # t => wake(u)' = wake(u)
           /\ wake(t)' = wake(t)
<1> DEFINE next == IF crab[t].vertical THEN None ELSE NextTop(t)
           n == IF At(t) = None THEN 0 ELSE CHOOSE i \in DOMAIN top : top[i] = At(t)
           onTop == next # None /\ wake(next) = wake(t)
<1>1. /\ runth = t /\ pc[t] # "signal" /\ ~Moved(t)
      /\ IF crab[t].vertical
         THEN InsertBelow(At(t), t) /\ top' = top
         ELSE IF onTop
         THEN /\ top' = [top EXCEPT ![n + 1] = t]
              /\ tail' = [tail EXCEPT ![t] = <<next>> \o tail[next], ![next] = <<>>]
         ELSE /\ top' = SubSeq(top, 1, n) \o <<t>> \o SubSeq(top, n + 1, Len(top))
              /\ tail' = tail
      /\ crab' = [u \in Thread |->
                    IF u = t THEN Start(wake(t))
                    ELSE IF onTop /\ At(u) = next THEN [crab[u] EXCEPT !.ok = FALSE] ELSE crab[u]]
      /\ dwReschedTime' = ReschedFor(t)
      /\ state' = [state EXCEPT ![t] = "blocked"]
      /\ runth' = None /\ resched' = TRUE
      /\ needSleep' = needSleep \ {t}
      /\ pc' = [pc EXCEPT ![t] = "asleep"]
      /\ CurMSec' = CurMSec /\ runq' = runq /\ cprio' = cprio /\ bprio' = bprio
      /\ suspended' = suspended /\ target' = target
  BY DEF SleepPlace, Runs, InCall, prioVars
<1> HIDE DEF n, onTop
<1>2. TypeOK /\ ColumnsOK /\ Distinct(runq) /\ Carried /\ SearchOK(t)
  BY DEF ListsInv
<1>3. /\ ListTypes /\ state[t] = "running" /\ ~Sleeping(t) /\ ~Queued(t, runq)
      /\ tail[t] = <<>> /\ t \notin suspended
  BY <1>1, RunningFacts
<1>4. At(t) = None \/ crab[t].ok
  BY <1>1 DEF Moved
<1>5. /\ ListTypes' /\ ColumnsOK'
      /\ \A u \in Thread : Sleeping(u)' <=> Sleeping(u) \/ u = t
      /\ \A u \in Thread : Queued(u, top) /\ ~(onTop /\ u = next) => Queued(u, top')
      /\ \A h \in Thread : tail'[h] # <<>> => Queued(h, top') \/ (~Queued(h, top) /\ tail[h] # <<>>)
  <2>1. CASE crab[t].vertical
    <3>1. At(t) \in Thread /\ Sleeping(At(t))
      BY <1>2, <1>4, <2>1 DEF SearchOK, At, TypeOK
    <3>2. top' = top /\ InsertBelow(At(t), t)
      BY <1>1, <2>1
    <3>3. PICK h \in Thread :
             /\ (h = At(t) /\ Queued(At(t), top)) \/ Queued(At(t), tail[h])
             /\ \A k \in Thread \ {h} : tail'[k] = tail[k]
      BY <1>2, <1>3, <3>1, <3>2, PutBelow
    <3>4. ListTypes' /\ ColumnsOK' /\ \A u \in Thread : Sleeping(u)' <=> Sleeping(u) \/ u = t
      BY <1>2, <1>3, <3>1, <3>2, PutBelow
    <3>5. Queued(h, top) \/ tail[h] # <<>>
      BY <3>3, EmptyQueue
    <3>6. \A k \in Thread :
             tail'[k] # <<>> => Queued(k, top') \/ (~Queued(k, top) /\ tail[k] # <<>>)
      BY <3>2, <3>3, <3>5, <1>2 DEF Carried
    <3> QED
      BY <3>2, <3>4, <3>6
  <2>2. CASE ~crab[t].vertical
    <3>1. At(t) = None \/ Queued(At(t), top)
      BY <1>2, <1>4, <2>2 DEF SearchOK, At
    <3>2. n \in 0..Len(top) /\ next = IF n + 1 > Len(top) THEN None ELSE top[n + 1]
      BY <1>2, <1>3, <2>2, <3>1, TopPosition DEF n, ListTypes, ColumnsOK
    <3> HIDE DEF next
    <3>3. CASE onTop
      <4>1. next # None
        BY <3>3 DEF onTop
      <4>2. PICK m \in DOMAIN top : m = n + 1 /\ next = top[m]
        <5>1. DOMAIN top = 1..Len(top) /\ Len(top) \in Nat
          BY <1>3, LenProperties DEF ListTypes
        <5> QED
          BY <3>2, <4>1, <5>1
      <4>3. /\ top' = [top EXCEPT ![m] = t]
            /\ tail' = [tail EXCEPT ![t] = <<next>> \o tail[next], ![next] = <<>>]
        BY <1>1, <2>2, <3>3, <4>2
      <4>0. PutsOnTop(t, m, next)
        BY <4>3 DEF PutsOnTop
      <4>4. /\ ListTypes' /\ ColumnsOK' /\ next \in Thread /\ Queued(next, top)
            /\ \A v \in Thread : Sleeping(v)' <=> Sleeping(v) \/ v = t
            /\ TopAfter(t, next)
            /\ tail'[t] = <<next>> \o tail[next] /\ tail'[next] = <<>>
            /\ \A k \in Thread \ {t, next} : tail'[k] = tail[k]
        BY <1>2, <1>3, <4>2, <4>0, PutOnTop
      <4>5. ASSUME NEW k \in Thread, tail'[k] # <<>>
            PROVE  Queued(k, top') \/ (~Queued(k, top) /\ tail[k] # <<>>)
        <5>1. CASE k = t
          BY <4>4, <5>1 DEF TopAfter
        <5>2. CASE k # t
          <6>1. k # next /\ tail'[k] = tail[k]
            BY <4>4, <4>5, <5>2
          <6> QED
            BY <4>4, <4>5, <6>1 DEF TopAfter
        <5> QED
          BY <5>1, <5>2
      <4> QED
        BY <3>3, <4>4, <4>5 DEF TopAfter
    <3>4. CASE ~onTop
      <4>1. top' = SubSeq(top, 1, n) \o <<t>> \o SubSeq(top, n + 1, Len(top)) /\ tail' = tail
        BY <1>1, <2>2, <3>4
      <4>0. PutsAfter(t, n)
        BY <4>1 DEF PutsAfter
      <4>2. /\ ListTypes' /\ ColumnsOK'
            /\ \A v \in Thread : Sleeping(v)' <=> Sleeping(v) \/ v = t
            /\ \A v \in Thread : Queued(v, top') <=> v = t \/ Queued(v, top)
        BY <1>2, <1>3, <3>2, <4>0, PutBetween
      <4>3. \A k \in Thread :
               tail'[k] # <<>> => Queued(k, top') \/ (~Queued(k, top) /\ tail[k] # <<>>)
        BY <4>1, <4>2
      <4> QED
        BY <4>2, <4>3
    <3> QED
      BY <3>3, <3>4
  <2> QED
    BY <2>1, <2>2
<1>6. wake(t) \in 0..W - 1
  BY <1>2 DEF TypeOK, wake
<1>7. dwReschedTime' \in 0..W - 1
  BY <1>1, <1>2, <1>6 DEF ReschedFor, TypeOK
<1> DEFINE f(u) == IF u = t THEN Start(wake(t))
                   ELSE IF onTop /\ At(u) = next THEN [crab[u] EXCEPT !.ok = FALSE] ELSE crab[u]
<1>8. ASSUME NEW u \in Thread
      PROVE  /\ f(u) \in [pth : Thread \cup {None}, ok : BOOLEAN, vertical : BOOLEAN,
                          wake : 0..W - 1]
             /\ u = t => f(u).pth = None /\ ~f(u).vertical
             /\ u # t => /\ f(u).pth = crab[u].pth /\ f(u).vertical = crab[u].vertical
                         /\ f(u).ok => crab[u].ok /\ ~(onTop /\ At(u) = next)
             /\ f(u).wake = wake(u)
  <2>1. CASE u = t
    <3>1. f(u) = Start(wake(t))
      BY <2>1
    <3> HIDE DEF f
    <3>2. /\ Start(wake(t)) \in [pth : Thread \cup {None}, ok : BOOLEAN, vertical : BOOLEAN,
                                 wake : 0..W - 1]
          /\ Start(wake(t)).pth = None /\ Start(wake(t)).vertical = FALSE
          /\ Start(wake(t)).wake = wake(t)
      BY <1>6, StartType
    <3> QED
      BY <2>1, <3>1, <3>2
  <2>2. CASE u # t
    <3>1. crab[u] \in [pth : Thread \cup {None}, ok : BOOLEAN, vertical : BOOLEAN, wake : 0..W - 1]
      BY <1>2 DEF TypeOK
    <3>2. CASE onTop /\ At(u) = next
      <4>1. f(u) = [crab[u] EXCEPT !.ok = FALSE]
        BY <2>2, <3>2
      <4> HIDE DEF f
      <4> QED
        BY <2>2, <3>1, <4>1 DEF wake
    <3>3. CASE ~(onTop /\ At(u) = next)
      <4>1. f(u) = crab[u]
        BY <2>2, <3>3
      <4> HIDE DEF f
      <4> QED
        BY <2>2, <3>1, <3>3, <4>1 DEF wake
    <3> QED
      BY <3>2, <3>3
  <2> QED
    BY <2>1, <2>2
<1> HIDE DEF next
<1>9. crab' = [u \in Thread |-> f(u)]
  BY <1>1
<1> HIDE DEF f
<1>10. \A u \in Thread : crab'[u] = f(u)
  BY <1>9
<1>11. TypeOK'
  <2>1. crab' \in [Thread -> [pth : Thread \cup {None}, ok : BOOLEAN, vertical : BOOLEAN,
                              wake : 0..W - 1]]
    BY <1>8, <1>9
  <2> QED
    BY <1>1, <1>2, <1>5, <1>7, <2>1 DEF TypeOK, ListTypes
<1>12. \A u \in Thread : /\ state'[u] = IF u = t THEN "blocked" ELSE state[u]
                         /\ pc'[u] = IF u = t THEN "asleep" ELSE pc[u]
  BY <1>1, <1>2 DEF TypeOK
<1>13. Carried'
  <2> SUFFICES ASSUME NEW h \in Thread, tail'[h] # <<>>
               PROVE  Queued(h, top') \/ state'[h] \in {"runnable", "needsrun"}
    BY DEF Carried
  <2> QED
    BY <1>2, <1>3, <1>5, <1>12 DEF Carried
<1>14. ASSUME NEW u \in Thread PROVE PlaceOK(u)'
  <2>1. PlaceOK(u) /\ u # None
    BY SleepListAssumption DEF ListsInv
  <2>2. state'[u] = "needsrun" => \E r \in Thread : pc'[r] = "signal" /\ target'[r] = u
    <3> SUFFICES ASSUME state'[u] = "needsrun"
                 PROVE \E r \in Thread : pc'[r] = "signal" /\ target'[r] = u
      OBVIOUS
    <3>1. PICK r \in Thread : pc[r] = "signal" /\ target[r] = u
      BY <1>12, <2>1 DEF PlaceOK
    <3>2. r # t
      BY <1>1, <3>1
    <3> QED
      BY <1>1, <1>12, <3>1, <3>2
  <2>0. Sleeping(u)' <=> Sleeping(u) \/ u = t
    BY <1>5
  <2>3. CASE u = t
    BY <1>1, <1>3, <1>12, <2>0, <2>1, <2>2, <2>3 DEF PlaceOK
  <2>4. CASE u # t
    <3>1. /\ state'[u] = state[u] /\ pc'[u] = pc[u] /\ target'[u] = target[u]
          /\ (u \in suspended' <=> u \in suspended) /\ (Sleeping(u)' <=> Sleeping(u))
          /\ runq' = runq /\ runth' = None /\ state[u] # "running"
      BY <1>1, <1>12, <2>0, <2>1, <2>4 DEF PlaceOK
    <3> QED
      BY <2>1, <2>2, <3>1 DEF PlaceOK
  <2> QED
    BY <2>3, <2>4
<1>15. ASSUME NEW u \in Thread PROVE SearchOK(u)'
  <2>1. CASE u = t
    BY <1>8, <1>10, <2>1 DEF SearchOK
  <2>2. CASE u # t
    <3>1. SearchOK(u) /\ (crab[u].pth # None => crab[u].pth \in Thread)
      BY <1>2 DEF ListsInv, TypeOK
    <3>2. /\ crab'[u].pth = crab[u].pth /\ crab'[u].vertical = crab[u].vertical
          /\ crab'[u].ok => crab[u].ok /\ ~(onTop /\ crab[u].pth = next)
      BY <1>8, <1>10, <2>2 DEF At
    <3>3. /\ crab'[u].pth # None => pc'[u] = "crab"
          /\ crab'[u].vertical => crab'[u].pth # None
      BY <1>12, <2>2, <3>1, <3>2 DEF SearchOK
    <3>4. ASSUME crab'[u].ok, crab'[u].pth # None
          PROVE  (IF crab[u].vertical THEN Sleeping(crab[u].pth) ELSE Queued(crab[u].pth, top))'
      <4>1. PICK p \in Thread : p = crab[u].pth
        BY <3>1, <3>2, <3>4
      <4>2. crab'[u].pth = p /\ crab[u].ok /\ p # None /\ ~(onTop /\ p = next)
        BY <3>2, <3>4, <4>1
      <4>3. IF crab[u].vertical THEN Sleeping(p) ELSE Queued(p, top)
        BY <3>1, <4>1, <4>2 DEF SearchOK
      <4>4. IF crab'[u].vertical THEN Sleeping(p)' ELSE Queued(p, top')
        BY <1>5, <3>2, <4>2, <4>3
      <4> QED
        BY <4>2, <4>4 DEF Sleeping, Hangs
    <3> QED
      BY <3>3, <3>4 DEF SearchOK
  <2> QED
    BY <2>1, <2>2
<1>16. Distinct(runq)'
  BY <1>1, <1>2
<1>17. ListsInv'
  BY <1>5, <1>11, <1>13, <1>14, <1>15, <1>16 DEF ListsInv
<1>18. \A u \in Thread : wake(u)' = wake(u)
  BY <1>8, <1>10 DEF wake
<1> QED
  BY <1>5, <1>17, <1>18

\* The timer takes a column off the list, and its top is runnable or about to be.
LEMMA NextThreadLists ==
    ASSUME ListsInv, NEW now \in 0..W - 1, NextThread(now)
    PROVE  /\ ListsInv'
           /\ \A u \in Thread : wake(u)' = wake(u)
           /\ \A u \in Thread : /\ crab'[u].pth = crab[u].pth
                                /\ crab'[u].vertical = crab[u].vertical
                                /\ crab'[u].ok => crab[u].ok
<1> DEFINE t == Head(top)
           runs == Expired(now) /\ state[t] # "needsrun"
<1>1. /\ CurMSec' = now /\ dwReschedTime' = dwReschedTime /\ tail' = tail /\ runth' = runth
      /\ cprio' = cprio /\ bprio' = bprio /\ needSleep' = needSleep /\ suspended' = suspended
      /\ pc' = pc /\ target' = target
      /\ top' = IF Expired(now) THEN Tail(top) ELSE top
      /\ Forget(IF Expired(now) THEN {t} ELSE {})
      /\ runq' = IF runs THEN Enqueue(runq, t, cprio[t], cprio) ELSE runq
      /\ state' = IF runs THEN [state EXCEPT ![t] = "runnable"] ELSE state
  BY DEF NextThread, prioVars
<1>2. resched' \in BOOLEAN
  BY DEF NextThread
<1>3. TypeOK /\ ListTypes /\ ColumnsOK /\ Distinct(runq) /\ Carried
  BY DEF ListsInv, TypeOK, ListTypes
<1>4. \A u \in Thread : SearchOK(u)
  BY DEF ListsInv
<1>5. CASE ~Expired(now)
  <2>1. /\ top' = top /\ tail' = tail /\ runq' = runq /\ state' = state /\ Forget({})
    BY <1>1, <1>5
  <2>2. \A u \in Thread : (Sleeping(u)' <=> Sleeping(u)) /\ (Queued(u, top') <=> Queued(u, top))
    BY <1>1, <2>1 DEF Sleeping, Hangs
  <2>3. /\ crab' \in [Thread -> [pth : Thread \cup {None}, ok : BOOLEAN,
                                 vertical : BOOLEAN, wake : 0..W - 1]]
        /\ \A u \in Thread : /\ SearchOK(u)' /\ wake(u)' = wake(u)
                             /\ crab'[u].pth = crab[u].pth
                             /\ crab'[u].vertical = crab[u].vertical
                             /\ crab'[u].ok => crab[u].ok
    BY <1>1, <1>3, <1>4, <2>1, <2>2, ForgetKeeps
  <2>4. TypeOK'
    BY <1>1, <1>2, <1>3, <2>1, <2>3 DEF TypeOK
  <2>5. ColumnsOK' /\ Distinct(runq)' /\ Carried'
    BY <1>1, <1>3, <2>1 DEF ColumnsOK, Carried
  <2>6. ASSUME NEW u \in Thread PROVE PlaceOK(u)'
    <3>1. PlaceOK(u)
      BY DEF ListsInv
    <3> QED
      BY <1>1, <2>1, <2>2, <3>1 DEF PlaceOK
  <2> QED
    BY <2>3, <2>4, <2>5, <2>6 DEF ListsInv
<1>6. CASE Expired(now)
  <2>1. top # <<>> /\ top' = Tail(top) /\ Forget({t})
    BY <1>1, <1>6 DEF Expired
  <2>2. /\ ListTypes' /\ ColumnsOK' /\ t \in Thread /\ Queued(t, top)
        /\ \A v \in Thread : Sleeping(v)' <=> Sleeping(v) /\ v # t
        /\ \A v \in Thread : Queued(v, top') <=> Queued(v, top) /\ v # t
    BY <1>1, <1>3, <2>1, FirstOff
  <2>3. PlaceOK(t) /\ Sleeping(t)
    BY <2>2 DEF ListsInv, Sleeping
  <2>4. state[t] \in {"blocked", "needsrun"} /\ ~Queued(t, runq) /\ t \notin suspended
    BY <2>3 DEF PlaceOK
  <2> HIDE DEF t
  <2>5. \A u \in Thread : state'[u] = IF u = t /\ runs THEN "runnable" ELSE state[u]
    BY <1>1, <1>3 DEF TypeOK
  <2>6. /\ runq' \in Seq(Thread) /\ Distinct(runq')
        /\ \A u \in Thread : Queued(u, runq') <=> Queued(u, runq) \/ (runs /\ u = t)
    <3>1. CASE runs
      <4>1. runq' = Enqueue(runq, t, cprio[t], cprio)
        BY <1>1, <3>1
      <4>2. runq \in Seq(Thread)
        BY <1>3 DEF TypeOK
      <4> HIDE DEF runs
      <4> QED
        BY <1>3, <2>2, <2>4, <3>1, <4>1, <4>2, EnqueueAdds
    <3>2. CASE ~runs
      BY <1>1, <1>3, <3>2 DEF TypeOK
    <3> QED
      BY <3>1, <3>2
  <2>7. runs <=> state[t] = "blocked"
    BY <1>6, <2>4
  <2> HIDE DEF runs
  <2>8. /\ crab' \in [Thread -> [pth : Thread \cup {None}, ok : BOOLEAN,
                                 vertical : BOOLEAN, wake : 0..W - 1]]
        /\ \A u \in Thread : /\ SearchOK(u)' /\ wake(u)' = wake(u)
                             /\ crab'[u].pth = crab[u].pth
                             /\ crab'[u].vertical = crab[u].vertical
                             /\ crab'[u].ok => crab[u].ok
    <3>1. /\ \A v \in Thread : v \notin {t} => (Sleeping(v) => Sleeping(v)')
          /\ \A v \in Thread : v \notin {t} => (Queued(v, top) => Queued(v, top'))
      BY <2>2
    <3> QED
      BY <1>1, <1>3, <1>4, <2>1, <3>1, ForgetKeeps
  <2>9. state' \in [Thread -> {"running", "runnable", "blocked", "needsrun"}]
    BY <1>1, <1>3 DEF TypeOK
  <2>10. TypeOK'
    BY <1>1, <1>2, <1>3, <2>2, <2>6, <2>8, <2>9 DEF TypeOK, ListTypes
  <2>11. Carried'
    BY <1>1, <1>3, <2>2, <2>4, <2>5, <2>7 DEF Carried
  <2>12. ASSUME NEW u \in Thread PROVE PlaceOK(u)'
    <3>1. PlaceOK(u)
      BY DEF ListsInv
    <3>2. state'[u] = "needsrun" => \E r \in Thread : pc'[r] = "signal" /\ target'[r] = u
      BY <1>1, <2>5, <3>1 DEF PlaceOK
    <3>3. CASE u = t
      BY <1>1, <2>2, <2>4, <2>5, <2>6, <2>7, <3>1, <3>2, <3>3 DEF PlaceOK
    <3>4. CASE u # t
      <4>1. /\ state'[u] = state[u] /\ (Sleeping(u)' <=> Sleeping(u))
            /\ (Queued(u, runq') <=> Queued(u, runq))
        BY <2>2, <2>5, <2>6, <3>4
      <4> QED
        BY <1>1, <3>1, <3>2, <4>1 DEF PlaceOK
    <3> QED
      BY <3>3, <3>4
  <2> QED
    BY <2>2, <2>6, <2>8, <2>10, <2>11, <2>12 DEF ListsInv
<1> QED
  BY <1>5, <1>6

\* A thread is resumed.
LEMMA ResumeLists ==
    ASSUME ListsInv, NEW r \in Thread, NEW t \in Thread, Resume(r, t) PROVE ListsInv'
<1>1. /\ t \in suspended /\ suspended' = suspended \ {t}
      /\ runq' = Enqueue(runq, t, cprio[t], cprio)
      /\ state' = [state EXCEPT ![t] = "runnable"]
      /\ top' = top /\ tail' = tail /\ runth' = runth /\ CurMSec' = CurMSec
      /\ dwReschedTime' = dwReschedTime /\ cprio' = cprio /\ bprio' = bprio
      /\ needSleep' = needSleep /\ pc' = pc /\ target' = target /\ crab' = crab
  BY DEF Resume, MakeRun, clockVars, listVars, prioVars
<1>2. resched' \in BOOLEAN
  BY DEF Resume, MakeRun
<1>3. TypeOK /\ ColumnsOK /\ Distinct(runq) /\ Carried /\ PlaceOK(t) /\ runq \in Seq(Thread)
  BY DEF ListsInv, TypeOK
<1>4. state[t] = "blocked" /\ ~Sleeping(t) /\ ~Queued(t, runq)
  BY <1>1, <1>3 DEF PlaceOK
<1>5. /\ runq' \in Seq(Thread) /\ Distinct(runq')
      /\ \A u : Queued(u, runq') <=> u = t \/ Queued(u, runq)
  BY <1>1, <1>3, <1>4, EnqueueAdds
<1>6. \A u \in Thread : state'[u] = IF u = t THEN "runnable" ELSE state[u]
  BY <1>1, <1>3 DEF TypeOK
<1>7. TypeOK'
  BY <1>1, <1>2, <1>3, <1>5 DEF TypeOK
<1>8. ColumnsOK' /\ Carried'
  BY <1>1, <1>3, <1>6 DEF ColumnsOK, Carried
<1>9. \A u \in Thread : Sleeping(u)' <=> Sleeping(u)
  BY <1>1 DEF Sleeping, Hangs
<1>10. ASSUME NEW u \in Thread PROVE PlaceOK(u)'
  <2>1. PlaceOK(u)
    BY DEF ListsInv
  <2>2. state'[u] = "needsrun" => \E k \in Thread : pc'[k] = "signal" /\ target'[k] = u
    BY <1>1, <1>6, <2>1 DEF PlaceOK
  <2>3. CASE u = t
    BY <1>1, <1>4, <1>5, <1>6, <1>9, <2>1, <2>2, <2>3 DEF PlaceOK
  <2>4. CASE u # t
    <3>1. state'[u] = state[u] /\ (Queued(u, runq') <=> Queued(u, runq))
          /\ (u \in suspended' <=> u \in suspended)
      BY <1>1, <1>5, <1>6, <2>4
    <3> QED
      BY <1>1, <1>9, <2>1, <2>2, <3>1 DEF PlaceOK
  <2> QED
    BY <2>3, <2>4
<1>11. ASSUME NEW u \in Thread PROVE SearchOK(u)'
  <2>1. SearchOK(u)
    BY DEF ListsInv
  <2> QED
    BY <1>1, <2>1 DEF SearchOK, Sleeping, Hangs
<1> QED
  BY <1>5, <1>7, <1>8, <1>10, <1>11 DEF ListsInv

\* A sleeper is taken out of the list,
LEMMA TakenOut ==
    ASSUME ListsInv, NEW t \in Thread, Sleeping(t), SleepqDequeue(t),
           \A u \in Thread : pc[u] = "crab" => pc'[u] = "crab"
    PROVE  /\ ListTypes' /\ ColumnsOK'
           /\ \A v \in Thread : Sleeping(v)' <=> Sleeping(v) /\ v # t
           /\ \A h \in Thread : tail'[h] # <<>> =>
                 Queued(h, top') \/ (tail[h] # <<>> /\ ~Queued(h, top))
           /\ crab' \in [Thread -> [pth : Thread \cup {None}, ok : BOOLEAN,
                                    vertical : BOOLEAN, wake : 0..W - 1]]
           /\ \A u \in Thread : /\ SearchOK(u)' /\ wake(u)' = wake(u)
                                /\ crab'[u].pth = crab[u].pth
                                /\ crab'[u].vertical = crab[u].vertical
                                /\ crab'[u].ok => crab[u].ok
<1>1. TypeOK /\ ListTypes /\ ColumnsOK /\ \A u \in Thread : SearchOK(u)
  BY DEF ListsInv, TypeOK, ListTypes
<1>2. /\ ListTypes' /\ ColumnsOK'
      /\ \A v \in Thread : Sleeping(v)' <=> Sleeping(v) /\ v # t
      /\ \A v \in Thread : Queued(v, top) /\ v # t => Queued(v, top')
      /\ \A h \in Thread : tail'[h] # <<>> =>
            Queued(h, top') \/ (tail[h] # <<>> /\ ~Queued(h, top))
  BY <1>1, SleeperOut
<1>3. Forget({t})
  BY DEF SleepqDequeue
<1>4. /\ \A v \in Thread : v \notin {t} => (Sleeping(v) => Sleeping(v)')
      /\ \A v \in Thread : v \notin {t} => (Queued(v, top) => Queued(v, top'))
  BY <1>2
<1>5. /\ crab' \in [Thread -> [pth : Thread \cup {None}, ok : BOOLEAN,
                               vertical : BOOLEAN, wake : 0..W - 1]]
      /\ \A u \in Thread : /\ SearchOK(u)' /\ wake(u)' = wake(u)
                           /\ crab'[u].pth = crab[u].pth
                           /\ crab'[u].vertical = crab[u].vertical
                           /\ crab'[u].ok => crab[u].ok
  BY <1>1, <1>3, <1>4, ForgetKeeps
<1> QED
  BY <1>2, <1>5

\* and a thread leaves the run queue, with others below it.
LEMMA Parted ==
    ASSUME ListsInv, NEW t \in Thread, ~Sleeping(t),
           top' = top, tail' = TailsWithout(t), Forget(Released(t)),
           \A u \in Thread : pc[u] = "crab" => pc'[u] = "crab"
    PROVE  /\ ListTypes' /\ ColumnsOK'
           /\ \A v \in Thread : Sleeping(v)' <=> Sleeping(v) /\ v \notin Released(t)
           /\ \A h \in Thread : tail'[h] # <<>> => h # t /\ (tail[h] # <<>> \/ h \in Released(t))
           /\ Woken(t) \subseteq Released(t) /\ Released(t) \subseteq Thread
           /\ \A d \in Released(t) : /\ d # t /\ d \notin suspended /\ Sleeping(d)
                                     /\ ~Queued(d, runq)
                                     /\ state[d] = IF d \in Woken(t) THEN "blocked" ELSE "needsrun"
           /\ crab' \in [Thread -> [pth : Thread \cup {None}, ok : BOOLEAN,
                                    vertical : BOOLEAN, wake : 0..W - 1]]
           /\ \A u \in Thread : /\ SearchOK(u)' /\ wake(u)' = wake(u)
                                /\ crab'[u].pth = crab[u].pth
                                /\ crab'[u].vertical = crab[u].vertical
                                /\ crab'[u].ok => crab[u].ok
<1>1. TypeOK /\ ListTypes /\ ColumnsOK /\ \A u \in Thread : SearchOK(u)
  BY DEF ListsInv, TypeOK, ListTypes
<1>2. /\ ListTypes' /\ ColumnsOK'
      /\ \A v \in Thread : Sleeping(v)' <=> Sleeping(v) /\ v \notin Released(t)
      /\ \A h \in Thread : tail'[h] # <<>> =>
            h # t /\ (tail[h] # <<>> \/ (h \in Released(t) /\ tail[t] # <<>>))
      /\ Released(t) \subseteq Thread
      /\ \A v \in Released(t) : Hangs(v) /\ Queued(v, tail[t])
  BY <1>1, TailsParted
<1>3. /\ \A v \in Thread : v \notin Released(t) => (Sleeping(v) => Sleeping(v)')
      /\ \A v \in Thread : v \notin Released(t) => (Queued(v, top) => Queued(v, top'))
  BY <1>2
<1>4. /\ crab' \in [Thread -> [pth : Thread \cup {None}, ok : BOOLEAN,
                               vertical : BOOLEAN, wake : 0..W - 1]]
      /\ \A u \in Thread : /\ SearchOK(u)' /\ wake(u)' = wake(u)
                           /\ crab'[u].pth = crab[u].pth
                           /\ crab'[u].vertical = crab[u].vertical
                           /\ crab'[u].ok => crab[u].ok
  BY <1>1, <1>3, ForgetKeeps
<1>5. Woken(t) \subseteq Released(t)
  BY DEF Woken
<1>6. ASSUME NEW d \in Released(t)
      PROVE  /\ d # t /\ d \notin suspended /\ Sleeping(d) /\ ~Queued(d, runq)
             /\ state[d] = IF d \in Woken(t) THEN "blocked" ELSE "needsrun"
  <2>1. Sleeping(d) /\ d \in Thread
    BY <1>2 DEF Sleeping
  <2>2. PlaceOK(d)
    BY <2>1 DEF ListsInv
  <2>3. state[d] \in {"blocked", "needsrun"} /\ d \notin suspended /\ ~Queued(d, runq)
    BY <2>1, <2>2 DEF PlaceOK
  <2> QED
    BY <2>1, <2>3 DEF Woken
<1> QED
  BY <1>2, <1>4, <1>5, <1>6

\* The waker makes the thread runnable that it has marked, if nobody has.
LEMMA MakeRunLists ==
    ASSUME ListsInv, NEW r \in Thread, MakeRunIfNeeded(r)
    PROVE  ListsInv' /\ \A u \in Thread : wake(u)' = wake(u)
<1> DEFINE t == target[r]
<1>1. /\ runth = r /\ pc[r] = "signal"
      /\ IF state[t] = "needsrun"
         THEN /\ IF Sleeping(t) THEN SleepqDequeue(t) ELSE UNCHANGED <<listVars, crab>>
              /\ MakeRun(t)
         ELSE UNCHANGED <<listVars, runq, resched, state, crab>>
      /\ pc' = [pc EXCEPT ![r] = "run"]
      /\ target' = [target EXCEPT ![r] = None]
      /\ CurMSec' = CurMSec /\ dwReschedTime' = dwReschedTime /\ runth' = runth
      /\ cprio' = cprio /\ bprio' = bprio /\ needSleep' = needSleep /\ suspended' = suspended
  BY DEF MakeRunIfNeeded, Runs, clockVars, prioVars
<1>2. TypeOK /\ ListTypes /\ ColumnsOK /\ Distinct(runq) /\ Carried /\ runq \in Seq(Thread)
  BY DEF ListsInv, TypeOK, ListTypes
<1>3. PlaceOK(r) /\ t \in Thread /\ PlaceOK(t) /\ ~Sleeping(r) /\ state[r] = "running"
  BY <1>1, RunningFacts DEF ListsInv, PlaceOK
<1> HIDE DEF t
<1>4. \A u \in Thread : /\ pc'[u] = IF u = r THEN "run" ELSE pc[u]
                        /\ target'[u] = IF u = r THEN None ELSE target[u]
  BY <1>1, <1>2 DEF TypeOK
<1>5. \A u \in Thread : pc[u] = "crab" => pc'[u] = "crab"
  BY <1>1, <1>4
<1>6. pc' \in [Thread -> {"run", "crab", "asleep", "signal"}]
      /\ target' \in [Thread -> Thread \cup {None}]
  BY <1>1, <1>2 DEF TypeOK
<1>7. ASSUME NEW u \in Thread, state[u] = "needsrun", u # t
      PROVE  \E k \in Thread : pc'[k] = "signal" /\ target'[k] = u
  <2>1. PICK k \in Thread : pc[k] = "signal" /\ target[k] = u
    BY <1>7 DEF ListsInv, PlaceOK
  <2>2. k # r
    BY <1>7, <2>1 DEF t
  <2> QED
    BY <1>4, <2>1, <2>2
<1>8. CASE state[t] = "needsrun"
  <2>1. /\ runq' = Enqueue(runq, t, cprio[t], cprio)
        /\ state' = [state EXCEPT ![t] = "runnable"] /\ resched' \in BOOLEAN
        /\ IF Sleeping(t) THEN SleepqDequeue(t)
           ELSE top' = top /\ tail' = tail /\ crab' = crab
    BY <1>1, <1>8 DEF MakeRun, listVars
  <2>2. ~Queued(t, runq) /\ t \notin suspended /\ t # r
    BY <1>3, <1>8 DEF PlaceOK
  <2>3. /\ ListTypes' /\ ColumnsOK'
        /\ \A v \in Thread : Sleeping(v)' <=> Sleeping(v) /\ v # t
        /\ \A h \in Thread : tail'[h] # <<>> =>
              Queued(h, top') \/ (tail[h] # <<>> /\ ~Queued(h, top))
        /\ crab' \in [Thread -> [pth : Thread \cup {None}, ok : BOOLEAN,
                                 vertical : BOOLEAN, wake : 0..W - 1]]
        /\ \A u \in Thread : SearchOK(u)' /\ wake(u)' = wake(u)
    <3>1. CASE Sleeping(t)
      <4>1. SleepqDequeue(t)
        BY <2>1, <3>1
      <4> QED
        BY <1>3, <1>5, <3>1, <4>1, TakenOut
    <3>2. CASE ~Sleeping(t)
      <4>1. top' = top /\ tail' = tail /\ crab' = crab
        BY <2>1, <3>2
      <4>2. ListTypes' /\ ColumnsOK'
        BY <1>2, <4>1 DEF ListTypes, ColumnsOK
      <4>3. \A v \in Thread : Sleeping(v)' <=> Sleeping(v)
        BY <4>1 DEF Sleeping, Hangs
      <4>4. ASSUME NEW u \in Thread PROVE SearchOK(u)' /\ wake(u)' = wake(u)
        <5>1. SearchOK(u)
          BY DEF ListsInv
        <5> QED
          BY <1>5, <4>1, <5>1 DEF SearchOK, Sleeping, Hangs, wake
      <4>5. crab' \in [Thread -> [pth : Thread \cup {None}, ok : BOOLEAN,
                                  vertical : BOOLEAN, wake : 0..W - 1]]
        BY <1>2, <4>1 DEF TypeOK
      <4>6. \A h \in Thread : tail'[h] # <<>> =>
               Queued(h, top') \/ (tail[h] # <<>> /\ ~Queued(h, top))
        BY <4>1
      <4> QED
        BY <3>2, <4>2, <4>3, <4>4, <4>5, <4>6
    <3> QED
      BY <3>1, <3>2
  <2>4. /\ runq' \in Seq(Thread) /\ Distinct(runq')
        /\ \A u : Queued(u, runq') <=> u = t \/ Queued(u, runq)
    BY <1>2, <1>3, <2>1, <2>2, EnqueueAdds
  <2>5. \A u \in Thread : state'[u] = IF u = t THEN "runnable" ELSE state[u]
    BY <1>2, <2>1 DEF TypeOK
  <2>6. state' \in [Thread -> {"running", "runnable", "blocked", "needsrun"}]
    BY <1>2, <2>1 DEF TypeOK
  <2>7. TypeOK'
    BY <1>1, <1>2, <1>6, <2>1, <2>3, <2>4, <2>6 DEF TypeOK, ListTypes
  <2>8. Carried'
    BY <1>2, <2>3, <2>5 DEF Carried
  <2>9. ASSUME NEW u \in Thread PROVE PlaceOK(u)'
    <3>1. PlaceOK(u)
      BY DEF ListsInv
    <3>2. CASE u = t
      BY <1>1, <1>4, <2>2, <2>3, <2>4, <2>5, <3>1, <3>2 DEF PlaceOK
    <3>3. CASE u # t
      <4>1. /\ state'[u] = state[u] /\ (Queued(u, runq') <=> Queued(u, runq))
            /\ (Sleeping(u)' <=> Sleeping(u))
        BY <2>3, <2>4, <2>5, <3>3
      <4>2. state'[u] = "needsrun" => \E k \in Thread : pc'[k] = "signal" /\ target'[k] = u
        BY <1>7, <3>3, <4>1
      <4> QED
        BY <1>1, <1>3, <1>4, <3>1, <4>1, <4>2 DEF PlaceOK
    <3> QED
      BY <3>2, <3>3
  <2> QED
    BY <2>3, <2>4, <2>7, <2>8, <2>9 DEF ListsInv
<1>9. CASE state[t] # "needsrun"
  <2>1. /\ top' = top /\ tail' = tail /\ runq' = runq /\ resched' = resched /\ state' = state
        /\ crab' = crab
    BY <1>1, <1>9 DEF listVars
  <2>2. TypeOK' /\ ColumnsOK' /\ Distinct(runq)' /\ Carried'
    BY <1>1, <1>2, <1>6, <2>1 DEF TypeOK, ColumnsOK, Carried
  <2>3. \A v \in Thread : Sleeping(v)' <=> Sleeping(v)
    BY <2>1 DEF Sleeping, Hangs
  <2>4. ASSUME NEW u \in Thread PROVE SearchOK(u)' /\ wake(u)' = wake(u)
    <3>1. SearchOK(u)
      BY DEF ListsInv
    <3> QED
      BY <1>5, <2>1, <3>1 DEF SearchOK, Sleeping, Hangs, wake
  <2>5. ASSUME NEW u \in Thread PROVE PlaceOK(u)'
    <3>1. PlaceOK(u)
      BY DEF ListsInv
    <3>2. state'[u] = "needsrun" => \E k \in Thread : pc'[k] = "signal" /\ target'[k] = u
      BY <1>7, <1>9, <2>1
    <3> QED
      BY <1>1, <1>3, <1>4, <2>1, <2>3, <3>1, <3>2 DEF PlaceOK
  <2> QED
    BY <2>2, <2>4, <2>5 DEF ListsInv
<1> QED
  BY <1>8, <1>9

\* A thread is suspended on the spot.
LEMMA SuspendLists ==
    ASSUME ListsInv, NEW r \in Thread, NEW t \in Thread, Suspend(r, t)
    PROVE  ListsInv' /\ \A u \in Thread : wake(u)' = wake(u)
<1>1. /\ t \notin suspended /\ t # r /\ suspended' = suspended \cup {t}
      /\ state' = [u \in Thread |-> IF u = t THEN "blocked"
                                    ELSE IF state[t] = "runnable" /\ u \in Woken(t)
                                    THEN "runnable" ELSE state[u]]
      /\ \/ /\ state[t] = "runnable" /\ pc[t] = "run"
            /\ runq' = RunqWithout(runq, t, cprio)
            /\ tail' = TailsWithout(t)
            /\ Forget(Released(t))
            /\ UNCHANGED <<top, needSleep>>
         \/ state[t] = "blocked" /\ Sleeping(t) /\ Resleep(t) /\ UNCHANGED runq
      /\ runth = r /\ runth' = runth /\ resched' = resched /\ CurMSec' = CurMSec
      /\ dwReschedTime' = dwReschedTime /\ cprio' = cprio /\ bprio' = bprio
      /\ pc' = pc /\ target' = target
  BY DEF Suspend, Runs, clockVars, prioVars
<1>2. TypeOK /\ ListTypes /\ ColumnsOK /\ Distinct(runq) /\ Carried /\ runq \in Seq(Thread)
  BY DEF ListsInv, TypeOK, ListTypes
<1>3. PlaceOK(t) /\ \A u \in Thread : pc[u] = "crab" => pc'[u] = "crab"
  BY <1>1 DEF ListsInv
<1>4. /\ \A u \in Thread : state'[u] = IF u = t THEN "blocked"
                                       ELSE IF state[t] = "runnable" /\ u \in Woken(t)
                                       THEN "runnable" ELSE state[u]
      /\ state' \in [Thread -> {"running", "runnable", "blocked", "needsrun"}]
  <2>1. \A u \in Thread : state[u] \in {"running", "runnable", "blocked", "needsrun"}
    BY <1>2 DEF TypeOK
  <2> QED
    BY <1>1, <2>1
<1>5. ASSUME NEW u \in Thread, state[u] = "needsrun"
      PROVE  \E k \in Thread : pc'[k] = "signal" /\ target'[k] = u
  <2>1. PICK k \in Thread : pc[k] = "signal" /\ target[k] = u
    BY <1>5 DEF ListsInv, PlaceOK
  <2> QED
    BY <1>1, <2>1
<1>6. CASE state[t] = "runnable"
  <2>1. /\ pc[t] = "run" /\ runq' = RunqWithout(runq, t, cprio) /\ tail' = TailsWithout(t)
        /\ Forget(Released(t)) /\ top' = top /\ needSleep' = needSleep
    BY <1>1, <1>6
  <2>2. ~Sleeping(t) /\ Queued(t, runq)
    BY <1>3, <1>6 DEF PlaceOK
  <2>3. /\ ListTypes' /\ ColumnsOK'
        /\ \A v \in Thread : Sleeping(v)' <=> Sleeping(v) /\ v \notin Released(t)
        /\ \A h \in Thread : tail'[h] # <<>> => h # t /\ (tail[h] # <<>> \/ h \in Released(t))
        /\ Woken(t) \subseteq Released(t) /\ Released(t) \subseteq Thread
        /\ \A d \in Released(t) : /\ d # t /\ d \notin suspended /\ Sleeping(d)
                                  /\ ~Queued(d, runq)
                                  /\ state[d] = IF d \in Woken(t) THEN "blocked" ELSE "needsrun"
        /\ crab' \in [Thread -> [pth : Thread \cup {None}, ok : BOOLEAN,
                                 vertical : BOOLEAN, wake : 0..W - 1]]
        /\ \A u \in Thread : SearchOK(u)' /\ wake(u)' = wake(u)
    BY <1>3, <2>1, <2>2, Parted
  <2>4. /\ runq' \in Seq(Thread) /\ Distinct(runq')
        /\ \A u : Queued(u, runq') <=> u \in Woken(t) \/ (u # t /\ Queued(u, runq))
    <3>1. \A d \in Woken(t) : ~Queued(d, runq)
      BY <2>3
    <3> QED
      BY <1>2, <2>1, <2>2, <3>1, RunqParted
  <2>5. TypeOK'
    <3>1. suspended' \subseteq Thread
      BY <1>1, <1>2 DEF TypeOK
    <3> QED
      BY <1>1, <1>2, <1>4, <2>1, <2>3, <2>4, <3>1 DEF TypeOK, ListTypes
  <2>6. Carried'
    BY <1>2, <1>4, <1>6, <2>1, <2>3 DEF Carried
  <2>7. ASSUME NEW u \in Thread PROVE PlaceOK(u)'
    <3>1. PlaceOK(u)
      BY DEF ListsInv
    <3>2. CASE u = t
      <4>1. /\ state'[u] = "blocked" /\ ~Queued(u, runq') /\ ~Sleeping(u)' /\ u \in suspended'
            /\ pc'[u] = "run" /\ runth' # u
        BY <1>1, <1>4, <2>1, <2>2, <2>3, <2>4, <3>2
      <4> QED
        BY <4>1 DEF PlaceOK
    <3>3. CASE u \in Woken(t)
      <4>1. /\ state'[u] = "runnable" /\ Queued(u, runq') /\ ~Sleeping(u)' /\ u \notin suspended'
            /\ pc'[u] = pc[u] /\ target'[u] = target[u] /\ runth' # u
        BY <1>1, <1>4, <1>6, <2>3, <2>4, <3>1, <3>3 DEF PlaceOK
      <4> QED
        BY <3>1, <4>1 DEF PlaceOK
    <3>4. CASE u # t /\ u \notin Woken(t)
      <4>1. /\ state'[u] = state[u] /\ (Queued(u, runq') <=> Queued(u, runq))
            /\ (u \in suspended' <=> u \in suspended)
            /\ (Sleeping(u)' => Sleeping(u))
            /\ Sleeping(u) /\ ~Sleeping(u)' => state[u] = "needsrun"
        BY <1>1, <1>4, <2>3, <2>4, <3>4
      <4>2. state'[u] = "needsrun" => \E k \in Thread : pc'[k] = "signal" /\ target'[k] = u
        BY <1>5, <4>1
      <4> QED
        BY <1>1, <3>1, <4>1, <4>2 DEF PlaceOK
    <3> QED
      BY <3>2, <3>3, <3>4
  <2> QED
    BY <2>3, <2>4, <2>5, <2>6, <2>7 DEF ListsInv
<1>7. CASE state[t] # "runnable"
  <2>1. /\ state[t] = "blocked" /\ Sleeping(t) /\ SleepqDequeue(t) /\ runq' = runq
        /\ needSleep' = needSleep \cup {t}
    BY <1>1, <1>7 DEF Resleep
  <2>2. /\ ListTypes' /\ ColumnsOK'
        /\ \A v \in Thread : Sleeping(v)' <=> Sleeping(v) /\ v # t
        /\ \A h \in Thread : tail'[h] # <<>> =>
              Queued(h, top') \/ (tail[h] # <<>> /\ ~Queued(h, top))
        /\ crab' \in [Thread -> [pth : Thread \cup {None}, ok : BOOLEAN,
                                 vertical : BOOLEAN, wake : 0..W - 1]]
        /\ \A u \in Thread : SearchOK(u)' /\ wake(u)' = wake(u)
    BY <1>3, <2>1, TakenOut
  <2>3. \A u \in Thread : state'[u] = state[u]
    BY <1>4, <1>7, <2>1
  <2>4. TypeOK'
    <3>1. suspended' \subseteq Thread /\ needSleep' \subseteq Thread
      BY <1>1, <1>2, <2>1 DEF TypeOK
    <3> QED
      BY <1>1, <1>2, <1>4, <2>1, <2>2, <3>1 DEF TypeOK, ListTypes
  <2>5. Carried'
    BY <1>2, <2>2, <2>3 DEF Carried
  <2>6. ASSUME NEW u \in Thread PROVE PlaceOK(u)'
    <3>1. PlaceOK(u)
      BY DEF ListsInv
    <3>2. state'[u] = "needsrun" => \E k \in Thread : pc'[k] = "signal" /\ target'[k] = u
      BY <1>5, <2>3
    <3>3. CASE u = t
      BY <1>1, <2>1, <2>2, <2>3, <3>1, <3>2, <3>3 DEF PlaceOK
    <3>4. CASE u # t
      <4>1. (u \in suspended' <=> u \in suspended) /\ (Sleeping(u)' <=> Sleeping(u))
            /\ state'[u] = state[u]
        BY <1>1, <2>2, <2>3, <3>4
      <4> QED
        BY <1>1, <2>1, <3>1, <3>2, <4>1 DEF PlaceOK
    <3> QED
      BY <3>3, <3>4
  <2> QED
    BY <1>2, <2>1, <2>2, <2>4, <2>5, <2>6 DEF ListsInv
<1> QED
  BY <1>6, <1>7

\* A thread is given another priority.
LEMMA BasePrioLists ==
    ASSUME ListsInv, NEW r \in Thread, NEW t \in Thread, NEW p \in Prio, SetThreadBasePrio(r, t, p)
    PROVE  ListsInv' /\ \A u \in Thread : wake(u)' = wake(u)
<1> DEFINE prio == [cprio EXCEPT ![t] = p]
           q == RunqWithout(runq, t, cprio)
<1>1. /\ bprio' = [bprio EXCEPT ![t] = p] /\ runth = r /\ runth' = runth /\ CurMSec' = CurMSec
      /\ dwReschedTime' = dwReschedTime /\ suspended' = suspended
      /\ pc' = pc /\ target' = target /\ cprio' \in {cprio, prio} /\ resched' \in BOOLEAN
  <2>1. resched \in BOOLEAN
    BY DEF ListsInv, TypeOK
  <2>2. /\ bprio' = [bprio EXCEPT ![t] = p] /\ runth = r /\ runth' = runth /\ CurMSec' = CurMSec
        /\ dwReschedTime' = dwReschedTime /\ suspended' = suspended
        /\ pc' = pc /\ target' = target /\ cprio' \in {cprio, prio}
    BY DEF SetThreadBasePrio, Runs, clockVars
  <2>3. resched' = resched \/ resched' \in BOOLEAN
    BY DEF SetThreadBasePrio, Preempts
  <2> QED
    BY <2>1, <2>2, <2>3
<1>2. TypeOK /\ ListTypes /\ ColumnsOK /\ Distinct(runq) /\ Carried /\ runq \in Seq(Thread)
  BY DEF ListsInv, TypeOK, ListTypes
<1>3. PlaceOK(t) /\ \A u \in Thread : pc[u] = "crab" => pc'[u] = "crab"
  BY <1>1 DEF ListsInv
<1>4. bprio' \in [Thread -> Prio] /\ cprio' \in [Thread -> Prio]
  <2>1. cprio \in [Thread -> Prio] /\ bprio \in [Thread -> Prio]
    BY <1>2 DEF TypeOK
  <2>2. prio \in [Thread -> Prio] /\ [bprio EXCEPT ![t] = p] \in [Thread -> Prio]
    BY <2>1
  <2> HIDE DEF prio
  <2> QED
    BY <1>1, <2>1, <2>2
<1>5. ASSUME NEW u \in Thread, state[u] = "needsrun"
      PROVE  \E k \in Thread : pc'[k] = "signal" /\ target'[k] = u
  <2>1. PICK k \in Thread : pc[k] = "signal" /\ target[k] = u
    BY <1>5 DEF ListsInv, PlaceOK
  <2> QED
    BY <1>1, <2>1
<1>6. \/ top' = top /\ tail' = tail /\ runq' = runq /\ state' = state
         /\ needSleep' = needSleep /\ crab' = crab
      \/ /\ t # r /\ state[t] = "runnable" /\ runq' = Enqueue(q, t, p, prio)
         /\ tail' = TailsWithout(t) /\ Forget(Released(t))
         /\ state' = [u \in Thread |-> IF u \in Woken(t) THEN "runnable" ELSE state[u]]
         /\ top' = top /\ needSleep' = needSleep
      \/ /\ t # r /\ Hangs(t) /\ state[t] # "needsrun" /\ SleepqDequeue(t)
         /\ needSleep' = needSleep \cup {t}
         /\ runq' = Enqueue(runq, t, p, cprio)
         /\ state' = [state EXCEPT ![t] = "runnable"]
  BY DEF SetThreadBasePrio, Resleep, listVars
<1> HIDE DEF prio, q
<1>7. CASE top' = top /\ tail' = tail /\ runq' = runq /\ state' = state
           /\ needSleep' = needSleep /\ crab' = crab
  <2>1. TypeOK' /\ ColumnsOK' /\ Distinct(runq)' /\ Carried'
    BY <1>1, <1>2, <1>4, <1>7 DEF TypeOK, ColumnsOK, Carried
  <2>2. \A v \in Thread : Sleeping(v)' <=> Sleeping(v)
    BY <1>7 DEF Sleeping, Hangs
  <2>3. ASSUME NEW u \in Thread PROVE SearchOK(u)' /\ wake(u)' = wake(u)
    <3>1. SearchOK(u)
      BY DEF ListsInv
    <3> QED
      BY <1>1, <1>7, <3>1 DEF SearchOK, Sleeping, Hangs, wake
  <2>4. ASSUME NEW u \in Thread PROVE PlaceOK(u)'
    <3>1. PlaceOK(u)
      BY DEF ListsInv
    <3>2. state'[u] = "needsrun" => \E k \in Thread : pc'[k] = "signal" /\ target'[k] = u
      BY <1>5, <1>7
    <3> QED
      BY <1>1, <1>7, <2>2, <3>1, <3>2 DEF PlaceOK
  <2> QED
    BY <2>1, <2>3, <2>4 DEF ListsInv
<1>8. CASE /\ t # r /\ state[t] = "runnable" /\ runq' = Enqueue(q, t, p, prio)
           /\ tail' = TailsWithout(t) /\ Forget(Released(t))
           /\ state' = [u \in Thread |-> IF u \in Woken(t) THEN "runnable" ELSE state[u]]
           /\ top' = top /\ needSleep' = needSleep
  <2>2. ~Sleeping(t) /\ Queued(t, runq)
    BY <1>3, <1>8 DEF PlaceOK
  <2>3. /\ ListTypes' /\ ColumnsOK'
        /\ \A v \in Thread : Sleeping(v)' <=> Sleeping(v) /\ v \notin Released(t)
        /\ \A h \in Thread : tail'[h] # <<>> => h # t /\ (tail[h] # <<>> \/ h \in Released(t))
        /\ Woken(t) \subseteq Released(t) /\ Released(t) \subseteq Thread
        /\ \A d \in Released(t) : /\ d # t /\ d \notin suspended /\ Sleeping(d)
                                  /\ ~Queued(d, runq)
                                  /\ state[d] = IF d \in Woken(t) THEN "blocked" ELSE "needsrun"
        /\ crab' \in [Thread -> [pth : Thread \cup {None}, ok : BOOLEAN,
                                 vertical : BOOLEAN, wake : 0..W - 1]]
        /\ \A u \in Thread : SearchOK(u)' /\ wake(u)' = wake(u)
    BY <1>3, <1>8, <2>2, Parted
  <2>4. /\ runq' \in Seq(Thread) /\ Distinct(runq')
        /\ \A u : Queued(u, runq') <=> u \in Woken(t) \/ Queued(u, runq)
    <3>1. \A d \in Woken(t) : ~Queued(d, runq)
      BY <2>3
    <3>2. /\ q \in Seq(Thread) /\ Distinct(q)
          /\ \A u : Queued(u, q) <=> u \in Woken(t) \/ (u # t /\ Queued(u, runq))
      BY <1>2, <2>2, <3>1, RunqParted DEF q
    <3>3. ~Queued(t, q)
      BY <2>3, <3>2
    <3>4. /\ Enqueue(q, t, p, prio) \in Seq(Thread) /\ Distinct(Enqueue(q, t, p, prio))
          /\ \A u : Queued(u, Enqueue(q, t, p, prio)) <=> u = t \/ Queued(u, q)
      BY <3>2, <3>3, EnqueueAdds
    <3> QED
      BY <1>8, <2>2, <3>2, <3>4
  <2>5. /\ \A u \in Thread : state'[u] = IF u \in Woken(t) THEN "runnable" ELSE state[u]
        /\ state' \in [Thread -> {"running", "runnable", "blocked", "needsrun"}]
    <3>1. \A u \in Thread : state[u] \in {"running", "runnable", "blocked", "needsrun"}
      BY <1>2 DEF TypeOK
    <3> QED
      BY <1>8, <3>1
  <2>6. TypeOK'
    BY <1>1, <1>2, <1>4, <1>8, <2>3, <2>4, <2>5 DEF TypeOK, ListTypes
  <2>7. Carried'
    BY <1>2, <1>8, <2>3, <2>5 DEF Carried
  <2>8. ASSUME NEW u \in Thread PROVE PlaceOK(u)'
    <3>1. PlaceOK(u)
      BY DEF ListsInv
    <3>3. CASE u \in Woken(t)
      <4>1. /\ state'[u] = "runnable" /\ Queued(u, runq') /\ ~Sleeping(u)' /\ u \notin suspended'
            /\ pc'[u] = pc[u] /\ target'[u] = target[u] /\ runth' # u
        BY <1>1, <2>3, <2>4, <2>5, <3>1, <3>3 DEF PlaceOK
      <4> QED
        BY <3>1, <4>1 DEF PlaceOK
    <3>4. CASE u \notin Woken(t)
      <4>1. /\ state'[u] = state[u] /\ (Queued(u, runq') <=> Queued(u, runq))
            /\ (Sleeping(u)' => Sleeping(u))
            /\ Sleeping(u) /\ ~Sleeping(u)' => state[u] = "needsrun"
        BY <2>3, <2>4, <2>5, <3>4
      <4>2. state'[u] = "needsrun" => \E k \in Thread : pc'[k] = "signal" /\ target'[k] = u
        BY <1>5, <4>1
      <4> QED
        BY <1>1, <3>1, <4>1, <4>2 DEF PlaceOK
    <3> QED
      BY <3>3, <3>4
  <2> QED
    BY <2>3, <2>4, <2>6, <2>7, <2>8 DEF ListsInv
<1>9. CASE /\ t # r /\ Hangs(t) /\ state[t] # "needsrun" /\ SleepqDequeue(t)
           /\ needSleep' = needSleep \cup {t}
           /\ runq' = Enqueue(runq, t, p, cprio)
           /\ state' = [state EXCEPT ![t] = "runnable"]
  <2>1. Sleeping(t) /\ state[t] = "blocked" /\ t \notin suspended /\ ~Queued(t, runq)
    BY <1>3, <1>9 DEF Sleeping, PlaceOK
  <2>2. /\ ListTypes' /\ ColumnsOK'
        /\ \A v \in Thread : Sleeping(v)' <=> Sleeping(v) /\ v # t
        /\ \A h \in Thread : tail'[h] # <<>> =>
              Queued(h, top') \/ (tail[h] # <<>> /\ ~Queued(h, top))
        /\ crab' \in [Thread -> [pth : Thread \cup {None}, ok : BOOLEAN,
                                 vertical : BOOLEAN, wake : 0..W - 1]]
        /\ \A u \in Thread : SearchOK(u)' /\ wake(u)' = wake(u)
    BY <1>3, <1>9, <2>1, TakenOut
  <2>3. /\ runq' \in Seq(Thread) /\ Distinct(runq')
        /\ \A u : Queued(u, runq') <=> u = t \/ Queued(u, runq)
    BY <1>2, <1>9, <2>1, EnqueueAdds
  <2>4. /\ \A u \in Thread : state'[u] = IF u = t THEN "runnable" ELSE state[u]
        /\ state' \in [Thread -> {"running", "runnable", "blocked", "needsrun"}]
        /\ needSleep' \subseteq Thread
    BY <1>2, <1>9 DEF TypeOK
  <2>5. TypeOK'
    BY <1>1, <1>2, <1>4, <2>2, <2>3, <2>4 DEF TypeOK, ListTypes
  <2>6. Carried'
    BY <1>2, <2>2, <2>4 DEF Carried
  <2>7. ASSUME NEW u \in Thread PROVE PlaceOK(u)'
    <3>1. PlaceOK(u)
      BY DEF ListsInv
    <3>2. CASE u = t
      BY <1>1, <2>1, <2>2, <2>3, <2>4, <3>1, <3>2 DEF PlaceOK
    <3>3. CASE u # t
      <4>1. /\ state'[u] = state[u] /\ (Sleeping(u)' <=> Sleeping(u))
            /\ (Queued(u, runq') <=> Queued(u, runq))
        BY <2>2, <2>3, <2>4, <3>3
      <4>2. state'[u] = "needsrun" => \E k \in Thread : pc'[k] = "signal" /\ target'[k] = u
        BY <1>5, <4>1
      <4> QED
        BY <1>1, <3>1, <4>1, <4>2 DEF PlaceOK
    <3> QED
      BY <3>2, <3>3
  <2> QED
    BY <2>2, <2>3, <2>5, <2>6, <2>7 DEF ListsInv
<1> QED
  BY <1>6, <1>7, <1>8, <1>9

\* An entry that goes behind the first of a queue.
LEMMA BehindHead ==
    ASSUME NEW T, NEW q \in Seq(T), Distinct(q), q # <<>>, NEW t \in T, ~Queued(t, q),
           NEW prio, NEW p
    PROVE  /\ prio[Head(q)] <= p => Head(Enqueue(q, t, p, prio)) = Head(q)
           /\ prio[Head(q)] < p => Head(EnqueueFirst(q, t, p, prio)) = Head(q)
           /\ EnqueueFirst(q, t, p, prio) \in Seq(T) /\ Distinct(EnqueueFirst(q, t, p, prio))
           /\ EnqueueFirst(q, t, p, prio) # <<>>
           /\ \A u : Queued(u, EnqueueFirst(q, t, p, prio)) <=> u = t \/ Queued(u, q)
<1>1. Len(q) \in Nat /\ DOMAIN q = 1..Len(q) /\ 1 \in DOMAIN q /\ Head(q) = q[1]
  BY LenProperties, HeadQueued, EmptySeq
<1>2. ASSUME NEW S \in SUBSET (DOMAIN q), 1 \in S
      PROVE  Cardinality(S) \in 1..Len(q)
  <2>1. Cardinality(S) \in 0..Len(q)
    BY PrefixSize
  <2>2. IsFiniteSet(S)
    <3>1. IsFiniteSet(1..Len(q))
      BY <1>1, FS_Interval
    <3> QED
      BY <1>1, <3>1, FS_Subset
  <2>3. Cardinality(S) # 0
    BY <1>2, <2>2, FS_EmptySet
  <2> QED
    BY <1>1, <2>1, <2>3
<1> DEFINE A == {i \in DOMAIN q : prio[q[i]] <= p}
           B == {i \in DOMAIN q : prio[q[i]] < p}
<1>3. A \in SUBSET (DOMAIN q) /\ B \in SUBSET (DOMAIN q)
  OBVIOUS
<1>4. /\ Enqueue(q, t, p, prio) = InsertAt(q, t, Cardinality(A))
      /\ EnqueueFirst(q, t, p, prio) = InsertAt(q, t, Cardinality(B))
  BY DEF Enqueue, EnqueueFirst, InsertAt, Ahead
<1>5. /\ prio[Head(q)] <= p => 1 \in A
      /\ prio[Head(q)] < p => 1 \in B
  BY <1>1
<1> HIDE DEF A, B
<1>6. Cardinality(A) \in 0..Len(q) /\ Cardinality(B) \in 0..Len(q)
  BY <1>3, PrefixSize
<1>7. \A n \in 0..Len(q) :
         /\ InsertAt(q, t, n) \in Seq(T) /\ InsertAt(q, t, n) # <<>> /\ Distinct(InsertAt(q, t, n))
         /\ \A u : Queued(u, InsertAt(q, t, n)) <=> u = t \/ Queued(u, q)
         /\ n # 0 => Head(InsertAt(q, t, n)) = Head(q)
  BY Inserted
<1>8. /\ prio[Head(q)] <= p => Cardinality(A) # 0
      /\ prio[Head(q)] < p => Cardinality(B) # 0
  BY <1>1, <1>2, <1>3, <1>5
<1> QED
  BY <1>4, <1>6, <1>7, <1>8

\* The queue as KCNextThread leaves it before it takes its first: with the running thread
\* put back or not.
LEMMA PutBack ==
    ASSUME ListsInv, NEW quantumOver \in BOOLEAN
    PROVE  LET q == RunqToDispatch(quantumOver)
           IN  \/ q = runq
               \/ /\ q \in Seq(Thread) /\ Distinct(q) /\ q # <<>> /\ q # runq
                  /\ runth \in Thread /\ runq # <<>> /\ Head(q) = Head(runq)
                  /\ \A u : Queued(u, q) <=> u = runth \/ Queued(u, runq)
<1>1. TypeOK /\ runq \in Seq(Thread) /\ Distinct(runq)
  BY DEF ListsInv, TypeOK
<1>2. CASE runth = None \/ runq = <<>>
  BY <1>2 DEF RunqToDispatch
<1>3. CASE runth # None /\ runq # <<>>
  <2>1. runth \in Thread /\ ~Queued(runth, runq)
    BY <1>1, <1>3, RunningFacts DEF TypeOK
  <2>2. Head(runq) \in Thread
    BY <1>1, <1>3, HeadQueued
  <2>3. cprio[runth] \in Nat /\ cprio[Head(runq)] \in Nat
    BY <1>1, <2>1, <2>2, SleepListAssumption DEF TypeOK
  <2> DEFINE a == EnqueueFirst(runq, runth, cprio[runth], cprio)
             b == Enqueue(runq, runth, cprio[runth], cprio)
  <2>4. /\ b \in Seq(Thread) /\ Distinct(b) /\ b # <<>>
        /\ \A u : Queued(u, b) <=> u = runth \/ Queued(u, runq)
    BY <1>1, <2>1, EnqueueAdds
  <2>5. /\ cprio[Head(runq)] <= cprio[runth] => Head(b) = Head(runq)
        /\ cprio[Head(runq)] < cprio[runth] => Head(a) = Head(runq)
        /\ a \in Seq(Thread) /\ Distinct(a) /\ a # <<>>
        /\ \A u : Queued(u, a) <=> u = runth \/ Queued(u, runq)
    BY <1>1, <1>3, <2>1, BehindHead
  <2>6. a # runq /\ b # runq
    BY <2>1, <2>4, <2>5
  <2> HIDE DEF a, b
  <2>7. CASE cprio[runth] > cprio[Head(runq)]
    BY <1>3, <2>1, <2>3, <2>4, <2>5, <2>6, <2>7 DEF a, b, RunqToDispatch
  <2>8. CASE cprio[runth] = cprio[Head(runq)] /\ quantumOver
    BY <1>3, <2>1, <2>3, <2>4, <2>5, <2>6, <2>8 DEF a, b, RunqToDispatch
  <2>9. CASE /\ ~(cprio[runth] > cprio[Head(runq)])
             /\ ~(cprio[runth] = cprio[Head(runq)] /\ quantumOver)
    BY <1>3, <2>9 DEF RunqToDispatch
  <2> QED
    BY <2>7, <2>8, <2>9
<1> QED
  BY <1>2, <1>3

\* Dispatch: a thread from the run queue takes the place of the running one.
LEMMA KCNextThreadLists ==
    ASSUME ListsInv, KCNextThread
    PROVE  /\ ListsInv' /\ \A u \in Thread : wake(u)' = wake(u)
           /\ \/ tail' = tail /\ crab' = crab
              \/ \E x \in Thread :
                    ~Sleeping(x) /\ tail' = TailsWithout(x) /\ Forget(Released(x))
<1>1. PICK quantumOver \in BOOLEAN :
    LET q == RunqToDispatch(quantumOver)
        stays == runth # None /\ q = runq
        t == IF stays THEN runth ELSE IF q = <<>> THEN None ELSE Head(q)
        head == IF top = <<>> THEN Add(CurMSec, Half - 1) ELSE wake(Head(top))
        prio == IF stays \/ t = None \/ bprio[t] < cprio[t] THEN cprio
                ELSE [cprio EXCEPT ![t] = bprio[t]]
        rest == RunqWithout(q, t, cprio)
    IN
    /\ resched
    /\ runth' = t
    /\ cprio' = prio
    /\ \E end \in {head, Add(CurMSec, 1)} :
          /\ end = head \/ (t # None /\ Diff(end, head) < 0)
          /\ dwReschedTime' = end
    /\ IF stays \/ t = None
       THEN resched' = FALSE /\ UNCHANGED <<runq, tail, state, crab>>
       ELSE /\ runq' = rest
            /\ tail' = TailsWithout(t)
            /\ Forget(Released(t))
            /\ state' = [u \in Thread |-> IF u = t THEN "running"
                                          ELSE IF u = runth \/ u \in Woken(t) THEN "runnable"
                                          ELSE state[u]]
            /\ resched' = (prio[t] > cprio[t] /\ rest # <<>> /\ prio[t] > prio[Head(rest)])
    /\ UNCHANGED <<CurMSec, top, bprio, needSleep, suspended, pc, target>>
  BY DEF KCNextThread
<1> DEFINE q == RunqToDispatch(quantumOver)
           stays == runth # None /\ q = runq
           t == IF stays THEN runth ELSE IF q = <<>> THEN None ELSE Head(q)
<1>2. \/ q = runq
      \/ /\ q \in Seq(Thread) /\ Distinct(q) /\ q # <<>> /\ q # runq
         /\ runth \in Thread /\ runq # <<>> /\ Head(q) = Head(runq)
         /\ \A u : Queued(u, q) <=> u = runth \/ Queued(u, runq)
  BY PutBack
<1>3. /\ runth' = t
      /\ cprio' = IF stays \/ t = None \/ bprio[t] < cprio[t] THEN cprio
                  ELSE [cprio EXCEPT ![t] = bprio[t]]
      /\ dwReschedTime' \in {IF top = <<>> THEN Add(CurMSec, Half - 1) ELSE wake(Head(top)),
                             Add(CurMSec, 1)}
      /\ IF stays \/ t = None
         THEN resched' = FALSE /\ runq' = runq /\ tail' = tail /\ state' = state /\ crab' = crab
         ELSE /\ runq' = RunqWithout(q, t, cprio)
              /\ tail' = TailsWithout(t)
              /\ Forget(Released(t))
              /\ state' = [u \in Thread |-> IF u = t THEN "running"
                                            ELSE IF u = runth \/ u \in Woken(t) THEN "runnable"
                                            ELSE state[u]]
              /\ resched' \in BOOLEAN
      /\ CurMSec' = CurMSec /\ top' = top /\ bprio' = bprio /\ needSleep' = needSleep
      /\ suspended' = suspended /\ pc' = pc /\ target' = target
  BY <1>1
<1> HIDE DEF q
<1>4. TypeOK /\ ListTypes /\ ColumnsOK /\ Distinct(runq) /\ Carried /\ runq \in Seq(Thread)
      /\ None \notin Thread
  BY SleepListAssumption DEF ListsInv, TypeOK, ListTypes
<1>5. \A u \in Thread : pc[u] = "crab" => pc'[u] = "crab"
  BY <1>3
<1>6. dwReschedTime' \in 0..W - 1
  <2>1. Add(CurMSec, Half - 1) \in 0..W - 1 /\ Add(CurMSec, 1) \in 0..W - 1
    <3>1. CurMSec \in Int /\ Half - 1 \in Int /\ 1 \in Int
      BY <1>4, SleepListAssumption DEF TypeOK, W
    <3> QED
      BY <3>1, AddType
  <2>2. top # <<>> => wake(Head(top)) \in 0..W - 1
    <3> SUFFICES ASSUME top # <<>> PROVE wake(Head(top)) \in 0..W - 1
      OBVIOUS
    <3>1. Head(top) \in Thread
      BY <1>4, HeadQueued DEF ListTypes
    <3> QED
      BY <1>4, <3>1 DEF TypeOK, wake
  <2> QED
    BY <1>3, <2>1, <2>2
<1>7. ASSUME NEW u \in Thread, state[u] = "needsrun"
      PROVE  \E k \in Thread : pc'[k] = "signal" /\ target'[k] = u
  <2>1. PICK k \in Thread : pc[k] = "signal" /\ target[k] = u
    BY <1>7 DEF ListsInv, PlaceOK
  <2> QED
    BY <1>3, <2>1
<1>8. t = None \/ t \in Thread
  <2>1. runth = None \/ runth \in Thread
    BY <1>4 DEF TypeOK
  <2>2. q \in Seq(Thread)
    BY <1>2, <1>4
  <2>3. q # <<>> => Head(q) \in Thread
    BY <2>2, HeadQueued
  <2> QED
    BY <2>1, <2>3
<1>9. cprio' \in [Thread -> Prio]
  BY <1>3, <1>4, <1>8 DEF TypeOK
<1>10. CASE stays \/ t = None
  <2>1. runth' = runth
    <3>1. CASE stays
      BY <1>3, <3>1
    <3>2. CASE ~stays /\ t = None
      <4>1. q = <<>>
        <5>1. q \in Seq(Thread)
          BY <1>2, <1>4
        <5>2. q # <<>> => Head(q) \in Thread
          BY <5>1, HeadQueued
        <5> QED
          BY <1>4, <3>2, <5>2
      <4>2. q = runq
        BY <1>2, <4>1
      <4> QED
        BY <1>3, <3>2, <4>2
    <3> QED
      BY <1>10, <3>1, <3>2
  <2> HIDE DEF stays, t
  <2>2. /\ runq' = runq /\ tail' = tail /\ state' = state /\ crab' = crab /\ resched' \in BOOLEAN
    BY <1>3, <1>10
  <2>3. TypeOK' /\ ColumnsOK' /\ Distinct(runq)' /\ Carried'
    BY <1>3, <1>4, <1>6, <1>9, <2>1, <2>2 DEF TypeOK, ColumnsOK, Carried
  <2>4. \A v \in Thread : Sleeping(v)' <=> Sleeping(v)
    BY <1>3, <2>2 DEF Sleeping, Hangs
  <2>5. ASSUME NEW u \in Thread PROVE SearchOK(u)' /\ wake(u)' = wake(u)
    <3>1. SearchOK(u)
      BY DEF ListsInv
    <3> QED
      BY <1>3, <2>2, <3>1 DEF SearchOK, Sleeping, Hangs, wake
  <2>6. ASSUME NEW u \in Thread PROVE PlaceOK(u)'
    <3>1. PlaceOK(u)
      BY DEF ListsInv
    <3>2. state'[u] = "needsrun" => \E k \in Thread : pc'[k] = "signal" /\ target'[k] = u
      BY <1>7, <2>2
    <3> QED
      BY <1>3, <2>1, <2>2, <2>4, <3>1, <3>2 DEF PlaceOK
  <2> QED
    BY <2>2, <2>3, <2>5, <2>6 DEF ListsInv
<1>11. CASE ~stays /\ t # None
  <2>1. /\ q \in Seq(Thread) /\ Distinct(q) /\ q # <<>> /\ t = Head(q) /\ t = Head(runq)
        /\ runq # <<>> /\ t \in Thread
        /\ \A u \in Thread : Queued(u, q) <=> u = runth \/ Queued(u, runq)
    BY <1>2, <1>4, <1>8, <1>11
  <2> HIDE DEF stays, t
  <2>2. /\ runq' = RunqWithout(q, t, cprio) /\ tail' = TailsWithout(t) /\ Forget(Released(t))
        /\ state' = [u \in Thread |-> IF u = t THEN "running"
                                      ELSE IF u = runth \/ u \in Woken(t) THEN "runnable"
                                      ELSE state[u]]
        /\ resched' \in BOOLEAN /\ top' = top /\ runth' = t
    BY <1>3, <1>11
  <2>3. Queued(t, runq)
    BY <1>4, <2>1, HeadQueued
  <2>4. state[t] = "runnable" /\ ~Sleeping(t) /\ t \notin suspended /\ t # runth
    <3>1. PlaceOK(t)
      BY <2>1 DEF ListsInv
    <3> QED
      BY <2>3, <3>1 DEF PlaceOK
  <2>5. /\ ListTypes' /\ ColumnsOK'
        /\ \A v \in Thread : Sleeping(v)' <=> Sleeping(v) /\ v \notin Released(t)
        /\ \A h \in Thread : tail'[h] # <<>> => h # t /\ (tail[h] # <<>> \/ h \in Released(t))
        /\ Woken(t) \subseteq Released(t) /\ Released(t) \subseteq Thread
        /\ \A d \in Released(t) : /\ d # t /\ d \notin suspended /\ Sleeping(d)
                                  /\ ~Queued(d, runq)
                                  /\ state[d] = IF d \in Woken(t) THEN "blocked" ELSE "needsrun"
        /\ crab' \in [Thread -> [pth : Thread \cup {None}, ok : BOOLEAN,
                                 vertical : BOOLEAN, wake : 0..W - 1]]
        /\ \A u \in Thread : SearchOK(u)' /\ wake(u)' = wake(u)
    BY <1>5, <2>1, <2>2, <2>4, Parted
  <2>6. \A d \in Released(t) : d # runth /\ ~Queued(d, q)
    <3> SUFFICES ASSUME NEW d \in Released(t) PROVE d # runth /\ ~Queued(d, q)
      OBVIOUS
    <3>1. d \in Thread /\ PlaceOK(d)
      BY <2>5 DEF ListsInv
    <3>2. d # runth
      BY <2>5, <3>1 DEF PlaceOK
    <3> QED
      BY <2>1, <2>5, <3>1, <3>2
  <2>7. /\ runq' \in Seq(Thread) /\ Distinct(runq')
        /\ \A u \in Thread : Queued(u, runq') <=>
              u \in Woken(t) \/ u = runth \/ (u # t /\ Queued(u, runq))
    <3>1. Queued(t, q) /\ \A d \in Woken(t) : ~Queued(d, q)
      BY <2>1, <2>3, <2>5, <2>6
    <3>2. /\ runq' \in Seq(Thread) /\ Distinct(runq')
          /\ \A u : Queued(u, runq') <=> u \in Woken(t) \/ (u # t /\ Queued(u, q))
      BY <1>4, <2>1, <2>2, <3>1, RunqParted
    <3> QED
      BY <2>1, <2>4, <3>2
  <2>8. /\ \A u \in Thread : state'[u] = IF u = t THEN "running"
                                         ELSE IF u = runth \/ u \in Woken(t) THEN "runnable"
                                         ELSE state[u]
        /\ state' \in [Thread -> {"running", "runnable", "blocked", "needsrun"}]
    <3>1. \A u \in Thread : state[u] \in {"running", "runnable", "blocked", "needsrun"}
      BY <1>4 DEF TypeOK
    <3> QED
      BY <2>2, <3>1
  <2>9. TypeOK'
    <3>1. runth' \in Thread \cup {None} /\ resched' \in BOOLEAN
      BY <2>1, <2>2
    <3>2. /\ top' \in Seq(Thread) /\ tail' \in [Thread -> Seq(Thread)]
          /\ state' \in [Thread -> {"running", "runnable", "blocked", "needsrun"}]
      BY <2>5, <2>8 DEF ListTypes
    <3>3. /\ CurMSec' = CurMSec /\ bprio' = bprio /\ needSleep' = needSleep
          /\ suspended' = suspended /\ pc' = pc /\ target' = target
      BY <1>3
    <3> QED
      BY <1>4, <1>6, <1>9, <2>5, <2>7, <3>1, <3>2, <3>3 DEF TypeOK
  <2>10. Carried'
    BY <1>4, <2>2, <2>5, <2>8 DEF Carried
  <2>11. ASSUME NEW u \in Thread PROVE PlaceOK(u)'
    <3>1. PlaceOK(u) /\ pc'[u] = pc[u] /\ target'[u] = target[u] /\ runth' = t
          /\ suspended' = suspended
      BY <1>3, <2>2 DEF ListsInv
    <3>2. CASE u = t
      <4>1. /\ state'[u] = "running" /\ ~Queued(u, runq') /\ ~Sleeping(u)' /\ u \notin suspended'
        BY <2>4, <2>5, <2>7, <2>8, <3>1, <3>2
      <4> QED
        BY <3>1, <3>2, <4>1 DEF PlaceOK
    <3>3. CASE u \in Woken(t)
      <4>1. /\ state'[u] = "runnable" /\ Queued(u, runq') /\ ~Sleeping(u)' /\ u \notin suspended'
            /\ u # t
        BY <2>5, <2>7, <2>8, <3>1, <3>3
      <4> QED
        BY <3>1, <4>1 DEF PlaceOK
    <3>4. CASE u = runth
      <4>1. /\ state'[u] = "runnable" /\ Queued(u, runq') /\ ~Sleeping(u)' /\ u \notin suspended'
            /\ u # t
        BY <2>4, <2>5, <2>7, <2>8, <3>1, <3>4 DEF PlaceOK
      <4> QED
        BY <3>1, <4>1 DEF PlaceOK
    <3>5. CASE u # t /\ u # runth /\ u \notin Woken(t)
      <4>1. /\ state'[u] = state[u] /\ (Queued(u, runq') <=> Queued(u, runq))
            /\ (Sleeping(u)' => Sleeping(u))
            /\ Sleeping(u) /\ ~Sleeping(u)' => state[u] = "needsrun"
        BY <2>5, <2>7, <2>8, <3>5
      <4>2. state'[u] = "needsrun" => \E k \in Thread : pc'[k] = "signal" /\ target'[k] = u
        BY <1>7, <4>1
      <4> QED
        BY <3>1, <3>5, <4>1, <4>2 DEF PlaceOK
    <3> QED
      BY <3>2, <3>3, <3>4, <3>5
  <2>12. ListsInv' /\ \A u \in Thread : wake(u)' = wake(u)
    BY <2>5, <2>7, <2>9, <2>10, <2>11 DEF ListsInv
  <2> QED
    BY <2>1, <2>2, <2>4, <2>12
<1> QED
  BY <1>10, <1>11

\* A stutter.
LEMMA StutterLists ==
    ASSUME ListsInv, UNCHANGED vars PROVE ListsInv' /\ \A u \in Thread : wake(u)' = wake(u)
<1>1. /\ CurMSec' = CurMSec /\ dwReschedTime' = dwReschedTime /\ top' = top /\ tail' = tail
      /\ runq' = runq /\ runth' = runth /\ resched' = resched /\ state' = state
      /\ cprio' = cprio /\ bprio' = bprio /\ needSleep' = needSleep /\ suspended' = suspended
      /\ pc' = pc /\ target' = target /\ crab' = crab
  BY DEF vars, clockVars, listVars, schedVars, prioVars
<1>2. TypeOK' /\ ColumnsOK' /\ Distinct(runq)' /\ Carried'
  BY <1>1 DEF ListsInv, TypeOK, ColumnsOK, Carried
<1>3. ASSUME NEW u \in Thread PROVE PlaceOK(u)' /\ SearchOK(u)' /\ wake(u)' = wake(u)
  <2>1. PlaceOK(u) /\ SearchOK(u)
    BY DEF ListsInv
  <2> QED
    BY <1>1, <2>1 DEF PlaceOK, SearchOK, Sleeping, Hangs, wake
<1> QED
  BY <1>2, <1>3 DEF ListsInv

\* At the start all are in the run queue.
LEMMA InitLists == ASSUME Init PROVE ListsInv
<1> DEFINE N == Cardinality(Thread)
<1>1. PICK order \in [1..N -> Thread] : Distinct(order) /\ runq = order
  BY DEF Init
<1>2. /\ CurMSec = 0 /\ dwReschedTime = Add(0, Half - 1)
      /\ top = <<>> /\ tail = [t \in Thread |-> <<>>] /\ runth = None /\ resched = TRUE
      /\ state = [t \in Thread |-> "runnable"] /\ cprio = FirstPrio /\ bprio = FirstPrio
      /\ needSleep = {} /\ suspended = {} /\ pc = [t \in Thread |-> "run"]
      /\ target = [t \in Thread |-> None] /\ crab = [t \in Thread |-> Start(0)]
  BY DEF Init
<1>3. IsFiniteSet(Thread) /\ N \in Nat /\ None \notin Thread /\ FirstPrio \in [Thread -> Prio]
  BY SleepListAssumption, FS_CardinalityType
<1> HIDE DEF N
<1>4. runq \in Seq(Thread) /\ Distinct(runq)
  BY <1>1, <1>3
<1>5. \A t \in Thread : Queued(t, runq)
  <2>1. IsFiniteSet(1..N) /\ Cardinality(1..N) = N
    BY <1>3, FS_Interval
  <2>2. order \in Injection(1..N, Thread)
    BY <1>1 DEF Injection, IsInjective, Distinct
  <2>3. order \in Surjection(1..N, Thread)
    BY <1>3, <2>1, <2>2, FS_Injection DEF N
  <2> QED
    BY <1>1, <2>3 DEF Surjection, Queued
<1>6. 0 \in 0..W - 1 /\ Add(0, Half - 1) \in 0..W - 1
  <2>1. 0 \in Int /\ Half - 1 \in Int /\ 0 \in 0..W - 1
    BY SleepListAssumption DEF W
  <2> QED
    BY <2>1, AddType
<1>7. /\ Start(0) \in [pth : Thread \cup {None}, ok : BOOLEAN, vertical : BOOLEAN, wake : 0..W - 1]
      /\ Start(0).pth = None /\ Start(0).vertical = FALSE
  BY <1>6, StartType
<1> DEFINE c == Start(0)
<1> HIDE DEF c
<1>8. crab = [t \in Thread |-> c]
  BY <1>2 DEF c
<1>9. \A t \in Thread : crab[t] = c /\ c.pth = None /\ c.vertical = FALSE
  BY <1>7, <1>8 DEF c
<1>10. crab \in [Thread -> [pth : Thread \cup {None}, ok : BOOLEAN, vertical : BOOLEAN,
                            wake : 0..W - 1]]
  BY <1>7, <1>8 DEF c
<1>11. TypeOK
  <2>1. <<>> \in Seq(Thread) /\ tail \in [Thread -> Seq(Thread)] /\ top \in Seq(Thread)
    BY <1>2
  <2> QED
    BY <1>2, <1>3, <1>4, <1>6, <1>10, <2>1 DEF TypeOK
<1>12. \A u : ~Queued(u, <<>>)
  BY EmptyQueue
<1>13. \A h \in Thread : tail[h] = <<>>
  BY <1>2
<1>14. ColumnsOK /\ Carried
  <2>1. Distinct(<<>>)
    BY DEF Distinct
  <2> QED
    BY <1>2, <1>12, <1>13, <2>1 DEF ColumnsOK, Carried
<1>15. \A t \in Thread : ~Sleeping(t)
  BY <1>2, <1>12, <1>13 DEF Sleeping, Hangs
<1>16. ASSUME NEW t \in Thread PROVE PlaceOK(t) /\ SearchOK(t)
  <2>1. state[t] = "runnable" /\ pc[t] = "run" /\ t # runth /\ t \notin suspended
    BY <1>2, <1>3
  <2> QED
    BY <1>5, <1>9, <1>15, <2>1 DEF PlaceOK, SearchOK
<1> QED
  BY <1>4, <1>11, <1>14, <1>16 DEF ListsInv

-----------------------------------------------------------------------------
(* No thread is lost *)

\* Every step keeps the lists.
LEMMA NextLists == ListsInv /\ [Next]_vars => ListsInv'
<1> SUFFICES ASSUME ListsInv, [Next]_vars PROVE ListsInv'
  OBVIOUS
<1>1. CASE Tick \/ Interrupt
  <2>1. CurMSec \in 0..W - 1 /\ Add(CurMSec, 1) \in 0..W - 1
    <3>1. CurMSec \in 0..W - 1
      BY DEF ListsInv, TypeOK
    <3>2. CurMSec \in Int /\ 1 \in Int
      BY <3>1, SleepListAssumption DEF W
    <3> QED
      BY <3>1, <3>2, AddType
  <2>2. NextThread(CurMSec) \/ NextThread(Add(CurMSec, 1))
    BY <1>1 DEF Tick, Interrupt
  <2> QED
    BY <2>1, <2>2, NextThreadLists
<1>2. CASE KCNextThread
  BY <1>2, KCNextThreadLists
<1>3. ASSUME NEW t \in Thread,
             \/ \E d \in Times : BeginSleep(t, d)
             \/ SleepNot(t) \/ SleepSearch(t) \/ SleepPlace(t) \/ Return(t) \/ MakeRunIfNeeded(t)
      PROVE  ListsInv'
  BY <1>3, BeginSleepLists, CallEnds, SleepSearchLists, SleepPlaceLists, MakeRunLists
<1>4. ASSUME NEW t \in Thread, NEW u \in Thread,
             \/ Signal(t, u) \/ Suspend(t, u) \/ Resume(t, u)
             \/ \E p \in Prio : SetThreadBasePrio(t, u, p)
      PROVE  ListsInv'
  BY <1>4, SignalLists, SuspendLists, ResumeLists, BasePrioLists
<1>5. CASE UNCHANGED vars
  BY <1>5, StutterLists
<1> QED
  BY <1>1, <1>2, <1>3, <1>4, <1>5 DEF Next

\* The invariant says that no thread is lost.
LEMMA ListsSoundHolds == ListsInv => ListsSound
<1> SUFFICES ASSUME ListsInv PROVE ListsSound
  OBVIOUS
<1>1. TypeOK /\ ColumnsOK /\ Distinct(runq) /\ Carried
  BY DEF ListsInv
<1>2. ASSUME NEW t \in Thread
      PROVE  /\ state[t] = "running" <=> runth = t
             /\ state[t] = "runnable" <=> Queued(t, runq)
             /\ state[t] = "needsrun" => \E r \in Thread : pc[r] = "signal" /\ target[r] = t
             /\ state[t] = "blocked" => Sleeping(t) \/ t \in suspended
             /\ Sleeping(t) => state[t] \in {"blocked", "needsrun"} /\ pc[t] = "asleep"
  BY DEF ListsInv, PlaceOK
<1>3. ASSUME NEW t \in Thread
      PROVE  /\ Distinct(tail[t]) /\ ~(Queued(t, top) /\ Hangs(t))
             /\ \A u \in Thread \ {t} : \A v \in Thread :
                   ~(Queued(v, tail[t]) /\ Queued(v, tail[u]))
  BY <1>1 DEF ColumnsOK, Hangs
<1> QED
  BY <1>1, <1>2, <1>3 DEF ListsSound, NoThreadLost, ColumnsOK

\* No thread is lost between the list of sleepers, the columns that hang below a thread in
\* the run queue and the run queue itself, whoever is signalled, suspended or given another
\* priority in the middle of a search (SleepqDequeue, RunqDequeue, SleepOneMore).
THEOREM ListsAreSound == Spec => []ListsSound
<1>1. Spec => []ListsInv
  BY InitLists, NextLists, PTL DEF Spec
<1> QED
  BY <1>1, ListsSoundHolds, PTL

-----------------------------------------------------------------------------
(* Clock values: differences are exact between times less than half the clock apart *)

\* The assumptions on the clock.
LEMMA ClockFacts ==
    /\ Half \in Nat /\ Half >= 2 /\ W \in Nat /\ W = 2 * Half /\ W > 0
    /\ MaxLate \in Nat /\ MaxLate + 1 < Half
BY SleepListAssumption DEF W

\* The remainder of a number that is not far from 0..W - 1.
LEMMA ModIs ==
    ASSUME NEW x \in Int, 0 <= x, x < 3 * W
    PROVE  /\ x % W \in 0..W - 1
           /\ x % W = x \/ x % W = x - W \/ x % W = x - 2 * W
<1>1. W \in Nat /\ W > 0
  BY ClockFacts
<1> HIDE DEF W
<1>2. CASE x < W
  BY <1>1, <1>2
<1>3. CASE W <= x /\ x < 2 * W
  BY <1>1, <1>3
<1>4. CASE 2 * W <= x
  BY <1>1, <1>4
<1> QED
  BY <1>1, <1>2, <1>3, <1>4

\* What a difference is.
LEMMA DiffIs ==
    ASSUME NEW a \in 0..W - 1, NEW b \in 0..W - 1
    PROVE  /\ Diff(a, b) \in -Half..Half - 1
           /\ Diff(a, b) = a - b \/ Diff(a, b) = a - b + W \/ Diff(a, b) = a - b - W
<1>1. W \in Nat /\ W = 2 * Half /\ Half \in Nat /\ W > 0
  BY ClockFacts
<1> HIDE DEF W
<1> DEFINE x == a - b + W + Half
<1>2. x \in Int /\ 0 <= x /\ x < 3 * W
  BY <1>1
<1>3. Diff(a, b) = (x % W) - Half
  BY DEF Diff
<1>4. x % W \in 0..W - 1 /\ (x % W = x \/ x % W = x - W \/ x % W = x - 2 * W)
  BY <1>2, ModIs
<1> DEFINE m == x % W
<1> HIDE DEF m
<1>5. m \in 0..W - 1 /\ (m = x \/ m = x - W \/ m = x - 2 * W) /\ Diff(a, b) = m - Half
  BY <1>3, <1>4 DEF m
<1> QED
  BY <1>1, <1>5

\* What a sum is.
LEMMA AddIs ==
    ASSUME NEW a \in 0..W - 1, NEW d \in 0..Half
    PROVE  Add(a, d) \in 0..W - 1 /\ (Add(a, d) = a + d \/ Add(a, d) = a + d - W)
<1>1. W \in Nat /\ W = 2 * Half /\ Half \in Nat /\ W > 0
  BY ClockFacts
<1> DEFINE x == a + d
           m == x % W
<1>2. Add(a, d) = m
  BY DEF Add
<1>3. x = a + d
  OBVIOUS
<1> HIDE DEF W, x
<1>4. x \in Int /\ 0 <= x /\ x < 2 * W
  BY <1>1, <1>3
<1>5. x < 3 * W
  BY <1>1, <1>4
<1>6. m \in 0..W - 1 /\ (m = x \/ m = x - W \/ m = x - 2 * W)
  BY <1>4, <1>5, ModIs
<1> HIDE DEF m
<1> QED
  BY <1>1, <1>2, <1>3, <1>4, <1>6

\* Two times and a third that is near to both.
LEMMA DiffExact ==
    ASSUME NEW c \in 0..W - 1, NEW x \in 0..W - 1, NEW y \in 0..W - 1,
           Diff(c, y) - Diff(c, x) \in -Half..Half - 1
    PROVE  Diff(x, y) = Diff(c, y) - Diff(c, x)
<1>1. W \in Nat /\ W = 2 * Half /\ Half \in Nat /\ W > 0
  BY ClockFacts
<1>2. /\ Diff(c, y) \in -Half..Half - 1
      /\ Diff(c, y) = c - y \/ Diff(c, y) = c - y + W \/ Diff(c, y) = c - y - W
  BY DiffIs
<1>3. /\ Diff(c, x) \in -Half..Half - 1
      /\ Diff(c, x) = c - x \/ Diff(c, x) = c - x + W \/ Diff(c, x) = c - x - W
  BY DiffIs
<1>4. /\ Diff(x, y) \in -Half..Half - 1
      /\ Diff(x, y) = x - y \/ Diff(x, y) = x - y + W \/ Diff(x, y) = x - y - W
  BY DiffIs
<1> DEFINE A == Diff(c, y)
           B == Diff(c, x)
           C == Diff(x, y)
<1>5. /\ A \in Int /\ B \in Int /\ C \in -Half..Half - 1 /\ A - B \in -Half..Half - 1
      /\ A = c - y \/ A = c - y + W \/ A = c - y - W
      /\ B = c - x \/ B = c - x + W \/ B = c - x - W
      /\ C = x - y \/ C = x - y + W \/ C = x - y - W
  BY <1>2, <1>3, <1>4
<1> HIDE DEF A, B, C, W
<1>6. C = A - B
  BY <1>1, <1>5
<1> QED
  BY <1>6 DEF A, B, C

\* The difference the other way round, and of equal times.
LEMMA DiffBack ==
    ASSUME NEW a \in 0..W - 1, NEW b \in 0..W - 1
    PROVE  /\ Diff(a, b) > 0 => Diff(b, a) < 0
           /\ Diff(a, b) = 0 <=> a = b
<1>1. W \in Nat /\ W = 2 * Half /\ Half \in Nat /\ W > 0
  BY ClockFacts
<1> DEFINE A == Diff(a, b)
           B == Diff(b, a)
<1>2. /\ A \in -Half..Half - 1 /\ (A = a - b \/ A = a - b + W \/ A = a - b - W)
      /\ B \in -Half..Half - 1 /\ (B = b - a \/ B = b - a + W \/ B = b - a - W)
  BY DiffIs
<1> HIDE DEF A, B, W
<1>3. (A > 0 => B < 0) /\ (A = 0 <=> a = b)
  BY <1>1, <1>2
<1> QED
  BY <1>3 DEF A, B

\* The clock moves on.
LEMMA DiffTick ==
    ASSUME NEW a \in 0..W - 1, NEW b \in 0..W - 1, Diff(a, b) < Half - 1
    PROVE  Add(a, 1) \in 0..W - 1 /\ Diff(Add(a, 1), b) = Diff(a, b) + 1
<1>1. W \in Nat /\ W = 2 * Half /\ Half \in Nat /\ Half >= 2
  BY ClockFacts
<1>2. 1 \in 0..Half
  BY <1>1
<1>3. Add(a, 1) \in 0..W - 1 /\ (Add(a, 1) = a + 1 \/ Add(a, 1) = a + 1 - W)
  BY <1>2, AddIs
<1> DEFINE n == Add(a, 1)
           A == Diff(a, b)
           B == Diff(n, b)
<1>4. /\ A \in -Half..Half - 1 /\ (A = a - b \/ A = a - b + W \/ A = a - b - W)
  BY DiffIs
<1>5. /\ n \in 0..W - 1 /\ (n = a + 1 \/ n = a + 1 - W)
  BY <1>3
<1> HIDE DEF n
<1>6. /\ B \in -Half..Half - 1 /\ (B = n - b \/ B = n - b + W \/ B = n - b - W)
  BY <1>5, DiffIs
<1>7. A < Half - 1
  OBVIOUS
<1> HIDE DEF A, B, W
<1>8. B = A + 1
  BY <1>1, <1>4, <1>5, <1>6, <1>7
<1> QED
  BY <1>5, <1>8 DEF A, B, n

\* A time that is to come.
LEMMA DiffAdd ==
    ASSUME NEW a \in 0..W - 1, NEW d \in 0..Half
    PROVE  Add(a, d) \in 0..W - 1 /\ Diff(a, Add(a, d)) = -d
<1>1. W \in Nat /\ W = 2 * Half /\ Half \in Nat /\ Half >= 2
  BY ClockFacts
<1> DEFINE n == Add(a, d)
           B == Diff(a, n)
<1>2. /\ n \in 0..W - 1 /\ (n = a + d \/ n = a + d - W)
  BY AddIs
<1> HIDE DEF n
<1>3. /\ B \in -Half..Half - 1 /\ (B = a - n \/ B = a - n + W \/ B = a - n - W)
  BY <1>2, DiffIs
<1> HIDE DEF B, W
<1>4. B = -d
  BY <1>1, <1>2, <1>3
<1> QED
  BY <1>2, <1>4 DEF B, n

\* The times of the model are clock values.
LEMMA ClockTypes ==
    ASSUME TypeOK
    PROVE  /\ CurMSec \in 0..W - 1 /\ dwReschedTime \in 0..W - 1
           /\ \A t \in Thread : wake(t) \in 0..W - 1 /\ Age(t) \in -Half..Half - 1
           /\ Left \in -Half..Half - 1
<1>1. CurMSec \in 0..W - 1 /\ dwReschedTime \in 0..W - 1
      /\ \A t \in Thread : wake(t) \in 0..W - 1
  BY DEF TypeOK, wake
<1> QED
  BY <1>1, DiffIs DEF Age, Left

\* Ages tell the order of the times.
LEMMA AgeDiff ==
    ASSUME TypeOK, AgesOK, NEW x \in Thread, NEW y \in Thread, Timed(x), Timed(y)
    PROVE  /\ Diff(wake(x), wake(y)) = Age(y) - Age(x)
           /\ Age(x) \in Int /\ Age(y) \in Int
<1>1. Age(x) \in MaxLate + 1 - Half..MaxLate /\ Age(y) \in MaxLate + 1 - Half..MaxLate
  BY DEF AgesOK
<1>2. Age(y) - Age(x) \in -Half..Half - 1
  BY <1>1, ClockFacts
<1>3. CurMSec \in 0..W - 1 /\ wake(x) \in 0..W - 1 /\ wake(y) \in 0..W - 1
  BY ClockTypes
<1> QED
  BY <1>1, <1>2, <1>3, DiffExact, ClockFacts DEF Age

\* and, with the time of the timer, whether it comes early enough.
LEMMA LeftDiff ==
    ASSUME TypeOK, AgesOK, NEW x \in Thread, Timed(x), Left \in 1 - Half..MaxLate
    PROVE  /\ Age(x) \in Int /\ Left \in Int
           /\ Age(x) <= Left => Diff(wake(x), dwReschedTime) = Left - Age(x)
           /\ Age(x) < 0 => Diff(dwReschedTime, wake(x)) = Age(x) - Left
<1>1. Age(x) \in MaxLate + 1 - Half..MaxLate
  BY DEF AgesOK
<1>2. CurMSec \in 0..W - 1 /\ wake(x) \in 0..W - 1 /\ dwReschedTime \in 0..W - 1
  BY ClockTypes
<1>3. /\ Age(x) <= Left => Left - Age(x) \in -Half..Half - 1
      /\ Age(x) < 0 => Age(x) - Left \in -Half..Half - 1
  BY <1>1, ClockFacts
<1>4. /\ Age(x) <= Left => Diff(wake(x), dwReschedTime) = Left - Age(x)
      /\ Age(x) < 0 => Diff(dwReschedTime, wake(x)) = Age(x) - Left
  BY <1>2, <1>3, DiffExact DEF Age, Left
<1> QED
  BY <1>1, <1>4, ClockFacts

\* Who is in the list is timed.
LEMMA ListedIsTimed ==
    ASSUME NEW x \in Thread, Sleeping(x) \/ Queued(x, top) PROVE Timed(x) /\ Sleeping(x)
BY DEF Timed, Sleeping

\* A search that keeps its place, or has lost it.
LEMMA SearchTimeKept ==
    ASSUME TypeOK, NEW u \in Thread, SearchTimeOK(u),
           crab'[u].pth = crab[u].pth, crab'[u].vertical = crab[u].vertical,
           crab'[u].ok => crab[u].ok,
           \A v \in Thread : wake(v)' = wake(v)
    PROVE  SearchTimeOK(u)'
<1> SUFFICES ASSUME crab'[u].ok, crab'[u].pth # None
             PROVE  (IF crab[u].vertical THEN wake(crab[u].pth) = wake(u)
                     ELSE Diff(wake(crab[u].pth), wake(u)) < 0)'
  BY DEF SearchTimeOK
<1>1. crab[u].pth \in Thread
  BY DEF TypeOK
<1>2. PICK p \in Thread : p = crab[u].pth
  BY <1>1
<1>3. crab'[u].pth = p /\ crab'[u].vertical = crab[u].vertical /\ wake(p)' = wake(p)
      /\ wake(u)' = wake(u)
  BY <1>2
<1>4. IF crab[u].vertical THEN wake(p) = wake(u) ELSE Diff(wake(p), wake(u)) < 0
  BY <1>2 DEF SearchTimeOK
<1> QED
  BY <1>3, <1>4 DEF wake

\* A step that takes sleepers out, or moves columns, while the clock stands.
LEMMA TimesKept ==
    ASSUME ListsInv, TimesInv, ListsInv', CurMSec' = CurMSec,
           \A u \in Thread : /\ wake(u)' = wake(u)
                             /\ crab'[u].pth = crab[u].pth
                             /\ crab'[u].vertical = crab[u].vertical
                             /\ crab'[u].ok => crab[u].ok,
           \A u, v \in Thread : Earlier(u, v, top') =>
              \E x, y \in Thread : Earlier(x, y, top) /\ wake(x) = wake(u) /\ wake(y) = wake(v),
           \A h, v \in Thread : Queued(v, tail'[h]) =>
              wake(v) = wake(h) /\ (Queued(h, top') \/ Age(v) >= 0),
           \A u \in Thread : Timed(u)' => Timed(u)
    PROVE  /\ TopInOrder' /\ ColumnsOfOneTime' /\ AgesOK' /\ OffOK'
           /\ \A u \in Thread : SearchTimeOK(u)'
<1>1. TypeOK
  BY DEF ListsInv
<1>2. TopInOrder'
  <2> SUFFICES ASSUME NEW u \in Thread, NEW v \in Thread, Earlier(u, v, top')
               PROVE  Diff(wake(u)', wake(v)') < 0
    BY DEF TopInOrder
  <2>1. PICK x \in Thread, y \in Thread :
           Earlier(x, y, top) /\ wake(x) = wake(u) /\ wake(y) = wake(v)
    OBVIOUS
  <2>2. Diff(wake(x), wake(y)) < 0
    BY <2>1 DEF TimesInv, TopInOrder
  <2> QED
    BY <2>1, <2>2
<1>3. \A u \in Thread : Age(u)' = Age(u)
  BY DEF Age
<1>4. ColumnsOfOneTime' /\ OffOK'
  BY <1>3 DEF ColumnsOfOneTime, OffOK
<1>5. AgesOK'
  BY <1>3 DEF TimesInv, AgesOK
<1>6. ASSUME NEW u \in Thread PROVE SearchTimeOK(u)'
  <2>1. SearchTimeOK(u)
    BY DEF TimesInv
  <2> QED
    BY <1>1, <2>1, SearchTimeKept
<1> QED
  BY <1>2, <1>4, <1>5, <1>6

\* The timer, unless the clock or the timer itself moves.
LEMMA TimerKept ==
    ASSUME ListsInv, TimesInv, ListsInv', ~resched, CurMSec' = CurMSec,
           dwReschedTime' = dwReschedTime,
           \A x \in Thread : Queued(x, top') =>
              \E y \in Thread : Queued(y, top) /\ wake(y) = wake(x)'
    PROVE  TimerOK'
<1>1. TypeOK /\ TypeOK'
  BY DEF ListsInv
<1>2. Left' = Left /\ Left \in 1 - Half..MaxLate
  BY DEF TimesInv, TimerOK, Left
<1>3. \A x \in Thread : Queued(x, top') => Age(x)' <= Left'
  <2> SUFFICES ASSUME NEW x \in Thread, Queued(x, top') PROVE Age(x)' <= Left'
    OBVIOUS
  <2>1. PICK y \in Thread : Queued(y, top) /\ wake(y) = wake(x)'
    OBVIOUS
  <2>2. Age(y) <= Left
    BY <2>1 DEF TimesInv, TimerOK
  <2>3. Age(x)' = Age(y)
    BY <2>1 DEF Age
  <2> QED
    BY <1>2, <2>2, <2>3
<1>4. \A x \in Thread : Queued(x, top') => Diff(wake(x)', dwReschedTime') >= 0
  <2> SUFFICES ASSUME NEW x \in Thread, Queued(x, top')
               PROVE  Diff(wake(x)', dwReschedTime') >= 0
    OBVIOUS
  <2>1. PICK y \in Thread : Queued(y, top) /\ wake(y) = wake(x)'
    OBVIOUS
  <2>2. Age(y) <= Left /\ Timed(y) /\ AgesOK
    BY <2>1, ListedIsTimed DEF TimesInv, TimerOK
  <2>3. Diff(wake(y), dwReschedTime) = Left - Age(y) /\ Age(y) \in Int /\ Left \in Int
    BY <1>1, <1>2, <2>2, LeftDiff
  <2> QED
    BY <2>1, <2>2, <2>3
<1> QED
  BY <1>2, <1>3, <1>4 DEF TimerOK

\* The list when SleepqDequeue has taken a sleeper out.
LEMMA OutStep ==
    ASSUME ListsInv, TimesInv, ListsInv', NEW t \in Thread, Sleeping(t), SleepqDequeue(t),
           ~resched, CurMSec' = CurMSec, dwReschedTime' = dwReschedTime,
           \A u \in Thread : pc[u] = "crab" <=> pc'[u] = "crab",
           needSleep' \subseteq needSleep \cup {t}
    PROVE  TimesInv'
<1>1. ListTypes /\ ColumnsOK /\ ColumnsOfOneTime /\ OffOK
  BY DEF ListsInv, TypeOK, ListTypes, TimesInv
<1>2. /\ \A v \in Thread : Sleeping(v)' <=> Sleeping(v) /\ v # t
      /\ \A v \in Thread : Queued(v, top') =>
            Queued(v, top) \/ (Queued(t, top) /\ Queued(v, tail[t]))
      /\ \A h, v \in Thread : Queued(v, tail'[h]) =>
            \/ Queued(v, tail[h]) /\ (Queued(h, top) => Queued(h, top'))
            \/ Queued(h, top') /\ Queued(h, tail[t]) /\ Queued(v, tail[t])
      /\ \A u, v : Earlier(u, v, top') =>
            \E x, y : /\ Earlier(x, y, top)
                      /\ x = u \/ (x = t /\ Queued(u, tail[t]))
                      /\ y = v \/ (y = t /\ Queued(v, tail[t]))
  BY <1>1, SleeperOut
<1>3. \A u \in Thread : /\ wake(u)' = wake(u)
                        /\ crab'[u].pth = crab[u].pth
                        /\ crab'[u].vertical = crab[u].vertical
                        /\ crab'[u].ok => crab[u].ok
  BY TakenOut
<1>4. \A v \in Thread : Queued(v, tail[t]) => wake(v) = wake(t)
  BY <1>1 DEF ColumnsOfOneTime
<1>5. ASSUME NEW u \in Thread, NEW v \in Thread, Earlier(u, v, top')
      PROVE  \E x, y \in Thread : Earlier(x, y, top) /\ wake(x) = wake(u) /\ wake(y) = wake(v)
  <2>1. PICK x, y : /\ Earlier(x, y, top)
                    /\ x = u \/ (x = t /\ Queued(u, tail[t]))
                    /\ y = v \/ (y = t /\ Queued(v, tail[t]))
    BY <1>2, <1>5
  <2>2. x \in Thread /\ y \in Thread /\ wake(x) = wake(u) /\ wake(y) = wake(v)
    BY <1>4, <2>1
  <2> QED
    BY <2>1, <2>2
<1>6. ASSUME NEW h \in Thread, NEW v \in Thread, Queued(v, tail'[h])
      PROVE  wake(v) = wake(h) /\ (Queued(h, top') \/ Age(v) >= 0)
  <2>1. CASE Queued(v, tail[h]) /\ (Queued(h, top) => Queued(h, top'))
    BY <1>1, <2>1 DEF ColumnsOfOneTime, OffOK
  <2>2. CASE Queued(h, top') /\ Queued(h, tail[t]) /\ Queued(v, tail[t])
    BY <1>4, <2>2
  <2> QED
    BY <1>2, <1>6, <2>1, <2>2
<1>7. \A u \in Thread : Timed(u)' => Timed(u)
  BY <1>2 DEF Timed
<1>8. ASSUME NEW x \in Thread, Queued(x, top')
      PROVE  \E y \in Thread : Queued(y, top) /\ wake(y) = wake(x)'
  BY <1>2, <1>3, <1>4, <1>8
<1>9. TimerOK'
  BY <1>8, TimerKept
<1>10. TopInOrder' /\ ColumnsOfOneTime' /\ AgesOK' /\ OffOK' /\ \A u \in Thread : SearchTimeOK(u)'
  BY <1>3, <1>5, <1>6, <1>7, TimesKept
<1> QED
  BY <1>9, <1>10 DEF TimesInv

\* The columns when a thread has left the run queue.
LEMMA PartStep ==
    ASSUME ListsInv, TimesInv, ListsInv', NEW t \in Thread, ~Sleeping(t),
           top' = top, tail' = TailsWithout(t), Forget(Released(t)),
           CurMSec' = CurMSec, pc' = pc, needSleep' = needSleep
    PROVE  /\ TopInOrder' /\ ColumnsOfOneTime' /\ AgesOK' /\ OffOK'
           /\ \A u \in Thread : SearchTimeOK(u)' /\ wake(u)' = wake(u)
<1>1. ListTypes /\ ColumnsOK /\ ColumnsOfOneTime /\ OffOK
  BY DEF ListsInv, TypeOK, ListTypes, TimesInv
<1>2. /\ \A v \in Thread : Sleeping(v)' <=> Sleeping(v) /\ v \notin Released(t)
      /\ \A h, v \in Thread : Queued(v, tail'[h]) =>
            Queued(v, tail[h]) \/ (h \in Released(t) /\ Queued(v, tail[t]))
      /\ \A v \in Released(t) : Queued(v, tail[t])
  BY <1>1, TailsParted
<1>3. \A u \in Thread : /\ wake(u)' = wake(u)
                        /\ crab'[u].pth = crab[u].pth
                        /\ crab'[u].vertical = crab[u].vertical
                        /\ crab'[u].ok => crab[u].ok
  BY Parted
<1>4. ASSUME NEW u \in Thread, NEW v \in Thread, Earlier(u, v, top')
      PROVE  \E x, y \in Thread : Earlier(x, y, top) /\ wake(x) = wake(u) /\ wake(y) = wake(v)
  BY <1>4
<1>5. ~Queued(t, top)
  BY DEF Sleeping
<1>6. ASSUME NEW h \in Thread, NEW v \in Thread, Queued(v, tail'[h])
      PROVE  wake(v) = wake(h) /\ (Queued(h, top') \/ Age(v) >= 0)
  <2>1. CASE Queued(v, tail[h])
    BY <1>1, <2>1 DEF ColumnsOfOneTime, OffOK
  <2>2. CASE h \in Released(t) /\ Queued(v, tail[t])
    <3>1. Queued(h, tail[t])
      BY <1>2, <2>2
    <3> QED
      BY <1>1, <1>5, <2>2, <3>1 DEF ColumnsOfOneTime, OffOK
  <2> QED
    BY <1>2, <1>6, <2>1, <2>2
<1>7. \A u \in Thread : Timed(u)' => Timed(u)
  BY <1>2 DEF Timed
<1> QED
  BY <1>3, <1>4, <1>6, <1>7, TimesKept

\* A step that leaves the list alone.
LEMMA SameStep ==
    ASSUME ListsInv, TimesInv, ListsInv', ~resched, top' = top, tail' = tail, crab' = crab,
           CurMSec' = CurMSec, dwReschedTime' = dwReschedTime,
           \A u \in Thread : pc'[u] = "crab" => pc[u] = "crab",
           needSleep' = needSleep
    PROVE  TimesInv'
<1>1. \A u \in Thread : /\ wake(u)' = wake(u)
                        /\ crab'[u].pth = crab[u].pth
                        /\ crab'[u].vertical = crab[u].vertical
                        /\ crab'[u].ok => crab[u].ok
  BY DEF wake
<1>2. \A u \in Thread : Timed(u)' => Timed(u)
  BY DEF Timed, Sleeping, Hangs
<1>3. ASSUME NEW h \in Thread, NEW v \in Thread, Queued(v, tail'[h])
      PROVE  wake(v) = wake(h) /\ (Queued(h, top') \/ Age(v) >= 0)
  BY <1>3 DEF TimesInv, ColumnsOfOneTime, OffOK
<1>4. ASSUME NEW x \in Thread, Queued(x, top')
      PROVE  \E y \in Thread : Queued(y, top) /\ wake(y) = wake(x)'
  BY <1>1, <1>4
<1>5. TimerOK'
  BY <1>4, TimerKept
<1>6. ASSUME NEW u \in Thread, NEW v \in Thread, Earlier(u, v, top')
      PROVE  \E x, y \in Thread : Earlier(x, y, top) /\ wake(x) = wake(u) /\ wake(y) = wake(v)
  BY <1>6
<1>7. TopInOrder' /\ ColumnsOfOneTime' /\ AgesOK' /\ OffOK' /\ \A u \in Thread : SearchTimeOK(u)'
  BY <1>1, <1>2, <1>3, <1>6, TimesKept
<1> QED
  BY <1>5, <1>7 DEF TimesInv

\* Signals, and what wakers do afterwards.
LEMMA SignalTimes ==
    ASSUME ListsInv, TimesInv, NEW r \in Thread, NEW t \in Thread,
           Signal(r, t) \/ Resume(r, t) \/ MakeRunIfNeeded(r)
    PROVE  TimesInv'
<1>1. ~resched /\ CurMSec' = CurMSec /\ dwReschedTime' = dwReschedTime /\ needSleep' = needSleep
      /\ pc \in [Thread -> {"run", "crab", "asleep", "signal"}]
  BY DEF Signal, Resume, MakeRunIfNeeded, Runs, clockVars, ListsInv, TypeOK
<1>2. ListsInv'
  BY SignalLists, ResumeLists, MakeRunLists
<1>3. CASE Signal(r, t) \/ Resume(r, t)
  <2>1. top' = top /\ tail' = tail /\ crab' = crab
    BY <1>3 DEF Signal, Resume, listVars
  <2>2. \A u \in Thread : pc'[u] = "crab" => pc[u] = "crab"
    BY <1>1, <1>3 DEF Signal, Resume
  <2> QED
    BY <1>1, <1>2, <2>1, <2>2, SameStep
<1>4. CASE MakeRunIfNeeded(r)
  <2>1. \A u \in Thread : pc[u] = "crab" <=> pc'[u] = "crab"
    BY <1>1, <1>4 DEF MakeRunIfNeeded
  <2>2. target[r] \in Thread
    BY <1>4 DEF MakeRunIfNeeded, ListsInv, PlaceOK
  <2>3. PICK x \in Thread : x = target[r]
    BY <2>2
  <2>4. CASE state[x] = "needsrun" /\ Sleeping(x)
    <3>1. SleepqDequeue(x)
      BY <1>4, <2>3, <2>4 DEF MakeRunIfNeeded
    <3> QED
      BY <1>1, <1>2, <2>1, <2>4, <3>1, OutStep
  <2>5. CASE ~(state[x] = "needsrun" /\ Sleeping(x))
    <3>1. top' = top /\ tail' = tail /\ crab' = crab
      BY <1>4, <2>3, <2>5 DEF MakeRunIfNeeded, listVars
    <3> QED
      BY <1>1, <1>2, <2>1, <3>1, SameStep
  <2> QED
    BY <2>4, <2>5
<1> QED
  BY <1>3, <1>4

\* A suspension or a new priority.
LEMMA PrioTimes ==
    ASSUME ListsInv, TimesInv, NEW r \in Thread, NEW t \in Thread,
           Suspend(r, t) \/ \E p \in Prio : SetThreadBasePrio(r, t, p)
    PROVE  TimesInv'
<1>1. ~resched /\ CurMSec' = CurMSec /\ dwReschedTime' = dwReschedTime /\ pc' = pc
  BY DEF Suspend, SetThreadBasePrio, Runs, clockVars
<1>2. ListsInv'
  BY SuspendLists, BasePrioLists
<1>3. \/ top' = top /\ tail' = tail /\ crab' = crab /\ needSleep' = needSleep
      \/ /\ state[t] = "runnable" /\ top' = top /\ tail' = TailsWithout(t)
         /\ Forget(Released(t)) /\ needSleep' = needSleep
      \/ Sleeping(t) /\ SleepqDequeue(t) /\ needSleep' = needSleep \cup {t}
  BY DEF Suspend, SetThreadBasePrio, Resleep, listVars, Sleeping
<1>4. CASE top' = top /\ tail' = tail /\ crab' = crab /\ needSleep' = needSleep
  BY <1>1, <1>2, <1>4, SameStep
<1>5. CASE /\ state[t] = "runnable" /\ top' = top /\ tail' = TailsWithout(t)
           /\ Forget(Released(t)) /\ needSleep' = needSleep
  <2>1. ~Sleeping(t)
    <3>1. PlaceOK(t)
      BY DEF ListsInv
    <3> QED
      BY <1>5, <3>1 DEF PlaceOK
  <2>2. /\ TopInOrder' /\ ColumnsOfOneTime' /\ AgesOK' /\ OffOK'
        /\ \A u \in Thread : SearchTimeOK(u)' /\ wake(u)' = wake(u)
    BY <1>1, <1>2, <1>5, <2>1, PartStep
  <2>3. ASSUME NEW x \in Thread, Queued(x, top')
        PROVE  \E y \in Thread : Queued(y, top) /\ wake(y) = wake(x)'
    BY <1>5, <2>2, <2>3
  <2>4. TimerOK'
    BY <1>1, <1>2, <2>3, TimerKept
  <2> QED
    BY <2>2, <2>4 DEF TimesInv
<1>6. CASE Sleeping(t) /\ SleepqDequeue(t) /\ needSleep' = needSleep \cup {t}
  BY <1>1, <1>2, <1>6, OutStep
<1> QED
  BY <1>3, <1>4, <1>5, <1>6

\* A step of the call that leaves the lists and the clock alone.
LEMMA CallStepTimes ==
    ASSUME ListsInv, TimesInv, NEW t \in Thread, runth = t, ~resched,
           top' = top, tail' = tail, resched' = resched,
           CurMSec' = CurMSec, dwReschedTime' = dwReschedTime, needSleep' \subseteq needSleep,
           NEW x \in {"run", "crab"}, pc' = [pc EXCEPT ![t] = x],
           NEW c \in [pth : Thread \cup {None}, ok : BOOLEAN, vertical : BOOLEAN, wake : 0..W - 1],
           crab' = [crab EXCEPT ![t] = c],
           x = "crab" \/ t \in needSleep' => Diff(CurMSec, c.wake) \in MaxLate + 1 - Half..MaxLate,
           c.pth # None => /\ c.pth \in Thread \ {t}
                           /\ IF c.vertical THEN wake(c.pth) = c.wake
                              ELSE Diff(wake(c.pth), c.wake) < 0
    PROVE  TimesInv'
<1>1. TypeOK /\ TopInOrder /\ ColumnsOfOneTime /\ AgesOK /\ OffOK /\ TimerOK
  BY DEF ListsInv, TimesInv
<1>2. ~Sleeping(t) /\ tail[t] = <<>>
  BY RunningFacts
<1>3. \A u \in Thread : /\ crab'[u] = IF u = t THEN c ELSE crab[u]
                        /\ pc'[u] = IF u = t THEN x ELSE pc[u]
  BY <1>1 DEF TypeOK
<1>4. \A u \in Thread : wake(u)' = IF u = t THEN c.wake ELSE wake(u)
  BY <1>3 DEF wake
<1>5. /\ \A u \in Thread : Queued(u, top) => u # t
      /\ \A h, v \in Thread : Queued(v, tail[h]) => v # t /\ h # t
      /\ \A u, v \in Thread : Earlier(u, v, top) => u # t /\ v # t
      /\ \A u \in Thread : Sleeping(u)' <=> Sleeping(u)
  <2>1. \A u \in Thread : Queued(u, top) => u # t
    BY <1>2 DEF Sleeping
  <2>2. \A h, v \in Thread : Queued(v, tail[h]) => v # t /\ h # t
    BY <1>2, EmptyQueue DEF Sleeping, Hangs
  <2>3. \A u, v \in Thread : Earlier(u, v, top) => Queued(u, top) /\ Queued(v, top)
    BY DEF Earlier, Queued
  <2>4. \A u \in Thread : Sleeping(u)' <=> Sleeping(u)
    BY DEF Sleeping, Hangs
  <2> QED
    BY <2>1, <2>2, <2>3, <2>4
<1>6. \A u \in Thread : u # t => Age(u)' = Age(u)
  BY <1>4 DEF Age
<1>7. TopInOrder'
  BY <1>1, <1>4, <1>5 DEF TopInOrder
<1>8. ColumnsOfOneTime' /\ OffOK'
  BY <1>1, <1>4, <1>5, <1>6 DEF ColumnsOfOneTime, OffOK
<1>9. AgesOK'
  <2> SUFFICES ASSUME NEW u \in Thread, Timed(u)' PROVE Age(u)' \in MaxLate + 1 - Half..MaxLate
    BY DEF AgesOK
  <2>1. CASE u = t
    <3>1. x = "crab" \/ t \in needSleep'
      BY <1>2, <1>3, <1>5, <2>1 DEF Timed
    <3> QED
      BY <1>4, <2>1, <3>1 DEF Age
  <2>2. CASE u # t
    <3>1. Timed(u)
      BY <1>3, <1>5, <2>2 DEF Timed
    <3> QED
      BY <1>1, <1>6, <2>2, <3>1 DEF AgesOK
  <2> QED
    BY <2>1, <2>2
<1>10. TimerOK'
  <2>1. Left' = Left
    BY DEF Left
  <2> QED
    BY <1>1, <1>5, <1>6, <2>1 DEF TimerOK
<1>11. ASSUME NEW u \in Thread PROVE SearchTimeOK(u)'
  <2> SUFFICES ASSUME crab'[u].ok, crab'[u].pth # None
               PROVE  (IF crab[u].vertical THEN wake(crab[u].pth) = wake(u)
                       ELSE Diff(wake(crab[u].pth), wake(u)) < 0)'
    BY DEF SearchTimeOK
  <2>1. CASE u = t
    <3>1. crab'[u] = c /\ c.pth # None
      BY <1>3, <2>1
    <3>2. PICK p \in Thread : p = c.pth /\ p # t
      BY <3>1
    <3>3. wake(p)' = wake(p) /\ wake(u)' = c.wake
      BY <1>4, <2>1, <3>2
    <3>4. IF c.vertical THEN wake(p) = c.wake ELSE Diff(wake(p), c.wake) < 0
      BY <3>1, <3>2
    <3>5. (IF crab[u].vertical THEN crab[p].wake = crab[u].wake
           ELSE Diff(crab[p].wake, crab[u].wake) < 0)'
      BY <3>1, <3>3, <3>4 DEF wake
    <3> QED
      BY <3>1, <3>2, <3>5 DEF wake
  <2>2. CASE u # t
    <3>1. crab'[u] = crab[u] /\ SearchTimeOK(u) /\ SearchOK(u)
      BY <1>3, <2>2 DEF ListsInv, TimesInv
    <3>2. PICK p \in Thread : p = crab[u].pth
      BY <1>1, <3>1 DEF TypeOK
    <3>3. Sleeping(p)
      BY <3>1, <3>2 DEF SearchOK, Sleeping
    <3>4. wake(p)' = wake(p) /\ wake(u)' = wake(u)
      BY <1>2, <1>4, <2>2, <3>3
    <3>5. IF crab[u].vertical THEN wake(p) = wake(u) ELSE Diff(wake(p), wake(u)) < 0
      BY <3>1, <3>2 DEF SearchTimeOK
    <3>6. (IF crab[u].vertical THEN crab[p].wake = crab[u].wake
           ELSE Diff(crab[p].wake, crab[u].wake) < 0)'
      BY <3>1, <3>4, <3>5 DEF wake
    <3> QED
      BY <3>1, <3>2, <3>6 DEF wake
  <2> QED
    BY <2>1, <2>2
<1> QED
  BY <1>7, <1>8, <1>9, <1>10, <1>11 DEF TimesInv

\* A call begins, or ends.
LEMMA CallTimes ==
    ASSUME ListsInv, TimesInv, NEW t \in Thread,
           SleepNot(t) \/ Return(t) \/ \E d \in Times : BeginSleep(t, d)
    PROVE  TimesInv'
<1>1. /\ runth = t /\ ~resched /\ top' = top /\ tail' = tail /\ resched' = resched
      /\ CurMSec' = CurMSec /\ dwReschedTime' = dwReschedTime /\ needSleep' \subseteq needSleep
  BY DEF SleepNot, Return, BeginSleep, Runs, InCall, listVars, schedVars, clockVars
<1>2. CurMSec \in 0..W - 1
  BY DEF ListsInv, TypeOK
<1>3. CASE SleepNot(t) \/ Return(t)
  <2> DEFINE c == Start(CurMSec)
             x == "run"
  <2>1. pc' = [pc EXCEPT ![t] = x] /\ crab' = [crab EXCEPT ![t] = c] /\ t \notin needSleep'
        /\ x \in {"run", "crab"} /\ x # "crab"
    BY <1>3 DEF SleepNot, Return
  <2>2. /\ c \in [pth : Thread \cup {None}, ok : BOOLEAN, vertical : BOOLEAN, wake : 0..W - 1]
        /\ c.pth = None
    BY <1>2, StartType
  <2> HIDE DEF c, x
  <2> QED
    BY <1>1, <2>1, <2>2, CallStepTimes
<1>4. ASSUME NEW d \in Times, BeginSleep(t, d) PROVE TimesInv'
  <2> DEFINE c == Start(Add(CurMSec, d))
             x == "crab"
  <2>1. pc' = [pc EXCEPT ![t] = x] /\ crab' = [crab EXCEPT ![t] = c]
        /\ x \in {"run", "crab"}
    BY <1>4 DEF BeginSleep
  <2>2. d \in Nat \ {0} /\ d + MaxLate < Half /\ d \in 0..Half
    BY SleepListAssumption
  <2>3. Add(CurMSec, d) \in 0..W - 1 /\ Diff(CurMSec, Add(CurMSec, d)) = -d
    BY <1>2, <2>2, DiffAdd
  <2>4. /\ c \in [pth : Thread \cup {None}, ok : BOOLEAN, vertical : BOOLEAN, wake : 0..W - 1]
        /\ c.pth = None /\ c.wake = Add(CurMSec, d)
    BY <2>3, StartType
  <2>5. -d \in MaxLate + 1 - Half..MaxLate
    BY <2>2, ClockFacts
  <2>6. Diff(CurMSec, c.wake) \in MaxLate + 1 - Half..MaxLate
    BY <2>3, <2>4, <2>5
  <2> HIDE DEF c, x
  <2> QED
    BY <1>1, <2>1, <2>4, <2>6, CallStepTimes
<1> QED
  BY <1>3, <1>4

\* A step of the search, to a thread of the same time or of an earlier one.
LEMMA SearchTimes ==
    ASSUME ListsInv, TimesInv, NEW t \in Thread, SleepSearch(t) PROVE TimesInv'
<1>1. /\ runth = t /\ ~resched /\ top' = top /\ tail' = tail /\ resched' = resched
      /\ CurMSec' = CurMSec /\ dwReschedTime' = dwReschedTime /\ needSleep' \subseteq needSleep
      /\ pc[t] = "crab" \/ t \in needSleep
      /\ IF Moved(t) \/ Inverted(t)
         THEN crab' = [crab EXCEPT ![t] = Start(wake(t))]
         ELSE StepTo(t) # None /\ crab' = [crab EXCEPT ![t] = Stepped(t)]
  BY DEF SleepSearch, Runs, InCall, listVars, schedVars, clockVars
<1>2. wake(t) \in 0..W - 1 /\ TypeOK /\ ListTypes /\ ColumnsOK /\ ColumnsOfOneTime
  BY DEF ListsInv, TypeOK, wake, ListTypes, TimesInv
<1>3. Diff(CurMSec, wake(t)) \in MaxLate + 1 - Half..MaxLate
  <2>1. Timed(t)
    BY <1>1 DEF Timed
  <2> QED
    BY <2>1 DEF TimesInv, AgesOK, Age
<1> DEFINE x == "crab"
<1>4. pc' = [pc EXCEPT ![t] = x] /\ x \in {"run", "crab"}
  BY DEF SleepSearch
<1> HIDE DEF x
<1>5. CASE Moved(t) \/ Inverted(t)
  <2> DEFINE c == Start(wake(t))
  <2>1. /\ c \in [pth : Thread \cup {None}, ok : BOOLEAN, vertical : BOOLEAN, wake : 0..W - 1]
        /\ c.pth = None /\ c.wake = wake(t)
    BY <1>2, StartType
  <2>2. crab' = [crab EXCEPT ![t] = c]
    BY <1>1, <1>5
  <2> HIDE DEF c
  <2> QED
    BY <1>1, <1>3, <1>4, <2>1, <2>2, CallStepTimes
<1>6. CASE ~(Moved(t) \/ Inverted(t))
  <2> DEFINE c == Stepped(t)
  <2>1. StepTo(t) # None /\ crab' = [crab EXCEPT ![t] = c] /\ ~Moved(t)
    BY <1>1, <1>6
  <2>2. /\ c \in [pth : Thread \cup {None}, ok : BOOLEAN, vertical : BOOLEAN, wake : 0..W - 1]
        /\ c.pth = StepTo(t) /\ c.wake = wake(t)
        /\ c.vertical <=> crab[t].vertical \/ wake(StepTo(t)) = wake(t)
    BY <2>1, SteppedType
  <2> HIDE DEF c
  <2>3. /\ StepTo(t) \in Thread
        /\ IF crab[t].vertical
           THEN Sleeping(At(t)) /\ At(t) \in Thread /\ StepTo(t) = Below(At(t)) /\ Hangs(StepTo(t))
           ELSE /\ Queued(StepTo(t), top)
                /\ Diff(wake(StepTo(t)), wake(t)) < 0 \/ Diff(wake(StepTo(t)), wake(t)) = 0
    BY <2>1, StepsToSleeper
  <2>4. StepTo(t) # t
    BY <1>1, <2>3, RunningFacts DEF Sleeping
  <2>5. IF c.vertical THEN wake(StepTo(t)) = wake(t) ELSE Diff(wake(StepTo(t)), wake(t)) < 0
    <3>1. CASE crab[t].vertical
      <4>1. PICK p \in Thread : p = At(t) /\ Sleeping(p) /\ Below(p) # None /\ Below(p) = StepTo(t)
        BY <2>1, <2>3, <3>1
      <4>2. PICK h \in Thread : \E n \in 1..Len(tail[h]) :
               /\ Below(p) = tail[h][n]
               /\ IF n = 1 THEN h = p /\ Queued(p, top) ELSE tail[h][n - 1] = p
        BY <1>2, <4>1, BelowIs
      <4>3. PICK n \in 1..Len(tail[h]) :
               /\ Below(p) = tail[h][n]
               /\ IF n = 1 THEN h = p /\ Queued(p, top) ELSE tail[h][n - 1] = p
        BY <4>2
      <4>4. tail[h] \in Seq(Thread)
        BY <1>2 DEF ListTypes
      <4>5. Len(tail[h]) \in Nat /\ DOMAIN tail[h] = 1..Len(tail[h])
        BY <4>4, LenProperties
      <4>6. Queued(StepTo(t), tail[h]) /\ (h = p \/ Queued(p, tail[h]))
        BY <4>1, <4>3, <4>5 DEF Queued
      <4>7. wake(StepTo(t)) = wake(h) /\ wake(p) = wake(h)
        BY <1>2, <2>3, <4>6 DEF ColumnsOfOneTime
      <4>8. SearchTimeOK(t) /\ crab[t].ok /\ crab[t].pth = p /\ p # None
        BY <2>1, <4>1, SleepListAssumption DEF TimesInv, Moved, At
      <4>9. wake(p) = wake(t)
        BY <3>1, <4>8 DEF SearchTimeOK
      <4> QED
        BY <2>2, <3>1, <4>7, <4>9
    <3>2. CASE ~crab[t].vertical
      <4>1. wake(StepTo(t)) \in 0..W - 1
        BY <1>2, <2>3, ClockTypes
      <4>2. Diff(wake(StepTo(t)), wake(t)) = 0 <=> wake(StepTo(t)) = wake(t)
        BY <1>2, <4>1, DiffBack
      <4> QED
        BY <2>2, <2>3, <3>2, <4>2
    <3> QED
      BY <3>1, <3>2
  <2> QED
    BY <1>1, <1>3, <1>4, <2>1, <2>2, <2>3, <2>4, <2>5, CallStepTimes
<1> QED
  BY <1>5, <1>6

\* A place in the list is one between the earlier times and the later ones, and a new first
\* one brings the timer forward.
LEMMA PlaceTimes ==
    ASSUME ListsInv, TimesInv, NEW t \in Thread, SleepPlace(t) PROVE TimesInv'
<1> DEFINE next == IF crab[t].vertical THEN None ELSE NextTop(t)
           n == IF At(t) = None THEN 0 ELSE CHOOSE i \in DOMAIN top : top[i] = At(t)
           onTop == next # None /\ wake(next) = wake(t)
<1>1. /\ runth = t /\ ~resched /\ ~Moved(t) /\ ~TooLate(t) /\ StepTo(t) = None /\ InCall(t)
      /\ IF crab[t].vertical
         THEN InsertBelow(At(t), t) /\ top' = top
         ELSE IF onTop
         THEN /\ top' = [top EXCEPT ![n + 1] = t]
              /\ tail' = [tail EXCEPT ![t] = <<next>> \o tail[next], ![next] = <<>>]
         ELSE /\ top' = SubSeq(top, 1, n) \o <<t>> \o SubSeq(top, n + 1, Len(top))
              /\ tail' = tail
      /\ crab' = [u \in Thread |->
                    IF u = t THEN Start(wake(t))
                    ELSE IF onTop /\ At(u) = next THEN [crab[u] EXCEPT !.ok = FALSE] ELSE crab[u]]
      /\ dwReschedTime' = ReschedFor(t) /\ resched' = TRUE /\ needSleep' = needSleep \ {t}
      /\ pc' = [pc EXCEPT ![t] = "asleep"] /\ CurMSec' = CurMSec
  BY DEF SleepPlace, Runs, InCall
<1> HIDE DEF n, onTop
<1>2. /\ TypeOK /\ ListTypes /\ ColumnsOK /\ SearchOK(t)
      /\ TopInOrder /\ ColumnsOfOneTime /\ AgesOK /\ OffOK /\ TimerOK /\ SearchTimeOK(t)
  BY DEF ListsInv, TypeOK, ListTypes, TimesInv
<1>3. ~Sleeping(t) /\ tail[t] = <<>> /\ ListTypes /\ ColumnsOK
  BY <1>1, <1>2, RunningFacts
<1>4. /\ \A u \in Thread : Sleeping(u)' <=> Sleeping(u) \/ u = t
      /\ \A u \in Thread : wake(u)' = wake(u)
  BY SleepPlaceLists
<1>5. Timed(t) /\ Age(t) \in Int /\ Age(t) < 0
  <2>1. Timed(t)
    BY <1>1 DEF InCall, Timed
  <2>2. wake(t) \in 0..W - 1 /\ CurMSec \in 0..W - 1 /\ Diff(wake(t), CurMSec) \in -Half..Half - 1
    BY <1>2, ClockTypes, DiffIs
  <2>3. Diff(wake(t), CurMSec) > 0
    BY <1>1, <2>2, ClockFacts DEF TooLate
  <2>4. Age(t) < 0
    BY <2>2, <2>3, DiffBack DEF Age
  <2>5. Age(t) \in Int
    BY <1>2, <2>1, AgeDiff
  <2> QED
    BY <2>1, <2>4, <2>5
<1>6. \A x \in Thread : Queued(x, top) =>
         Timed(x) /\ Age(x) \in Int /\ Left \in Int /\ Age(x) <= Left
  <2> SUFFICES ASSUME NEW x \in Thread, Queued(x, top)
               PROVE  Timed(x) /\ Age(x) \in Int /\ Left \in Int /\ Age(x) <= Left
    OBVIOUS
  <2>1. Timed(x)
    BY ListedIsTimed
  <2>2. Age(x) \in Int
    BY <1>2, <2>1, AgeDiff
  <2> QED
    BY <1>1, <1>2, <2>1, <2>2, ClockFacts DEF TimerOK
<1>7. At(t) = None \/ (At(t) \in Thread /\ crab[t].ok)
  BY <1>1, <1>2 DEF Moved, At, TypeOK
<1>8. ASSUME ~crab[t].vertical, At(t) # None
      PROVE  At(t) \in Thread /\ Queued(At(t), top) /\ Age(t) < Age(At(t))
  <2>1. At(t) \in Thread /\ Queued(At(t), top) /\ Diff(wake(At(t)), wake(t)) < 0
    BY <1>2, <1>7, <1>8 DEF SearchOK, SearchTimeOK, At
  <2>2. Timed(At(t)) /\ Age(At(t)) \in Int
    BY <1>6, <2>1
  <2>3. Diff(wake(At(t)), wake(t)) = Age(t) - Age(At(t))
    BY <1>2, <1>5, <2>1, <2>2, AgeDiff
  <2> QED
    BY <1>5, <2>1, <2>2, <2>3
<1>9. \A u \in Thread : Age(u)' = Age(u)
  BY <1>1, <1>4 DEF Age
<1>10. /\ \A u, v \in Thread : Earlier(u, v, top') => Diff(wake(u), wake(v)) < 0
       /\ \A h, v \in Thread : Queued(v, tail'[h]) =>
             wake(v) = wake(h) /\ (Queued(h, top') \/ Age(v) >= 0)
       /\ \A x \in Thread : Queued(x, top') => Queued(x, top) \/ (x = t /\ ~crab[t].vertical)
  <2>1. CASE crab[t].vertical
    <3>1. PICK p \in Thread : p = At(t) /\ Sleeping(p) /\ wake(p) = wake(t)
      BY <1>2, <1>7, <2>1 DEF SearchOK, SearchTimeOK, At
    <3>2. top' = top /\ InsertBelow(p, t)
      BY <1>1, <2>1, <3>1
    <3>3. PICK h \in Thread :
             /\ (h = p /\ Queued(p, top)) \/ Queued(p, tail[h])
             /\ \A k, v \in Thread : Queued(v, tail'[k]) <=>
                   Queued(v, tail[k]) \/ (v = t /\ k = h)
      BY <1>2, <1>3, <3>1, <3>2, PutBelow
    <3>4. wake(h) = wake(t)
      BY <1>2, <3>1, <3>3 DEF ColumnsOfOneTime
    <3>5. Queued(h, top)
      <4>1. Age(p) = Age(t)
        BY <3>1 DEF Age
      <4> QED
        BY <1>2, <1>5, <3>3, <4>1 DEF OffOK
    <3>6. \A k, v \in Thread : Queued(v, tail'[k]) =>
             wake(v) = wake(k) /\ (Queued(k, top') \/ Age(v) >= 0)
      BY <1>2, <3>2, <3>3, <3>4, <3>5 DEF ColumnsOfOneTime, OffOK
    <3> QED
      BY <1>2, <3>2, <3>6 DEF TopInOrder
  <2>2. CASE ~crab[t].vertical
    <3>1. At(t) = None \/ Queued(At(t), top)
      BY <1>8, <2>2
    <3>2. /\ n \in 0..Len(top) /\ (n > 0 => At(t) # None /\ top[n] = At(t))
          /\ next = NextTop(t) /\ next = IF n + 1 > Len(top) THEN None ELSE top[n + 1]
      BY <1>2, <2>2, <3>1, TopPosition DEF n, ListTypes, ColumnsOK
    <3>3. /\ Len(top) \in Nat /\ DOMAIN top = 1..Len(top)
          /\ \A i \in 1..Len(top) : top[i] \in Thread
      BY <1>2, LenProperties, ElementOfSeq DEF ListTypes
    <3> HIDE DEF next
    <3>4. CASE onTop
      <4>1. next # None /\ wake(next) = wake(t)
        BY <3>4 DEF onTop
      <4>2. PICK m \in DOMAIN top, x \in Thread : m = n + 1 /\ x = top[m] /\ x = next
        BY <3>2, <3>3, <4>1
      <4>3. /\ top' = [top EXCEPT ![m] = t]
            /\ tail' = [tail EXCEPT ![t] = <<x>> \o tail[x], ![x] = <<>>]
        BY <1>1, <2>2, <3>4, <4>2
      <4>0. PutsOnTop(t, m, x)
        BY <4>3 DEF PutsOnTop
      <4>4. /\ x \in Thread /\ Queued(x, top)
            /\ TopAfter(t, x) /\ HangAfter(t, x) /\ OrderAfter(t, x)
        <5>1. m \in DOMAIN top /\ x = top[m]
          BY <4>2
        <5>2. ~Sleeping(t) /\ tail[t] = <<>> /\ ListTypes /\ ColumnsOK
          BY <1>3
        <5>3. x \in Thread /\ Queued(x, top)
          BY <4>0, <5>1, <5>2, PutOnTop
        <5>4. TopAfter(t, x)
          BY <4>0, <5>1, <5>2, PutOnTop
        <5>5. HangAfter(t, x)
          BY <4>0, <5>1, <5>2, PutOnTop
        <5>6. OrderAfter(t, x)
          BY <4>0, <5>1, <5>2, PutOnTop
        <5> QED
          BY <5>3, <5>4, <5>5, <5>6
      <4>5. ASSUME NEW u \in Thread, NEW v \in Thread, Earlier(u, v, top')
            PROVE  Diff(wake(u), wake(v)) < 0
        <5>1. PICK w, y : /\ Earlier(w, y, top)
                          /\ w = u \/ (w = x /\ u = t)
                          /\ y = v \/ (y = x /\ v = t)
          BY <4>4, <4>5 DEF OrderAfter
        <5>2. w \in Thread /\ y \in Thread /\ wake(w) = wake(u) /\ wake(y) = wake(v)
          BY <4>1, <4>2, <4>4, <5>1
        <5> QED
          BY <1>2, <5>1, <5>2 DEF TopInOrder
      <4>6. ASSUME NEW k \in Thread, NEW v \in Thread, Queued(v, tail'[k])
            PROVE  wake(v) = wake(k) /\ (Queued(k, top') \/ Age(v) >= 0)
        <5>1. CASE k = t
          BY <1>2, <4>1, <4>2, <4>4, <4>6, <5>1 DEF ColumnsOfOneTime, HangAfter, TopAfter
        <5>2. CASE k # t
          BY <1>2, <4>4, <4>6, <5>2 DEF ColumnsOfOneTime, OffOK, HangAfter, TopAfter
        <5> QED
          BY <5>1, <5>2
      <4> QED
        BY <2>2, <4>4, <4>5, <4>6 DEF TopAfter
    <3>5. CASE ~onTop
      <4>1. top' = SubSeq(top, 1, n) \o <<t>> \o SubSeq(top, n + 1, Len(top)) /\ tail' = tail
        BY <1>1, <2>2, <3>5
      <4>0. PutsAfter(t, n)
        BY <4>1 DEF PutsAfter
      <4>2. \A v \in Thread : Queued(v, top') <=> v = t \/ Queued(v, top)
        BY <1>2, <1>3, <3>2, <4>0, PutBetween
      <4>3. ASSUME NEW u \in Thread, NEW i \in 1..n, top[i] = u
            PROVE  Diff(wake(u), wake(t)) < 0
        <5>1. n > 0 /\ i \in 1..Len(top) /\ n \in 1..Len(top) /\ At(t) # None /\ top[n] = At(t)
          BY <3>2, <3>3, <4>3
        <5>2. PICK p \in Thread : p = At(t) /\ Queued(p, top) /\ Age(t) < Age(p)
          BY <1>8, <2>2, <5>1
        <5>3. Queued(u, top)
          BY <3>3, <4>3, <5>1 DEF Queued
        <5>4. /\ Timed(u) /\ Timed(p) /\ Age(u) \in Int /\ Age(p) \in Int
          BY <1>6, <5>2, <5>3
        <5>5. u = p \/ Earlier(u, p, top)
          BY <3>3, <4>3, <5>1, <5>2 DEF Earlier
        <5>6. Earlier(u, p, top) => Diff(wake(u), wake(p)) < 0
          BY <1>2 DEF TopInOrder
        <5>7. Diff(wake(u), wake(p)) = Age(p) - Age(u) /\ Diff(wake(u), wake(t)) = Age(t) - Age(u)
          BY <1>2, <1>5, <5>4, AgeDiff
        <5> QED
          BY <1>5, <5>2, <5>4, <5>5, <5>6, <5>7
      <4>4. ASSUME NEW v \in Thread, NEW i \in n + 1..Len(top), top[i] = v
            PROVE  Diff(wake(t), wake(v)) < 0
        <5>1. /\ i \in 1..Len(top) /\ n + 1 \in 1..Len(top) /\ next = top[n + 1]
              /\ next = NextTop(t) /\ next \in Thread /\ next # None /\ n + 1 <= i
          BY <3>2, <3>3, <4>4, SleepListAssumption
        <5>2. PICK p \in Thread : p = next
          BY <5>1
        <5>3. Queued(v, top) /\ Queued(p, top)
          BY <3>3, <4>4, <5>1, <5>2 DEF Queued
        <5>4. /\ Timed(v) /\ Timed(p) /\ Age(v) \in Int /\ Age(p) \in Int
          BY <1>6, <5>3
        <5>5. v = p \/ Earlier(p, v, top)
          <6>1. PICK m \in 1..Len(top) : m = n + 1 /\ top[m] = p /\ m <= i
            BY <5>1, <5>2
          <6>2. CASE i = m
            BY <4>4, <6>1, <6>2
          <6>3. CASE m < i
            BY <3>3, <4>4, <5>1, <6>1, <6>3 DEF Earlier
          <6> QED
            BY <3>3, <5>1, <6>1, <6>2, <6>3
        <5>6. Earlier(p, v, top) => Diff(wake(p), wake(v)) < 0
          BY <1>2 DEF TopInOrder
        <5>7. /\ Diff(wake(p), wake(t)) = Age(t) - Age(p)
              /\ Diff(wake(p), wake(v)) = Age(v) - Age(p)
              /\ Diff(wake(t), wake(v)) = Age(v) - Age(t)
          BY <1>2, <1>5, <5>4, AgeDiff
        <5>8. wake(p) # wake(t)
          BY <3>5, <5>1, <5>2 DEF onTop
        <5>9. Diff(wake(p), wake(t)) # 0
          BY <1>2, <5>8, ClockTypes, DiffBack
        <5>10. ~(Diff(wake(p), wake(t)) < 0)
          <6> SUFFICES ASSUME Diff(wake(p), wake(t)) < 0 PROVE FALSE
            OBVIOUS
          <6>1. StepTo(t) = p
            BY <2>2, <5>1, <5>2 DEF StepTo
          <6> QED
            BY <1>1, <5>1, <5>2, <6>1
        <5> QED
          BY <1>5, <5>4, <5>5, <5>6, <5>7, <5>9, <5>10
      <4>5. ASSUME NEW u \in Thread, NEW v \in Thread, Earlier(u, v, top')
            PROVE  Diff(wake(u), wake(v)) < 0
        <5>1. CASE Earlier(u, v, top)
          BY <1>2, <5>1 DEF TopInOrder
        <5>2. CASE v = t /\ \E i \in 1..n : top[i] = u
          BY <4>3, <5>2
        <5>3. CASE u = t /\ \E i \in n + 1..Len(top) : top[i] = v
          BY <4>4, <5>3
        <5>4. \/ Earlier(u, v, top)
              \/ v = t /\ \E i \in 1..n : top[i] = u
              \/ u = t /\ \E i \in n + 1..Len(top) : top[i] = v
          BY <1>3, <3>2, <4>0, <4>5, PutBetween
        <5> QED
          BY <5>1, <5>2, <5>3, <5>4
      <4>6. \A k, v \in Thread : Queued(v, tail'[k]) =>
               wake(v) = wake(k) /\ (Queued(k, top') \/ Age(v) >= 0)
        BY <1>2, <4>1, <4>2 DEF ColumnsOfOneTime, OffOK
      <4> QED
        BY <2>2, <4>2, <4>5, <4>6
    <3> QED
      BY <3>4, <3>5
  <2> QED
    BY <2>1, <2>2
<1>11. TopInOrder' /\ ColumnsOfOneTime' /\ OffOK'
  BY <1>4, <1>9, <1>10 DEF TopInOrder, ColumnsOfOneTime, OffOK
<1>12. AgesOK'
  <2> SUFFICES ASSUME NEW u \in Thread, Timed(u)' PROVE Age(u)' \in MaxLate + 1 - Half..MaxLate
    BY DEF AgesOK
  <2>1. pc'[u] = "crab" => pc[u] = "crab"
    BY <1>1, <1>2 DEF TypeOK
  <2>2. Timed(u)
    BY <1>1, <1>4, <1>5, <2>1 DEF Timed
  <2> QED
    BY <1>2, <1>9, <2>2 DEF AgesOK
<1>13. TimerOK'
  <2> SUFFICES ASSUME NEW x \in Thread, Queued(x, top')
               PROVE  Diff(wake(x)', dwReschedTime') >= 0
    BY <1>1 DEF TimerOK
  <2>1. Queued(x, top) \/ (x = t /\ ~crab[t].vertical)
    BY <1>10
  <2>2. Timed(x) /\ Age(x) \in Int
    BY <1>5, <1>6, <2>1
  <2>3. Left \in 1 - Half..MaxLate /\ Left \in Int
    BY <1>1, <1>2, ClockFacts DEF TimerOK
  <2>4. Diff(dwReschedTime, wake(t)) = Age(t) - Left
    BY <1>2, <1>5, <2>3, LeftDiff
  <2>5. CASE ~crab[t].vertical /\ At(t) = None /\ Diff(dwReschedTime, wake(t)) > 0
    <3>1. dwReschedTime' = wake(t)
      BY <1>1, <2>5 DEF ReschedFor
    <3>2. Diff(wake(x), wake(t)) = Age(t) - Age(x)
      BY <1>2, <1>5, <2>2, AgeDiff
    <3>3. Age(x) <= Age(t)
      BY <1>5, <1>6, <2>1, <2>2, <2>3, <2>4, <2>5
    <3> QED
      BY <1>4, <1>5, <2>2, <3>1, <3>2, <3>3
  <2>6. CASE ~(~crab[t].vertical /\ At(t) = None /\ Diff(dwReschedTime, wake(t)) > 0)
    <3>1. dwReschedTime' = dwReschedTime
      BY <1>1, <2>6 DEF ReschedFor
    <3>2. Age(x) <= Left
      <4>1. CASE Queued(x, top)
        BY <1>6, <4>1
      <4>2. CASE x = t /\ ~crab[t].vertical /\ At(t) = None
        BY <1>5, <2>3, <2>4, <2>6, <4>2
      <4>3. CASE x = t /\ ~crab[t].vertical /\ At(t) # None
        <5>1. PICK p \in Thread : p = At(t) /\ Queued(p, top) /\ Age(t) < Age(p)
          BY <1>8, <4>3
        <5> QED
          BY <1>5, <1>6, <2>3, <4>3, <5>1
      <4> QED
        BY <2>1, <4>1, <4>2, <4>3
    <3>3. Diff(wake(x), dwReschedTime) = Left - Age(x)
      BY <1>2, <2>2, <2>3, <3>2, LeftDiff
    <3> QED
      BY <1>4, <2>2, <2>3, <3>1, <3>2, <3>3
  <2> QED
    BY <2>5, <2>6
<1>14. ASSUME NEW u \in Thread PROVE SearchTimeOK(u)'
  <2>1. crab'[u] = IF u = t THEN Start(wake(t))
                   ELSE IF onTop /\ At(u) = next THEN [crab[u] EXCEPT !.ok = FALSE] ELSE crab[u]
    BY <1>1
  <2>2. CASE u = t
    <3>1. crab'[u].pth = None
      BY <2>1, <2>2 DEF Start
    <3> QED
      BY <3>1 DEF SearchTimeOK
  <2>3. CASE u # t
    <3>1. crab[u] \in [pth : Thread \cup {None}, ok : BOOLEAN, vertical : BOOLEAN, wake : 0..W - 1]
      BY <1>2 DEF TypeOK
    <3>2. /\ crab'[u].pth = crab[u].pth /\ crab'[u].vertical = crab[u].vertical
          /\ crab'[u].ok => crab[u].ok
      BY <2>1, <2>3, <3>1
    <3> SUFFICES ASSUME crab'[u].ok, crab'[u].pth # None
                 PROVE  (IF crab[u].vertical THEN wake(crab[u].pth) = wake(u)
                         ELSE Diff(wake(crab[u].pth), wake(u)) < 0)'
      BY DEF SearchTimeOK
    <3>3. PICK p \in Thread : p = crab[u].pth
      BY <3>1, <3>2
    <3>4. IF crab[u].vertical THEN wake(p) = wake(u) ELSE Diff(wake(p), wake(u)) < 0
      BY <3>2, <3>3 DEF TimesInv, SearchTimeOK
    <3>5. (IF crab[u].vertical THEN crab[p].wake = crab[u].wake
           ELSE Diff(crab[p].wake, crab[u].wake) < 0)'
      BY <1>4, <3>2, <3>4 DEF wake
    <3> QED
      BY <3>2, <3>3, <3>5 DEF wake
  <2> QED
    BY <2>2, <2>3
<1> QED
  BY <1>11, <1>12, <1>13, <1>14 DEF TimesInv

\* The timer takes the first column off the list when its time has come, and asks to be set
\* again when it has gone off.
LEMMA NextThreadTimes ==
    ASSUME ListsInv, TimesInv, Tick \/ Interrupt PROVE TimesInv'
<1>1. TypeOK /\ AgesOK /\ TimerOK /\ ListTypes /\ ColumnsOK
  BY DEF ListsInv, TypeOK, ListTypes, TimesInv
<1>2. PICK now \in 0..W - 1, d \in {0, 1} :
         /\ NextThread(now)
         /\ \A u \in Thread : Timed(u) => Diff(now, wake(u)) = Age(u) + d /\ Age(u) + d <= MaxLate
         /\ ~resched => Diff(now, dwReschedTime) = Left + d
  <2>1. CASE Interrupt
    <3>1. CurMSec \in 0..W - 1 /\ NextThread(CurMSec)
      BY <1>1, <2>1, ClockTypes DEF Interrupt
    <3>2. ASSUME NEW u \in Thread, Timed(u)
          PROVE  Diff(CurMSec, wake(u)) = Age(u) + 0 /\ Age(u) + 0 <= MaxLate
      <4>1. Age(u) \in MaxLate + 1 - Half..MaxLate
        BY <1>1, <3>2 DEF AgesOK
      <4>2. Age(u) + 0 = Age(u) /\ Age(u) <= MaxLate
        BY <4>1, ClockFacts
      <4> QED
        BY <4>2 DEF Age
    <3>3. ~resched => Diff(CurMSec, dwReschedTime) = Left + 0
      <4>1. Left \in -Half..Half - 1
        BY <1>1, ClockTypes
      <4>2. Left + 0 = Left
        BY <4>1, ClockFacts
      <4> QED
        BY <4>2 DEF Left
    <3> QED
      BY <3>1, <3>2, <3>3
  <2>2. CASE Tick
    <3>1. /\ CurMSec \in 0..W - 1 /\ dwReschedTime \in 0..W - 1
          /\ \A u \in Thread : wake(u) \in 0..W - 1
      BY <1>1, ClockTypes
    <3> DEFINE now == Add(CurMSec, 1)
    <3>2. NextThread(now)
      BY <2>2 DEF Tick
    <3>3. now \in 0..W - 1
      BY <3>1, ClockFacts, DiffAdd
    <3>4. ASSUME NEW u \in Thread, Timed(u)
          PROVE  Diff(now, wake(u)) = Age(u) + 1 /\ Age(u) + 1 <= MaxLate
      <4>1. Age(u) \in MaxLate + 1 - Half..MaxLate /\ Age(u) < MaxLate
        BY <1>1, <2>2, <3>4 DEF AgesOK, Tick, Age
      <4>2. Age(u) < Half - 1 /\ Age(u) + 1 <= MaxLate
        BY <4>1, ClockFacts
      <4>3. Diff(CurMSec, wake(u)) < Half - 1
        BY <4>2 DEF Age
      <4>4. Diff(now, wake(u)) = Diff(CurMSec, wake(u)) + 1
        BY <3>1, <4>3, DiffTick
      <4> HIDE DEF now
      <4> QED
        BY <4>2, <4>4 DEF Age
    <3>5. ASSUME ~resched PROVE Diff(now, dwReschedTime) = Left + 1
      <4>1. Left \in 1 - Half..MaxLate
        BY <1>1, <3>5 DEF TimerOK
      <4>2. Left < Half - 1
        BY <4>1, ClockFacts
      <4>3. Diff(CurMSec, dwReschedTime) < Half - 1
        BY <4>2 DEF Left
      <4>4. Diff(now, dwReschedTime) = Diff(CurMSec, dwReschedTime) + 1
        BY <3>1, <4>3, DiffTick
      <4> HIDE DEF now
      <4> QED
        BY <4>4 DEF Left
    <3> HIDE DEF now
    <3> QED
      BY <3>2, <3>3, <3>4, <3>5
  <2> QED
    BY <2>1, <2>2
<1>3. /\ CurMSec' = now /\ dwReschedTime' = dwReschedTime /\ tail' = tail
      /\ needSleep' = needSleep /\ pc' = pc
      /\ top' = IF Expired(now) THEN Tail(top) ELSE top
      /\ resched \/ Diff(now, dwReschedTime) >= 0 => resched'
  BY <1>2 DEF NextThread
<1>4. /\ ListsInv' /\ TypeOK'
      /\ \A u \in Thread : wake(u)' = wake(u)
      /\ \A u \in Thread : /\ crab'[u].pth = crab[u].pth
                           /\ crab'[u].vertical = crab[u].vertical
                           /\ crab'[u].ok => crab[u].ok
  BY <1>2, NextThreadLists DEF ListsInv
<1>5. /\ \A u, v : Earlier(u, v, top') => Earlier(u, v, top)
      /\ \A v \in Thread : Queued(v, top') => Queued(v, top)
      /\ \A v \in Thread : Sleeping(v)' => Sleeping(v)
      /\ \A v \in Thread : Queued(v, top) /\ ~Queued(v, top') => Diff(now, wake(v)) >= 0
  <2>1. CASE Expired(now)
    <3>1. top # <<>> /\ top' = Tail(top) /\ Diff(now, wake(Head(top))) >= 0
      BY <1>3, <2>1 DEF Expired
    <3>2. /\ \A v \in Thread : Sleeping(v)' <=> Sleeping(v) /\ v # Head(top)
          /\ \A v \in Thread : Queued(v, top') <=> Queued(v, top) /\ v # Head(top)
      BY <1>1, <1>3, <3>1, FirstOff
    <3>3. \A u, v : Earlier(u, v, Tail(top)) => Earlier(u, v, top)
      BY <1>1, <3>1, TailBefore DEF ListTypes
    <3> QED
      BY <3>1, <3>2, <3>3
  <2>2. CASE ~Expired(now)
    BY <1>3, <2>2 DEF Sleeping, Hangs
  <2> QED
    BY <2>1, <2>2
<1>6. \A u \in Thread : Timed(u)' => Timed(u)
  BY <1>3, <1>5 DEF Timed
<1>7. \A u \in Thread : Timed(u) =>
         /\ Age(u) \in MaxLate + 1 - Half..MaxLate /\ Age(u) \in Int
         /\ Age(u)' = Age(u) + d /\ Age(u)' \in MaxLate + 1 - Half..MaxLate
  <2> SUFFICES ASSUME NEW u \in Thread, Timed(u)
               PROVE  /\ Age(u) \in MaxLate + 1 - Half..MaxLate /\ Age(u) \in Int
                      /\ Age(u)' = Age(u) + d /\ Age(u)' \in MaxLate + 1 - Half..MaxLate
    OBVIOUS
  <2>1. Age(u) \in MaxLate + 1 - Half..MaxLate /\ Age(u) \in Int
    BY <1>1, ClockFacts DEF AgesOK
  <2>2. Age(u)' = Age(u) + d /\ Age(u) + d <= MaxLate
    BY <1>2, <1>3, <1>4 DEF Age
  <2> QED
    BY <2>1, <2>2, ClockFacts
<1>8. TopInOrder' /\ ColumnsOfOneTime' /\ AgesOK'
  BY <1>3, <1>4, <1>5, <1>6, <1>7 DEF TimesInv, TopInOrder, ColumnsOfOneTime, AgesOK
<1>9. ASSUME NEW h \in Thread, NEW v \in Thread, Queued(v, tail'[h]), ~Queued(h, top')
      PROVE  Age(v)' >= 0
  <2>1. Queued(v, tail[h]) /\ wake(v) = wake(h)
    BY <1>3, <1>9 DEF TimesInv, ColumnsOfOneTime
  <2>2. Timed(v)
    BY <2>1 DEF Timed, Sleeping, Hangs
  <2>3. CASE Queued(h, top)
    <3>1. Diff(now, wake(v)) >= 0
      BY <1>5, <1>9, <2>1, <2>3
    <3> QED
      BY <1>3, <1>4, <3>1 DEF Age
  <2>4. CASE ~Queued(h, top)
    <3>1. Age(v) >= 0
      BY <2>1, <2>4 DEF TimesInv, OffOK
    <3> QED
      BY <1>7, <2>2, <3>1
  <2> QED
    BY <2>3, <2>4
<1>10. OffOK'
  BY <1>9 DEF OffOK
<1>11. TimerOK'
  <2>1. CASE resched
    <3>1. \A x \in Thread : Queued(x, top') => Diff(wake(x)', dwReschedTime') >= 0
      BY <1>1, <1>3, <1>4, <1>5, <2>1 DEF TimerOK
    <3> QED
      BY <1>3, <2>1, <3>1 DEF TimerOK
  <2>2. CASE ~resched
    <3>1. /\ Left \in 1 - Half..MaxLate /\ Left \in Int /\ Left' = Left + d
          /\ ~resched' => Left' < 0
      <4>1. Left \in 1 - Half..MaxLate
        BY <1>1, <2>2 DEF TimerOK
      <4>2. Left' = Left + d
        BY <1>2, <1>3, <2>2 DEF Left
      <4>3. ~resched' => ~(Left' >= 0)
        BY <1>3 DEF Left
      <4> QED
        BY <4>1, <4>2, <4>3, ClockFacts
    <3>2. ASSUME NEW x \in Thread, Queued(x, top')
          PROVE  Age(x)' <= Left' /\ Diff(wake(x)', dwReschedTime') >= 0
      <4>1. Age(x) <= Left /\ Timed(x)
        BY <1>1, <1>5, <2>2, <3>2, ListedIsTimed DEF TimerOK
      <4>2. Diff(wake(x), dwReschedTime) = Left - Age(x) /\ Age(x) \in Int
        BY <1>1, <3>1, <4>1, LeftDiff
      <4>3. Age(x)' = Age(x) + d
        BY <1>7, <4>1
      <4>4. Diff(wake(x)', dwReschedTime') = Diff(wake(x), dwReschedTime)
        BY <1>3, <1>4
      <4> QED
        BY <3>1, <4>1, <4>2, <4>3, <4>4
    <3>3. ~resched' => Left' \in 1 - Half..MaxLate
      BY <3>1, ClockFacts
    <3> QED
      BY <3>2, <3>3 DEF TimerOK
  <2> QED
    BY <2>1, <2>2
<1>12. ASSUME NEW u \in Thread PROVE SearchTimeOK(u)'
  <2>1. SearchTimeOK(u)
    BY DEF TimesInv
  <2> QED
    BY <1>1, <1>4, <2>1, SearchTimeKept
<1> QED
  BY <1>8, <1>10, <1>11, <1>12 DEF TimesInv

\* Whoever is dispatched, the timer is set for the first of the list or before it.
LEMMA KCNextThreadTimes ==
    ASSUME ListsInv, TimesInv, KCNextThread PROVE TimesInv'
<1>1. TypeOK /\ AgesOK /\ ListTypes /\ TopInOrder /\ ColumnsOfOneTime /\ OffOK
  BY DEF ListsInv, TypeOK, ListTypes, TimesInv
<1>2. /\ CurMSec' = CurMSec /\ top' = top /\ needSleep' = needSleep /\ pc' = pc
      /\ \/ dwReschedTime' = IF top = <<>> THEN Add(CurMSec, Half - 1) ELSE wake(Head(top))
         \/ /\ dwReschedTime' = Add(CurMSec, 1)
            /\ top # <<>> => Diff(dwReschedTime', wake(Head(top))) < 0
  <2>1. \E end \in {IF top = <<>> THEN Add(CurMSec, Half - 1) ELSE wake(Head(top)),
                    Add(CurMSec, 1)} :
           /\ \/ end = IF top = <<>> THEN Add(CurMSec, Half - 1) ELSE wake(Head(top))
              \/ Diff(end, IF top = <<>> THEN Add(CurMSec, Half - 1) ELSE wake(Head(top))) < 0
           /\ dwReschedTime' = end
    BY DEF KCNextThread
  <2>2. CurMSec' = CurMSec /\ top' = top /\ needSleep' = needSleep /\ pc' = pc
    BY DEF KCNextThread
  <2> QED
    BY <2>1, <2>2
<1>3. /\ ListsInv' /\ \A u \in Thread : wake(u)' = wake(u)
      /\ \/ tail' = tail /\ crab' = crab
         \/ \E x \in Thread : ~Sleeping(x) /\ tail' = TailsWithout(x) /\ Forget(Released(x))
  BY KCNextThreadLists
<1>4. TopInOrder' /\ ColumnsOfOneTime' /\ AgesOK' /\ OffOK' /\ \A u \in Thread : SearchTimeOK(u)'
  <2>1. CASE tail' = tail /\ crab' = crab
    <3>1. \A u \in Thread : /\ wake(u)' = wake(u)
                            /\ crab'[u].pth = crab[u].pth
                            /\ crab'[u].vertical = crab[u].vertical
                            /\ crab'[u].ok => crab[u].ok
      BY <1>3, <2>1
    <3>2. ASSUME NEW u \in Thread, NEW v \in Thread, Earlier(u, v, top')
          PROVE  \E x, y \in Thread : Earlier(x, y, top) /\ wake(x) = wake(u) /\ wake(y) = wake(v)
      BY <1>2, <3>2
    <3>3. ASSUME NEW h \in Thread, NEW v \in Thread, Queued(v, tail'[h])
          PROVE  wake(v) = wake(h) /\ (Queued(h, top') \/ Age(v) >= 0)
      BY <1>1, <1>2, <2>1, <3>3 DEF ColumnsOfOneTime, OffOK
    <3>4. \A u \in Thread : Timed(u)' => Timed(u)
      BY <1>2, <2>1 DEF Timed, Sleeping, Hangs
    <3> QED
      BY <1>2, <1>3, <3>1, <3>2, <3>3, <3>4, TimesKept
  <2>2. CASE \E x \in Thread : ~Sleeping(x) /\ tail' = TailsWithout(x) /\ Forget(Released(x))
    <3>1. PICK x \in Thread : ~Sleeping(x) /\ tail' = TailsWithout(x) /\ Forget(Released(x))
      BY <2>2
    <3> QED
      BY <1>2, <1>3, <3>1, PartStep
  <2> QED
    BY <1>3, <2>1, <2>2
<1>5. CurMSec \in 0..W - 1 /\ \A u \in Thread : wake(u) \in 0..W - 1
  BY <1>1, ClockTypes
<1>6. /\ Left' \in 1 - Half..MaxLate
      /\ \A x \in Thread : Queued(x, top) =>
            Age(x) <= Left' /\ Diff(wake(x), dwReschedTime') >= 0
  <2>0. Left' = Diff(CurMSec, dwReschedTime')
    BY <1>2 DEF Left
  <2>1. CASE top = <<>>
    <3>1. Half - 1 \in 0..Half /\ 1 \in 0..Half
      BY ClockFacts
    <3>2. Diff(CurMSec, Add(CurMSec, Half - 1)) = -(Half - 1) /\ Diff(CurMSec, Add(CurMSec, 1)) = -1
      BY <1>5, <3>1, DiffAdd
    <3>3. Left' = -(Half - 1) \/ Left' = -1
      BY <1>2, <2>0, <2>1, <3>2
    <3>4. \A x \in Thread : ~Queued(x, top)
      BY <2>1 DEF Queued
    <3> QED
      BY <3>3, <3>4, ClockFacts
  <2>2. CASE top # <<>>
    <3>1. PICK h \in Thread : h = Head(top) /\ Queued(h, top)
      BY <1>1, <2>2, HeadQueued DEF ListTypes
    <3>2. /\ Age(h) \in MaxLate + 1 - Half..MaxLate /\ Age(h) \in Int
          /\ \A x \in Thread : Queued(x, top) =>
                /\ Age(x) <= Age(h) /\ Age(x) \in MaxLate + 1 - Half..MaxLate /\ Age(x) \in Int
                /\ Diff(wake(x), wake(h)) = Age(h) - Age(x)
      <4>1. Timed(h) /\ Age(h) \in MaxLate + 1 - Half..MaxLate /\ Age(h) \in Int
        BY <1>1, <3>1, ListedIsTimed, ClockFacts DEF AgesOK
      <4>2. ASSUME NEW x \in Thread, Queued(x, top)
            PROVE  /\ Age(x) <= Age(h) /\ Age(x) \in MaxLate + 1 - Half..MaxLate /\ Age(x) \in Int
                   /\ Diff(wake(x), wake(h)) = Age(h) - Age(x)
        <5>1. Timed(x) /\ Age(x) \in MaxLate + 1 - Half..MaxLate /\ Age(x) \in Int
          BY <1>1, <4>2, ListedIsTimed, ClockFacts DEF AgesOK
        <5>2. /\ Diff(wake(x), wake(h)) = Age(h) - Age(x)
              /\ Diff(wake(h), wake(x)) = Age(x) - Age(h)
          BY <1>1, <4>1, <5>1, AgeDiff
        <5>3. x = h \/ Earlier(h, x, top)
          BY <1>1, <2>2, <3>1, <4>2, HeadBefore DEF ListTypes
        <5>4. Earlier(h, x, top) => Diff(wake(h), wake(x)) < 0
          BY <1>1 DEF TopInOrder
        <5> QED
          BY <4>1, <5>1, <5>2, <5>3, <5>4
      <4> QED
        BY <4>1, <4>2
    <3>3. CASE dwReschedTime' = wake(h)
      <4>1. Left' = Age(h)
        BY <2>0, <3>3 DEF Age
      <4> QED
        BY <3>2, <3>3, <4>1, ClockFacts
    <3>4. CASE dwReschedTime' = Add(CurMSec, 1) /\ Diff(dwReschedTime', wake(h)) < 0
      <4>1. PICK e \in 0..W - 1 : e = dwReschedTime' /\ Diff(CurMSec, e) = -1
        <5>1. 1 \in 0..Half
          BY ClockFacts
        <5> QED
          BY <1>5, <3>4, <5>1, DiffAdd
      <4>2. Age(h) + 1 < 0
        <5>1. Diff(CurMSec, wake(h)) < Half - 1
          BY <3>2, ClockFacts DEF Age
        <5>2. Diff(e, wake(h)) = Diff(CurMSec, wake(h)) + 1
          BY <1>5, <3>4, <4>1, <5>1, DiffTick
        <5>3. Diff(CurMSec, wake(h)) = Age(h)
          BY DEF Age
        <5> QED
          BY <3>4, <4>1, <5>2, <5>3
      <4>3. ASSUME NEW x \in Thread, Queued(x, top)
            PROVE  Age(x) <= Left' /\ Diff(wake(x), e) >= 0
        <5>1. Age(x) \in MaxLate + 1 - Half..MaxLate /\ Age(x) \in Int /\ Age(x) < -1
          BY <3>2, <4>2, <4>3
        <5>2. -1 - Age(x) \in -Half..Half - 1
          BY <5>1, ClockFacts
        <5>3. Diff(CurMSec, wake(x)) = Age(x)
          BY DEF Age
        <5>4. Diff(wake(x), e) = -1 - Age(x)
          BY <1>5, <4>1, <5>2, <5>3, DiffExact
        <5> QED
          BY <2>0, <4>1, <5>1, <5>4
      <4>4. Left' \in 1 - Half..MaxLate
        BY <2>0, <4>1, ClockFacts
      <4> QED
        BY <4>1, <4>3, <4>4
    <3> QED
      BY <1>2, <2>2, <3>1, <3>3, <3>4
  <2> QED
    BY <2>1, <2>2
<1>7. TimerOK'
  <2>1. \A x \in Thread : Queued(x, top') =>
           Age(x)' <= Left' /\ Diff(wake(x)', dwReschedTime') >= 0
    BY <1>2, <1>3, <1>6 DEF Age
  <2> QED
    BY <1>6, <2>1 DEF TimerOK
<1> QED
  BY <1>4, <1>7 DEF TimesInv

\* A stutter.
LEMMA StutterTimes == ASSUME ListsInv, TimesInv, UNCHANGED vars PROVE TimesInv'
<1>1. /\ CurMSec' = CurMSec /\ dwReschedTime' = dwReschedTime /\ top' = top /\ tail' = tail
      /\ resched' = resched /\ needSleep' = needSleep /\ pc' = pc /\ crab' = crab
  BY DEF vars, clockVars, listVars, schedVars
<1>2. TypeOK /\ \A u \in Thread : wake(u)' = wake(u)
  BY <1>1 DEF ListsInv, wake
<1>3. \A u \in Thread : Timed(u)' <=> Timed(u)
  BY <1>1 DEF Timed, Sleeping, Hangs
<1>4. TopInOrder' /\ ColumnsOfOneTime' /\ AgesOK' /\ OffOK'
  BY <1>1, <1>2, <1>3 DEF TimesInv, TopInOrder, ColumnsOfOneTime, AgesOK, OffOK, Age
<1>5. TimerOK'
  BY <1>1, <1>2 DEF TimesInv, TimerOK, Age, Left
<1>6. ASSUME NEW u \in Thread PROVE SearchTimeOK(u)'
  <2>1. SearchTimeOK(u)
    BY DEF TimesInv
  <2> QED
    BY <1>1, <1>2, <2>1, SearchTimeKept
<1> QED
  BY <1>4, <1>5, <1>6 DEF TimesInv

\* At the start nobody sleeps.
LEMMA InitTimes == ASSUME Init PROVE TimesInv
<1>1. /\ top = <<>> /\ tail = [t \in Thread |-> <<>>] /\ resched = TRUE /\ needSleep = {}
      /\ pc = [t \in Thread |-> "run"] /\ crab = [t \in Thread |-> Start(0)]
  BY DEF Init
<1>2. \A t \in Thread : tail[t] = <<>> /\ pc[t] = "run" /\ crab[t].pth = None
  BY <1>1 DEF Start
<1>3. /\ \A v : ~Queued(v, top) /\ \A h \in Thread : ~Queued(v, tail[h])
      /\ \A u, v : ~Earlier(u, v, top)
  BY <1>1, <1>2 DEF Queued, Earlier
<1>4. \A t \in Thread : ~Timed(t)
  BY <1>1, <1>2, <1>3 DEF Timed, Sleeping, Hangs
<1>5. \A t \in Thread : SearchTimeOK(t)
  BY <1>2 DEF SearchTimeOK
<1>6. TopInOrder /\ ColumnsOfOneTime /\ AgesOK /\ OffOK /\ TimerOK
  BY <1>1, <1>3, <1>4 DEF TopInOrder, ColumnsOfOneTime, AgesOK, OffOK, TimerOK
<1> QED
  BY <1>5, <1>6 DEF TimesInv

\* Each step.
LEMMA NextTimes == ListsInv /\ TimesInv /\ [Next]_vars => TimesInv'
<1> SUFFICES ASSUME ListsInv, TimesInv, [Next]_vars PROVE TimesInv'
  OBVIOUS
<1>1. CASE Tick \/ Interrupt
  BY <1>1, NextThreadTimes
<1>2. CASE KCNextThread
  BY <1>2, KCNextThreadTimes
<1>3. ASSUME NEW t \in Thread,
             \/ \E d \in Times : BeginSleep(t, d)
             \/ SleepNot(t) \/ SleepSearch(t) \/ SleepPlace(t) \/ Return(t) \/ MakeRunIfNeeded(t)
      PROVE  TimesInv'
  BY <1>3, CallTimes, SearchTimes, PlaceTimes, SignalTimes
<1>4. ASSUME NEW t \in Thread, NEW u \in Thread,
             \/ Signal(t, u) \/ Suspend(t, u) \/ Resume(t, u)
             \/ \E p \in Prio : SetThreadBasePrio(t, u, p)
      PROVE  TimesInv'
  BY <1>4, SignalTimes, PrioTimes
<1>5. CASE UNCHANGED vars
  BY <1>5, StutterTimes
<1> QED
  BY <1>1, <1>2, <1>3, <1>4, <1>5 DEF Next

\* What the invariant says of the list
LEMMA InOrderOfTimeHolds == ListsInv /\ TimesInv => InOrderOfTime
<1> SUFFICES ASSUME ListsInv, TimesInv PROVE InOrderOfTime
  OBVIOUS
<1>1. /\ top \in Seq(Thread) /\ DOMAIN top = 1..Len(top)
      /\ \A i \in DOMAIN top : top[i] \in Thread
  BY LenProperties, ElementOfSeq DEF ListsInv, TypeOK
<1>2. ASSUME NEW i \in DOMAIN top, NEW j \in DOMAIN top, i < j
      PROVE  Diff(wake(top[i]), wake(top[j])) < 0
  <2>1. PICK u \in Thread, v \in Thread : u = top[i] /\ v = top[j]
    BY <1>1
  <2>2. Earlier(u, v, top)
    BY <1>2, <2>1 DEF Earlier
  <2>3. Diff(wake(u), wake(v)) < 0
    BY <2>2 DEF TimesInv, TopInOrder
  <2> QED
    BY <2>1, <2>3
<1>3. ASSUME NEW h \in Thread, NEW i \in DOMAIN tail[h] PROVE wake(tail[h][i]) = wake(h)
  <2>1. PICK v \in Thread : v = tail[h][i]
    BY <1>3, LenProperties, ElementOfSeq DEF ListsInv, TypeOK
  <2>2. Queued(v, tail[h])
    BY <1>3, <2>1 DEF Queued
  <2>3. wake(v) = wake(h)
    BY <2>2 DEF TimesInv, ColumnsOfOneTime
  <2> QED
    BY <2>1, <2>3
<1> QED
  BY <1>2, <1>3 DEF InOrderOfTime

\* and of the timer.
LEMMA OnTimeHolds == ListsInv /\ TimesInv => OnTime
<1> SUFFICES ASSUME ListsInv, TimesInv PROVE OnTime
  OBVIOUS
<1>1. TypeOK /\ AgesOK /\ TimerOK /\ OffOK /\ ListTypes /\ ColumnsOK
  BY DEF ListsInv, TypeOK, ListTypes, TimesInv
<1>2. ReschedInTime
  <2> SUFFICES ASSUME top # <<>> PROVE Diff(wake(Head(top)), dwReschedTime) >= 0
    BY DEF ReschedInTime
  <2>1. PICK h \in Thread : h = Head(top) /\ Queued(h, top)
    BY <1>1, HeadQueued DEF ListTypes
  <2>2. CASE resched
    BY <1>1, <2>1, <2>2 DEF TimerOK
  <2>3. CASE ~resched
    <3>1. Age(h) <= Left /\ Left \in 1 - Half..MaxLate /\ Timed(h)
      BY <1>1, <2>1, <2>3, ListedIsTimed DEF TimerOK
    <3>2. Diff(wake(h), dwReschedTime) = Left - Age(h) /\ Age(h) \in Int /\ Left \in Int
      BY <1>1, <3>1, LeftDiff
    <3> QED
      BY <2>1, <3>1, <3>2
  <2> QED
    BY <2>2, <2>3
<1>3. NoEarlyWake
  <2> SUFFICES ASSUME NEW t \in Thread, Hangs(t), ~Queued(Column(t), top)
               PROVE  Diff(CurMSec, wake(t)) >= 0
    BY DEF NoEarlyWake
  <2>1. PICK h \in Thread : Queued(t, tail[h])
    BY DEF Hangs
  <2>2. Column(t) = h
    BY <1>1, <2>1, ColumnOf
  <2>3. Age(t) >= 0
    BY <1>1, <2>1, <2>2 DEF OffOK
  <2> QED
    BY <2>3 DEF Age
<1> QED
  BY <1>2, <1>3 DEF OnTime

\* Both invariants hold always.
LEMMA TimesAlways == Spec => []ListsInv /\ []TimesInv
<1>1. Init => ListsInv /\ TimesInv
  BY InitLists, InitTimes
<1>2. (ListsInv /\ TimesInv) /\ [Next]_vars => (ListsInv /\ TimesInv)'
  BY NextLists, NextTimes
<1> QED
  BY <1>1, <1>2, PTL DEF Spec

\* The timer is asked for early enough for the first sleeper, and whoever hangs below a thread
\* that was taken off the list has slept its time, for every clock width and however late the
\* timer comes within the bound, though each search goes on for many kernel calls (NextThread,
\* KCNextThread, SleepOneMore).
THEOREM SleepersOnTime == Spec => []OnTime
BY TimesAlways, OnTimeHolds, PTL

\* The list stays in the order of the wake-up times, and a column stays of one time, though
\* priorities change and threads are woken in the middle of a search (SleepOneMore,
\* SleepqDequeue).
THEOREM ListInOrderOfTime == Spec => []InOrderOfTime
BY TimesAlways, InOrderOfTimeHolds, PTL

-----------------------------------------------------------------------------
(* The order of priorities, in the columns and in the run queue *)

\* What a search has to see: whoever is above v in its column.
Above(u, v) == Queued(v, tail[u]) \/ \E h \in Thread : Earlier(u, v, tail[h])

\* A thread whose priority changes while it is marked to run stays where it hangs.
Loose(v) == state[v] = "needsrun" /\ v \in Changing

\* Nobody hangs above a more urgent thread, but for one that is marked to run.
ColumnsInOrder == \A u, v \in Thread : Above(u, v) /\ ~Loose(v) => cprio[u] <= cprio[v]

\* A search that goes down a column has passed nobody less urgent, unless its own
\* priority changes: then SleepOneMore looks at the one it is at.
SearchPrioOK(x) ==
    crab[x].ok /\ crab[x].vertical /\ x \notin Changing =>
        \A u \in Thread : u = At(x) \/ Above(u, At(x)) => cprio[u] <= cprio[x]

\* Nobody in the queue q is more urgent than the running thread.
Leads(q) == \A u \in Thread : Queued(u, q) => cprio[runth] <= cprio[u]

\* The run queue is in order, and whoever runs is as urgent as the first of it.
RunqOK ==
    /\ Ordered(runq, cprio)
    /\ runth # None /\ ~resched => Leads(runq)

\* What every step keeps.
OrderInv == ColumnsInOrder /\ RunqOK /\ \A x \in Thread : SearchPrioOK(x)

\* The priority of one thread at most is changed.
OneChanges == \A a, b \in Changing : a = b

-----------------------------------------------------------------------------

\* A sequence with one more in front of it.
LEMMA Cons ==
    ASSUME NEW T, NEW q \in Seq(T), NEW t \in T
    PROVE  LET c == <<t>> \o q
           IN  /\ Len(q) \in Nat /\ DOMAIN q = 1..Len(q)
               /\ DOMAIN c = 1..Len(q) + 1 /\ Len(c) = Len(q) + 1
               /\ \A k \in 1..Len(q) + 1 : c[k] = IF k = 1 THEN t ELSE q[k - 1]
<1> DEFINE a == <<t>>
<1>1. a \in Seq(T) /\ Len(a) = 1 /\ a[1] = t
  OBVIOUS
<1>2. Len(q) \in Nat /\ DOMAIN q = 1..Len(q)
  BY LenProperties
<1> HIDE DEF a
<1>3. /\ a \o q \in Seq(T) /\ Len(a \o q) = Len(a) + Len(q)
      /\ \A k \in 1..Len(a) + Len(q) :
            (a \o q)[k] = IF k <= Len(a) THEN a[k] ELSE q[k - Len(a)]
  <2>1. a \in Seq(T) /\ q \in Seq(T)
    BY <1>1
  <2> QED
    BY <2>1, ConcatProperties
<1>4. DOMAIN (a \o q) = 1..Len(q) + 1 /\ Len(a \o q) = Len(q) + 1
  <2>1. a \o q \in Seq(T) /\ Len(a \o q) = Len(q) + 1
    BY <1>1, <1>2, <1>3
  <2>2. DOMAIN (a \o q) = 1..Len(a \o q)
    BY <2>1, LenProperties
  <2> QED
    BY <2>1, <2>2
<1>5. \A k \in 1..Len(q) + 1 : (a \o q)[k] = IF k = 1 THEN t ELSE q[k - 1]
  BY <1>1, <1>2, <1>3
<1> QED
  BY <1>2, <1>4, <1>5 DEF a

\* Who is before whom when one more is put in front.
LEMMA ConsBefore ==
    ASSUME NEW T, NEW q \in Seq(T), NEW t \in T, NEW u, NEW v, Earlier(u, v, <<t>> \o q)
    PROVE  (u = t /\ Queued(v, q)) \/ Earlier(u, v, q)
<1> DEFINE c == <<t>> \o q
<1>1. /\ Len(q) \in Nat /\ DOMAIN q = 1..Len(q) /\ DOMAIN c = 1..Len(q) + 1
      /\ \A k \in 1..Len(q) + 1 : c[k] = IF k = 1 THEN t ELSE q[k - 1]
  BY Cons
<1> HIDE DEF c
<1>2. PICK i \in 1..Len(q) + 1, j \in 1..Len(q) + 1 : i < j /\ c[i] = u /\ c[j] = v
  BY <1>1 DEF Earlier, c
<1>3. j # 1 /\ j - 1 \in 1..Len(q) /\ q[j - 1] = v
  BY <1>1, <1>2
<1>4. CASE i = 1
  BY <1>1, <1>2, <1>3, <1>4 DEF Queued
<1>5. CASE i # 1
  <2>1. i - 1 \in 1..Len(q) /\ i - 1 < j - 1 /\ q[i - 1] = u
    BY <1>1, <1>2, <1>5
  <2> QED
    BY <1>1, <1>3, <2>1 DEF Earlier
<1> QED
  BY <1>4, <1>5

\* pDownSleep, by where the thread is in its column.
LEMMA BelowAt ==
    ASSUME ListTypes, ColumnsOK, NEW p \in Thread, NEW h \in Thread, NEW n \in 0..Len(tail[h]),
           IF n = 0 THEN h = p /\ Queued(p, top) ELSE tail[h][n] = p
    PROVE  Below(p) = IF n = Len(tail[h]) THEN None ELSE tail[h][n + 1]
<1>1. tail[h] \in Seq(Thread) /\ Distinct(tail[h])
  BY DEF ListTypes, ColumnsOK
<1> DEFINE c == <<h>> \o tail[h]
<1>2. /\ Len(tail[h]) \in Nat /\ DOMAIN tail[h] = 1..Len(tail[h])
      /\ DOMAIN c = 1..Len(tail[h]) + 1 /\ Len(c) = Len(tail[h]) + 1
      /\ \A k \in 1..Len(tail[h]) + 1 : c[k] = IF k = 1 THEN h ELSE tail[h][k - 1]
  BY <1>1, Cons
<1>3. Column(p) = h
  <2>1. CASE n = 0
    BY <2>1, ColumnOf
  <2>2. CASE n # 0
    <3>1. Queued(p, tail[h])
      BY <1>2, <2>2 DEF Queued
    <3> QED
      BY <3>1, ColumnOf
  <2> QED
    BY <2>1, <2>2
<1>4. ~Queued(h, tail[h])
  BY EmptyQueue DEF ColumnsOK
<1> DEFINE i == CHOOSE k \in DOMAIN c : c[k] = p
<1>5. Below(p) = IF i = Len(c) THEN None ELSE c[i + 1]
  BY <1>3 DEF Below
<1> HIDE DEF c
<1>6. n + 1 \in DOMAIN c /\ c[n + 1] = p
  BY <1>2
<1>7. \A k \in DOMAIN c : c[k] = p => k = n + 1
  <2> SUFFICES ASSUME NEW k \in DOMAIN c, c[k] = p PROVE k = n + 1
    OBVIOUS
  <2>1. CASE n = 0
    <3>1. h = p
      BY <2>1
    <3>2. CASE k # 1
      <4>1. k - 1 \in DOMAIN tail[h] /\ tail[h][k - 1] = h
        BY <1>2, <3>1, <3>2
      <4> QED
        BY <1>4, <4>1 DEF Queued
    <3> QED
      BY <2>1, <3>2
  <2>2. CASE n # 0
    <3>1. n \in DOMAIN tail[h] /\ tail[h][n] = p
      BY <1>2, <2>2
    <3>2. CASE k = 1
      <4>1. h = p
        BY <1>2, <3>2
      <4> QED
        BY <1>4, <3>1, <4>1 DEF Queued
    <3>3. CASE k # 1
      <4>1. k - 1 \in DOMAIN tail[h] /\ tail[h][k - 1] = p
        BY <1>2, <3>3
      <4>2. k - 1 = n
        BY <1>1, <3>1, <4>1 DEF Distinct
      <4> QED
        BY <1>2, <4>2
    <3> QED
      BY <3>2, <3>3
  <2> QED
    BY <2>1, <2>2
<1>8. i = n + 1
  BY <1>6, <1>7
<1> HIDE DEF i
<1>9. n # Len(tail[h]) => c[n + 2] = tail[h][n + 1]
  <2> SUFFICES ASSUME n # Len(tail[h]) PROVE c[n + 2] = tail[h][n + 1]
    OBVIOUS
  <2>1. n + 2 \in 1..Len(tail[h]) + 1 /\ n + 2 # 1 /\ (n + 2) - 1 = n + 1
    BY <1>2
  <2> QED
    BY <1>2, <2>1
<1>10. (n + 1) + 1 = n + 2 /\ (n + 1 = Len(c) <=> n = Len(tail[h]))
  BY <1>2
<1> QED
  BY <1>5, <1>8, <1>9, <1>10

-----------------------------------------------------------------------------
(* A step after which nobody is above more threads than before *)

\* What has changed for the better or not at all.
NoneMoved == \A u, v \in Thread : Above(u, v)' => Above(u, v)
\* Who was excused from the order is so still.
StillLoose == \A v \in Thread : Hangs(v)' /\ Loose(v) => Loose(v)'
\* No priority has changed for the worse.
PriosKept ==
    /\ \A v \in Thread : Hangs(v)' => Loose(v)' \/ cprio[v] <= cprio'[v]
    /\ \A u \in Thread : Sleeping(u)' \/ tail'[u] # <<>> => cprio'[u] <= cprio[u]
    /\ \A x \in Thread \ Changing : cprio[x] <= cprio'[x]
\* The searches stand where they stood.
SearchesKept ==
    \A x \in Thread : crab'[x].ok /\ crab'[x].vertical =>
        crab[x].ok /\ crab[x].vertical /\ At(x)' = At(x)

\* Who is above whom is in a column, or carries one.
AboveHangs == \A u, v \in Thread : Above(u, v) => Hangs(v) /\ (Hangs(u) \/ tail[u] # <<>>)

\* Who is above somebody else is a head or hangs itself.
LEMMA AboveIsQueued == AboveHangs
<1> SUFFICES ASSUME NEW u \in Thread, NEW v \in Thread, Above(u, v)
             PROVE  Hangs(v) /\ (Hangs(u) \/ tail[u] # <<>>)
  BY DEF AboveHangs
<1>1. CASE Queued(v, tail[u])
  BY <1>1, EmptyQueue DEF Hangs
<1>2. CASE \E h \in Thread : Earlier(u, v, tail[h])
  BY <1>2 DEF Hangs, Earlier, Queued
<1> QED
  BY <1>1, <1>2 DEF Above

\* A step after which nobody is above more threads than before, and no priority changed for
\* the worse, keeps the order.
LEMMA OrderKept ==
    ASSUME ListsInv, ListsInv', ColumnsInOrder, \A x \in Thread : SearchPrioOK(x),
           NoneMoved, StillLoose, PriosKept, SearchesKept
    PROVE  ColumnsInOrder' /\ \A x \in Thread : SearchPrioOK(x)'
<1>1. /\ cprio \in [Thread -> Int] /\ cprio' \in [Thread -> Int] /\ ListTypes'
      /\ \A x \in Thread : SearchOK(x)'
  <2>1. TypeOK /\ TypeOK' /\ Prio \subseteq Int
    BY SleepListAssumption DEF ListsInv
  <2> QED
    BY <2>1 DEF TypeOK, ListTypes, ListsInv
<1>2. ASSUME NEW u \in Thread, NEW v \in Thread, Above(u, v)'
      PROVE  Above(u, v) /\ Hangs(v)' /\ cprio'[u] <= cprio[u]
  <2>1. Hangs(v)' /\ (Hangs(u)' \/ tail'[u] # <<>>)
    <3>1. AboveHangs'
      BY AboveIsQueued, PTL
    <3> QED
      BY <1>2, <3>1 DEF AboveHangs
  <2>2. cprio'[u] <= cprio[u]
    BY <2>1 DEF PriosKept, Sleeping
  <2> QED
    BY <1>2, <2>1, <2>2 DEF NoneMoved
<1>3. ASSUME NEW u \in Thread, NEW v \in Thread, Above(u, v)', ~Loose(v)'
      PROVE  cprio'[u] <= cprio'[v]
  <2>1. Above(u, v) /\ Hangs(v)' /\ cprio'[u] <= cprio[u]
    BY <1>2, <1>3
  <2>2. ~Loose(v) /\ cprio[v] <= cprio'[v]
    BY <1>3, <2>1 DEF StillLoose, PriosKept
  <2>3. cprio[u] <= cprio[v]
    BY <2>1, <2>2 DEF ColumnsInOrder
  <2> QED
    BY <1>1, <2>1, <2>2, <2>3
<1>4. ASSUME NEW x \in Thread, (crab[x].ok /\ crab[x].vertical)', x \notin Changing,
             NEW u \in Thread, u = At(x)' \/ Above(u, At(x))'
      PROVE  cprio'[u] <= cprio'[x]
  <2>1. crab[x].ok /\ crab[x].vertical /\ At(x)' = At(x)
    BY <1>4 DEF SearchesKept
  <2>2. Sleeping(At(x))' /\ At(x) \in Thread
    <3>1. SearchOK(x)' /\ (crab[x].pth \in Thread \cup {None})'
      BY <1>1 DEF ListsInv, TypeOK
    <3> QED
      BY <1>4, <2>1, <3>1 DEF SearchOK, At
  <2>3. PICK a \in Thread : a = At(x)
    BY <2>2
  <2>4. (u = a \/ Above(u, a)) /\ cprio'[u] <= cprio[u]
    <3>1. CASE u = a
      <4>1. Sleeping(a)'
        BY <1>4, <2>1, <2>2, <2>3 DEF SearchOK, ListsInv, At
      <4> QED
        BY <3>1, <4>1 DEF PriosKept
    <3>2. CASE u # a
      <4>1. Above(u, a)'
        BY <1>4, <2>1, <2>3, <3>2
      <4> QED
        BY <1>2, <4>1
    <3> QED
      BY <3>1, <3>2
  <2>5. cprio[u] <= cprio[x]
    BY <1>4, <2>1, <2>3, <2>4 DEF SearchPrioOK
  <2>6. cprio[x] <= cprio'[x]
    BY <1>4 DEF PriosKept
  <2> QED
    BY <1>1, <2>4, <2>5, <2>6
<1> QED
  BY <1>3, <1>4 DEF ColumnsInOrder, SearchPrioOK

\* The searches, when those on some threads have to start again.
LEMMA ForgetsNone ==
    ASSUME TypeOK, NEW S, Forget(S)
    PROVE  SearchesKept
<1> SUFFICES ASSUME NEW x \in Thread, crab'[x].ok, crab'[x].vertical
             PROVE  crab[x].ok /\ crab[x].vertical /\ At(x)' = At(x)
  BY DEF SearchesKept
<1>1. crab'[x] = IF crab[x].pth \in S THEN [crab[x] EXCEPT !.ok = FALSE] ELSE crab[x]
  BY DEF Forget
<1>2. crab[x] \in [pth : Thread \cup {None}, ok : BOOLEAN, vertical : BOOLEAN, wake : 0..W - 1]
  BY DEF TypeOK
<1>3. crab[x].pth \notin S
  BY <1>1, <1>2
<1> QED
  BY <1>1, <1>3 DEF At

\* pOut takes a thread out of the columns, and nobody is above more threads than before.
LEMMA OutAbove ==
    ASSUME ListTypes, ColumnsOK, NEW t \in Thread, SleepqDequeue(t)
    PROVE  NoneMoved
<1>1. CASE Queued(t, top) /\ tail[t] # <<>>
  <2>1. tail' = [tail EXCEPT ![Head(tail[t])] = Tail(tail[t]), ![t] = <<>>]
    BY <1>1 DEF SleepqDequeue
  <2>2. PICK d \in Thread : d = Head(tail[t]) /\ Queued(d, tail[t])
    BY <1>1, HeadQueued DEF ListTypes
  <2>3. ASSUME NEW h \in Thread
        PROVE  tail'[h] = IF h = t THEN <<>> ELSE IF h = d THEN Tail(tail[t]) ELSE tail[h]
    BY <2>1, <2>2 DEF ListTypes
  <2>4. /\ \A u, v : Earlier(u, v, Tail(tail[t])) => Earlier(u, v, tail[t])
        /\ \A v : Queued(v, Tail(tail[t])) => Earlier(d, v, tail[t])
    BY <1>1, <2>2, TailBefore DEF ListTypes
  <2>5. \A u, v : ~Queued(v, <<>>) /\ ~Earlier(u, v, <<>>)
    BY DEF Queued, Earlier
  <2>6. ASSUME NEW u \in Thread, NEW v \in Thread, Queued(v, tail'[u]) PROVE Above(u, v)
    BY <2>3, <2>4, <2>5, <2>6 DEF Above
  <2>7. ASSUME NEW u \in Thread, NEW v \in Thread, NEW h \in Thread, Earlier(u, v, tail'[h])
        PROVE  Above(u, v)
    BY <2>3, <2>4, <2>5, <2>7 DEF Above
  <2> QED
    BY <2>6, <2>7 DEF NoneMoved, Above
<1>2. CASE ~(Queued(t, top) /\ tail[t] # <<>>)
  <2>1. tail' = [h \in Thread |-> Dequeue(tail[h], t)]
    BY <1>2 DEF SleepqDequeue
  <2>2. ASSUME NEW h \in Thread PROVE tail'[h] = Dequeue(tail[h], t) /\ tail[h] \in Seq(Thread)
    BY <2>1 DEF ListTypes
  <2>3. ASSUME NEW u \in Thread, NEW v \in Thread, Queued(v, tail'[u]) PROVE Queued(v, tail[u])
    <3>1. Distinct(tail[u])
      BY DEF ColumnsOK
    <3> QED
      BY <2>2, <2>3, <3>1, DequeueTakes
  <2>4. ASSUME NEW u \in Thread, NEW v \in Thread, NEW h \in Thread, Earlier(u, v, tail'[h])
        PROVE  Earlier(u, v, tail[h])
    BY <2>2, <2>4, DequeueBefore
  <2> QED
    BY <2>3, <2>4 DEF NoneMoved, Above
<1> QED
  BY <1>1, <1>2

\* pParted takes a column off the list, and the next thread of it comes in its place.
LEMMA PartedAbove ==
    ASSUME ListTypes, NEW t \in Thread, tail' = TailsWithout(t)
    PROVE  NoneMoved
<1>1. CASE tail[t] = <<>>
  <2>1. tail' = [h \in Thread |-> tail[h]]
    BY <1>1 DEF TailsWithout, Released
  <2> QED
    BY <2>1 DEF NoneMoved, Above
<1>2. CASE tail[t] # <<>>
  <2>1. PICK d \in Thread : d = Head(tail[t]) /\ Queued(d, tail[t])
    BY <1>2, HeadQueued DEF ListTypes
  <2>2. Released(t) = {d}
    BY <1>2, <2>1 DEF Released
  <2>3. ASSUME NEW h \in Thread
        PROVE  tail'[h] = IF h = t THEN <<>> ELSE IF h = d THEN Tail(tail[t]) ELSE tail[h]
    BY <2>2 DEF TailsWithout
  <2>4. /\ \A u, v : Earlier(u, v, Tail(tail[t])) => Earlier(u, v, tail[t])
        /\ \A v : Queued(v, Tail(tail[t])) => Earlier(d, v, tail[t])
    BY <1>2, <2>1, TailBefore DEF ListTypes
  <2>5. \A u, v : ~Queued(v, <<>>) /\ ~Earlier(u, v, <<>>)
    BY DEF Queued, Earlier
  <2>6. ASSUME NEW u \in Thread, NEW v \in Thread, Queued(v, tail'[u]) PROVE Above(u, v)
    BY <2>3, <2>4, <2>5, <2>6 DEF Above
  <2>7. ASSUME NEW u \in Thread, NEW v \in Thread, NEW h \in Thread, Earlier(u, v, tail'[h])
        PROVE  Above(u, v)
    BY <2>3, <2>4, <2>5, <2>7 DEF Above
  <2> QED
    BY <2>6, <2>7 DEF NoneMoved, Above
<1> QED
  BY <1>1, <1>2

-----------------------------------------------------------------------------
(* The run queue *)

\* A thread joins the run queue with the priority p.
LEMMA Joined ==
    ASSUME NEW q \in Seq(Thread), Distinct(q), NEW t \in Thread, ~Queued(t, q),
           NEW prio \in [Thread -> Int], Ordered(q, prio), NEW p \in Int,
           NEW after \in [Thread -> Int], after[t] = p, \A u \in Thread \ {t} : after[u] = prio[u],
           NEW r, r = Enqueue(q, t, p, prio)
    PROVE  /\ Ordered(r, after)
           /\ runth \in Thread \ {t} /\ ~Preempts(t, q, after)
              /\ (\A u \in Thread : Queued(u, q) => prio[runth] <= prio[u])
              => \A u \in Thread : Queued(u, r) => after[runth] <= after[u]
<1>1. Ordered(r, after)
  BY EnqueueOrder
<1>2. \A u : Queued(u, r) => u = t \/ Queued(u, q)
  BY EnqueueAdds
<1>3. ASSUME runth \in Thread \ {t}, ~Preempts(t, q, after),
             \A u \in Thread : Queued(u, q) => prio[runth] <= prio[u],
             NEW u \in Thread, Queued(u, r)
      PROVE  after[runth] <= after[u]
  <2>1. CASE u # t
    BY <1>2, <1>3, <2>1
  <2>2. CASE u = t
    <3>1. runth # None
      BY <1>3, SleepListAssumption
    <3>2. \/ q # <<>> /\ ~(after[t] < after[Head(q)])
          \/ ~(after[t] < after[runth])
      BY <1>3, <3>1 DEF Preempts
    <3>3. CASE q # <<>> /\ ~(after[t] < after[Head(q)])
      <4>1. PICK d \in Thread : d = Head(q) /\ Queued(d, q)
        BY <3>3, HeadQueued
      <4>2. prio[runth] <= prio[d] /\ d # t
        BY <1>3, <4>1
      <4>3. after[runth] = prio[runth] /\ after[d] = prio[d] /\ ~(after[t] < after[d])
        BY <1>3, <3>3, <4>1, <4>2
      <4>4. after[t] \in Int /\ prio[d] \in Int /\ prio[runth] \in Int
        BY <1>3
      <4> QED
        BY <2>2, <4>2, <4>3, <4>4
    <3>4. CASE ~(after[t] < after[runth])
      <4>1. after[t] \in Int /\ after[runth] \in Int
        BY <1>3
      <4> QED
        BY <2>2, <3>4, <4>1
    <3> QED
      BY <3>2, <3>3, <3>4
  <2> QED
    BY <2>1, <2>2
<1> QED
  BY <1>1, <1>3

\* A thread leaves the run queue, and the one below it comes in its place.
LEMMA PartedOrder ==
    ASSUME NEW q \in Seq(Thread), Distinct(q), NEW t \in Thread, Queued(t, q),
           NEW prio \in [Thread -> Int], Ordered(q, prio),
           ListTypes, \A d \in Woken(t) : ~Queued(d, q) /\ prio[t] <= prio[d],
           NEW r, r = RunqWithout(q, t, prio)
    PROVE  /\ Ordered(r, prio)
           /\ \A u \in Thread : Queued(u, r) =>
                 \E w \in Thread : Queued(w, q) /\ prio[w] <= prio[u]
<1>1. \A u : Queued(u, r) <=> u \in Woken(t) \/ (u # t /\ Queued(u, q))
  BY RunqParted
<1>2. ASSUME NEW u \in Thread, Queued(u, r)
      PROVE  \E w \in Thread : Queued(w, q) /\ prio[w] <= prio[u]
  <2>1. CASE u \in Woken(t)
    BY <2>1
  <2>2. CASE Queued(u, q)
    <3>1. prio[u] \in Int
      OBVIOUS
    <3> QED
      BY <2>2, <3>1
  <2> QED
    BY <1>1, <1>2, <2>1, <2>2
<1>3. CASE Woken(t) = {}
  <2>1. r = Dequeue(q, t)
    BY <1>3 DEF RunqWithout
  <2> QED
    BY <1>2, <2>1, DequeueOrder
<1>4. CASE Woken(t) # {}
  <2>1. tail[t] # <<>> /\ Woken(t) = {Head(tail[t])}
    BY <1>4 DEF Woken, Released
  <2>2. PICK d \in Thread : d = Head(tail[t])
    BY <2>1, HeadQueued DEF ListTypes
  <2>3. ~Queued(d, q) /\ d # t
    BY <2>1, <2>2
  <2>4. r = IF prio[d] = prio[t] THEN [i \in DOMAIN q |-> IF q[i] = t THEN d ELSE q[i]]
            ELSE Dequeue(Enqueue(q, d, prio[d], prio), t)
    BY <1>4, <2>2 DEF RunqWithout
  <2>5. CASE prio[d] = prio[t]
    <3>1. r = [i \in DOMAIN q |-> IF q[i] = t THEN d ELSE q[i]]
      BY <2>4, <2>5
    <3>2. DOMAIN r = DOMAIN q /\ \A i \in DOMAIN q : prio[r[i]] = prio[q[i]]
      BY <2>5, <3>1
    <3>3. Ordered(r, prio)
      BY <3>2 DEF Ordered
    <3> QED
      BY <1>2, <3>3
  <2>6. CASE prio[d] # prio[t]
    <3> DEFINE e == Enqueue(q, d, prio[d], prio)
    <3>1. prio[d] \in Int /\ e \in Seq(Thread) /\ Distinct(e)
      BY <2>3, EnqueueAdds
    <3>2. Ordered(e, prio)
      BY <2>3, <3>1, EnqueueOrder
    <3>3. r = Dequeue(e, t)
      BY <2>4, <2>6
    <3> HIDE DEF e
    <3>4. Ordered(r, prio)
      BY <3>1, <3>2, <3>3, DequeueOrder
    <3> QED
      BY <1>2, <3>4
  <2> QED
    BY <2>5, <2>6
<1> QED
  BY <1>3, <1>4

-----------------------------------------------------------------------------
(* The steps *)

\* The priorities are integers.
LEMMA PrioTypes == TypeOK => cprio \in [Thread -> Int]
<1> SUFFICES ASSUME TypeOK PROVE cprio \in [Thread -> Int]
  OBVIOUS
<1>1. cprio \in [Thread -> Prio] /\ \A p \in Prio : p \in Int
  BY SleepListAssumption DEF TypeOK
<1>2. \A t \in Thread : cprio[t] \in Int
  BY <1>1
<1> QED
  BY <1>1, <1>2

\* Who keeps its place and its run state keeps its looseness.
LEMMA LooseStays ==
    ASSUME ListsInv', \A v \in Thread : state[v] = "needsrun" => state'[v] # "blocked"
    PROVE  StillLoose
<1> SUFFICES ASSUME NEW v \in Thread, Hangs(v)', Loose(v) PROVE Loose(v)'
  BY DEF StillLoose
<1>1. PlaceOK(v)' /\ Sleeping(v)'
  BY DEF ListsInv, Sleeping
<1>2. state'[v] \in {"blocked", "needsrun"}
  BY <1>1 DEF PlaceOK
<1> QED
  BY <1>2 DEF Loose

\* A step that changes no priority.
LEMMA OrderFrame ==
    ASSUME ListsInv, ListsInv', OrderInv, cprio' = cprio, NoneMoved, SearchesKept,
           \A v \in Thread : state[v] = "needsrun" => state'[v] # "blocked"
    PROVE  ColumnsInOrder' /\ \A x \in Thread : SearchPrioOK(x)'
<1>1. StillLoose
  BY LooseStays
<1>2. cprio \in [Thread -> Int]
  BY PrioTypes DEF ListsInv
<1>3. PriosKept
  BY <1>2 DEF PriosKept
<1> QED
  BY <1>1, <1>3, OrderKept DEF OrderInv

\* A step that leaves the columns and the priorities alone.
LEMMA SameOrder ==
    ASSUME ListsInv, ListsInv', OrderInv, cprio' = cprio, tail' = tail, SearchesKept,
           runq' = runq, runth' = runth, resched' = resched,
           \A v \in Thread : state[v] = "needsrun" => state'[v] # "blocked"
    PROVE  OrderInv'
<1>1. NoneMoved
  BY DEF NoneMoved, Above
<1>2. RunqOK'
  BY DEF OrderInv, RunqOK, Leads
<1> QED
  BY <1>1, <1>2, OrderFrame DEF OrderInv

\* NKSleep: the caller marks itself, and its search begins.
LEMMA CallsOrder ==
    ASSUME ListsInv, ListsInv', OrderInv, NEW t \in Thread,
           SleepNot(t) \/ Return(t) \/ \E d \in Times : BeginSleep(t, d)
    PROVE  OrderInv'
<1>1. /\ cprio' = cprio /\ tail' = tail /\ runq' = runq /\ runth' = runth
      /\ resched' = resched /\ state' = state
      /\ \E w : crab' = [crab EXCEPT ![t] = Start(w)]
  BY DEF SleepNot, Return, BeginSleep, listVars, schedVars, prioVars
<1>2. PICK w : crab' = [crab EXCEPT ![t] = Start(w)]
  BY <1>1
<1>3. \A x \in Thread : crab'[x] = IF x = t THEN Start(w) ELSE crab[x]
  BY <1>2 DEF ListsInv, TypeOK
<1>4. SearchesKept
  BY <1>3 DEF SearchesKept, Start, At
<1> QED
  BY <1>1, <1>4, SameOrder

\* The first half of a wake-up: the thread is marked to run.
LEMMA SignalOrder ==
    ASSUME ListsInv, ListsInv', OrderInv, NEW r \in Thread, NEW t \in Thread, Signal(r, t)
    PROVE  OrderInv'
<1>1. /\ cprio' = cprio /\ tail' = tail /\ runq' = runq /\ runth' = runth
      /\ resched' = resched /\ crab' = crab /\ state' = [state EXCEPT ![t] = "needsrun"]
  BY DEF Signal, listVars, prioVars
<1>2. \A v \in Thread : state[v] = "needsrun" => state'[v] # "blocked"
  BY <1>1 DEF ListsInv, TypeOK
<1>3. SearchesKept
  BY <1>1 DEF SearchesKept, At
<1> QED
  BY <1>1, <1>2, <1>3, SameOrder

\* The run queue when t, that is not the running one, has joined it with the priority p.
LEMMA JoinedOrder ==
    ASSUME NEW t \in Thread, NEW p \in Int, cprio \in [Thread -> Int],
           NEW prio \in [Thread -> Int], cprio' = prio,
           \A v \in Thread : prio[v] = IF v = t THEN p ELSE cprio[v],
           NEW q \in Seq(Thread), Distinct(q), ~Queued(t, q), Ordered(q, cprio),
           runq' = Enqueue(q, t, p, cprio), runth \in Thread, runth # t, runth' = runth,
           \A u \in Thread : Queued(u, q) => cprio[runth] <= cprio[u],
           Preempts(t, q, prio) => resched'
    PROVE  RunqOK'
<1>1. PICK before, r : before \in [Thread -> Int] /\ before = cprio /\ r = runq'
  OBVIOUS
<1>2. /\ before \in [Thread -> Int] /\ Ordered(q, before) /\ r = Enqueue(q, t, p, before)
      /\ prio[t] = p /\ \A u \in Thread \ {t} : prio[u] = before[u]
  BY <1>1
<1>3. /\ Ordered(r, prio)
      /\ runth \in Thread \ {t} /\ ~Preempts(t, q, prio)
         /\ (\A u \in Thread : Queued(u, q) => before[runth] <= before[u])
         => \A u \in Thread : Queued(u, r) => prio[runth] <= prio[u]
  BY <1>2, Joined
<1>4. ~resched' => \A u \in Thread : Queued(u, r) => prio[runth] <= prio[u]
  BY <1>1, <1>3
<1> QED
  BY <1>1, <1>3, <1>4 DEF RunqOK, Leads

\* A thread that is not the running one is made runnable.
LEMMA RunOrder ==
    ASSUME ListsInv, ListsInv', OrderInv, NEW t \in Thread, ~Queued(t, runq), runth # t,
           cprio' = cprio, runth' = runth,
           runq' = Enqueue(runq, t, cprio[t], cprio),
           resched => resched', Preempts(t, runq, cprio) => resched'
    PROVE  RunqOK'
<1>1. /\ runq \in Seq(Thread) /\ Distinct(runq) /\ cprio \in [Thread -> Int]
      /\ runth \in Thread \cup {None} /\ cprio[t] \in Int
  BY PrioTypes DEF ListsInv, TypeOK
<1>2. Ordered(runq, cprio) /\ (runth # None /\ ~resched => Leads(runq))
  BY DEF OrderInv, RunqOK
<1>3. /\ Ordered(runq', cprio)
      /\ runth \in Thread \ {t} /\ ~Preempts(t, runq, cprio)
         /\ (\A u \in Thread : Queued(u, runq) => cprio[runth] <= cprio[u])
         => \A u \in Thread : Queued(u, runq') => cprio[runth] <= cprio[u]
  <2>1. PICK q, prio, p, r :
           /\ q \in Seq(Thread) /\ prio \in [Thread -> Int] /\ p \in Int
           /\ q = runq /\ prio = cprio /\ p = cprio[t] /\ r = runq'
    BY <1>1
  <2>2. /\ q \in Seq(Thread) /\ prio \in [Thread -> Int] /\ p \in Int
        /\ Distinct(q) /\ ~Queued(t, q) /\ Ordered(q, prio) /\ prio[t] = p
        /\ r = Enqueue(q, t, p, prio)
    BY <1>1, <1>2, <2>1
  <2>3. /\ Ordered(r, prio)
        /\ runth \in Thread \ {t} /\ ~Preempts(t, q, prio)
           /\ (\A u \in Thread : Queued(u, q) => prio[runth] <= prio[u])
           => \A u \in Thread : Queued(u, r) => prio[runth] <= prio[u]
    BY <2>2, Joined
  <2> QED
    BY <2>1, <2>3
<1>4. ASSUME runth' # None, ~resched' PROVE Leads(runq)'
  <2>1. runth \in Thread \ {t} /\ ~resched /\ ~Preempts(t, runq, cprio)
    BY <1>1, <1>4
  <2>2. \A u \in Thread : Queued(u, runq) => cprio[runth] <= cprio[u]
    BY <1>2, <1>4, <2>1 DEF Leads
  <2>3. \A u \in Thread : Queued(u, runq') => cprio[runth] <= cprio[u]
    BY <1>3, <2>1, <2>2
  <2> QED
    BY <2>3 DEF Leads
<1> QED
  BY <1>3, <1>4 DEF RunqOK

\* MakeRunIfNeeded and MakeRun: the thread is in the run queue, or runs next.
LEMMA MakeRunOrder ==
    ASSUME ListsInv, ListsInv', OrderInv, NEW r \in Thread, MakeRunIfNeeded(r)
    PROVE  OrderInv'
<1>1. runth = r /\ cprio' = cprio /\ runth' = runth /\ PlaceOK(r)
  BY DEF MakeRunIfNeeded, Runs, prioVars, ListsInv
<1>2. PICK t \in Thread : t = target[r]
  BY <1>1 DEF PlaceOK, MakeRunIfNeeded
<1>3. TypeOK /\ ListTypes /\ ColumnsOK /\ PlaceOK(t)
  BY DEF ListsInv, TypeOK, ListTypes
<1>4. CASE state[t] = "needsrun"
  <2>1. /\ IF Sleeping(t) THEN SleepqDequeue(t) ELSE top' = top /\ tail' = tail /\ crab' = crab
        /\ runq' = Enqueue(runq, t, cprio[t], cprio)
        /\ state' = [state EXCEPT ![t] = "runnable"]
        /\ resched' = (resched \/ Preempts(t, runq, cprio))
    BY <1>2, <1>4 DEF MakeRunIfNeeded, MakeRun, listVars
  <2>2. NoneMoved /\ SearchesKept
    <3>1. CASE Sleeping(t)
      <4>1. SleepqDequeue(t) /\ Forget({t})
        BY <2>1, <3>1 DEF SleepqDequeue
      <4> QED
        BY <1>3, <4>1, OutAbove, ForgetsNone
    <3>2. CASE ~Sleeping(t)
      BY <2>1, <3>2 DEF NoneMoved, Above, SearchesKept, At
    <3> QED
      BY <3>1, <3>2
  <2>3. \A v \in Thread : state[v] = "needsrun" => state'[v] # "blocked"
    BY <1>3, <2>1 DEF TypeOK
  <2>4. ~Queued(t, runq) /\ runth # t
    BY <1>1, <1>3, <1>4 DEF PlaceOK
  <2>5. RunqOK'
    BY <1>1, <2>1, <2>4, RunOrder
  <2> QED
    BY <1>1, <2>2, <2>3, <2>5, OrderFrame DEF OrderInv
<1>5. CASE state[t] # "needsrun"
  <2>1. /\ tail' = tail /\ crab' = crab /\ runq' = runq /\ resched' = resched
        /\ state' = state
    BY <1>2, <1>5 DEF MakeRunIfNeeded, listVars
  <2>2. SearchesKept
    BY <2>1 DEF SearchesKept, At
  <2> QED
    BY <1>1, <2>1, <2>2, SameOrder
<1> QED
  BY <1>4, <1>5

\* ThreadResume of a thread.
LEMMA ResumeOrder ==
    ASSUME ListsInv, ListsInv', OrderInv, NEW r \in Thread, NEW t \in Thread, Resume(r, t)
    PROVE  OrderInv'
<1>1. /\ runth = r /\ cprio' = cprio /\ runth' = runth /\ t \in suspended
      /\ tail' = tail /\ crab' = crab
      /\ runq' = Enqueue(runq, t, cprio[t], cprio)
      /\ state' = [state EXCEPT ![t] = "runnable"]
      /\ resched' = (resched \/ Preempts(t, runq, cprio))
  BY DEF Resume, MakeRun, Runs, listVars, prioVars
<1>2. TypeOK /\ PlaceOK(t)
  BY DEF ListsInv
<1>3. ~Queued(t, runq) /\ runth # t
  BY <1>1, <1>2 DEF PlaceOK
<1>4. RunqOK'
  BY <1>1, <1>3, RunOrder
<1>5. NoneMoved /\ SearchesKept
  BY <1>1 DEF NoneMoved, Above, SearchesKept, At
<1>6. \A v \in Thread : state[v] = "needsrun" => state'[v] # "blocked"
  BY <1>1, <1>2 DEF TypeOK
<1> QED
  BY <1>1, <1>4, <1>5, <1>6, OrderFrame DEF OrderInv

\* NextThread: the first sleeper whose time has come leaves the list.
LEMMA NextThreadOrder ==
    ASSUME ListsInv, ListsInv', OrderInv, NEW now, NextThread(now)
    PROVE  OrderInv'
<1> DEFINE t == Head(top)
           runs == Expired(now) /\ state[t] # "needsrun"
<1>1. /\ cprio' = cprio /\ runth' = runth /\ tail' = tail
      /\ Forget(IF Expired(now) THEN {t} ELSE {})
      /\ runq' = IF runs THEN Enqueue(runq, t, cprio[t], cprio) ELSE runq
      /\ state' = IF runs THEN [state EXCEPT ![t] = "runnable"] ELSE state
      /\ resched => resched'
      /\ runs /\ Preempts(t, runq, cprio) => resched'
  BY DEF NextThread, prioVars
<1> HIDE DEF t, runs
<1>2. TypeOK
  BY DEF ListsInv
<1>3. NoneMoved /\ SearchesKept
  BY <1>1, <1>2, ForgetsNone DEF NoneMoved, Above
<1>4. \A v \in Thread : state[v] = "needsrun" => state'[v] # "blocked"
  BY <1>1, <1>2 DEF TypeOK
<1>5. ColumnsInOrder' /\ \A x \in Thread : SearchPrioOK(x)'
  BY <1>1, <1>3, <1>4, OrderFrame
<1>6. CASE ~runs
  BY <1>1, <1>5, <1>6 DEF OrderInv, RunqOK, Leads
<1>7. CASE runs
  <2>1. t \in Thread /\ Queued(t, top)
    BY <1>2, <1>7, HeadQueued DEF runs, t, Expired, TypeOK
  <2>2. PICK d \in Thread : d = t
    BY <2>1
  <2>3. PlaceOK(d) /\ Sleeping(d)
    BY <2>1, <2>2 DEF ListsInv, Sleeping
  <2>4. ~Queued(d, runq) /\ runth # d
    BY <2>3 DEF PlaceOK
  <2>5. runq' = Enqueue(runq, d, cprio[d], cprio) /\ (Preempts(d, runq, cprio) => resched')
    BY <1>1, <1>7, <2>2
  <2>6. RunqOK'
    BY <1>1, <2>4, <2>5, RunOrder
  <2> QED
    BY <1>5, <2>6 DEF OrderInv
<1> QED
  BY <1>6, <1>7

\* Those that come in the place of a thread in the run queue are no more urgent.
LEMMA WokenBehind ==
    ASSUME ListsInv, OrderInv, NEW t \in Thread, NEW d \in Woken(t)
    PROVE  d \in Thread /\ Hangs(d) /\ ~Queued(d, runq) /\ runth # d /\ cprio[t] <= cprio[d]
<1>1. tail[t] # <<>> /\ d = Head(tail[t]) /\ state[d] # "needsrun"
  BY DEF Woken, Released
<1>2. d \in Thread /\ Queued(d, tail[t])
  BY <1>1, HeadQueued DEF ListsInv, TypeOK
<1>3. Hangs(d) /\ Sleeping(d) /\ PlaceOK(d)
  BY <1>2 DEF Hangs, Sleeping, ListsInv
<1>4. ~Queued(d, runq) /\ runth # d
  BY <1>3 DEF PlaceOK
<1>5. cprio[t] <= cprio[d]
  BY <1>1, <1>2 DEF OrderInv, ColumnsInOrder, Above, Loose
<1> QED
  BY <1>2, <1>3, <1>4, <1>5

\* A thread leaves the run queue, and nobody in it has got more urgent.
LEMMA LeavesRunq ==
    ASSUME ListsInv, OrderInv, NEW t \in Thread, Queued(t, runq)
    PROVE  LET r == RunqWithout(runq, t, cprio)
           IN  /\ r \in Seq(Thread) /\ Distinct(r) /\ ~Queued(t, r) /\ Ordered(r, cprio)
               /\ runth # None /\ ~resched =>
                     \A u \in Thread : Queued(u, r) => cprio[runth] <= cprio[u]
<1>1. PICK q, prio, r :
         /\ q \in Seq(Thread) /\ prio \in [Thread -> Int]
         /\ q = runq /\ prio = cprio /\ r = RunqWithout(q, t, prio)
  BY PrioTypes DEF ListsInv, TypeOK
<1>2. Distinct(q) /\ Queued(t, q) /\ Ordered(q, prio) /\ ListTypes /\ PlaceOK(t)
  BY <1>1 DEF ListsInv, OrderInv, RunqOK, TypeOK, ListTypes
<1>3. \A d \in Woken(t) : ~Queued(d, q) /\ prio[t] <= prio[d] /\ d # t
  BY <1>1, <1>2, WokenBehind
<1>4. /\ r \in Seq(Thread) /\ Distinct(r)
      /\ \A u : Queued(u, r) <=> u \in Woken(t) \/ (u # t /\ Queued(u, q))
  <2>1. \A d \in Woken(t) : ~Queued(d, q)
    BY <1>3
  <2> QED
    BY <1>1, <1>2, <2>1, RunqParted
<1>5. /\ Ordered(r, prio)
      /\ \A u \in Thread : Queued(u, r) => \E w \in Thread : Queued(w, q) /\ prio[w] <= prio[u]
  <2>1. \A d \in Woken(t) : ~Queued(d, q) /\ prio[t] <= prio[d]
    BY <1>3
  <2> QED
    BY <1>1, <1>2, <2>1, PartedOrder
<1>6. ASSUME runth # None, ~resched, NEW u \in Thread, Queued(u, r)
      PROVE  prio[runth] <= prio[u]
  <2>1. PICK w \in Thread : Queued(w, q) /\ prio[w] <= prio[u]
    BY <1>5, <1>6
  <2>2. prio[runth] <= prio[w] /\ runth \in Thread
    BY <1>1, <1>6, <2>1 DEF OrderInv, RunqOK, Leads, ListsInv, TypeOK
  <2>3. prio[runth] \in Int /\ prio[w] \in Int /\ prio[u] \in Int
    BY <1>1, <2>2
  <2> QED
    BY <2>1, <2>2, <2>3
<1>7. ~Queued(t, r)
  BY <1>3, <1>4
<1> QED
  BY <1>1, <1>4, <1>5, <1>6, <1>7

\* ThreadSuspend of a thread that is runnable, running or asleep.
LEMMA SuspendOrder ==
    ASSUME ListsInv, ListsInv', OrderInv, NEW r \in Thread, NEW t \in Thread, Suspend(r, t)
    PROVE  OrderInv'
<1>1. /\ cprio' = cprio /\ runth' = runth /\ resched' = resched /\ runth = r
      /\ state' = [u \in Thread |-> IF u = t THEN "blocked"
                                    ELSE IF state[t] = "runnable" /\ u \in Woken(t)
                                    THEN "runnable" ELSE state[u]]
      /\ \/ /\ state[t] = "runnable" /\ runq' = RunqWithout(runq, t, cprio)
            /\ tail' = TailsWithout(t) /\ Forget(Released(t))
         \/ state[t] = "blocked" /\ SleepqDequeue(t) /\ runq' = runq
  BY DEF Suspend, Resleep, Runs, prioVars
<1>2. TypeOK /\ ListTypes /\ ColumnsOK /\ PlaceOK(t)
  BY DEF ListsInv, TypeOK, ListTypes
<1>3. \A v \in Thread : state[v] = "needsrun" => state'[v] # "blocked"
  BY <1>1
<1>4. CASE /\ state[t] = "runnable" /\ runq' = RunqWithout(runq, t, cprio)
           /\ tail' = TailsWithout(t) /\ Forget(Released(t))
  <2>1. NoneMoved /\ SearchesKept
    BY <1>2, <1>4, PartedAbove, ForgetsNone
  <2>2. Queued(t, runq)
    BY <1>2, <1>4 DEF PlaceOK
  <2>3. RunqOK'
    BY <1>1, <1>4, <2>2, LeavesRunq DEF RunqOK, Leads
  <2> QED
    BY <1>1, <1>3, <2>1, <2>3, OrderFrame DEF OrderInv
<1>5. CASE state[t] = "blocked" /\ SleepqDequeue(t) /\ runq' = runq
  <2>1. Forget({t})
    BY <1>5 DEF SleepqDequeue
  <2>2. NoneMoved /\ SearchesKept
    BY <1>2, <1>5, <2>1, OutAbove, ForgetsNone
  <2>3. RunqOK'
    BY <1>1, <1>5 DEF OrderInv, RunqOK, Leads
  <2> QED
    BY <1>1, <1>3, <2>2, <2>3, OrderFrame DEF OrderInv
<1> QED
  BY <1>1, <1>4, <1>5

\* A step that gives t the priority p.
LEMMA PrioFrame ==
    ASSUME ListsInv, ListsInv', OrderInv, NEW t \in Thread, t \in Changing, NEW p \in Int,
           cprio' = [cprio EXCEPT ![t] = p],
           Hangs(t)' => Loose(t)', Sleeping(t)' \/ tail'[t] # <<>> => p <= cprio[t],
           NoneMoved, SearchesKept,
           \A v \in Thread : state[v] = "needsrun" => state'[v] # "blocked"
    PROVE  ColumnsInOrder' /\ \A x \in Thread : SearchPrioOK(x)'
<1>1. StillLoose
  BY LooseStays
<1>2. cprio \in [Thread -> Int]
  BY PrioTypes DEF ListsInv
<1>3. \A v \in Thread : cprio'[v] = IF v = t THEN p ELSE cprio[v]
  BY <1>2
<1>4. PriosKept
  BY <1>2, <1>3 DEF PriosKept
<1> QED
  BY <1>1, <1>4, OrderKept DEF OrderInv

\* SetThreadBasePrio: the thread is put back where its new priority has it.
LEMMA BasePrioOrder ==
    ASSUME ListsInv, ListsInv', OrderInv, NEW r \in Thread, NEW t \in Thread, NEW p \in Prio,
           SetThreadBasePrio(r, t, p)
    PROVE  OrderInv'
<1>1. PICK prio : prio = [cprio EXCEPT ![t] = p]
  OBVIOUS
<1>2. PICK q : q = RunqWithout(runq, t, cprio)
  OBVIOUS
<1>3. /\ runth = r /\ runth' = runth /\ ~resched /\ t \in Changing /\ runth # None
      /\ TypeOK /\ ListTypes /\ ColumnsOK /\ PlaceOK(t) /\ PlaceOK(t)'
      /\ runq \in Seq(Thread) /\ Distinct(runq) /\ Ordered(runq, cprio) /\ Leads(runq)
  BY SleepListAssumption
     DEF SetThreadBasePrio, Runs, ListsInv, TypeOK, ListTypes, OrderInv, RunqOK
<1>4. \/ /\ cprio' = cprio /\ tail' = tail /\ runq' = runq /\ state' = state
         /\ crab' = crab /\ resched' = resched
      \/ /\ t = r /\ cprio' = prio /\ tail' = tail /\ runq' = runq /\ state' = state
         /\ crab' = crab
         /\ resched' = (p # cprio[t] /\ runq # <<>> /\ p > cprio[Head(runq)])
      \/ /\ t # r /\ p < cprio[t] /\ cprio' = prio
         /\ \/ /\ state[t] = "runnable" /\ runq' = Enqueue(q, t, p, prio)
               /\ tail' = TailsWithout(t) /\ Forget(Released(t))
               /\ state' = [u \in Thread |-> IF u \in Woken(t) THEN "runnable" ELSE state[u]]
               /\ resched' = Preempts(t, q, prio)
            \/ /\ Hangs(t) /\ state[t] # "needsrun" /\ SleepqDequeue(t)
               /\ runq' = Enqueue(runq, t, p, cprio)
               /\ state' = [state EXCEPT ![t] = "runnable"]
               /\ resched' = Preempts(t, runq, prio)
            \/ /\ state[t] # "runnable" /\ (Hangs(t) => state[t] = "needsrun")
               /\ tail' = tail /\ runq' = runq /\ state' = state /\ crab' = crab
               /\ resched' = resched
  <2>1. p \in Int /\ cprio[t] \in Int
    BY <1>3, PrioTypes, SleepListAssumption
  <2>2. p >= cprio[t] \/ p < cprio[t]
    BY <2>1
  <2> QED
    BY <1>1, <1>2, <2>2 DEF SetThreadBasePrio, Resleep, listVars
<1>5. /\ cprio \in [Thread -> Int] /\ p \in Int /\ prio \in [Thread -> Int]
      /\ \A v \in Thread : prio[v] = IF v = t THEN p ELSE cprio[v]
  <2>1. cprio \in [Thread -> Int] /\ p \in Int
    BY <1>3, PrioTypes, SleepListAssumption
  <2> QED
    BY <1>1, <2>1
<1>6. CASE /\ cprio' = cprio /\ tail' = tail /\ runq' = runq /\ state' = state
           /\ crab' = crab /\ resched' = resched
  <2>1. SearchesKept
    BY <1>6 DEF SearchesKept, At
  <2> QED
    BY <1>3, <1>6, <2>1, SameOrder
<1>7. CASE /\ t = r /\ cprio' = prio /\ tail' = tail /\ runq' = runq /\ state' = state
           /\ crab' = crab
           /\ resched' = (p # cprio[t] /\ runq # <<>> /\ p > cprio[Head(runq)])
  <2>1. NoneMoved /\ SearchesKept
    BY <1>7 DEF NoneMoved, Above, SearchesKept, At
  <2>2. tail[t] = <<>> /\ ~Queued(t, runq) /\ state'[t] = "running"
    BY <1>3, <1>7, RunningFacts
  <2>3. ~Sleeping(t)'
    BY <1>3, <2>2 DEF PlaceOK
  <2>4. ColumnsInOrder' /\ \A x \in Thread : SearchPrioOK(x)'
    BY <1>1, <1>3, <1>5, <1>7, <2>1, <2>2, <2>3, PrioFrame DEF Sleeping
  <2>5. \A i \in DOMAIN runq : runq[i] \in Thread /\ prio[runq[i]] = cprio[runq[i]]
    <3>1. \A i \in DOMAIN runq : runq[i] \in Thread /\ runq[i] # t
      BY <1>3, <2>2, ElementOfSeq, LenProperties DEF Queued
    <3> QED
      BY <1>5, <3>1
  <2>6. Ordered(runq, prio)
    BY <1>3, <2>5 DEF Ordered
  <2>7. ASSUME ~resched', NEW u \in Thread, Queued(u, runq) PROVE prio[t] <= prio[u]
    <3>1. u # t /\ prio[u] = cprio[u] /\ prio[t] = p /\ cprio[u] \in Int /\ cprio[t] \in Int
      BY <1>5, <2>2, <2>7
    <3>2. CASE p = cprio[t]
      BY <1>3, <1>7, <2>7, <3>1, <3>2 DEF Leads
    <3>3. CASE p # cprio[t]
      <4>1. runq # <<>>
        BY <2>7, EmptyQueue
      <4>2. PICK d \in Thread : d = Head(runq) /\ d = runq[1]
        BY <1>3, <4>1, HeadQueued
      <4>3. ~(p > cprio[d]) /\ cprio[d] \in Int
        BY <1>5, <1>7, <2>7, <3>3, <4>1, <4>2
      <4>4. PICK i \in DOMAIN runq : runq[i] = u
        BY <2>7 DEF Queued
      <4>5. 1 \in DOMAIN runq /\ i \in Nat /\ (i = 1 \/ 1 < i)
        BY <1>3, <4>1, <4>4, LenProperties, EmptySeq
      <4>6. cprio[d] <= cprio[u]
        BY <1>3, <1>5, <4>2, <4>4, <4>5 DEF Ordered
      <4> QED
        BY <1>5, <3>1, <4>3, <4>6
    <3> QED
      BY <3>2, <3>3
  <2>8. RunqOK'
    BY <1>3, <1>7, <2>6, <2>7 DEF RunqOK, Leads
  <2> QED
    BY <2>4, <2>8 DEF OrderInv
<1>8. CASE /\ t # r /\ p < cprio[t] /\ cprio' = prio
           /\ state[t] = "runnable" /\ runq' = Enqueue(q, t, p, prio)
           /\ tail' = TailsWithout(t) /\ Forget(Released(t))
           /\ state' = [u \in Thread |-> IF u \in Woken(t) THEN "runnable" ELSE state[u]]
           /\ resched' = Preempts(t, q, prio)
  <2>1. NoneMoved /\ SearchesKept
    BY <1>3, <1>8, PartedAbove, ForgetsNone
  <2>2. \A v \in Thread : state[v] = "needsrun" => state'[v] # "blocked"
    BY <1>8
  <2>3. Queued(t, runq) /\ ~Sleeping(t)'
    <3>1. state'[t] = "runnable"
      BY <1>8
    <3> QED
      BY <1>3, <1>8, <3>1 DEF PlaceOK
  <2>4. p <= cprio[t] /\ ~Hangs(t)'
    BY <1>5, <1>8, <2>3 DEF Sleeping
  <2>5. ColumnsInOrder' /\ \A x \in Thread : SearchPrioOK(x)'
    BY <1>1, <1>3, <1>5, <1>8, <2>1, <2>2, <2>4, PrioFrame
  <2>6. /\ q \in Seq(Thread) /\ Distinct(q) /\ ~Queued(t, q) /\ Ordered(q, cprio)
        /\ \A u \in Thread : Queued(u, q) => cprio[runth] <= cprio[u]
    BY <1>2, <1>3, <2>3, LeavesRunq
  <2>7. RunqOK'
    <3>1. runq' = Enqueue(q, t, p, cprio)
      <4>1. \A i \in DOMAIN q : prio[q[i]] = cprio[q[i]]
        <5>1. \A i \in DOMAIN q : q[i] \in Thread /\ q[i] # t
          BY <2>6, ElementOfSeq, LenProperties DEF Queued
        <5> QED
          BY <1>5, <5>1
      <4> QED
        BY <1>8, <4>1 DEF Enqueue, Ahead
    <3> QED
      BY <1>3, <1>5, <1>8, <2>6, <3>1, JoinedOrder
  <2> QED
    BY <2>5, <2>7 DEF OrderInv
<1>9. CASE /\ t # r /\ p < cprio[t] /\ cprio' = prio
           /\ Hangs(t) /\ state[t] # "needsrun" /\ SleepqDequeue(t)
           /\ runq' = Enqueue(runq, t, p, cprio)
           /\ state' = [state EXCEPT ![t] = "runnable"]
           /\ resched' = Preempts(t, runq, prio)
  <2>1. Forget({t})
    BY <1>9 DEF SleepqDequeue
  <2>2. NoneMoved /\ SearchesKept
    BY <1>3, <1>9, <2>1, OutAbove, ForgetsNone
  <2>3. /\ \A v \in Thread : state[v] = "needsrun" => state'[v] # "blocked"
        /\ state'[t] = "runnable"
    BY <1>3, <1>9 DEF TypeOK
  <2>4. ~Sleeping(t)' /\ ~Queued(t, runq)
    BY <1>3, <1>9, <2>3 DEF PlaceOK, Sleeping
  <2>5. p <= cprio[t] /\ ~Hangs(t)'
    BY <1>5, <1>9, <2>4 DEF Sleeping
  <2>6. ColumnsInOrder' /\ \A x \in Thread : SearchPrioOK(x)'
    BY <1>1, <1>3, <1>5, <1>9, <2>2, <2>3, <2>5, PrioFrame
  <2>7. RunqOK'
    BY <1>3, <1>5, <1>9, <2>4, JoinedOrder DEF Leads
  <2> QED
    BY <2>6, <2>7 DEF OrderInv
<1>10. CASE /\ t # r /\ p < cprio[t] /\ cprio' = prio
            /\ state[t] # "runnable" /\ (Hangs(t) => state[t] = "needsrun")
            /\ tail' = tail /\ runq' = runq /\ state' = state /\ crab' = crab
            /\ resched' = resched
  <2>1. NoneMoved /\ SearchesKept
    BY <1>10 DEF NoneMoved, Above, SearchesKept, At
  <2>2. (Hangs(t)' => Loose(t)') /\ p <= cprio[t]
    BY <1>3, <1>5, <1>10 DEF Hangs, Loose
  <2>3. ColumnsInOrder' /\ \A x \in Thread : SearchPrioOK(x)'
    BY <1>1, <1>3, <1>5, <1>10, <2>1, <2>2, PrioFrame
  <2>4. \A i \in DOMAIN runq : runq[i] # t /\ prio[runq[i]] = cprio[runq[i]]
    <3>1. \A i \in DOMAIN runq : runq[i] \in Thread /\ runq[i] # t
      BY <1>3, <1>10, ElementOfSeq, LenProperties DEF Queued, PlaceOK
    <3> QED
      BY <1>5, <3>1
  <2>5. Ordered(runq, prio)
    BY <1>3, <2>4 DEF Ordered
  <2>6. ASSUME NEW u \in Thread, Queued(u, runq) PROVE prio[runth] <= prio[u]
    BY <1>3, <1>5, <1>10, <2>4, <2>6 DEF Leads, Queued
  <2>7. RunqOK'
    BY <1>3, <1>10, <2>5, <2>6 DEF RunqOK, Leads
  <2> QED
    BY <2>3, <2>7 DEF OrderInv
<1> QED
  BY <1>4, <1>6, <1>7, <1>8, <1>9, <1>10

\* Nobody in a queue in order is more urgent than the first.
LEMMA FirstLeads ==
    ASSUME NEW q \in Seq(Thread), NEW prio \in [Thread -> Int], Ordered(q, prio),
           NEW u \in Thread, Queued(u, q)
    PROVE  prio[q[1]] <= prio[u]
<1>1. Len(q) \in Nat /\ DOMAIN q = 1..Len(q)
  BY LenProperties
<1>2. PICK i \in 1..Len(q) : q[i] = u
  BY <1>1 DEF Queued
<1>3. 1 \in DOMAIN q /\ i \in DOMAIN q /\ (i = 1 \/ 1 < i)
  BY <1>1, <1>2
<1>4. prio[u] \in Int
  OBVIOUS
<1> QED
  BY <1>2, <1>3, <1>4 DEF Ordered

\* Nothing hangs below the running thread.
RunningHasNone == \A t \in Thread : runth = t => ~Sleeping(t) /\ tail[t] = <<>>

\* What the list invariant says of the running thread, before a step
LEMMA RunningHas == ListsInv => RunningHasNone
BY RunningFacts DEF RunningHasNone

\* and after it.
LEMMA RunningNow == ListsInv' => RunningHasNone'
BY RunningHas, PTL

\* The queue that dispatch takes its first thread from is in order, and it is the run
\* queue only if nobody in that is more urgent than the running thread.
LEMMA PutBackOrder ==
    ASSUME ListsInv, OrderInv, NEW quantumOver \in BOOLEAN, NEW q, q = RunqToDispatch(quantumOver)
    PROVE  /\ q \in Seq(Thread) /\ Distinct(q) /\ Ordered(q, cprio)
           /\ \A u : Queued(u, q) => u = runth \/ Queued(u, runq)
           /\ runth # None /\ q = runq => Leads(runq)
<1>1. /\ runq \in Seq(Thread) /\ Distinct(runq) /\ Ordered(runq, cprio)
      /\ cprio \in [Thread -> Int] /\ runth \in Thread \cup {None}
  BY PrioTypes DEF ListsInv, TypeOK, OrderInv, RunqOK
<1>2. CASE runth = None
  BY <1>1, <1>2 DEF RunqToDispatch
<1>3. CASE runq = <<>>
  <2>1. q = runq
    BY <1>3 DEF RunqToDispatch
  <2> QED
    BY <1>1, <1>3, <2>1, EmptyQueue DEF Leads
<1>4. CASE runth # None /\ runq # <<>>
  <2>1. runth \in Thread /\ ~Queued(runth, runq)
    BY <1>1, <1>4, RunningFacts
  <2>2. PICK t \in Thread, d \in Thread, prio \in [Thread -> Int], r \in Seq(Thread) :
           t = runth /\ d = Head(runq) /\ d = runq[1] /\ prio = cprio /\ r = runq
    BY <1>1, <1>4, <2>1, HeadQueued
  <2>3. Distinct(r) /\ ~Queued(t, r) /\ Ordered(r, prio) /\ prio[t] \in Int /\ prio[d] \in Int
    BY <1>1, <2>1, <2>2
  <2>4. LET e == EnqueueFirst(r, t, prio[t], prio)
        IN  /\ e \in Seq(Thread) /\ Distinct(e) /\ Ordered(e, prio)
            /\ \A u : Queued(u, e) <=> u = t \/ Queued(u, r)
    BY <2>3, EnqueueFirstOrder
  <2>5. LET e == Enqueue(r, t, prio[t], prio)
        IN  /\ e \in Seq(Thread) /\ Distinct(e) /\ Ordered(e, prio)
            /\ \A u : Queued(u, e) <=> u = t \/ Queued(u, r)
    <3>1. PICK p \in Int : p = prio[t]
      BY <2>3
    <3>2. Ordered(Enqueue(r, t, p, prio), prio)
      BY <2>3, <3>1, EnqueueOrder
    <3>3. /\ Enqueue(r, t, p, prio) \in Seq(Thread) /\ Distinct(Enqueue(r, t, p, prio))
          /\ \A u : Queued(u, Enqueue(r, t, p, prio)) <=> u = t \/ Queued(u, r)
      BY <2>3, EnqueueAdds
    <3> QED
      BY <3>1, <3>2, <3>3
  <2>6. /\ q = EnqueueFirst(r, t, prio[t], prio) \/ q = Enqueue(r, t, prio[t], prio) \/ q = r
        /\ q = r => ~(prio[t] > prio[d])
    <3>1. q = IF prio[t] > prio[d] /\ ~quantumOver THEN EnqueueFirst(r, t, prio[t], prio)
              ELSE IF prio[t] > prio[d] \/ (prio[t] = prio[d] /\ quantumOver)
              THEN Enqueue(r, t, prio[t], prio) ELSE r
      BY <1>4, <2>2 DEF RunqToDispatch
    <3>2. EnqueueFirst(r, t, prio[t], prio) # r /\ Enqueue(r, t, prio[t], prio) # r
      BY <2>3, <2>4, <2>5
    <3> QED
      BY <3>1, <3>2
  <2>7. /\ q \in Seq(Thread) /\ Distinct(q) /\ Ordered(q, prio)
        /\ \A u : Queued(u, q) => u = t \/ Queued(u, r)
    BY <2>3, <2>4, <2>5, <2>6
  <2>8. ASSUME q = r, NEW u \in Thread, Queued(u, r) PROVE prio[t] <= prio[u]
    <3>1. prio[d] <= prio[u]
      BY <2>2, <2>3, <2>8, FirstLeads
    <3>2. ~(prio[t] > prio[d]) /\ prio[u] \in Int
      BY <2>6, <2>8
    <3> QED
      BY <2>3, <3>1, <3>2
  <2> QED
    BY <2>2, <2>7, <2>8 DEF Leads
<1> QED
  BY <1>2, <1>3, <1>4

\* KCNextThread: the first of the run queue runs.
LEMMA KCNextThreadOrder ==
    ASSUME ListsInv, ListsInv', OrderInv, KCNextThread
    PROVE  OrderInv'
<1>1. PICK quantumOver \in BOOLEAN :
    LET q == RunqToDispatch(quantumOver)
        stays == runth # None /\ q = runq
        t == IF stays THEN runth ELSE IF q = <<>> THEN None ELSE Head(q)
        prio == IF stays \/ t = None \/ bprio[t] < cprio[t] THEN cprio
                ELSE [cprio EXCEPT ![t] = bprio[t]]
        rest == RunqWithout(q, t, cprio)
    IN
    /\ runth' = t
    /\ cprio' = prio
    /\ IF stays \/ t = None
       THEN resched' = FALSE /\ UNCHANGED <<runq, tail, state, crab>>
       ELSE /\ runq' = rest
            /\ tail' = TailsWithout(t)
            /\ Forget(Released(t))
            /\ state' = [u \in Thread |-> IF u = t THEN "running"
                                          ELSE IF u = runth \/ u \in Woken(t) THEN "runnable"
                                          ELSE state[u]]
            /\ resched' = (prio[t] > cprio[t] /\ rest # <<>> /\ prio[t] > prio[Head(rest)])
  BY DEF KCNextThread
<1>2. PICK q : q = RunqToDispatch(quantumOver)
  OBVIOUS
<1>3. /\ q \in Seq(Thread) /\ Distinct(q) /\ Ordered(q, cprio)
      /\ \A u : Queued(u, q) => u = runth \/ Queued(u, runq)
      /\ runth # None /\ q = runq => Leads(runq)
  BY <1>2, PutBackOrder
<1>4. /\ TypeOK /\ ListTypes /\ ColumnsOK /\ cprio \in [Thread -> Int] /\ bprio \in [Thread -> Int]
      /\ None \notin Thread
  <2>1. \A p \in Prio : p \in Int
    BY SleepListAssumption
  <2> QED
    BY <2>1, PrioTypes, SleepListAssumption DEF ListsInv, TypeOK, ListTypes
<1>5. CASE runth # None /\ q = runq
  <2>1. runth' = runth /\ cprio' = cprio /\ runq' = runq /\ tail' = tail /\ state' = state /\ crab' = crab
    BY <1>1, <1>2, <1>5
  <2>2. NoneMoved /\ SearchesKept
    BY <2>1 DEF NoneMoved, Above, SearchesKept, At
  <2>3. ColumnsInOrder' /\ \A x \in Thread : SearchPrioOK(x)'
    BY <2>1, <2>2, OrderFrame
  <2>4. RunqOK'
    BY <1>3, <1>5, <2>1 DEF RunqOK, Leads
  <2> QED
    BY <2>3, <2>4 DEF OrderInv
<1>6. CASE ~(runth # None /\ q = runq) /\ q = <<>>
  <2>1. runth' = None /\ cprio' = cprio /\ runq' = runq /\ tail' = tail /\ state' = state /\ crab' = crab
    BY <1>1, <1>2, <1>6
  <2>2. NoneMoved /\ SearchesKept
    BY <2>1 DEF NoneMoved, Above, SearchesKept, At
  <2>3. ColumnsInOrder' /\ \A x \in Thread : SearchPrioOK(x)'
    BY <2>1, <2>2, OrderFrame
  <2>4. RunqOK'
    BY <2>1 DEF RunqOK, OrderInv
  <2> QED
    BY <2>3, <2>4 DEF OrderInv
<1>7. CASE ~(runth # None /\ q = runq) /\ q # <<>>
  <2>1. PICK t \in Thread : t = Head(q) /\ Queued(t, q) /\ t = q[1]
    BY <1>3, <1>7, HeadQueued
  <2>2. PICK prio, rest : /\ prio = IF bprio[t] < cprio[t] THEN cprio ELSE [cprio EXCEPT ![t] = bprio[t]]
                          /\ rest = RunqWithout(q, t, cprio)
    OBVIOUS
  <2>3. /\ runth' = t /\ cprio' = prio /\ runq' = rest /\ tail' = TailsWithout(t)
        /\ Forget(Released(t))
        /\ state' = [u \in Thread |-> IF u = t THEN "running"
                                      ELSE IF u = runth \/ u \in Woken(t) THEN "runnable"
                                      ELSE state[u]]
        /\ resched' = (prio[t] > cprio[t] /\ rest # <<>> /\ prio[t] > prio[Head(rest)])
    <3>1. t # None
      BY <1>4
    <3> QED
      BY <1>1, <1>2, <1>7, <2>1, <2>2, <3>1
  <2>4. /\ prio \in [Thread -> Int] /\ cprio[t] <= prio[t]
        /\ \A v \in Thread \ {t} : prio[v] = cprio[v]
    <3>1. CASE bprio[t] < cprio[t]
      BY <1>4, <2>2, <3>1
    <3>2. CASE ~(bprio[t] < cprio[t])
      <4>1. bprio[t] \in Int /\ cprio[t] \in Int
        BY <1>4
      <4> QED
        BY <1>4, <2>2, <3>2, <4>1
    <3> QED
      BY <3>1, <3>2
  <2>5. NoneMoved /\ SearchesKept
    BY <1>4, <2>3, PartedAbove, ForgetsNone
  <2>6. ~Sleeping(t)' /\ tail'[t] = <<>>
    <3>1. state'[t] = "running"
      BY <2>3
    <3>2. runth' = t
      BY <2>3
    <3> QED
      BY <3>1, <3>2, RunningNow DEF RunningHasNone
  <2>7. StillLoose
    <3>1. \A v \in Thread : state[v] = "needsrun" => state'[v] # "blocked"
      BY <2>3
    <3> QED
      BY <3>1, LooseStays
  <2>8. PriosKept
    <3>1. \A v \in Thread : v # t => cprio'[v] = cprio[v] /\ cprio[v] \in Int
      BY <1>4, <2>3, <2>4
    <3>2. cprio[t] <= cprio'[t]
      BY <2>3, <2>4
    <3> QED
      BY <2>6, <3>1, <3>2 DEF PriosKept, Sleeping
  <2>9. ColumnsInOrder' /\ \A x \in Thread : SearchPrioOK(x)'
    BY <2>5, <2>7, <2>8, OrderKept DEF OrderInv
  <2>10. \A d \in Woken(t) : d \in Thread /\ ~Queued(d, q) /\ cprio[t] <= cprio[d]
    BY <1>3, WokenBehind
  <2>11. /\ rest \in Seq(Thread) /\ ~Queued(t, rest) /\ Ordered(rest, cprio)
         /\ \A u \in Thread : Queued(u, rest) => \E w \in Thread : Queued(w, q) /\ cprio[w] <= cprio[u]
    <3>1. PICK before \in [Thread -> Int] : before = cprio
      BY <1>4
    <3>2. Ordered(q, before) /\ rest = RunqWithout(q, t, before)
      BY <1>3, <2>2, <3>1
    <3>3. \A d \in Woken(t) : ~Queued(d, q) /\ before[t] <= before[d]
      BY <2>10, <3>1
    <3>4. /\ rest \in Seq(Thread)
          /\ \A u : Queued(u, rest) <=> u \in Woken(t) \/ (u # t /\ Queued(u, q))
      <4>1. \A d \in Woken(t) : ~Queued(d, q)
        BY <3>3
      <4> QED
        BY <1>3, <1>4, <2>1, <3>2, <4>1, RunqParted
    <3>5. /\ Ordered(rest, before)
          /\ \A u \in Thread : Queued(u, rest) =>
                \E w \in Thread : Queued(w, q) /\ before[w] <= before[u]
      BY <1>3, <1>4, <2>1, <3>2, <3>3, PartedOrder
    <3>6. ~Queued(t, rest)
      BY <2>1, <2>10, <3>4
    <3> QED
      BY <3>1, <3>4, <3>5, <3>6
  <2>12. \A i \in DOMAIN rest : rest[i] \in Thread /\ rest[i] # t /\ prio[rest[i]] = cprio[rest[i]]
    <3>1. \A i \in DOMAIN rest : rest[i] \in Thread /\ rest[i] # t
      BY <2>11, ElementOfSeq, LenProperties DEF Queued
    <3> QED
      BY <2>4, <3>1
  <2>13. Ordered(rest, prio)
    BY <2>11, <2>12 DEF Ordered
  <2>14. ASSUME ~resched', NEW u \in Thread, Queued(u, rest) PROVE prio[t] <= prio[u]
    <3>1. u # t /\ prio[u] = cprio[u] /\ prio[u] \in Int /\ prio[t] \in Int /\ cprio[t] \in Int
      BY <1>4, <2>4, <2>11, <2>14
    <3>2. CASE prio[t] > cprio[t]
      <4>1. rest # <<>>
        BY <2>14, EmptyQueue
      <4>2. PICK d \in Thread : d = Head(rest) /\ d = rest[1]
        BY <2>11, <4>1, HeadQueued
      <4>3. ~(prio[t] > prio[d]) /\ prio[d] \in Int
        BY <2>3, <2>4, <2>14, <3>2, <4>1, <4>2
      <4>4. prio[d] <= prio[u]
        BY <2>4, <2>11, <2>13, <2>14, <4>2, FirstLeads
      <4> QED
        BY <3>1, <4>3, <4>4
    <3>3. CASE ~(prio[t] > cprio[t])
      <4>1. PICK w \in Thread : Queued(w, q) /\ cprio[w] <= cprio[u]
        BY <2>11, <2>14
      <4>2. cprio[t] <= cprio[w]
        BY <1>3, <1>4, <2>1, <4>1, FirstLeads
      <4>3. cprio[w] \in Int
        BY <1>4
      <4> QED
        BY <3>1, <3>3, <4>1, <4>2, <4>3
    <3> QED
      BY <3>2, <3>3
  <2>15. RunqOK'
    BY <2>3, <2>13, <2>14 DEF RunqOK, Leads
  <2> QED
    BY <2>9, <2>15 DEF OrderInv
<1> QED
  BY <1>5, <1>6, <1>7

\* Whoever is above the next thread of a column is the one before it or above that.
LEMMA AboveNext ==
    ASSUME ListTypes, ColumnsOK, NEW p \in Thread, NEW h \in Thread, NEW n \in 1..Len(tail[h]),
           IF n = 1 THEN h = p ELSE tail[h][n - 1] = p,
           NEW u \in Thread, Above(u, tail[h][n])
    PROVE  u = p \/ Above(u, p)
<1>1. /\ tail[h] \in Seq(Thread) /\ Distinct(tail[h]) /\ Len(tail[h]) \in Nat
      /\ DOMAIN tail[h] = 1..Len(tail[h])
  BY LenProperties DEF ListTypes, ColumnsOK
<1>2. PICK v \in Thread : v = tail[h][n] /\ Queued(v, tail[h])
  BY <1>1, ElementOfSeq DEF Queued
<1>3. \A k \in Thread : Queued(v, tail[k]) => k = h
  BY <1>2 DEF ColumnsOK
<1>4. CASE n = 1
  <2>1. ~Earlier(u, v, tail[h])
    BY <1>1, <1>2, <1>4 DEF Earlier, Distinct
  <2>2. \A k \in Thread : Earlier(u, v, tail[k]) => Queued(v, tail[k])
    BY DEF Earlier, Queued
  <2>3. u = h
    BY <1>2, <1>3, <2>1, <2>2 DEF Above
  <2> QED
    BY <1>4, <2>3
<1>5. CASE n # 1
  <2>1. n - 1 \in DOMAIN tail[h] /\ tail[h][n - 1] = p /\ Queued(p, tail[h])
    BY <1>1, <1>5 DEF Queued
  <2>2. CASE Queued(v, tail[u])
    BY <1>3, <2>1, <2>2 DEF Above
  <2>3. CASE ~Queued(v, tail[u])
    <3>1. PICK k \in Thread : Earlier(u, v, tail[k])
      BY <1>2, <2>3 DEF Above
    <3>2. k = h
      <4>1. Queued(v, tail[k])
        BY <3>1 DEF Earlier, Queued
      <4> QED
        BY <1>3, <4>1
    <3>3. PICK i \in DOMAIN tail[h], j \in DOMAIN tail[h] :
             i < j /\ tail[h][i] = u /\ tail[h][j] = v
      BY <3>1, <3>2 DEF Earlier
    <3>4. j = n
      BY <1>1, <1>2, <3>3 DEF Distinct
    <3>5. i = n - 1 \/ i < n - 1
      BY <1>1, <3>3, <3>4
    <3> QED
      BY <2>1, <3>3, <3>5 DEF Above, Earlier
  <2> QED
    BY <2>2, <2>3
<1> QED
  BY <1>4, <1>5

\* A time is not apart from itself.
LEMMA DiffSelf == ASSUME NEW a \in 0..W - 1 PROVE Diff(a, a) = 0
<1>1. W \in Nat /\ W = 2 * Half /\ Half \in Nat /\ W > 0
  BY ClockFacts
<1>2. a \in Int
  BY <1>1
<1>3. /\ Diff(a, a) \in -Half..Half - 1
      /\ Diff(a, a) = a - a \/ Diff(a, a) = a - a + W \/ Diff(a, a) = a - a - W
  BY DiffIs
<1> QED
  BY <1>1, <1>2, <1>3

\* A step of the search passes those who are at least as urgent.
LEMMA SearchOrder ==
    ASSUME ListsInv, ListsInv', OrderInv, NEW t \in Thread, SleepSearch(t)
    PROVE  OrderInv'
<1>1. /\ cprio' = cprio /\ tail' = tail /\ runq' = runq /\ runth' = runth
      /\ resched' = resched /\ state' = state
      /\ IF Moved(t) \/ Inverted(t)
         THEN crab' = [crab EXCEPT ![t] = Start(wake(t))]
         ELSE StepTo(t) # None /\ crab' = [crab EXCEPT ![t] = Stepped(t)]
  BY DEF SleepSearch, listVars, schedVars, prioVars
<1>2. /\ TypeOK /\ ListTypes /\ ColumnsOK /\ SearchOK(t) /\ cprio \in [Thread -> Int]
      /\ ColumnsInOrder /\ \A x \in Thread : SearchPrioOK(x)
  BY PrioTypes DEF ListsInv, TypeOK, ListTypes, OrderInv
<1>3. ColumnsInOrder' /\ RunqOK'
  BY <1>1 DEF OrderInv, ColumnsInOrder, Above, Loose, RunqOK, Leads
<1>4. \A u, v \in Thread : Above(u, v)' <=> Above(u, v)
  BY <1>1 DEF Above
<1>5. CASE Moved(t) \/ Inverted(t)
  <2>1. \A x \in Thread : crab'[x] = IF x = t THEN Start(wake(t)) ELSE crab[x]
    BY <1>1, <1>2, <1>5 DEF TypeOK
  <2>2. SearchesKept
    BY <2>1 DEF SearchesKept, Start, At
  <2> QED
    BY <1>1, <2>2, SameOrder
<1>6. CASE ~(Moved(t) \/ Inverted(t))
  <2>1. StepTo(t) # None /\ \A x \in Thread : crab'[x] = IF x = t THEN Stepped(t) ELSE crab[x]
    BY <1>1, <1>2, <1>6 DEF TypeOK
  <2>2. PICK s \in Thread : s = StepTo(t)
    BY <1>6, <2>1, StepsToSleeper
  <2>3. /\ crab'[t].pth = s
        /\ crab'[t].vertical <=> crab[t].vertical \/ wake(s) = wake(t)
    BY <1>6, <2>1, <2>2, SteppedType
  <2>4. ASSUME t \notin Changing, crab'[t].vertical, NEW u \in Thread, u = s \/ Above(u, s)
        PROVE  cprio[u] <= cprio[t]
    <3>1. CASE crab[t].vertical
      <4>1. /\ Sleeping(At(t)) /\ s = Below(At(t)) /\ cprio[t] >= cprio[s]
        BY <1>6, <2>1, <2>2, <3>1, StepsToSleeper
      <4>2. PICK p \in Thread : p = At(t)
        BY <1>6, <2>1, <3>1, StepsToSleeper
      <4>3. PICK h \in Thread : \E n \in 1..Len(tail[h]) :
               s = tail[h][n] /\ IF n = 1 THEN h = p ELSE tail[h][n - 1] = p
        BY <1>2, <2>1, <2>2, <4>1, <4>2, BelowIs
      <4> PICK n \in 1..Len(tail[h]) :
             s = tail[h][n] /\ IF n = 1 THEN h = p ELSE tail[h][n - 1] = p
        BY <4>3
      <4>4. u # s => u = p \/ Above(u, p)
        BY <1>2, <2>4, <4>3, AboveNext
      <4>5. crab[t].ok
        BY <1>2, <1>6, <3>1 DEF Moved, SearchOK, At
      <4>6. u # s => cprio[u] <= cprio[t]
        BY <1>2, <2>4, <3>1, <4>2, <4>4, <4>5 DEF SearchPrioOK
      <4>7. cprio[s] \in Int /\ cprio[t] \in Int
        BY <1>2
      <4> QED
        BY <4>1, <4>6, <4>7
    <3>2. CASE ~crab[t].vertical
      <4>1. /\ Queued(s, top)
            /\ LET d == Diff(wake(s), wake(t)) IN d < 0 \/ (d = 0 /\ cprio[t] >= cprio[s])
        BY <1>6, <2>1, <2>2, <3>2, StepsToSleeper
      <4>2. wake(s) = wake(t) /\ wake(t) \in 0..W - 1
        BY <1>2, <2>3, <2>4, <3>2 DEF TypeOK, wake
      <4>3. Diff(wake(s), wake(t)) = 0
        BY <4>2, DiffSelf
      <4>4. ~Hangs(s)
        BY <1>2, <4>1 DEF Hangs, ColumnsOK
      <4>5. u = s
        BY <2>4, <4>4, AboveIsQueued DEF AboveHangs
      <4>6. cprio[s] \in Int /\ cprio[t] \in Int
        BY <1>2
      <4> QED
        BY <4>1, <4>3, <4>5, <4>6
    <3> QED
      BY <3>1, <3>2
  <2>5. ASSUME NEW x \in Thread PROVE SearchPrioOK(x)'
    <3>1. CASE x = t
      <4>1. At(t)' = s
        BY <2>3 DEF At
      <4> QED
        BY <1>1, <1>4, <2>4, <3>1, <4>1 DEF SearchPrioOK
    <3>2. CASE x # t
      <4>1. crab'[x] = crab[x] /\ SearchPrioOK(x)
        BY <1>2, <2>1, <3>2
      <4> QED
        BY <1>1, <4>1 DEF SearchPrioOK, At, Above
    <3> QED
      BY <3>1, <3>2
  <2> QED
    BY <1>3, <2>5 DEF OrderInv
<1> QED
  BY <1>5, <1>6

\* Who is above whom when t has come between some that are no less urgent and b and what
\* is below b.
Placed(t) ==
    \A u, v \in Thread : Above(u, v)' =>
        \/ Above(u, v)
        \/ v = t /\ cprio[u] <= cprio[t]
        \/ u = t /\ \E b \in Thread : cprio[t] <= cprio[b] /\ (v = b \/ Above(b, v))

\* A step that hangs t in the columns where its priority has it keeps the order.
LEMMA PlacedOrder ==
    ASSUME ListsInv, ListsInv', OrderInv, NEW t \in Thread, ~Sleeping(t), Placed(t),
           cprio' = cprio, SearchesKept,
           \A v \in Thread : state[v] = "needsrun" => state'[v] # "blocked"
    PROVE  ColumnsInOrder' /\ \A x \in Thread : SearchPrioOK(x)'
<1>1. cprio \in [Thread -> Int] /\ ColumnsInOrder /\ TypeOK
  BY PrioTypes DEF ListsInv, OrderInv
<1>2. StillLoose /\ AboveHangs'
  BY LooseStays, AboveIsQueued, PTL
<1>3. ASSUME NEW u \in Thread, NEW v \in Thread, Above(u, v)', ~Loose(v)'
      PROVE  cprio[u] <= cprio[v]
  <2>1. ~Loose(v)
    BY <1>2, <1>3 DEF StillLoose, AboveHangs
  <2>2. CASE Above(u, v) \/ (v = t /\ cprio[u] <= cprio[t])
    BY <1>1, <2>1, <2>2 DEF ColumnsInOrder
  <2>3. CASE u = t /\ \E b \in Thread : cprio[t] <= cprio[b] /\ (v = b \/ Above(b, v))
    <3>1. PICK b \in Thread : cprio[t] <= cprio[b] /\ (v = b \/ Above(b, v))
      BY <2>3
    <3>2. cprio[b] <= cprio[v]
      <4>1. cprio[b] \in Int
        BY <1>1
      <4> QED
        BY <1>1, <2>1, <3>1, <4>1 DEF ColumnsInOrder
    <3>3. cprio[t] \in Int /\ cprio[b] \in Int /\ cprio[v] \in Int
      BY <1>1
    <3> QED
      BY <2>3, <3>1, <3>2, <3>3
  <2> QED
    BY <1>3, <2>2, <2>3 DEF Placed
<1>4. ASSUME NEW x \in Thread, (crab[x].ok /\ crab[x].vertical)', x \notin Changing,
             NEW u \in Thread, u = At(x)' \/ Above(u, At(x))'
      PROVE  cprio[u] <= cprio[x]
  <2>1. crab[x].ok /\ crab[x].vertical /\ At(x)' = At(x)
    BY <1>4 DEF SearchesKept
  <2>2. SearchOK(x) /\ SearchPrioOK(x)
    BY DEF ListsInv, OrderInv
  <2>3. PICK a \in Thread : a = At(x) /\ Sleeping(a)
    BY <1>1, <2>1, <2>2 DEF SearchOK, At, TypeOK
  <2>4. \A w \in Thread : w = a \/ Above(w, a) => cprio[w] <= cprio[x]
    BY <1>4, <2>1, <2>2, <2>3 DEF SearchPrioOK
  <2>5. CASE u = a \/ Above(u, a)
    BY <2>4, <2>5
  <2>6. CASE u = t /\ \E b \in Thread : cprio[t] <= cprio[b] /\ (a = b \/ Above(b, a))
    <3>1. PICK b \in Thread : cprio[t] <= cprio[b] /\ (a = b \/ Above(b, a))
      BY <2>6
    <3>2. cprio[b] <= cprio[x]
      BY <2>4, <3>1
    <3>3. cprio[t] \in Int /\ cprio[b] \in Int /\ cprio[x] \in Int
      BY <1>1
    <3> QED
      BY <2>6, <3>1, <3>2, <3>3
  <2>7. u = a \/ Above(u, a)'
    BY <1>4, <2>1, <2>3
  <2>8. a # t
    BY <2>3
  <2> QED
    BY <2>5, <2>6, <2>7, <2>8 DEF Placed
<1> QED
  BY <1>3, <1>4 DEF ColumnsInOrder, SearchPrioOK

\* A place below p.
LEMMA PlacedBelow ==
    ASSUME ListTypes, ColumnsOK, None \notin Thread, NEW t \in Thread, ~Sleeping(t), tail[t] = <<>>,
           NEW p \in Thread, Sleeping(p), top' = top, InsertBelow(p, t),
           \A u \in Thread : u = p \/ Above(u, p) => cprio[u] <= cprio[t],
           Below(p) # None => cprio[t] <= cprio[Below(p)]
    PROVE  Placed(t)
<1>1. PICK h \in Thread :
         /\ (h = p /\ Queued(p, top)) \/ Queued(p, tail[h])
         /\ \A k, v \in Thread : Queued(v, tail'[k]) <=> Queued(v, tail[k]) \/ (v = t /\ k = h)
         /\ \A k \in Thread \ {h} : tail'[k] = tail[k]
         /\ \E n \in 0..Len(tail[h]) :
               /\ tail'[h] = InsertAt(tail[h], t, n)
               /\ IF n = 0 THEN h = p ELSE tail[h][n] = p
  BY PutBelow
<1>2. PICK n \in 0..Len(tail[h]) :
         tail'[h] = InsertAt(tail[h], t, n) /\ IF n = 0 THEN h = p ELSE tail[h][n] = p
  BY <1>1
<1>3. /\ tail[h] \in Seq(Thread) /\ Len(tail[h]) \in Nat /\ DOMAIN tail[h] = 1..Len(tail[h])
      /\ \A i \in 1..Len(tail[h]) : tail[h][i] \in Thread
  BY LenProperties, ElementOfSeq DEF ListTypes
<1>4. h # t
  BY <1>1, EmptyQueue DEF Sleeping
<1>5. n = 0 => Queued(p, top)
  BY <1>1, <1>2, EmptyQueue DEF ColumnsOK
<1>6. ASSUME NEW i \in n + 1..Len(tail[h])
      PROVE  /\ Below(p) \in Thread /\ cprio[t] <= cprio[Below(p)]
             /\ tail[h][i] = Below(p) \/ Above(Below(p), tail[h][i])
  <2>1. n # Len(tail[h]) /\ n + 1 \in 1..Len(tail[h])
    BY <1>3
  <2>2. Below(p) = tail[h][n + 1]
    BY <1>2, <1>5, <2>1, BelowAt
  <2>3. Below(p) \in Thread /\ Below(p) # None
    BY <1>3, <2>1, <2>2
  <2>4. i = n + 1 \/ (n + 1 < i /\ i \in DOMAIN tail[h])
    BY <1>3
  <2> QED
    BY <1>3, <2>1, <2>2, <2>3, <2>4 DEF Above, Earlier
<1>7. ASSUME NEW i \in 1..n, NEW u \in Thread, u = tail[h][i]
      PROVE  cprio[u] <= cprio[t]
  <2>1. n # 0 /\ n \in DOMAIN tail[h] /\ i \in DOMAIN tail[h] /\ (i = n \/ i < n)
    BY <1>3
  <2>2. u = p \/ Earlier(u, p, tail[h])
    BY <1>2, <1>7, <2>1 DEF Earlier
  <2> QED
    BY <2>2 DEF Above
<1>8. cprio[h] <= cprio[t]
  BY <1>1 DEF Above
<1>9. ASSUME NEW u \in Thread, NEW v \in Thread, Queued(v, tail'[u])
      PROVE  Queued(v, tail[u]) \/ (v = t /\ cprio[u] <= cprio[t])
  BY <1>1, <1>8, <1>9
<1>10. ASSUME NEW u \in Thread, NEW v \in Thread, NEW k \in Thread, Earlier(u, v, tail'[k])
       PROVE  \/ Above(u, v)
              \/ v = t /\ cprio[u] <= cprio[t]
              \/ u = t /\ \E b \in Thread : cprio[t] <= cprio[b] /\ (v = b \/ Above(b, v))
  <2>1. CASE k # h
    BY <1>1, <1>10, <2>1 DEF Above
  <2>2. CASE k = h
    <3>1. \/ Earlier(u, v, tail[h])
          \/ v = t /\ \E i \in 1..n : tail[h][i] = u
          \/ u = t /\ \E i \in n + 1..Len(tail[h]) : tail[h][i] = v
      BY <1>2, <1>3, <1>10, <2>2, InsertBefore
    <3> QED
      BY <1>6, <1>7, <3>1 DEF Above
  <2> QED
    BY <2>1, <2>2
<1> QED
  BY <1>9, <1>10 DEF Placed, Above

\* A place on top of a column.
LEMMA PlacedOnTop ==
    ASSUME ListTypes, ColumnsOK, NEW t \in Thread, ~Sleeping(t), tail[t] = <<>>,
           NEW n \in DOMAIN top, NEW next, next = top[n], PutsOnTop(t, n, next),
           cprio[t] <= cprio[next]
    PROVE  Placed(t)
<1>1. /\ next \in Thread /\ HangAfter(t, next)
      /\ tail'[t] = <<next>> \o tail[next] /\ tail'[next] = <<>>
      /\ \A k \in Thread \ {t, next} : tail'[k] = tail[k]
  BY PutOnTop
<1>2. ASSUME NEW u \in Thread, NEW v \in Thread, Queued(v, tail'[u])
      PROVE  Queued(v, tail[u]) \/ (u = t /\ (v = next \/ Queued(v, tail[next])))
  BY <1>1, <1>2 DEF HangAfter
<1>3. ASSUME NEW u \in Thread, NEW v \in Thread, NEW k \in Thread, Earlier(u, v, tail'[k])
      PROVE  Above(u, v)
  <2>1. CASE k = t
    <3>1. tail[next] \in Seq(Thread) /\ Earlier(u, v, <<next>> \o tail[next])
      BY <1>1, <1>3, <2>1 DEF ListTypes
    <3>2. (u = next /\ Queued(v, tail[next])) \/ Earlier(u, v, tail[next])
      BY <1>1, <3>1, ConsBefore
    <3> QED
      BY <1>1, <3>2 DEF Above
  <2>2. CASE k = next
    BY <1>1, <1>3, <2>2 DEF Earlier
  <2>3. CASE k # t /\ k # next
    BY <1>1, <1>3, <2>3 DEF Above
  <2> QED
    BY <2>1, <2>2, <2>3
<1> QED
  BY <1>1, <1>2, <1>3 DEF Placed, Above

\* The place that the search has found, if only one thread's priority changes.
LEMMA PlaceOrder ==
    ASSUME ListsInv, ListsInv', OrderInv, OneChanges, NEW t \in Thread, SleepPlace(t)
    PROVE  OrderInv'
<1> DEFINE next == IF crab[t].vertical THEN None ELSE NextTop(t)
           n == IF At(t) = None THEN 0 ELSE CHOOSE i \in DOMAIN top : top[i] = At(t)
           onTop == next # None /\ wake(next) = wake(t)
<1>1. /\ runth = t /\ ~Moved(t) /\ ~Inverted(t) /\ StepTo(t) = None
      /\ IF crab[t].vertical
         THEN InsertBelow(At(t), t) /\ top' = top
         ELSE IF onTop
         THEN /\ top' = [top EXCEPT ![n + 1] = t]
              /\ tail' = [tail EXCEPT ![t] = <<next>> \o tail[next], ![next] = <<>>]
         ELSE tail' = tail
      /\ crab' = [u \in Thread |->
                    IF u = t THEN Start(wake(t))
                    ELSE IF onTop /\ At(u) = next THEN [crab[u] EXCEPT !.ok = FALSE] ELSE crab[u]]
      /\ state' = [state EXCEPT ![t] = "blocked"]
      /\ runth' = None /\ runq' = runq /\ cprio' = cprio
  BY DEF SleepPlace, Runs, InCall, prioVars
<1> HIDE DEF n, onTop
<1>2. /\ TypeOK /\ ColumnsOK /\ SearchOK(t) /\ None \notin Thread /\ cprio \in [Thread -> Int]
      /\ ColumnsInOrder /\ SearchPrioOK(t)
  BY PrioTypes, SleepListAssumption DEF ListsInv, OrderInv
<1>3. ListTypes /\ state[t] = "running" /\ ~Sleeping(t) /\ tail[t] = <<>>
  BY <1>1, RunningFacts
<1>4. At(t) = None \/ crab[t].ok
  BY <1>1 DEF Moved
<1>5. \A v \in Thread : state[v] = "needsrun" => state'[v] # "blocked"
  BY <1>1, <1>2, <1>3 DEF TypeOK
<1>6. SearchesKept
  <2> SUFFICES ASSUME NEW x \in Thread, crab'[x].ok, crab'[x].vertical
               PROVE  crab[x].ok /\ crab[x].vertical /\ At(x)' = At(x)
    BY DEF SearchesKept
  <2>1. crab'[x] = IF x = t THEN Start(wake(t))
                   ELSE IF onTop /\ At(x) = next THEN [crab[x] EXCEPT !.ok = FALSE] ELSE crab[x]
    BY <1>1
  <2>2. crab[x] \in [pth : Thread \cup {None}, ok : BOOLEAN, vertical : BOOLEAN, wake : 0..W - 1]
    BY <1>2 DEF TypeOK
  <2>3. crab'[x] = crab[x]
    BY <2>1, <2>2 DEF Start
  <2> QED
    BY <2>3 DEF At
<1>7. Placed(t)
  <2>1. CASE crab[t].vertical
    <3>1. PICK p \in Thread : p = At(t) /\ Sleeping(p) /\ p # t
      BY <1>2, <1>3, <1>4, <2>1 DEF SearchOK, At, TypeOK
    <3>2. InsertBelow(p, t) /\ top' = top
      BY <1>1, <2>1, <3>1
    <3>3. cprio[p] <= cprio[t]
      <4>1. ~(cprio[t] < cprio[p]) /\ cprio[t] \in Int /\ cprio[p] \in Int
        BY <1>1, <1>2, <2>1, <3>1 DEF Inverted
      <4> QED
        BY <4>1
    <3>4. ASSUME NEW u \in Thread, u = p \/ Above(u, p) PROVE cprio[u] <= cprio[t]
      <4>1. CASE t \notin Changing
        <5>1. crab[t].ok
          BY <1>2, <1>4, <2>1 DEF SearchOK, At
        <5> QED
          BY <1>2, <2>1, <3>1, <3>4, <4>1, <5>1 DEF SearchPrioOK
      <4>2. CASE t \in Changing
        <5>1. ~Loose(p)
          BY <3>1, <4>2 DEF OneChanges, Loose
        <5>2. u # p => cprio[u] <= cprio[p]
          BY <1>2, <3>4, <5>1 DEF ColumnsInOrder
        <5>3. cprio[u] \in Int /\ cprio[p] \in Int /\ cprio[t] \in Int
          BY <1>2
        <5> QED
          BY <3>3, <5>2, <5>3
      <4> QED
        BY <4>1, <4>2
    <3>5. Below(p) # None => cprio[t] <= cprio[Below(p)]
      <4> SUFFICES ASSUME Below(p) # None PROVE cprio[t] <= cprio[Below(p)]
        OBVIOUS
      <4>1. PICK h \in Thread : \E m \in 1..Len(tail[h]) : Below(p) = tail[h][m]
        BY <1>2, <1>3, <3>1, BelowIs
      <4>2. PICK b \in Thread : b = Below(p)
        <5>1. tail[h] \in Seq(Thread)
          BY <1>3 DEF ListTypes
        <5> QED
          BY <4>1, <5>1, LenProperties, ElementOfSeq
      <4>3. ~(cprio[t] >= cprio[b])
        BY <1>1, <2>1, <3>1, <4>2 DEF StepTo
      <4>4. cprio[b] \in Int /\ cprio[t] \in Int
        BY <1>2
      <4> QED
        BY <4>2, <4>3, <4>4
    <3> QED
      BY <1>2, <1>3, <3>1, <3>2, <3>4, <3>5, PlacedBelow
  <2>2. CASE ~crab[t].vertical /\ onTop
    <3>1. At(t) = None \/ Queued(At(t), top)
      BY <1>2, <1>4, <2>2 DEF SearchOK, At
    <3>2. n \in 0..Len(top) /\ next = IF n + 1 > Len(top) THEN None ELSE top[n + 1]
      BY <1>2, <1>3, <2>2, <3>1, TopPosition DEF n, ListTypes, ColumnsOK
    <3>3. next # None /\ wake(next) = wake(t) /\ next = NextTop(t)
      BY <2>2 DEF onTop
    <3> HIDE DEF next
    <3>4. PICK m \in DOMAIN top : m = n + 1 /\ next = top[m]
      <4>1. DOMAIN top = 1..Len(top) /\ Len(top) \in Nat
        BY <1>3, LenProperties DEF ListTypes
      <4> QED
        BY <3>2, <3>3, <4>1
    <3>5. PICK b \in Thread : b = next
      BY <1>3, <3>4, LenProperties, ElementOfSeq DEF ListTypes
    <3>6. PutsOnTop(t, m, b) /\ b = top[m]
      BY <1>1, <2>2, <3>4, <3>5 DEF PutsOnTop
    <3>7. Diff(wake(b), wake(t)) = 0
      <4>1. wake(b) = wake(t) /\ wake(t) \in 0..W - 1
        BY <1>2, <3>3, <3>5 DEF TypeOK, wake
      <4> QED
        BY <4>1, DiffSelf
    <3>8. cprio[t] <= cprio[b]
      <4>1. ~(cprio[t] >= cprio[b])
        BY <1>1, <2>2, <3>3, <3>5, <3>7 DEF StepTo
      <4>2. cprio[t] \in Int /\ cprio[b] \in Int
        BY <1>2
      <4> QED
        BY <4>1, <4>2
    <3> QED
      BY <1>2, <1>3, <3>6, <3>8, PlacedOnTop
  <2>3. CASE ~crab[t].vertical /\ ~onTop
    <3>1. tail' = tail
      BY <1>1, <2>3
    <3> QED
      BY <3>1 DEF Placed, Above
  <2> QED
    BY <2>1, <2>2, <2>3
<1>8. RunqOK'
  BY <1>1 DEF OrderInv, RunqOK
<1> QED
  BY <1>1, <1>3, <1>5, <1>6, <1>7, <1>8, PlacedOrder DEF OrderInv

-----------------------------------------------------------------------------
(* The theorems *)

\* Nothing changes,
LEMMA StutterOrder == ASSUME ListsInv, ListsInv', OrderInv, UNCHANGED vars PROVE OrderInv'
<1>1. /\ cprio' = cprio /\ tail' = tail /\ runq' = runq /\ runth' = runth
      /\ resched' = resched /\ state' = state /\ crab' = crab
  BY DEF vars, listVars, schedVars, prioVars
<1>2. SearchesKept
  BY <1>1 DEF SearchesKept, At
<1> QED
  BY <1>1, <1>2, SameOrder

\* nothing sleeps at first,
LEMMA InitOrder == ASSUME Init PROVE OrderInv
<1>1. \A t \in Thread : tail[t] = <<>> /\ crab[t].vertical = FALSE
  BY DEF Init, Start
<1>2. \A u, v \in Thread : ~Above(u, v)
  BY <1>1 DEF Above, Queued, Earlier
<1>3. runth = None /\ Ordered(runq, cprio)
  <2>1. PICK order \in [1..Cardinality(Thread) -> Thread] :
           /\ \A i, j \in DOMAIN order : i < j => FirstPrio[order[i]] <= FirstPrio[order[j]]
           /\ runq = order
    BY DEF Init
  <2> QED
    BY <2>1 DEF Init, Ordered
<1> QED
  BY <1>1, <1>2, <1>3 DEF OrderInv, ColumnsInOrder, RunqOK, SearchPrioOK

\* and every step keeps the order, if the priority of one thread at most changes.
LEMMA NextOrder == OneChanges /\ ListsInv /\ OrderInv /\ [Next]_vars => OrderInv'
<1> SUFFICES ASSUME OneChanges, ListsInv, OrderInv, [Next]_vars PROVE OrderInv'
  OBVIOUS
<1>1. ListsInv'
  BY NextLists
<1>2. CASE Tick \/ Interrupt
  BY <1>1, <1>2, NextThreadOrder DEF Tick, Interrupt
<1>3. CASE KCNextThread
  BY <1>1, <1>3, KCNextThreadOrder
<1>4. ASSUME NEW t \in Thread,
             \/ \E d \in Times : BeginSleep(t, d)
             \/ SleepNot(t) \/ Return(t)
      PROVE  OrderInv'
  BY <1>1, <1>4, CallsOrder
<1>5. ASSUME NEW t \in Thread, SleepSearch(t) PROVE OrderInv'
  BY <1>1, <1>5, SearchOrder
<1>6. ASSUME NEW t \in Thread, SleepPlace(t) PROVE OrderInv'
  BY <1>1, <1>6, PlaceOrder
<1>7. ASSUME NEW t \in Thread, MakeRunIfNeeded(t) PROVE OrderInv'
  BY <1>1, <1>7, MakeRunOrder
<1>8. ASSUME NEW t \in Thread, NEW u \in Thread,
             \/ Signal(t, u) \/ Suspend(t, u) \/ Resume(t, u)
             \/ \E p \in Prio : SetThreadBasePrio(t, u, p)
      PROVE  OrderInv'
  BY <1>1, <1>8, SignalOrder, SuspendOrder, ResumeOrder, BasePrioOrder
<1>9. CASE UNCHANGED vars
  BY <1>1, <1>9, StutterOrder
<1> QED
  BY <1>2, <1>3, <1>4, <1>5, <1>6, <1>7, <1>8, <1>9 DEF Next

\* What the invariant says of the columns
LEMMA InOrderOfPriorityHolds == ListsInv /\ OrderInv => InOrderOfPriority
<1> SUFFICES ASSUME ListsInv, OrderInv, NEW h \in Thread PROVE
        LET c == <<h>> \o tail[h] IN
        \A i, j \in DOMAIN c :
            i < j /\ state[c[i]] # "needsrun" /\ state[c[j]] # "needsrun" => cprio[c[i]] <= cprio[c[j]]
  BY DEF InOrderOfPriority
<1> DEFINE c == <<h>> \o tail[h]
<1>1. tail[h] \in Seq(Thread)
  BY DEF ListsInv, TypeOK
<1>2. /\ Len(tail[h]) \in Nat /\ DOMAIN tail[h] = 1..Len(tail[h])
      /\ DOMAIN c = 1..Len(tail[h]) + 1
      /\ \A k \in 1..Len(tail[h]) + 1 : c[k] = IF k = 1 THEN h ELSE tail[h][k - 1]
  BY <1>1, Cons
<1>3. \A k \in 1..Len(tail[h]) : tail[h][k] \in Thread
  BY <1>1, LenProperties, ElementOfSeq
<1> HIDE DEF c
<1>4. ASSUME NEW i \in DOMAIN c, NEW j \in DOMAIN c, i < j, state[c[j]] # "needsrun"
      PROVE  cprio[c[i]] <= cprio[c[j]]
  <2>1. j - 1 \in DOMAIN tail[h] /\ c[j] = tail[h][j - 1]
    BY <1>2, <1>4
  <2>2. PICK v \in Thread : v = c[j] /\ Queued(v, tail[h])
    BY <1>2, <1>3, <2>1 DEF Queued
  <2>3. CASE i = 1
    <3>1. c[i] = h /\ Above(h, v)
      BY <1>2, <2>2, <2>3 DEF Above
    <3> QED
      BY <1>4, <2>2, <3>1 DEF OrderInv, ColumnsInOrder, Loose
  <2>4. CASE i # 1
    <3>1. i - 1 \in DOMAIN tail[h] /\ c[i] = tail[h][i - 1] /\ i - 1 < j - 1
      BY <1>2, <1>4, <2>4
    <3>2. PICK u \in Thread : u = c[i]
      BY <1>2, <1>3, <3>1
    <3>3. Above(u, v)
      BY <2>1, <2>2, <3>1, <3>2 DEF Above, Earlier
    <3> QED
      BY <1>4, <2>2, <3>2, <3>3 DEF OrderInv, ColumnsInOrder, Loose
  <2> QED
    BY <2>3, <2>4
<1> QED
  BY <1>4 DEF c

\* and of the thread that runs.
LEMMA MostUrgentHolds == ListsInv /\ OrderInv => MostUrgentRuns
<1> SUFFICES ASSUME ListsInv, OrderInv, runth # None, ~resched
             PROVE  /\ \A t \in Thread : Queued(t, runq) => cprio[runth] <= cprio[t]
                    /\ \A t \in Thread : Hangs(t) /\ Queued(Column(t), runq) /\ state[t] # "needsrun"
                          => cprio[runth] <= cprio[t]
  BY DEF MostUrgentRuns
<1>1. \A t \in Thread : Queued(t, runq) => cprio[runth] <= cprio[t]
  BY DEF OrderInv, RunqOK, Leads
<1>2. /\ ListTypes /\ ColumnsOK /\ cprio \in [Thread -> Int] /\ runth \in Thread
  BY PrioTypes DEF ListsInv, TypeOK, ListTypes
<1>3. ASSUME NEW t \in Thread, Hangs(t), Queued(Column(t), runq), state[t] # "needsrun"
      PROVE  cprio[runth] <= cprio[t]
  <2>1. PICK h \in Thread : Queued(t, tail[h])
    BY <1>3 DEF Hangs
  <2>2. Column(t) = h
    BY <1>2, <2>1, ColumnOf
  <2>3. cprio[h] <= cprio[t]
    BY <1>3, <2>1 DEF OrderInv, ColumnsInOrder, Above, Loose
  <2>4. cprio[runth] <= cprio[h]
    BY <1>1, <1>3, <2>2
  <2>5. cprio[runth] \in Int /\ cprio[h] \in Int /\ cprio[t] \in Int
    BY <1>2
  <2> QED
    BY <2>3, <2>4, <2>5
<1> QED
  BY <1>1, <1>3

\* So the list invariant and the order hold always.
LEMMA OrderAlways == OneChanges => (Spec => []ListsInv /\ []OrderInv)
<1> SUFFICES ASSUME OneChanges PROVE Spec => []ListsInv /\ []OrderInv
  OBVIOUS
<1>1. Init => ListsInv /\ OrderInv
  BY InitLists, InitOrder
<1>2. (ListsInv /\ OrderInv) /\ [Next]_vars => (ListsInv /\ OrderInv)'
  BY NextLists, NextOrder
<1> QED
  BY <1>1, <1>2, PTL DEF Spec

\* If the priority of one thread at most changes, the list is in the order of the times and each
\* column in that of the priorities, though threads are inserted after a search that others
\* have disturbed (SleepOneMore, SleepqDequeue; the DEBUGCHKs at kcalls.c:232 and :414).
THEOREM ListInOrder == OneChanges => (Spec => []SleepOrdered)
<1> SUFFICES ASSUME OneChanges PROVE Spec => []SleepOrdered
  OBVIOUS
<1>1. ListsInv /\ TimesInv /\ OrderInv => SleepOrdered
  BY InOrderOfTimeHolds, InOrderOfPriorityHolds DEF SleepOrdered
<1> QED
  BY <1>1, OrderAlways, TimesAlways, PTL

\* If the priority of one thread at most changes, nobody who is ready to run is more urgent than
\* the thread that runs, unless the scheduler has been asked to run again: the threads that
\* MakeRun puts in the run queue for a whole column come in the order of their priorities
\* (MakeRun, KCNextThread, NextThread).
THEOREM UrgentRuns == OneChanges => (Spec => []MostUrgentRuns)
<1> SUFFICES ASSUME OneChanges PROVE Spec => []MostUrgentRuns
  OBVIOUS
<1> QED
  BY MostUrgentHolds, OrderAlways, PTL

=============================================================================
