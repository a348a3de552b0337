--------------------------- MODULE MsgQueueProofs ---------------------------
(***************************************************************************)
(* Proofs about MsgQueue, for any number of threads and ends, any size of  *)
(* the queue and any use of it: the type and the count of the nodes, that  *)
(* each message is in one place, that nobody sleeps while there is         *)
(* something for it to do, that no end is freed under a call, and that the *)
(* end of the queue wakes whoever waits.                                   *)
(*                                                                         *)
(* They rest on one invariant, IInv.  An end is freed by one call, when no *)
(* call is about it any more: that comes from its locks being counted      *)
(* exactly.  That nobody sleeps comes from what the event of an end means, *)
(* for a thread that waits as for one that is about to.                    *)
(***************************************************************************)
EXTENDS MsgQueue, FiniteSetTheorems, SequenceTheorems, TLAPS

-----------------------------------------------------------------------------
(* The inductive invariant *)

\* Where a call may be with what it is about.
CallOK(t) ==
    /\ own[t] = None <=> pc[t] = "idle"
    /\ own[t] # None /\ ~undefined => life[own[t]] = "live"
    /\ pc[t] \in {"rcopy", "wcopy"} <=> node[t] # None
    /\ pc[t] \in {"signal", "unsignal", "closeReader"} =>
          target[t] \in End /\ (undefined \/ life[target[t]] = "live")
    /\ pc[t] \in {"rwait", "rsleep"} => target[t] \in ReaderEnd
    /\ pc[t] \in {"wwait", "wsleep"} => target[t] \in WriterEnd
    /\ target[t] # None => life[target[t]] # "fresh"
    /\ pc[t] = "open" => ~flags.named
CallsOK == \A t \in Thread : CallOK(t)

\* What is linked or has handles is alive.  In a queue without a name an end that
\* is alive is linked; in one with a name, an end that is not replaces nobody.
EndsOK ==
    /\ \A e \in End : handles[e] > 0 => life[e] = "live"
    /\ \A side \in {"reader", "writer"} : link[side] # None => life[link[side]] = "live"
    /\ ~flags.named => \A e \in End : life[e] = "live" => link[Side(e)] = e
    /\ \A e \in End : Orphan(e) => link[Side(e)] = None

\* The locks of an end are those of the calls about it and of the writers that are
\* to signal it; each call that closes a handle has one to close.
Holders(e) == {t \in Thread : own[t] = e /\ pc[t] # "close"}
Signallers(e) == {t \in Thread : pc[t] \in {"signal", "unsignal"} /\ target[t] = e}
Droppers(e) == {t \in Thread : pc[t] = "dropH" /\ own[t] = e}
CountsOK ==
    \A e \in End :
        /\ locks[e] = Cardinality(Holders(e)) + Cardinality(Signallers(e))
        /\ handles[e] >= Cardinality(Droppers(e))

\* An end is closed by one thread, when nothing refers to it any more.
Closes(t, e) == \/ pc[t] = "close" /\ own[t] = e
                \/ pc[t] = "closeReader" /\ target[t] = e
OneCloser ==
    ~undefined => \A t \in Thread, e \in End : Closes(t, e) =>
        /\ handles[e] = 0 /\ locks[e] = 0 /\ life[e] = "live"
        /\ \A u \in Thread : Closes(u, e) => u = t

\* The message numbered n is where it is said to be.
InQueue(n) == \E i \in DOMAIN queue : queue[i].id = n
IsAlert(n) == pAlert # None /\ pAlert.id = n
InNode(n) == \E t \in Thread : node[t] # None /\ node[t].id = n

\* Each message is in one place and, in the queue or with the threads, in it once.
QueueApart == \A i, j \in DOMAIN queue : queue[i].id = queue[j].id => i = j
NodesApart ==
    \A t, u \in Thread :
        node[t] # None /\ node[u] # None /\ node[t].id = node[u].id => t = u
OnePlace ==
    \A n : /\ InQueue(n) => n \notin taken /\ ~IsAlert(n) /\ ~InNode(n)
           /\ IsAlert(n) => n \notin taken /\ ~InNode(n)
           /\ InNode(n) => n \notin taken
           /\ InQueue(n) \/ IsAlert(n) \/ InNode(n) \/ n \in taken <=> n \in 1..writes
Places == QueueApart /\ NodesApart /\ OnePlace

\* Whoever sleeps on an event has not been woken, and a reader's event that is not set
\* with a message waiting is about to be set.
Woken == \A t \in Thread : pc[t] \in {"rsleep", "wsleep"} => ~event[target[t]]
ReaderTold ==
    link.reader # None /\ ~event[link.reader] /\ ~IsQueueEmpty(queue, pAlert) =>
        \E t \in Thread : pc[t] = "signal" /\ target[t] = link.reader

\* A thread that waits at an end of the queue without its event set has not missed
\* the end of the queue, and a writer has not missed room.
Waits(t, side) ==
    /\ pc[t] \in IF side = "reader" THEN {"rwait", "rsleep"} ELSE {"wwait", "wsleep"}
    /\ target[t] = link[side]
Untold(t, side) ==
    /\ Waits(t, side) /\ ~event[link[side]]
    /\ ~crossed /\ \A u \in Thread : pc[u] # "preclose"
CloseTold ==
    \A t \in Thread, side \in {"reader", "writer"} :
        Untold(t, side) => ~Finished(side) \/ \E e \in End : Orphan(e)
RoomTold ==
    \A t \in Thread : Untold(t, "writer") /\ HasRoom /\ ~Finished("writer") /\ ~unsignalled =>
        \E u \in Thread : pc[u] = "rcopy"

IInv == /\ TypeOK /\ CallsOK /\ EndsOK /\ CountsOK /\ OneCloser
        /\ NodesExact /\ Places /\ Woken /\ ReaderTold /\ CloseTold /\ RoomTold

-----------------------------------------------------------------------------
(* Counting threads *)

One(b) == IF b THEN 1 ELSE 0

\* What changing whether one thread is in a set does to its size.
LEMMA CardinalityStep ==
    ASSUME NEW S, NEW T, NEW x, IsFiniteSet(S), \A y : y # x => (y \in S <=> y \in T)
    PROVE  /\ Cardinality(S) \in Nat /\ Cardinality(T) \in Nat
           /\ Cardinality(T) = Cardinality(S) + One(x \in T) - One(x \in S)
<1>1. IsFiniteSet(S \ {x}) /\ Cardinality(S) \in Nat /\ Cardinality(S \ {x}) \in Nat
  BY FS_RemoveElement, FS_CardinalityType
<1>2. Cardinality(S \ {x}) = Cardinality(S) - One(x \in S)
  BY <1>1, FS_RemoveElement DEF One
<1>3. CASE x \in T
  <2>1. T = (S \ {x}) \cup {x} /\ x \notin S \ {x}
    BY <1>3
  <2>2. Cardinality(T) = Cardinality(S \ {x}) + 1
    BY <1>1, <2>1, FS_AddElement
  <2> QED
    BY <1>1, <1>2, <1>3, <2>2 DEF One
<1>4. CASE x \notin T
  <2>1. T = S \ {x}
    BY <1>4
  <2> QED
    BY <1>1, <1>2, <1>4, <2>1 DEF One
<1> QED
  BY <1>3, <1>4

\* The threads at a place of their call are finitely many.
LEMMA FiniteCalls ==
    /\ \A e : IsFiniteSet(Holders(e)) /\ IsFiniteSet(Signallers(e)) /\ IsFiniteSet(Droppers(e))
    /\ \A label : IsFiniteSet(Copying(label))
<1>1. \A S \in SUBSET Thread : IsFiniteSet(S)
  BY FS_Subset, MsgQueueAssumption
<1>2. /\ \A e : Holders(e) \in SUBSET Thread /\ Signallers(e) \in SUBSET Thread
                /\ Droppers(e) \in SUBSET Thread
      /\ \A label : Copying(label) \in SUBSET Thread
  BY DEF Holders, Signallers, Droppers, Copying
<1> QED
  BY <1>1, <1>2

\* A step is one thread's: others are at most woken.
Moved(u) ==
    \/ pc'[u] = pc[u]
    \/ pc[u] = "rsleep" /\ pc'[u] = "read"
    \/ pc[u] = "wsleep" /\ pc'[u] = "write"
OnlyCall(t) ==
    \A u \in Thread : u # t => /\ own'[u] = own[u] /\ target'[u] = target[u]
                               /\ node'[u] = node[u] /\ Moved(u)

\* What it does to the places of the thread's call is what it does to the counts.
LEMMA CallStep ==
    ASSUME NEW t \in Thread, OnlyCall(t)
    PROVE  /\ \A e : /\ Cardinality(Holders(e)') = Cardinality(Holders(e))
                         + One(own'[t] = e /\ pc'[t] # "close") - One(own[t] = e /\ pc[t] # "close")
                     /\ Cardinality(Signallers(e)') = Cardinality(Signallers(e))
                         + One(pc'[t] \in {"signal", "unsignal"} /\ target'[t] = e)
                         - One(pc[t] \in {"signal", "unsignal"} /\ target[t] = e)
                     /\ Cardinality(Droppers(e)') = Cardinality(Droppers(e))
                         + One(pc'[t] = "dropH" /\ own'[t] = e) - One(pc[t] = "dropH" /\ own[t] = e)
                     /\ Cardinality(Holders(e)) \in Nat /\ Cardinality(Signallers(e)) \in Nat
                     /\ Cardinality(Droppers(e)) \in Nat
           /\ \A label \in {"rcopy", "wcopy"} :
                 /\ Cardinality(Copying(label)') = Cardinality(Copying(label))
                         + One(pc'[t] = label) - One(pc[t] = label)
                 /\ Cardinality(Copying(label)) \in Nat
<1>1. \A e : /\ \A u : u # t => (u \in Holders(e) <=> u \in Holders(e)')
             /\ \A u : u # t => (u \in Signallers(e) <=> u \in Signallers(e)')
             /\ \A u : u # t => (u \in Droppers(e) <=> u \in Droppers(e)')
  BY DEF OnlyCall, Moved, Holders, Signallers, Droppers
<1>2. \A label \in {"rcopy", "wcopy"} : \A u : u # t => (u \in Copying(label) <=> u \in Copying(label)')
  BY DEF OnlyCall, Moved, Copying
<1>3. \A e : /\ t \in Holders(e) <=> own[t] = e /\ pc[t] # "close"
             /\ t \in Holders(e)' <=> own'[t] = e /\ pc'[t] # "close"
             /\ t \in Signallers(e) <=> pc[t] \in {"signal", "unsignal"} /\ target[t] = e
             /\ t \in Signallers(e)' <=> pc'[t] \in {"signal", "unsignal"} /\ target'[t] = e
             /\ t \in Droppers(e) <=> pc[t] = "dropH" /\ own[t] = e
             /\ t \in Droppers(e)' <=> pc'[t] = "dropH" /\ own'[t] = e
  BY DEF Holders, Signallers, Droppers
<1>4. \A label : /\ t \in Copying(label) <=> pc[t] = label
                 /\ t \in Copying(label)' <=> pc'[t] = label
  BY DEF Copying
<1>5. \A e : /\ Cardinality(Holders(e)') = Cardinality(Holders(e))
                  + One(t \in Holders(e)') - One(t \in Holders(e))
             /\ Cardinality(Signallers(e)') = Cardinality(Signallers(e))
                  + One(t \in Signallers(e)') - One(t \in Signallers(e))
             /\ Cardinality(Droppers(e)') = Cardinality(Droppers(e))
                  + One(t \in Droppers(e)') - One(t \in Droppers(e))
             /\ Cardinality(Holders(e)) \in Nat /\ Cardinality(Signallers(e)) \in Nat
             /\ Cardinality(Droppers(e)) \in Nat
  BY <1>1, CardinalityStep, FiniteCalls
<1>6. \A label \in {"rcopy", "wcopy"} :
         /\ Cardinality(Copying(label)') = Cardinality(Copying(label))
              + One(t \in Copying(label)') - One(t \in Copying(label))
         /\ Cardinality(Copying(label)) \in Nat
  BY <1>2, CardinalityStep, FiniteCalls
<1> QED
  BY <1>3, <1>4, <1>5, <1>6 DEF One

\* Where there is somebody, the count is not 0.
LEMMA CountPositive ==
    ASSUME NEW e, NEW t
    PROVE  /\ t \in Holders(e) => Cardinality(Holders(e)) >= 1
           /\ t \in Signallers(e) => Cardinality(Signallers(e)) >= 1
           /\ t \in Droppers(e) => Cardinality(Droppers(e)) >= 1
<1>1. \A S : IsFiniteSet(S) /\ t \in S => Cardinality(S) >= 1
  <2> SUFFICES ASSUME NEW S, IsFiniteSet(S), t \in S PROVE Cardinality(S) >= 1
    OBVIOUS
  <2>1. Cardinality(S) \in Nat /\ Cardinality(S \ {t}) \in Nat
    BY FS_CardinalityType, FS_RemoveElement
  <2>2. Cardinality(S \ {t}) = Cardinality(S) - 1
    BY FS_RemoveElement
  <2> QED
    BY <2>1, <2>2
<1> QED
  BY <1>1, FiniteCalls

\* At most every thread is there, and all but t when t is not.
LEMMA CountBound ==
    ASSUME NEW t \in Thread
    PROVE  /\ Cardinality(Thread) \in Nat \ {0}
           /\ \A e : /\ Cardinality(Holders(e)) <= Cardinality(Thread)
                     /\ Cardinality(Signallers(e)) <= Cardinality(Thread)
           /\ pc[t] # "rcopy" => Cardinality(Copying("rcopy")) <= Cardinality(Thread) - 1
<1>1. IsFiniteSet(Thread) /\ IsFiniteSet(Thread \ {t})
      /\ Cardinality(Thread) \in Nat /\ Cardinality(Thread \ {t}) \in Nat
      /\ Cardinality(Thread \ {t}) = Cardinality(Thread) - 1
  BY MsgQueueAssumption, FS_RemoveElement, FS_CardinalityType
<1>2. \A e : Holders(e) \in SUBSET Thread /\ Signallers(e) \in SUBSET Thread
  BY DEF Holders, Signallers
<1>3. \A S \in SUBSET Thread : Cardinality(S) <= Cardinality(Thread)
  BY <1>1, FS_Subset
<1>4. ASSUME pc[t] # "rcopy" PROVE Cardinality(Copying("rcopy")) <= Cardinality(Thread) - 1
  <2>1. Copying("rcopy") \in SUBSET (Thread \ {t})
    BY <1>4 DEF Copying
  <2> QED
    BY <1>1, <2>1, FS_Subset
<1> QED
  BY <1>1, <1>2, <1>3, <1>4

-----------------------------------------------------------------------------
(* Steps *)

\* What thread t may do.
Acts(t) ==
    \/ Step(t) \/ WaitEnds(t) \/ WriteFaults(t) \/ WriteBigFaults(t)
    \/ \E e \in End :
          \/ Read(t, e) \/ Write(t, e) \/ Close(t, e)
          \/ OpenNamed(t, e) \/ CreateNamed(t, e) \/ OpenEx(t, e)

\* Going on moves the thread to the label, and those it wakes from their sleep.
LEMMA Goes ==
    ASSUME TypeOK, NEW t \in Thread, NEW label \in Labels, NEW es, GoWaking(t, label, es)
    PROVE  /\ pc' \in [Thread -> Labels] /\ pc'[t] = label
           /\ \A u \in Thread : u # t =>
                 /\ Moved(u)
                 /\ \A e \in es : target[u] = e => pc'[u] \notin {"rsleep", "wsleep"}
<1>1. pc' = [u \in Thread |-> IF u = t THEN label
                              ELSE IF \E e \in es : Sleeps(u, e) THEN Awake(pc[u]) ELSE pc[u]]
  BY DEF GoWaking
<1>2. \A u \in Thread : pc[u] \in Labels
  BY DEF TypeOK
<1>3. \A u \in Thread : Awake(pc[u]) \in {"read", "write"}
  BY DEF Awake
<1>4. pc' \in [Thread -> Labels]
  BY <1>1, <1>2, <1>3 DEF Labels
<1>5. ASSUME NEW u \in Thread, u # t PROVE Moved(u)
  <2>1. pc'[u] = IF \E e \in es : Sleeps(u, e) THEN Awake(pc[u]) ELSE pc[u]
    BY <1>1, <1>5
  <2>2. (\E e \in es : Sleeps(u, e)) => pc[u] \in {"rsleep", "wsleep"}
    BY DEF Sleeps
  <2> QED
    BY <2>1, <2>2 DEF Moved, Awake
<1>6. \A u \in Thread : u # t =>
         \A e \in es : target[u] = e => pc'[u] \notin {"rsleep", "wsleep"}
  BY <1>1, <1>3 DEF Sleeps
<1> QED
  BY <1>1, <1>4, <1>5, <1>6

\* So does going on without waking anybody, which leaves the others where they are.
LEMMA GoesAlone ==
    ASSUME TypeOK, NEW t \in Thread, NEW label \in Labels, Go(t, label)
    PROVE  /\ pc' \in [Thread -> Labels] /\ pc'[t] = label
           /\ \A u \in Thread : u # t => pc'[u] = pc[u]
<1>1. GoWaking(t, label, {})
  BY DEF Go
<1>2. \A u \in Thread : u # t => pc'[u] = pc[u]
  BY <1>1 DEF GoWaking
<1> QED
  BY <1>1, <1>2, Goes

\* One event is reset, or set.
LEMMA EventMoves ==
    ASSUME NEW ev \in [End -> BOOLEAN], NEW e
    PROVE  /\ Reset(ev, e) \in [End -> BOOLEAN]
           /\ \A o \in End : Reset(ev, e)[o] = (ev[o] /\ (o # e \/ e = None))
           /\ Set(ev, e) \in [End -> BOOLEAN]
           /\ \A o \in End : Set(ev, e)[o] = (ev[o] \/ (o = e /\ e # None))
<1> QED
  BY DEF Reset, Set


\* Whatever it does, thread t leaves the calls of the others where they are, or wakes
\* them.
LEMMA ActsOnCall ==
    ASSUME TypeOK, NEW t \in Thread, Acts(t)
    PROVE  OnlyCall(t)
<1>0. \A label \in Labels : \A es : GoWaking(t, label, es) => \A u \in Thread : u # t => Moved(u)
  BY Goes
<1>1. CASE ReadFails(t)
  BY <1>0, <1>1 DEF ReadFails, OnlyCall, TypeOK, Labels, Go, Awake
<1>2. CASE ReadAlert(t)
  BY <1>0, <1>2 DEF ReadAlert, OnlyCall, TypeOK, Labels, Go, Awake
<1>3. CASE ReadSmall(t)
  BY <1>0, <1>3 DEF ReadSmall, OnlyCall, TypeOK, Labels, Go, Awake
<1>4. CASE ReadBig(t)
  BY <1>0, <1>4 DEF ReadBig, OnlyCall, TypeOK, Labels, Go, Awake
<1>5. CASE ReadBigDone(t)
  BY <1>0, <1>5 DEF ReadBigDone, OnlyCall, TypeOK, Labels, Go, Awake
<1>6. CASE ReadWait(t)
  BY <1>0, <1>6 DEF ReadWait, OnlyCall, TypeOK, Labels, Go, Awake
<1>7. CASE Wait(t)
  BY <1>0, <1>7 DEF Wait, OnlyCall, TypeOK, Labels, Go, Awake
<1>8. CASE WriteFails(t)
  BY <1>0, <1>8 DEF WriteFails, OnlyCall, TypeOK, Labels, Go, Awake
<1>9. CASE WriteAlert(t)
  BY <1>0, <1>9 DEF WriteAlert, LockReader, OnlyCall, TypeOK, Labels, Go, Awake
<1>10. CASE WriteSmall(t)
  BY <1>0, <1>10 DEF WriteSmall, LockReader, OnlyCall, TypeOK, Labels, Go, Awake
<1>11. CASE WriteBig(t)
  BY <1>0, <1>11 DEF WriteBig, OnlyCall, TypeOK, Labels, Go, Awake
<1>12. CASE WriteBigDone(t)
  BY <1>0, <1>12 DEF WriteBigDone, LockReader, OnlyCall, TypeOK, Labels, Go, Awake
<1>13. CASE WriteWait(t)
  BY <1>0, <1>13 DEF WriteWait, OnlyCall, TypeOK, Labels, Go, Awake
<1>14. CASE Signal(t)
  BY <1>0, <1>14 DEF Signal, OnlyCall, TypeOK, Labels, Go, Awake
<1>15. CASE UnlockReader(t)
  BY <1>0, <1>15 DEF UnlockReader, OnlyCall, TypeOK, Labels, Go, Awake
<1>16. ASSUME NEW e \in End, OpenExDup(t, e) PROVE OnlyCall(t)
  BY <1>0, <1>16 DEF OpenExDup, OnlyCall, TypeOK, Labels, Go, Awake
<1>17. CASE OpenExFails(t)
  BY <1>0, <1>17 DEF OpenExFails, OnlyCall, TypeOK, Labels, Go, Awake
<1>18. CASE DropHandle(t)
  BY <1>0, <1>18 DEF DropHandle, OnlyCall, TypeOK, Labels, Go, Awake
<1>19. CASE PreClose(t)
  BY <1>0, <1>19 DEF PreClose, OnlyCall, TypeOK, Labels, Go, Awake
<1>20. CASE Done(t)
  BY <1>0, <1>20 DEF Done, OnlyCall, TypeOK, Labels, Go, Awake
<1>21. CASE CloseEnd(t)
  BY <1>0, <1>21 DEF CloseEnd, MSGQClose, OnlyCall, TypeOK, Labels, Go, Awake
<1>22. CASE CloseReader(t)
  BY <1>0, <1>22 DEF CloseReader, MSGQClose, OnlyCall, TypeOK, Labels, Go, Awake
<1>23. CASE WaitEnds(t)
  BY <1>0, <1>23 DEF WaitEnds, OnlyCall, TypeOK, Labels, Go, Awake
<1>24. CASE WriteFaults(t)
  BY <1>0, <1>24 DEF WriteFaults, OnlyCall, TypeOK, Labels, Go, Awake
<1>25. CASE WriteBigFaults(t)
  BY <1>0, <1>25 DEF WriteBigFaults, OnlyCall, TypeOK, Labels, Go, Awake
<1>26. ASSUME NEW e \in End, OpenExCreate(t, e) PROVE OnlyCall(t)
  BY <1>0, <1>26 DEF OpenExCreate, OnlyCall, Moved, TypeOK, Labels, Go
<1>27. ASSUME NEW e \in End, Read(t, e) PROVE OnlyCall(t)
  BY <1>0, <1>27 DEF Read, Enter, OnlyCall, Moved, TypeOK, Labels, Go
<1>28. ASSUME NEW e \in End, Write(t, e) PROVE OnlyCall(t)
  BY <1>0, <1>28 DEF Write, Enter, OnlyCall, Moved, TypeOK, Labels, Go
<1>29. ASSUME NEW e \in End, Close(t, e) PROVE OnlyCall(t)
  BY <1>0, <1>29 DEF Close, Enter, OnlyCall, Moved, TypeOK, Labels, Go
<1>30. ASSUME NEW e \in End, OpenNamed(t, e) PROVE OnlyCall(t)
  BY <1>0, <1>30 DEF OpenNamed, OnlyCall, Moved, TypeOK, Labels, Go
<1>31. ASSUME NEW e \in End, CreateNamed(t, e) PROVE OnlyCall(t)
  BY <1>0, <1>31 DEF CreateNamed, OnlyCall, Moved, TypeOK, Labels, Go
<1>32. ASSUME NEW e \in End, OpenEx(t, e) PROVE OnlyCall(t)
  BY <1>0, <1>32 DEF OpenEx, Enter, OnlyCall, Moved, TypeOK, Labels, Go
<1> QED
  BY <1>1, <1>2, <1>3, <1>4, <1>5, <1>6, <1>7, <1>8, <1>9, <1>10, <1>11, <1>12, <1>13, <1>14, <1>15, <1>16, <1>17, <1>18, <1>19, <1>20, <1>21, <1>22, <1>23, <1>24, <1>25, <1>26, <1>27, <1>28, <1>29, <1>30, <1>31, <1>32 DEF Acts, Step

\* The counts stay exact when they change as the thread's call does.
LEMMA CountsByCall ==
    ASSUME TypeOK, CountsOK, NEW t \in Thread, OnlyCall(t),
           \A e \in End : locks'[e] = locks[e]
               + One(own'[t] = e /\ pc'[t] # "close") - One(own[t] = e /\ pc[t] # "close")
               + One(pc'[t] \in {"signal", "unsignal"} /\ target'[t] = e)
               - One(pc[t] \in {"signal", "unsignal"} /\ target[t] = e),
           \A e \in End :
               \/ handles'[e] >= handles[e] + One(pc'[t] = "dropH" /\ own'[t] = e)
                                 - One(pc[t] = "dropH" /\ own[t] = e)
               \/ handles'[e] = handles[e] /\ Open(e),
           handles' \in [End -> Int]
    PROVE  CountsOK'
<1> SUFFICES ASSUME NEW e \in End
             PROVE  /\ locks'[e] = Cardinality(Holders(e)') + Cardinality(Signallers(e)')
                    /\ handles'[e] >= Cardinality(Droppers(e)')
  BY DEF CountsOK
<1>1. /\ locks[e] = Cardinality(Holders(e)) + Cardinality(Signallers(e))
      /\ handles[e] >= Cardinality(Droppers(e)) /\ handles[e] \in Int /\ handles'[e] \in Int
  BY DEF CountsOK, TypeOK
<1>2. Open(e) => handles[e] > Cardinality(Droppers(e))
  BY DEF Open, Droppers
<1> QED
  BY <1>1, <1>2, CallStep DEF One

\* Every step keeps them exact.
LEMMA CountsStep ==
    ASSUME TypeOK, CallsOK, EndsOK, CountsOK, NEW t \in Thread, Acts(t)
    PROVE  CountsOK' /\ locks' \in [End -> Int] /\ handles' \in [End -> Int]
<1>0. \A label \in Labels : \A es : GoWaking(t, label, es) => pc'[t] = label
  BY Goes
<1>a. OnlyCall(t) /\ CallOK(t)
  BY ActsOnCall DEF CallsOK
<1>b. None \notin End
  BY MsgQueueAssumption
<1> DEFINE Right ==
        /\ \A e \in End : locks'[e] = locks[e]
               + One(own'[t] = e /\ pc'[t] # "close") - One(own[t] = e /\ pc[t] # "close")
               + One(pc'[t] \in {"signal", "unsignal"} /\ target'[t] = e)
               - One(pc[t] \in {"signal", "unsignal"} /\ target[t] = e)
        /\ \A e \in End :
               \/ handles'[e] >= handles[e] + One(pc'[t] = "dropH" /\ own'[t] = e)
                                 - One(pc[t] = "dropH" /\ own[t] = e)
               \/ handles'[e] = handles[e] /\ Open(e)
        /\ locks' \in [End -> Int] /\ handles' \in [End -> Int]
<1>c. /\ locks \in [End -> Int] /\ handles \in [End -> Int] /\ pc[t] \in Labels
      /\ own \in [Thread -> End \cup {None}] /\ target \in [Thread -> End \cup {None}]
      /\ link \in [reader : ReaderEnd \cup {None}, writer : WriterEnd \cup {None}]
      /\ pc \in [Thread -> Labels]
  BY DEF TypeOK
<1>d. \A e \in End : life[e] = "fresh" => handles[e] = 0
  <2>1. \A e \in End : handles[e] \in Nat /\ (handles[e] > 0 => life[e] = "live")
    BY DEF TypeOK, EndsOK
  <2> QED
    BY <2>1
<1>1. ASSUME ReadFails(t) PROVE Right
  BY <1>0, <1>a, <1>b, <1>c, <1>1 DEF ReadFails, CallOK, One, Labels, Go, Awake, endVars, End, qVars
<1>2. ASSUME ReadAlert(t) PROVE Right
  BY <1>0, <1>a, <1>b, <1>c, <1>2 DEF ReadAlert, CallOK, One, Labels, Go, Awake, endVars, End, qVars
<1>3. ASSUME ReadSmall(t) PROVE Right
  BY <1>0, <1>a, <1>b, <1>c, <1>3 DEF ReadSmall, CallOK, One, Labels, Go, Awake, endVars, End, qVars
<1>4. ASSUME ReadBig(t) PROVE Right
  BY <1>0, <1>a, <1>b, <1>c, <1>4 DEF ReadBig, CallOK, One, Labels, Go, Awake, endVars, End, qVars
<1>5. ASSUME ReadBigDone(t) PROVE Right
  BY <1>0, <1>a, <1>b, <1>c, <1>5 DEF ReadBigDone, CallOK, One, Labels, Go, Awake, endVars, End, qVars
<1>6. ASSUME ReadWait(t) PROVE Right
  BY <1>0, <1>a, <1>b, <1>c, <1>6 DEF ReadWait, CallOK, One, Labels, Go, Awake, endVars, End, qVars
<1>7. ASSUME Wait(t) PROVE Right
  BY <1>0, <1>a, <1>b, <1>c, <1>7 DEF Wait, CallOK, One, Labels, Go, Awake, endVars, End, qVars
<1>8. ASSUME WriteFails(t) PROVE Right
  BY <1>0, <1>a, <1>b, <1>c, <1>8 DEF WriteFails, CallOK, One, Labels, Go, Awake, endVars, End, qVars
<1>9. ASSUME WriteAlert(t) PROVE Right
  BY <1>0, <1>a, <1>b, <1>c, <1>9 DEF WriteAlert, LockReader, CallOK, One, Labels, Go, Awake, endVars, End, qVars
<1>10. ASSUME WriteSmall(t) PROVE Right
  BY <1>0, <1>a, <1>b, <1>c, <1>10 DEF WriteSmall, LockReader, CallOK, One, Labels, Go, Awake, endVars, End, qVars
<1>11. ASSUME WriteBig(t) PROVE Right
  BY <1>0, <1>a, <1>b, <1>c, <1>11 DEF WriteBig, CallOK, One, Labels, Go, Awake, endVars, End, qVars
<1>12. ASSUME WriteBigDone(t) PROVE Right
  BY <1>0, <1>a, <1>b, <1>c, <1>12 DEF WriteBigDone, LockReader, CallOK, One, Labels, Go, Awake, endVars, End, qVars
<1>13. ASSUME WriteWait(t) PROVE Right
  BY <1>0, <1>a, <1>b, <1>c, <1>13 DEF WriteWait, CallOK, One, Labels, Go, Awake, endVars, End, qVars
<1>14. ASSUME Signal(t) PROVE Right
  BY <1>0, <1>a, <1>b, <1>c, <1>14 DEF Signal, CallOK, One, Labels, Go, Awake, endVars, End, qVars
<1>15. ASSUME UnlockReader(t) PROVE Right
  BY <1>0, <1>a, <1>b, <1>c, <1>15 DEF UnlockReader, CallOK, One, Labels, Go, Awake, endVars, End, qVars
<1>16. ASSUME NEW e \in End, OpenExDup(t, e) PROVE Right
  BY <1>0, <1>a, <1>b, <1>c, <1>16 DEF OpenExDup, Other, Side, CallOK, One, Labels, Go, Awake, endVars, End, qVars
<1>17. ASSUME OpenExFails(t) PROVE Right
  BY <1>0, <1>a, <1>b, <1>c, <1>17 DEF OpenExFails, CallOK, One, Labels, Go, Awake, endVars, End, qVars
<1>18. ASSUME DropHandle(t) PROVE Right
  BY <1>0, <1>a, <1>b, <1>c, <1>18 DEF DropHandle, CallOK, One, Labels, Go, Awake, endVars, End, qVars
<1>19. ASSUME PreClose(t) PROVE Right
  BY <1>0, <1>a, <1>b, <1>c, <1>19 DEF PreClose, CallOK, One, Labels, Go, Awake, endVars, End, qVars
<1>20. ASSUME Done(t) PROVE Right
  BY <1>0, <1>a, <1>b, <1>c, <1>20 DEF Done, CallOK, One, Labels, Go, Awake, endVars, End, qVars
<1>21. ASSUME CloseEnd(t) PROVE Right
  BY <1>0, <1>a, <1>b, <1>c, <1>21 DEF CloseEnd, MSGQClose, CallOK, One, Labels, Go, Awake, endVars, End, qVars
<1>22. ASSUME CloseReader(t) PROVE Right
  BY <1>0, <1>a, <1>b, <1>c, <1>22 DEF CloseReader, MSGQClose, CallOK, One, Labels, Go, Awake, endVars, End, qVars
<1>23. ASSUME WaitEnds(t) PROVE Right
  BY <1>0, <1>a, <1>b, <1>c, <1>23 DEF WaitEnds, CallOK, One, Labels, Go, Awake, endVars, End, qVars
<1>24. ASSUME WriteFaults(t) PROVE Right
  BY <1>0, <1>a, <1>b, <1>c, <1>24 DEF WriteFaults, CallOK, One, Labels, Go, Awake, endVars, End, qVars
<1>25. ASSUME WriteBigFaults(t) PROVE Right
  BY <1>0, <1>a, <1>b, <1>c, <1>25 DEF WriteBigFaults, CallOK, One, Labels, Go, Awake, endVars, End, qVars
<1>26. ASSUME NEW e \in End, OpenExCreate(t, e) PROVE Right
  BY <1>0, <1>a, <1>b, <1>c, <1>d, <1>26 DEF OpenExCreate, LinkQToPHD, CallOK, One, Labels, Go, endVars
<1>27. ASSUME NEW e \in End, Read(t, e) PROVE Right
  BY <1>0, <1>a, <1>b, <1>c, <1>27 DEF Read, Enter, CallOK, One, Labels, Go, endVars
<1>28. ASSUME NEW e \in End, Write(t, e) PROVE Right
  BY <1>0, <1>a, <1>b, <1>c, <1>28 DEF Write, Enter, CallOK, One, Labels, Go, endVars
<1>29. ASSUME NEW e \in End, Close(t, e) PROVE Right
  BY <1>0, <1>a, <1>b, <1>c, <1>29 DEF Close, Enter, CallOK, One, Labels, Go, endVars
<1>30. ASSUME NEW e \in End, OpenNamed(t, e) PROVE Right
  BY <1>0, <1>a, <1>b, <1>c, <1>30 DEF OpenNamed, CallOK, One, Labels, Go, endVars
<1>31. ASSUME NEW e \in End, CreateNamed(t, e) PROVE Right
  BY <1>0, <1>a, <1>b, <1>c, <1>d, <1>31 DEF CreateNamed, LinkQToPHD, CallOK, One, Labels, Go, endVars
<1>32. ASSUME NEW e \in End, OpenEx(t, e) PROVE Right
  BY <1>0, <1>a, <1>b, <1>c, <1>32 DEF OpenEx, Enter, CallOK, One, Labels, Go, endVars
<1>r. Right
  BY <1>1, <1>2, <1>3, <1>4, <1>5, <1>6, <1>7, <1>8, <1>9, <1>10, <1>11, <1>12, <1>13, <1>14, <1>15, <1>16, <1>17, <1>18, <1>19, <1>20, <1>21, <1>22, <1>23, <1>24, <1>25, <1>26, <1>27, <1>28, <1>29, <1>30, <1>31, <1>32 DEF Acts, Step
<1> QED
  BY <1>a, <1>r, CountsByCall

\* The locks of an end are at most two for each thread: that is their type.
LEMMA LocksBound ==
    ASSUME NEW t \in Thread
    PROVE  CountsOK /\ locks \in [End -> Int] => locks \in [End -> 0..2 * Cardinality(Thread)]
<1> SUFFICES ASSUME CountsOK, locks \in [End -> Int], NEW e \in End
             PROVE  locks[e] \in 0..2 * Cardinality(Thread)
  OBVIOUS
<1>1. locks[e] = Cardinality(Holders(e)) + Cardinality(Signallers(e))
  BY DEF CountsOK
<1>2. Cardinality(Holders(e)) \in Nat /\ Cardinality(Signallers(e)) \in Nat
  BY FiniteCalls, FS_CardinalityType
<1>3. /\ Cardinality(Thread) \in Nat
      /\ Cardinality(Holders(e)) <= Cardinality(Thread)
      /\ Cardinality(Signallers(e)) <= Cardinality(Thread)
  BY CountBound
<1> QED
  BY <1>1, <1>2, <1>3

\* A call that has a handle to close finds one.
LEMMA HandleToDrop ==
    ASSUME TypeOK, CountsOK, NEW t \in Thread, pc[t] = "dropH", own[t] \in End
    PROVE  handles[own[t]] \in Nat \ {0}
<1>1. handles[own[t]] >= Cardinality(Droppers(own[t])) /\ handles[own[t]] \in Nat
  BY DEF CountsOK, TypeOK
<1>2. t \in Droppers(own[t])
  BY DEF Droppers
<1>3. Cardinality(Droppers(own[t])) >= 1 /\ Cardinality(Droppers(own[t])) \in Nat
  BY <1>2, CountPositive, FiniteCalls, FS_CardinalityType
<1> QED
  BY <1>1, <1>3

\* Nodes that are queued, and what is left of a queue.
LEMMA QueueMoves ==
    /\ \A q \in Seq(Message), n \in Message :
          /\ Enqueue(q, n) \in Seq(Message) /\ Len(Enqueue(q, n)) = Len(q) + 1
          /\ Enqueue(q, n) # <<>> /\ Enqueue(q, n)[Len(q) + 1] = n
          /\ DOMAIN Enqueue(q, n) = 1..Len(q) + 1 /\ DOMAIN q = 1..Len(q) /\ Len(q) \in Nat
          /\ \A i \in 1..Len(q) : Enqueue(q, n)[i] = q[i]
    /\ \A q \in Seq(Message) : q # <<>> =>
          /\ Dequeue(q) \in Seq(Message) /\ Len(Dequeue(q)) = Len(q) - 1 /\ Len(q) \in Nat \ {0}
          /\ DOMAIN Dequeue(q) = 1..Len(q) - 1 /\ DOMAIN q = 1..Len(q)
          /\ Head(q) = q[1] /\ q[1] \in Message
          /\ \A i \in 1..Len(q) - 1 : Dequeue(q)[i] = q[i + 1]
<1>1. ASSUME NEW q \in Seq(Message), NEW n \in Message
      PROVE  /\ Append(q, n) \in Seq(Message) /\ Len(Append(q, n)) = Len(q) + 1
             /\ Append(q, n) # <<>> /\ Append(q, n)[Len(q) + 1] = n
             /\ DOMAIN Append(q, n) = 1..Len(q) + 1 /\ DOMAIN q = 1..Len(q) /\ Len(q) \in Nat
             /\ \A i \in 1..Len(q) : Append(q, n)[i] = q[i]
  OBVIOUS
<1>2. ASSUME NEW q \in Seq(Message), q # <<>>
      PROVE  /\ Tail(q) \in Seq(Message) /\ Len(Tail(q)) = Len(q) - 1 /\ Len(q) \in Nat \ {0}
             /\ DOMAIN Tail(q) = 1..Len(q) - 1 /\ DOMAIN q = 1..Len(q)
             /\ Head(q) = q[1] /\ q[1] \in Message
             /\ \A i \in 1..Len(q) - 1 : Tail(q)[i] = q[i + 1]
  BY <1>2
<1> QED
  BY <1>1, <1>2 DEF Enqueue, Dequeue

\* What is queued, and what is still to be copied, has a number that was given out.
LEMMA GivenOut ==
    ASSUME TypeOK, Places, NEW t \in Thread
    PROVE  /\ \A i \in DOMAIN queue : queue[i].id \in 1..writes
           /\ pAlert # None => pAlert.id \in 1..writes
           /\ node[t] # None => node[t].id \in 1..writes /\ node[t] \in Message
           /\ queue # <<>> => Head(queue).id \in 1..writes
           /\ {n.id : n \in Messages} \subseteq 1..writes
<1>1. /\ queue \in Seq(Message) /\ pAlert \in Message \cup {None}
      /\ node[t] \in Message \cup {None} /\ writes \in Nat
  BY MsgQueueAssumption DEF TypeOK, Alert
<1>2. \A m \in Message : m.id \in Nat /\ m.id >= 1
  BY MsgQueueAssumption DEF Message
<1>3. \A n : InQueue(n) \/ IsAlert(n) \/ InNode(n) => n \in 1..writes
  BY DEF Places, OnePlace
<1>4. \A i \in DOMAIN queue : queue[i].id \in 1..writes
  BY <1>3 DEF InQueue
<1>5. pAlert # None => pAlert.id \in 1..writes
  BY <1>3 DEF IsAlert
<1>6. node[t] # None => node[t].id \in 1..writes /\ node[t] \in Message
  BY <1>1, <1>3 DEF InNode
<1>7. queue # <<>> => Head(queue).id \in 1..writes
  BY <1>1, <1>4
<1>8. {n.id : n \in Messages} \subseteq 1..writes
  BY <1>4, <1>5 DEF Messages
<1> QED
  BY <1>4, <1>5, <1>6, <1>7, <1>8

\* The types of the queue,
LEMMA QueueTypes ==
    ASSUME TypeOK, NEW t \in Thread, CallOK(t), Acts(t)
    PROVE  /\ flags' \in Flags /\ invalid' \in BOOLEAN /\ freeNodes' \in Nat /\ dwCurNumMsg' \in Int
           /\ queue' \in Seq(Message) /\ pAlert' \in Alert \cup {None}
           /\ writes' \in 0..MaxWrites
<1> DEFINE Typed ==
        /\ flags' \in Flags /\ invalid' \in BOOLEAN /\ freeNodes' \in Nat /\ dwCurNumMsg' \in Int
        /\ queue' \in Seq(Message) /\ pAlert' \in Alert \cup {None}
        /\ writes' \in 0..MaxWrites
<1>0. /\ flags \in Flags /\ invalid \in BOOLEAN /\ freeNodes \in Nat /\ dwCurNumMsg \in Int
      /\ queue \in Seq(Message) /\ pAlert \in Alert \cup {None} /\ writes \in 0..MaxWrites
      /\ node[t] \in Message \cup {None} /\ MaxWrites \in Nat
  BY MsgQueueAssumption DEF TypeOK
<1>a. pc[t] = "wcopy" => node[t] # None
  BY DEF CallOK
<1>b. <<>> \in Seq(Message)
  OBVIOUS
<1>c. writes < MaxWrites =>
         \A b \in BOOLEAN : [id |-> writes + 1, big |-> b] \in Message /\ writes + 1 \in 0..MaxWrites
  BY <1>0 DEF Message
<1>d. /\ \A n \in Message : Enqueue(queue, n) \in Seq(Message)
      /\ queue # <<>> => Dequeue(queue) \in Seq(Message)
  BY <1>0, QueueMoves
<1>e. writes < MaxWrites => /\ [id |-> writes + 1, big |-> FALSE] \in Alert
                            /\ Enqueue(queue, [id |-> writes + 1, big |-> FALSE]) \in Seq(Message)
  BY <1>c, <1>d DEF Alert
<1>1. ASSUME ReadAlert(t) PROVE Typed
  BY <1>0, <1>a, <1>b, <1>c, <1>d, <1>e, <1>1 DEF ReadAlert, qVars
<1>2. ASSUME ReadSmall(t) PROVE Typed
  BY <1>0, <1>a, <1>b, <1>c, <1>d, <1>e, <1>2 DEF ReadSmall, FreeNode, qVars
<1>3. ASSUME ReadBig(t) PROVE Typed
  BY <1>0, <1>a, <1>b, <1>c, <1>d, <1>e, <1>3 DEF ReadBig, history, qVars
<1>4. ASSUME ReadBigDone(t) PROVE Typed
  BY <1>0, <1>a, <1>b, <1>c, <1>d, <1>e, <1>4 DEF ReadBigDone, FreeNode, qVars
<1>5. ASSUME WriteAlert(t) PROVE Typed
  BY <1>0, <1>a, <1>b, <1>c, <1>d, <1>e, <1>5 DEF WriteAlert, qVars
<1>6. ASSUME WriteSmall(t) PROVE Typed
  BY <1>0, <1>a, <1>b, <1>c, <1>d, <1>e, <1>6 DEF WriteSmall, NodeFromList, qVars
<1>7. ASSUME WriteBig(t) PROVE Typed
  BY <1>0, <1>a, <1>b, <1>c, <1>d, <1>e, <1>7 DEF WriteBig, NodeFromList, qVars
<1>8. ASSUME WriteBigDone(t) PROVE Typed
  BY <1>0, <1>a, <1>b, <1>c, <1>d, <1>e, <1>8 DEF WriteBigDone, qVars
<1>9. ASSUME WriteFaults(t) PROVE Typed
  BY <1>0, <1>a, <1>b, <1>c, <1>d, <1>e, <1>9 DEF WriteFaults, NodeFromList, history, qVars
<1>10. ASSUME WriteBigFaults(t) PROVE Typed
  BY <1>0, <1>a, <1>b, <1>c, <1>d, <1>e, <1>10 DEF WriteBigFaults, qVars
<1>11. ASSUME CloseEnd(t) PROVE Typed
  BY <1>0, <1>a, <1>b, <1>c, <1>d, <1>e, <1>11 DEF CloseEnd, MSGQClose, qVars
<1>12. ASSUME CloseReader(t) PROVE Typed
  BY <1>0, <1>a, <1>b, <1>c, <1>d, <1>e, <1>12 DEF CloseReader, MSGQClose, qVars
<1>13. ASSUME NEW e \in End, CreateNamed(t, e) PROVE Typed
  BY <1>0, <1>a, <1>b, <1>c, <1>d, <1>e, <1>13 DEF CreateNamed, LinkQToPHD, history, qVars
<1>14. ASSUME NEW e \in End, OpenExCreate(t, e) PROVE Typed
  BY <1>0, <1>a, <1>b, <1>c, <1>d, <1>e, <1>14 DEF OpenExCreate, LinkQToPHD, history, qVars
<1>15. ASSUME
          \/ ReadFails(t) \/ ReadWait(t) \/ Wait(t) \/ WriteFails(t) \/ WriteWait(t)
          \/ Signal(t) \/ UnlockReader(t) \/ OpenExFails(t) \/ DropHandle(t)
          \/ PreClose(t) \/ Done(t) \/ WaitEnds(t)
          \/ \E e \in End :
              \/ OpenExDup(t, e) \/ Read(t, e) \/ Write(t, e) \/ Close(t, e)
              \/ OpenNamed(t, e) \/ OpenEx(t, e)
      PROVE Typed
  BY <1>15
     DEF ReadFails, ReadWait, Wait, WriteFails, WriteWait, Signal, UnlockReader,
         OpenExDup, OpenExFails, DropHandle, PreClose, Done, WaitEnds, Read, Write,
         Close, OpenNamed, OpenEx, Enter, qVars, history, TypeOK
<1> QED
  BY <1>1, <1>2, <1>3, <1>4, <1>5, <1>6, <1>7, <1>8, <1>9, <1>10, <1>11, <1>12, <1>13, <1>14, <1>15 DEF Acts, Step

\* of the ends, their locks aside,
LEMMA EndTypes ==
    ASSUME TypeOK, EndsOK, CountsOK, NEW t \in Thread, CallOK(t), Acts(t)
    PROVE  /\ link' \in [reader : ReaderEnd \cup {None}, writer : WriterEnd \cup {None}]
           /\ life' \in [End -> {"fresh", "live", "gone"}] /\ event' \in [End -> BOOLEAN]
           /\ handles' \in [End -> Nat] /\ (\A o \in End : handles'[o] <= MaxHandles[o])
<1> DEFINE Typed ==
        /\ link' \in [reader : ReaderEnd \cup {None}, writer : WriterEnd \cup {None}]
        /\ life' \in [End -> {"fresh", "live", "gone"}] /\ event' \in [End -> BOOLEAN]
        /\ handles' \in [End -> Nat] /\ (\A o \in End : handles'[o] <= MaxHandles[o])
<1>0. /\ link \in [reader : ReaderEnd \cup {None}, writer : WriterEnd \cup {None}]
      /\ life \in [End -> {"fresh", "live", "gone"}] /\ event \in [End -> BOOLEAN]
      /\ handles \in [End -> Nat] /\ (\A o \in End : handles[o] <= MaxHandles[o])
      /\ own[t] \in End \cup {None} /\ target[t] \in End \cup {None}
      /\ MaxHandles \in [End -> Nat \ {0}] /\ End = ReaderEnd \cup WriterEnd
  BY MsgQueueAssumption DEF TypeOK, End
<1>a. \A ev \in [End -> BOOLEAN] : \A e : Reset(ev, e) \in [End -> BOOLEAN] /\ Set(ev, e) \in [End -> BOOLEAN]
  BY EventMoves
<1>b. pc[t] # "idle" => own[t] \in End
  BY <1>0 DEF CallOK
<1>c. pc[t] = "dropH" => handles[own[t]] \in Nat \ {0}
  BY <1>b, HandleToDrop
<1>d. ASSUME NEW e \in End, LinkQToPHD(e) PROVE Typed
  <2>1. link' \in [reader : ReaderEnd \cup {None}, writer : WriterEnd \cup {None}]
    BY <1>0, <1>d DEF LinkQToPHD, Side
  <2>2. event' \in [End -> BOOLEAN]
    BY <1>0, <1>d DEF LinkQToPHD, IsQueueEmpty
  <2>3. handles' \in [End -> Nat] /\ \A o \in End : handles'[o] <= MaxHandles[o]
    BY <1>0, <1>d DEF LinkQToPHD
  <2>4. life' \in [End -> {"fresh", "live", "gone"}]
    BY <1>0, <1>d DEF LinkQToPHD
  <2> QED
    BY <2>1, <2>2, <2>3, <2>4
<1>1. ASSUME ReadAlert(t) PROVE Typed
  BY <1>0, <1>a, <1>b, <1>c, <1>1 DEF ReadAlert, AfterRead, qVars
<1>2. ASSUME ReadSmall(t) PROVE Typed
  BY <1>0, <1>a, <1>b, <1>c, <1>2 DEF ReadSmall, AfterRead, qVars
<1>3. ASSUME ReadBigDone(t) PROVE Typed
  BY <1>0, <1>a, <1>b, <1>c, <1>3 DEF ReadBigDone, AfterRead, qVars
<1>4. ASSUME ReadWait(t) PROVE Typed
  BY <1>0, <1>a, <1>b, <1>c, <1>4 DEF ReadWait, qVars
<1>5. ASSUME WriteWait(t) PROVE Typed
  BY <1>0, <1>a, <1>b, <1>c, <1>5 DEF WriteWait, qVars
<1>6. ASSUME Signal(t) PROVE Typed
  BY <1>0, <1>a, <1>b, <1>c, <1>6 DEF Signal, qVars
<1>7. ASSUME PreClose(t) PROVE Typed
  BY <1>0, <1>a, <1>b, <1>c, <1>7 DEF PreClose, qVars
<1>8. ASSUME WriteAlert(t) PROVE Typed
  BY <1>0, <1>a, <1>b, <1>c, <1>8 DEF WriteAlert, ResetIfFull, qVars
<1>9. ASSUME WriteSmall(t) PROVE Typed
  BY <1>0, <1>a, <1>b, <1>c, <1>9 DEF WriteSmall, ResetIfFull, qVars
<1>10. ASSUME WriteBigDone(t) PROVE Typed
  BY <1>0, <1>a, <1>b, <1>c, <1>10 DEF WriteBigDone, ResetIfFull, qVars
<1>11. ASSUME NEW e \in End, OpenExDup(t, e) PROVE Typed
  BY <1>0, <1>a, <1>b, <1>c, <1>11 DEF OpenExDup, Other, Side, qVars
<1>12. ASSUME NEW e \in End, OpenNamed(t, e) PROVE Typed
  BY <1>0, <1>a, <1>b, <1>c, <1>12 DEF OpenNamed, qVars
<1>13. ASSUME DropHandle(t) PROVE Typed
  BY <1>0, <1>a, <1>b, <1>c, <1>13 DEF DropHandle, qVars
<1>14. ASSUME NEW e \in End, CreateNamed(t, e) PROVE Typed
  BY <1>d, <1>14 DEF CreateNamed
<1>15. ASSUME NEW e \in End, OpenExCreate(t, e) PROVE Typed
  BY <1>d, <1>15 DEF OpenExCreate
<1>16. ASSUME CloseEnd(t) PROVE Typed
  BY <1>0, <1>a, <1>b, <1>c, <1>16 DEF CloseEnd, MSGQClose, Side, qVars
<1>17. ASSUME CloseReader(t) PROVE Typed
  BY <1>0, <1>a, <1>b, <1>c, <1>17 DEF CloseReader, MSGQClose, Side, CallOK, qVars
<1>18. ASSUME
          \/ ReadFails(t) \/ ReadBig(t) \/ Wait(t) \/ WriteFails(t) \/ WriteBig(t)
          \/ UnlockReader(t) \/ OpenExFails(t) \/ Done(t) \/ WaitEnds(t) \/ WriteFaults(t)
          \/ WriteBigFaults(t)
          \/ \E e \in End : Read(t, e) \/ Write(t, e) \/ Close(t, e) \/ OpenEx(t, e)
      PROVE Typed
  BY <1>18
     DEF ReadFails, ReadBig, Wait, WriteFails, WriteBig, UnlockReader, OpenExFails,
         Done, WaitEnds, WriteFaults, WriteBigFaults, Read, Write, Close, OpenEx, Enter,
         qVars, endVars, TypeOK
<1> QED
  BY <1>1, <1>2, <1>3, <1>4, <1>5, <1>6, <1>7, <1>8, <1>9, <1>10, <1>11, <1>12, <1>13, <1>14, <1>15, <1>16, <1>17, <1>18 DEF Acts, Step

\* and of the calls and of what is kept about the past.
LEMMA CallTypes ==
    ASSUME TypeOK, Places, NEW t \in Thread, CallOK(t), Acts(t)
    PROVE  /\ pc' \in [Thread -> Labels]
           /\ own' \in [Thread -> End \cup {None}] /\ target' \in [Thread -> End \cup {None}]
           /\ node' \in [Thread -> Message \cup {None}]
           /\ taken' \subseteq 1..writes'
           /\ unsignalled' \in BOOLEAN /\ crossed' \in BOOLEAN /\ undefined' \in BOOLEAN
<1> DEFINE Typed ==
        /\ pc' \in [Thread -> Labels]
        /\ own' \in [Thread -> End \cup {None}] /\ target' \in [Thread -> End \cup {None}]
        /\ node' \in [Thread -> Message \cup {None}]
        /\ taken' \subseteq 1..writes'
        /\ unsignalled' \in BOOLEAN /\ crossed' \in BOOLEAN /\ undefined' \in BOOLEAN
<1>0. \A label \in Labels : \A es : GoWaking(t, label, es) => pc' \in [Thread -> Labels]
  BY Goes
<1>a. \A label \in Labels : Go(t, label) => pc' \in [Thread -> Labels]
  BY <1>0 DEF Go
<1>b. /\ pc \in [Thread -> Labels]
      /\ own \in [Thread -> End \cup {None}] /\ target \in [Thread -> End \cup {None}]
      /\ node \in [Thread -> Message \cup {None}] /\ taken \subseteq 1..writes
      /\ unsignalled \in BOOLEAN /\ crossed \in BOOLEAN /\ undefined \in BOOLEAN
      /\ writes \in Nat /\ link.reader \in End \cup {None} /\ link.writer \in End \cup {None}
  BY MsgQueueAssumption DEF TypeOK, End
<1>c. /\ pAlert # None => pAlert.id \in 1..writes
      /\ node[t] # None => node[t].id \in 1..writes /\ node[t] \in Message
      /\ queue # <<>> => Head(queue).id \in 1..writes
      /\ {n.id : n \in Messages} \subseteq 1..writes
  BY GivenOut
<1>d. pc[t] \in {"rcopy", "wcopy"} => node[t] # None
  BY DEF CallOK
<1>e. 1..writes \subseteq 1..writes + 1
  BY <1>b
<1>f. queue # <<>> => Head(queue) \in Message
  BY QueueMoves DEF TypeOK
<1>g. writes < MaxWrites => \A b \in BOOLEAN : [id |-> writes + 1, big |-> b] \in Message
  BY <1>b, MsgQueueAssumption DEF Message
<1>1. ASSUME ReadAlert(t) PROVE Typed
  BY <1>0, <1>a, <1>b, <1>c, <1>d, <1>e, <1>f, <1>g, <1>1 DEF ReadAlert, AfterRead, history, Labels
<1>2. ASSUME ReadSmall(t) PROVE Typed
  BY <1>0, <1>a, <1>b, <1>c, <1>d, <1>e, <1>f, <1>g, <1>2 DEF ReadSmall, AfterRead, history, Labels
<1>3. ASSUME ReadBigDone(t) PROVE Typed
  BY <1>0, <1>a, <1>b, <1>c, <1>d, <1>e, <1>f, <1>g, <1>3 DEF ReadBigDone, AfterRead, history, Labels
<1>4. ASSUME ReadBig(t) PROVE Typed
  BY <1>0, <1>a, <1>b, <1>c, <1>d, <1>e, <1>f, <1>g, <1>4 DEF ReadBig, history, Labels
<1>5. ASSUME ReadWait(t) PROVE Typed
  BY <1>0, <1>a, <1>b, <1>c, <1>d, <1>e, <1>f, <1>g, <1>5 DEF ReadWait, history, Labels
<1>6. ASSUME WriteWait(t) PROVE Typed
  BY <1>0, <1>a, <1>b, <1>c, <1>d, <1>e, <1>f, <1>g, <1>6 DEF WriteWait, history, Labels
<1>7. ASSUME WriteAlert(t) PROVE Typed
  BY <1>0, <1>a, <1>b, <1>c, <1>d, <1>e, <1>f, <1>g, <1>7 DEF WriteAlert, LockReader, ResetIfFull, history, Labels
<1>8. ASSUME WriteSmall(t) PROVE Typed
  BY <1>0, <1>a, <1>b, <1>c, <1>d, <1>e, <1>f, <1>g, <1>8 DEF WriteSmall, LockReader, ResetIfFull, history, Labels
<1>9. ASSUME WriteBigDone(t) PROVE Typed
  BY <1>0, <1>a, <1>b, <1>c, <1>d, <1>e, <1>f, <1>g, <1>9 DEF WriteBigDone, LockReader, ResetIfFull, history, Labels
<1>10. ASSUME WriteBig(t) PROVE Typed
  BY <1>0, <1>a, <1>b, <1>c, <1>d, <1>e, <1>f, <1>g, <1>10 DEF WriteBig, history, Labels
<1>11. ASSUME WriteBigFaults(t) PROVE Typed
  BY <1>0, <1>a, <1>b, <1>c, <1>d, <1>e, <1>f, <1>g, <1>11 DEF WriteBigFaults, history, Labels
<1>12. ASSUME NEW e \in End, OpenExDup(t, e) PROVE Typed
  BY <1>0, <1>a, <1>b, <1>c, <1>d, <1>e, <1>f, <1>g, <1>12 DEF OpenExDup, history, Labels
<1>13. ASSUME Done(t) PROVE Typed
  BY <1>0, <1>a, <1>b, <1>c, <1>d, <1>e, <1>f, <1>g, <1>13 DEF Done, history, Labels
<1>14. ASSUME CloseEnd(t) PROVE Typed
  BY <1>0, <1>a, <1>b, <1>c, <1>d, <1>e, <1>f, <1>g, <1>14 DEF CloseEnd, MSGQClose, history, Labels
<1>15. ASSUME CloseReader(t) PROVE Typed
  BY <1>0, <1>a, <1>b, <1>c, <1>d, <1>e, <1>f, <1>g, <1>15 DEF CloseReader, MSGQClose, history, Labels
<1>16. ASSUME NEW e \in End, Read(t, e) PROVE Typed
  BY <1>0, <1>a, <1>b, <1>c, <1>d, <1>e, <1>f, <1>g, <1>16 DEF Read, Enter, history, Labels
<1>17. ASSUME NEW e \in End, Write(t, e) PROVE Typed
  BY <1>0, <1>a, <1>b, <1>c, <1>d, <1>e, <1>f, <1>g, <1>17 DEF Write, Enter, history, Labels
<1>18. ASSUME NEW e \in End, Close(t, e) PROVE Typed
  BY <1>0, <1>a, <1>b, <1>c, <1>d, <1>e, <1>f, <1>g, <1>18 DEF Close, Enter, history, Labels
<1>19. ASSUME NEW e \in End, OpenEx(t, e) PROVE Typed
  BY <1>0, <1>a, <1>b, <1>c, <1>d, <1>e, <1>f, <1>g, <1>19 DEF OpenEx, Enter, history, Labels
<1>20. ASSUME
          \/ ReadFails(t) \/ Wait(t) \/ WriteFails(t) \/ Signal(t) \/ UnlockReader(t)
          \/ OpenExFails(t) \/ DropHandle(t) \/ PreClose(t) \/ WaitEnds(t) \/ WriteFaults(t)
          \/ \E e \in End : OpenExCreate(t, e) \/ OpenNamed(t, e) \/ CreateNamed(t, e)
      PROVE Typed
  BY <1>0, <1>a, <1>b, <1>20
     DEF ReadFails, Wait, WriteFails, Signal, UnlockReader, OpenExFails, DropHandle,
         PreClose, WaitEnds, WriteFaults, OpenExCreate, OpenNamed, CreateNamed, history,
         Labels, Awake
<1> QED
  BY <1>1, <1>2, <1>3, <1>4, <1>5, <1>6, <1>7, <1>8, <1>9, <1>10, <1>11, <1>12, <1>13, <1>14, <1>15, <1>16, <1>17, <1>18, <1>19, <1>20 DEF Acts, Step

\* Every step keeps the types.
LEMMA TypeStep ==
    ASSUME TypeOK, CallsOK, EndsOK, CountsOK, Places, NEW t \in Thread, Acts(t)
    PROVE  TypeOK'
<1>1. CallOK(t)
  BY DEF CallsOK
<1>2. CountsOK' /\ locks' \in [End -> Int]
  BY CountsStep
<1>3. locks' \in [End -> 0..2 * Cardinality(Thread)]
  <2>1. (CountsOK /\ locks \in [End -> Int] => locks \in [End -> 0..2 * Cardinality(Thread)])'
    BY LocksBound, PTL
  <2> QED
    BY <1>2, <2>1
<1> QED
  BY <1>1, <1>3, QueueTypes, EndTypes, CallTypes DEF TypeOK

-----------------------------------------------------------------------------
(* An end is closed by one call, and no other is about it *)

\* The call that closes an end finds no handle and no lock of it, and no other call
\* that is about it.
LEMMA NobodyElse ==
    ASSUME TypeOK, CallsOK, CountsOK, OneCloser, ~undefined,
           NEW t \in Thread, NEW e \in End, Closes(t, e)
    PROVE  /\ handles[e] = 0 /\ locks[e] = 0 /\ life[e] = "live"
           /\ \A u \in Thread : /\ own[u] = e => u = t /\ pc[t] = "close"
                                /\ pc[u] \in {"signal", "unsignal"} => target[u] # e
                                /\ pc[u] = "closeReader" /\ target[u] = e => u = t
<1>1. /\ handles[e] = 0 /\ locks[e] = 0 /\ life[e] = "live"
      /\ \A u \in Thread : Closes(u, e) => u = t
  BY DEF OneCloser
<1>2. /\ locks[e] = Cardinality(Holders(e)) + Cardinality(Signallers(e))
      /\ Cardinality(Holders(e)) \in Nat /\ Cardinality(Signallers(e)) \in Nat
  BY FiniteCalls, FS_CardinalityType DEF CountsOK
<1>3. \A u : u \notin Holders(e) /\ u \notin Signallers(e)
  BY <1>1, <1>2, CountPositive
<1>4. ASSUME NEW u \in Thread, own[u] = e PROVE u = t /\ pc[t] = "close"
  <2>1. pc[u] = "close"
    BY <1>3, <1>4 DEF Holders
  <2>2. Closes(u, e)
    BY <1>4, <2>1 DEF Closes
  <2> QED
    BY <1>1, <2>1, <2>2
<1>5. \A u \in Thread : pc[u] \in {"signal", "unsignal"} => target[u] # e
  BY <1>3 DEF Signallers
<1> QED
  BY <1>1, <1>4, <1>5 DEF Closes

\* An end that is still alive, or that nobody but t was about, is so for the others.
LEMMA OthersKept ==
    ASSUME TypeOK, CallsOK, CountsOK, OneCloser, ~undefined, NEW t \in Thread, OnlyCall(t),
           flags' = flags,
           \A e \in End : \/ life'[e] = life[e]
                          \/ life[e] = "fresh" /\ life'[e] = "live"
                          \/ Closes(t, e) /\ life'[e] = "gone"
    PROVE  \A u \in Thread : u # t => CallOK(u)'
<1> SUFFICES ASSUME NEW u \in Thread, u # t PROVE CallOK(u)'
  OBVIOUS
<1>1. /\ CallOK(u) /\ own'[u] = own[u] /\ target'[u] = target[u] /\ node'[u] = node[u] /\ Moved(u)
      /\ own[u] \in End \cup {None} /\ target[u] \in End \cup {None}
  BY DEF CallsOK, OnlyCall, TypeOK
<1>2. /\ own[u] # None => life'[own[u]] = "live"
      /\ pc[u] \in {"signal", "unsignal", "closeReader"} => life'[target[u]] = "live"
  BY <1>1, NobodyElse DEF CallOK
<1>3. target[u] # None => life'[target[u]] # "fresh"
  BY <1>1 DEF CallOK
<1> QED
  BY <1>1, <1>2, <1>3 DEF CallOK, Moved

\* Every step keeps the calls of all threads as they may be.
LEMMA CallsStep ==
    ASSUME TypeOK, CallsOK, EndsOK, CountsOK, OneCloser, ~undefined, NEW t \in Thread, Acts(t)
    PROVE  CallsOK'
<1>0. \A label \in Labels : \A es : GoWaking(t, label, es) => pc'[t] = label
  BY Goes
<1>a. \A label \in Labels : Go(t, label) => pc'[t] = label
  BY <1>0 DEF Go
<1>b. /\ own \in [Thread -> End \cup {None}] /\ target \in [Thread -> End \cup {None}]
      /\ node \in [Thread -> Message \cup {None}] /\ pc \in [Thread -> Labels]
      /\ link.reader \in ReaderEnd \cup {None} /\ link.writer \in WriterEnd \cup {None}
      /\ life \in [End -> {"fresh", "live", "gone"}] /\ locks \in [End -> Int]
      /\ None \notin End /\ None \notin Message /\ End = ReaderEnd \cup WriterEnd
  BY SMTT(30), MsgQueueAssumption DEF TypeOK, End, Message
<1>c. CallOK(t) /\ OnlyCall(t)
  BY ActsOnCall DEF CallsOK
<1>d. /\ \A e \in End : handles[e] > 0 => life[e] = "live"
      /\ link.reader # None => life[link.reader] = "live"
      /\ link.writer # None => life[link.writer] = "live"
  BY DEF EndsOK
<1>e. \A e \in End : Open(e) => handles[e] > 0
  <2>1. \A e \in End : Open(e) => handles[e] > Cardinality(Droppers(e)) /\ handles[e] \in Nat
    BY DEF Open, Droppers, TypeOK
  <2> QED
    BY <2>1, FiniteCalls, FS_CardinalityType
<1>f. queue # <<>> => Head(queue) \in Message
  BY QueueMoves DEF TypeOK
<1>g. writes < MaxWrites => \A b \in BOOLEAN : [id |-> writes + 1, big |-> b] \in Message
  BY MsgQueueAssumption DEF TypeOK, Message
<1>h. \A e \in End : Closes(t, e) /\ own[t] = e => pc[t] = "close"
  BY NobodyElse
<1> DEFINE Lives == \A e \in End : \/ life'[e] = life[e]
                                   \/ life[e] = "fresh" /\ life'[e] = "live"
                                   \/ Closes(t, e) /\ life'[e] = "gone"
           Right == CallOK(t)' /\ flags' = flags /\ Lives
<1>1. ASSUME ReadAlert(t) PROVE Right
  BY <1>0, <1>a, <1>b, <1>c, <1>d, <1>e, <1>f, <1>g, <1>h, <1>1 DEF ReadAlert, CallOK, qVars, endVars, history, Labels
<1>2. ASSUME ReadSmall(t) PROVE Right
  BY <1>0, <1>a, <1>b, <1>c, <1>d, <1>e, <1>f, <1>g, <1>h, <1>2 DEF ReadSmall, CallOK, qVars, endVars, history, Labels
<1>3. ASSUME ReadBig(t) PROVE Right
  BY <1>0, <1>a, <1>b, <1>c, <1>d, <1>e, <1>f, <1>g, <1>h, <1>3 DEF ReadBig, CallOK, qVars, endVars, history, Labels
<1>4. ASSUME ReadBigDone(t) PROVE Right
  BY <1>0, <1>a, <1>b, <1>c, <1>d, <1>e, <1>f, <1>g, <1>h, <1>4 DEF ReadBigDone, CallOK, qVars, endVars, history, Labels
<1>5. ASSUME ReadWait(t) PROVE Right
  BY <1>0, <1>a, <1>b, <1>c, <1>d, <1>e, <1>f, <1>g, <1>h, <1>5 DEF ReadWait, Finished, HasHandles, CallOK, qVars, endVars, history, Labels
<1>6. ASSUME Wait(t) PROVE Right
  BY <1>0, <1>a, <1>b, <1>c, <1>d, <1>e, <1>f, <1>g, <1>h, <1>6 DEF Wait, Awake, CallOK, qVars, endVars, history, Labels
<1>7. ASSUME WriteWait(t) PROVE Right
  BY <1>0, <1>a, <1>b, <1>c, <1>d, <1>e, <1>f, <1>g, <1>h, <1>7 DEF WriteWait, Finished, HasHandles, CallOK, qVars, endVars, history, Labels
<1>8. ASSUME WriteAlert(t) PROVE Right
  BY <1>0, <1>a, <1>b, <1>c, <1>d, <1>e, <1>f, <1>g, <1>h, <1>8 DEF WriteAlert, LockReader, CallOK, qVars, endVars, history, Labels
<1>9. ASSUME WriteSmall(t) PROVE Right
  BY <1>0, <1>a, <1>b, <1>c, <1>d, <1>e, <1>f, <1>g, <1>h, <1>9 DEF WriteSmall, LockReader, CallOK, qVars, endVars, history, Labels
<1>10. ASSUME WriteBigDone(t) PROVE Right
  BY <1>0, <1>a, <1>b, <1>c, <1>d, <1>e, <1>f, <1>g, <1>h, <1>10 DEF WriteBigDone, LockReader, CallOK, qVars, endVars, history, Labels
<1>11. ASSUME WriteBig(t) PROVE Right
  BY <1>0, <1>a, <1>b, <1>c, <1>d, <1>e, <1>f, <1>g, <1>h, <1>11 DEF WriteBig, CallOK, qVars, endVars, history, Labels
<1>12. ASSUME WriteBigFaults(t) PROVE Right
  BY <1>0, <1>a, <1>b, <1>c, <1>d, <1>e, <1>f, <1>g, <1>h, <1>12 DEF WriteBigFaults, CallOK, qVars, endVars, history, Labels
<1>13. ASSUME Signal(t) PROVE Right
  BY <1>0, <1>a, <1>b, <1>c, <1>d, <1>e, <1>f, <1>g, <1>h, <1>13 DEF Signal, CallOK, qVars, endVars, history, Labels
<1>14. ASSUME UnlockReader(t) PROVE Right
  BY <1>0, <1>a, <1>b, <1>c, <1>d, <1>e, <1>f, <1>g, <1>h, <1>14 DEF UnlockReader, CallOK, qVars, endVars, history, Labels
<1>15. ASSUME NEW e \in End, OpenExDup(t, e) PROVE Right
  BY <1>0, <1>a, <1>b, <1>c, <1>d, <1>e, <1>f, <1>g, <1>h, <1>15 DEF OpenExDup, CallOK, qVars, endVars, history, Labels
<1>16. ASSUME NEW e \in End, CreateNamed(t, e) PROVE Right
  BY <1>0, <1>a, <1>b, <1>c, <1>d, <1>e, <1>f, <1>g, <1>h, <1>16 DEF CreateNamed, LinkQToPHD, CallOK, qVars, endVars, history, Labels
<1>17. ASSUME NEW e \in End, OpenExCreate(t, e) PROVE Right
  BY <1>0, <1>a, <1>b, <1>c, <1>d, <1>e, <1>f, <1>g, <1>h, <1>17 DEF OpenExCreate, LinkQToPHD, CallOK, qVars, endVars, history, Labels
<1>18. ASSUME NEW e \in End, OpenNamed(t, e) PROVE Right
  BY <1>0, <1>a, <1>b, <1>c, <1>d, <1>e, <1>f, <1>g, <1>h, <1>18 DEF OpenNamed, CallOK, qVars, endVars, history, Labels
<1>19. ASSUME DropHandle(t) PROVE Right
  BY <1>0, <1>a, <1>b, <1>c, <1>d, <1>e, <1>f, <1>g, <1>h, <1>19 DEF DropHandle, CallOK, qVars, endVars, history, Labels
<1>20. ASSUME PreClose(t) PROVE Right
  BY <1>0, <1>a, <1>b, <1>c, <1>d, <1>e, <1>f, <1>g, <1>h, <1>20 DEF PreClose, CallOK, qVars, endVars, history, Labels
<1>21. ASSUME Done(t) PROVE Right
  BY <1>0, <1>a, <1>b, <1>c, <1>d, <1>e, <1>f, <1>g, <1>h, <1>21 DEF Done, CallOK, qVars, endVars, history, Labels
<1>22. ASSUME CloseEnd(t) PROVE Right
  BY <1>0, <1>a, <1>b, <1>c, <1>d, <1>e, <1>f, <1>g, <1>h, <1>22 DEF CloseEnd, MSGQClose, Closes, CallOK, qVars, endVars, history, Labels
<1>23. ASSUME CloseReader(t) PROVE Right
  BY <1>0, <1>a, <1>b, <1>c, <1>d, <1>e, <1>f, <1>g, <1>h, <1>23 DEF CloseReader, MSGQClose, Closes, CallOK, qVars, endVars, history, Labels
<1>24. ASSUME NEW e \in End, Read(t, e) PROVE Right
  BY <1>0, <1>a, <1>b, <1>c, <1>d, <1>e, <1>f, <1>g, <1>h, <1>24 DEF Read, Enter, CallOK, qVars, endVars, history, Labels
<1>25. ASSUME NEW e \in End, Write(t, e) PROVE Right
  BY <1>0, <1>a, <1>b, <1>c, <1>d, <1>e, <1>f, <1>g, <1>h, <1>25 DEF Write, Enter, CallOK, qVars, endVars, history, Labels
<1>26. ASSUME NEW e \in End, Close(t, e) PROVE Right
  BY <1>0, <1>a, <1>b, <1>c, <1>d, <1>e, <1>f, <1>g, <1>h, <1>26 DEF Close, Enter, CallOK, qVars, endVars, history, Labels
<1>27. ASSUME NEW e \in End, OpenEx(t, e) PROVE Right
  BY <1>0, <1>a, <1>b, <1>c, <1>d, <1>e, <1>f, <1>g, <1>h, <1>27 DEF OpenEx, Enter, CallOK, qVars, endVars, history, Labels
<1>28. ASSUME
          \/ ReadFails(t) \/ WriteFails(t) \/ OpenExFails(t) \/ WaitEnds(t) \/ WriteFaults(t)
      PROVE Right
  BY <1>0, <1>a, <1>b, <1>c, <1>28
     DEF ReadFails, WriteFails, OpenExFails, WaitEnds, WriteFaults, CallOK, qVars,
         endVars, history, Labels
<1>r. Right
  BY <1>1, <1>2, <1>3, <1>4, <1>5, <1>6, <1>7, <1>8, <1>9, <1>10, <1>11, <1>12, <1>13, <1>14, <1>15, <1>16, <1>17, <1>18, <1>19, <1>20, <1>21, <1>22, <1>23, <1>24, <1>25, <1>26, <1>27, <1>28 DEF Acts, Step
<1> QED
  BY <1>c, <1>r, OthersKept DEF CallsOK

\* Every step keeps the ends as they may be.
LEMMA EndsStep ==
    ASSUME TypeOK, CallsOK, EndsOK, CountsOK, OneCloser, ~undefined, NEW t \in Thread, Acts(t)
    PROVE  EndsOK'
<1>b. /\ link \in [reader : ReaderEnd \cup {None}, writer : WriterEnd \cup {None}]
      /\ life \in [End -> {"fresh", "live", "gone"}] /\ handles \in [End -> Nat]
      /\ None \notin End /\ End = ReaderEnd \cup WriterEnd /\ ReaderEnd \cap WriterEnd = {}
  BY MsgQueueAssumption DEF TypeOK, End
<1>c. /\ CallOK(t)
      /\ \A e \in End : Side(e) \in {"reader", "writer"}
      /\ \A side \in {"reader", "writer"} : link[side] # None => link[side] \in End /\ Side(link[side]) = side
  BY <1>b DEF CallsOK, Side
<1>d. ASSUME NEW e \in End, LinkQToPHD(e), life[e] = "fresh", flags' = flags,
             flags.named => NamedEnd(Side(e)) = {}, ~flags.named => link[Side(e)] = None
      PROVE  EndsOK'
  <2>1. /\ life' = [life EXCEPT ![e] = "live"] /\ handles' = [handles EXCEPT ![e] = 1]
        /\ link' = [link EXCEPT ![Side(e)] = e]
    BY <1>d DEF LinkQToPHD
  <2>2. /\ link'[Side(e)] = e
        /\ \A side \in {"reader", "writer"} : side # Side(e) => link'[side] = link[side]
    BY <1>b, <1>c, <2>1
  <2>3. \A o \in End : o # e => life'[o] = life[o] /\ handles'[o] = handles[o]
    BY <1>b, <2>1
  <2>4. life'[e] = "live"
    BY <1>b, <2>1
  <2>5. \A o \in End : handles'[o] > 0 => life'[o] = "live"
    BY <2>3, <2>4 DEF EndsOK
  <2>6. \A side \in {"reader", "writer"} : link'[side] # None => life'[link'[side]] = "live"
    BY <1>c, <2>2, <2>3, <2>4 DEF EndsOK
  <2>7. ~flags.named => \A o \in End : life'[o] = "live" => link'[Side(o)] = o
    BY <1>b, <1>c, <1>d, <2>2, <2>3 DEF EndsOK
  <2>8. ASSUME NEW o \in End, handles'[o] > 0, link'[Side(o)] # o PROVE link'[Side(o)] = None
    <3>1. o # e /\ handles[o] > 0 /\ life[o] = "live"
      BY <2>2, <2>3, <2>8 DEF EndsOK
    <3>2. Side(o) # Side(e)
      BY <1>b, <1>c, <1>d, <3>1 DEF NamedEnd, EndsOK
    <3> QED
      BY <1>c, <2>2, <2>8, <3>1, <3>2 DEF EndsOK, Orphan
  <2> QED
    BY <1>d, <2>5, <2>6, <2>7, <2>8 DEF EndsOK, Orphan
<1>e. ASSUME NEW e \in End, MSGQClose(e), Closes(t, e) PROVE EndsOK'
  <2>1. /\ life' = [life EXCEPT ![e] = "gone"] /\ handles' = handles /\ flags' = flags
        /\ link' = [link EXCEPT ![Side(e)] = None]
    BY <1>e DEF MSGQClose
  <2>2. /\ link'[Side(e)] = None
        /\ \A side \in {"reader", "writer"} : side # Side(e) => link'[side] = link[side]
    BY <1>b, <1>c, <2>1
  <2>3. \A o \in End : o # e => life'[o] = life[o]
    BY <1>b, <2>1
  <2>4. handles[e] = 0 /\ life[e] = "live" /\ life'[e] = "gone"
    BY <1>b, <1>e, <2>1, NobodyElse
  <2>5. \A o \in End : handles'[o] > 0 => life'[o] = "live"
    BY <1>b, <2>1, <2>3, <2>4 DEF EndsOK
  <2>6. ASSUME NEW side \in {"reader", "writer"}, link'[side] # None PROVE life'[link'[side]] = "live"
    <3>1. side # Side(e) /\ link'[side] = link[side]
      BY <2>2, <2>6
    <3>2. link[side] # e /\ link[side] \in End
      BY <1>c, <2>6, <3>1
    <3> QED
      BY <2>3, <2>6, <3>1, <3>2 DEF EndsOK
  <2>7. ~flags.named => \A o \in End : life'[o] = "live" => link'[Side(o)] = o
    <3> SUFFICES ASSUME ~flags.named, NEW o \in End, life'[o] = "live" PROVE link'[Side(o)] = o
      OBVIOUS
    <3>1. o # e /\ link[Side(o)] = o /\ link[Side(e)] = e
      BY <2>3, <2>4 DEF EndsOK
    <3> QED
      BY <1>c, <2>2, <3>1
  <2>8. ASSUME NEW o \in End, handles'[o] > 0, link'[Side(o)] # o PROVE link'[Side(o)] = None
    BY <1>c, <2>1, <2>2, <2>8 DEF EndsOK, Orphan
  <2> QED
    BY <2>1, <2>5, <2>6, <2>7, <2>8 DEF EndsOK, Orphan
<1>f. own[t] # None => own[t] \in End
  BY DEF TypeOK
<1>g. target[t] # None => target[t] \in End
  BY DEF TypeOK
<1>1. ASSUME NEW e \in End, CreateNamed(t, e) PROVE EndsOK'
  BY <1>d, <1>1 DEF CreateNamed
<1>2. ASSUME NEW e \in End, OpenExCreate(t, e) PROVE EndsOK'
  BY <1>c, <1>d, <1>2 DEF OpenExCreate, CallOK
<1>3. ASSUME CloseEnd(t) PROVE EndsOK'
  BY <1>c, <1>e, <1>f, <1>3 DEF CloseEnd, CallOK, Closes
<1>4. ASSUME CloseReader(t) PROVE EndsOK'
  BY <1>c, <1>e, <1>g, <1>4 DEF CloseReader, CallOK, Closes
<1>5. ASSUME NEW e \in End, OpenNamed(t, e) PROVE EndsOK'
  BY <1>b, <1>c, <1>5 DEF OpenNamed, EndsOK, Orphan, NamedEnd, qVars
<1>6. ASSUME NEW e \in End, OpenExDup(t, e) PROVE EndsOK'
  <2>1. Side(e) \in {"reader", "writer"} /\ e # None
    BY MsgQueueAssumption DEF Side
  <2>2. link[Side(e)] = e /\ life[e] = "live"
    BY <1>6, <2>1 DEF OpenExDup, EndsOK
  <2>3. handles' = [handles EXCEPT ![e] = @ + 1] /\ UNCHANGED <<flags, life, link>>
    BY <1>6 DEF OpenExDup, qVars
  <2>4. \A o \in End : o # e => handles'[o] = handles[o]
    BY <1>b, <2>3
  <2> QED
    BY <2>2, <2>3, <2>4 DEF EndsOK, Orphan
<1>7. ASSUME DropHandle(t) PROVE EndsOK'
  <2>1. handles' = [handles EXCEPT ![own[t]] = @ - 1] /\ UNCHANGED <<flags, life, link>>
    BY <1>7 DEF DropHandle, qVars
  <2>2. \A o \in End : handles'[o] > 0 => handles[o] > 0
    BY <1>b, <2>1
  <2> QED
    BY <2>1, <2>2 DEF EndsOK, Orphan
<1>8. ASSUME
          \/ ReadFails(t) \/ ReadAlert(t) \/ ReadSmall(t) \/ ReadBig(t) \/ ReadBigDone(t)
          \/ ReadWait(t) \/ Wait(t) \/ WriteFails(t) \/ WriteAlert(t) \/ WriteSmall(t)
          \/ WriteBig(t) \/ WriteBigDone(t) \/ WriteWait(t) \/ Signal(t) \/ UnlockReader(t)
          \/ OpenExFails(t) \/ PreClose(t) \/ Done(t) \/ WaitEnds(t) \/ WriteFaults(t)
          \/ WriteBigFaults(t)
          \/ \E e \in End : Read(t, e) \/ Write(t, e) \/ Close(t, e) \/ OpenEx(t, e)
      PROVE EndsOK'
  BY <1>8
     DEF EndsOK, Orphan, ReadFails, ReadAlert, ReadSmall, ReadBig, ReadBigDone, ReadWait, Wait,
         WriteFails, WriteAlert, WriteSmall, WriteBig, WriteBigDone, WriteWait, Signal,
         UnlockReader, OpenExFails, PreClose, Done, WaitEnds, WriteFaults,
         WriteBigFaults, Read, Write, Close, OpenEx, Enter, qVars, endVars
<1> QED
  BY <1>1, <1>2, <1>3, <1>4, <1>5, <1>6, <1>7, <1>8 DEF Acts, Step

\* An end that nothing refers to stays so, or the step is undefined.
LEMMA CloserKept ==
    ASSUME TypeOK, OneCloser, ~undefined, NEW t \in Thread, OnlyCall(t),
           \A e \in End : handles[e] = 0 /\ locks[e] = 0 /\ life[e] = "live" =>
               \/ undefined'
               \/ handles'[e] = 0 /\ locks'[e] = 0 /\ (life'[e] = "live" \/ Closes(t, e)),
           \A e \in End : ~Closes(t, e)'
    PROVE  OneCloser'
<1> SUFFICES ASSUME ~undefined', NEW u \in Thread, NEW e \in End, Closes(u, e)'
             PROVE  /\ handles'[e] = 0 /\ locks'[e] = 0 /\ life'[e] = "live"
                    /\ \A v \in Thread : Closes(v, e)' => v = u
  BY DEF OneCloser
<1>1. \A v \in Thread : v # t => (Closes(v, e) <=> Closes(v, e)')
  BY DEF Closes, OnlyCall, Moved
<1>2. u # t /\ Closes(u, e)
  BY <1>1
<1>3. /\ handles[e] = 0 /\ locks[e] = 0 /\ life[e] = "live"
      /\ \A v \in Thread : Closes(v, e) => v = u
  BY <1>2 DEF OneCloser
<1> QED
  BY <1>1, <1>2, <1>3

\* So does one that t lets go of last, which t will close.
LEMMA CloserFound ==
    ASSUME TypeOK, OneCloser, ~undefined, NEW t \in Thread, OnlyCall(t), NEW r \in End,
           locks[r] > 0, locks' = [locks EXCEPT ![r] = @ - 1], UNCHANGED <<handles, life>>,
           life[r] = "live", \A e \in End : ~Closes(t, e),
           \A e \in End : Closes(t, e)' => e = r /\ handles[r] = 0 /\ locks[r] = 1
    PROVE  OneCloser'
<1> SUFFICES ASSUME ~undefined', NEW u \in Thread, NEW e \in End, Closes(u, e)'
             PROVE  /\ handles'[e] = 0 /\ locks'[e] = 0 /\ life'[e] = "live"
                    /\ \A v \in Thread : Closes(v, e)' => v = u
  BY DEF OneCloser
<1>1. \A v \in Thread : v # t => (Closes(v, e) <=> Closes(v, e)')
  BY DEF Closes, OnlyCall, Moved
<1>2. locks \in [End -> Int]
  BY DEF TypeOK
<1>3. CASE u = t
  <2>1. e = r /\ handles[r] = 0 /\ locks[r] = 1
    BY <1>3
  <2>2. \A v \in Thread : ~Closes(v, e)
    BY <2>1 DEF OneCloser
  <2> QED
    BY <1>1, <1>2, <1>3, <2>1, <2>2
<1>4. CASE u # t
  <2>1. /\ handles[e] = 0 /\ locks[e] = 0 /\ life[e] = "live"
        /\ \A v \in Thread : Closes(v, e) => v = u
    BY <1>1, <1>4 DEF OneCloser
  <2>2. e # r
    BY <2>1
  <2> QED
    BY <1>1, <1>2, <2>1, <2>2
<1> QED
  BY <1>3, <1>4

\* Every step leaves each end at most one to close it.
LEMMA OneCloserStep ==
    ASSUME TypeOK, CallsOK, EndsOK, CountsOK, OneCloser, ~undefined, NEW t \in Thread, Acts(t)
    PROVE  OneCloser'
<1>0. \A label \in Labels : \A es : GoWaking(t, label, es) => pc'[t] = label
  BY Goes
<1>a. \A label \in Labels : Go(t, label) => pc'[t] = label
  BY <1>0 DEF Go
<1>b. /\ own[t] \in End \cup {None} /\ target[t] \in End \cup {None} /\ pc[t] \in Labels
      /\ link.reader \in ReaderEnd \cup {None} /\ link.writer \in WriterEnd \cup {None}
      /\ life \in [End -> {"fresh", "live", "gone"}] /\ locks \in [End -> Int] /\ handles \in [End -> Nat]
      /\ None \notin End /\ End = ReaderEnd \cup WriterEnd
  BY SMTT(30), MsgQueueAssumption DEF TypeOK, End
<1>c. CallOK(t) /\ OnlyCall(t)
  BY ActsOnCall DEF CallsOK
<1>e. \A e \in End : Open(e) => handles[e] > 0
  <2>1. \A e \in End : Open(e) => handles[e] > Cardinality(Droppers(e)) /\ handles[e] \in Nat
    BY DEF Open, Droppers, TypeOK
  <2> QED
    BY <2>1, FiniteCalls, FS_CardinalityType
<1>f. pc[t] = "dropH" => handles[own[t]] \in Nat \ {0}
  BY <1>b, <1>c, HandleToDrop DEF CallOK
<1>g. \A e \in End : /\ own[t] = e /\ pc[t] # "close" => locks[e] > 0
                     /\ pc[t] \in {"signal", "unsignal"} /\ target[t] = e => locks[e] > 0
  <2> SUFFICES ASSUME NEW e \in End
               PROVE  /\ own[t] = e /\ pc[t] # "close" => locks[e] > 0
                      /\ pc[t] \in {"signal", "unsignal"} /\ target[t] = e => locks[e] > 0
    OBVIOUS
  <2>1. /\ own[t] = e /\ pc[t] # "close" => t \in Holders(e)
        /\ pc[t] \in {"signal", "unsignal"} /\ target[t] = e => t \in Signallers(e)
    BY DEF Holders, Signallers
  <2> QED
    BY <2>1, CountPositive, FiniteCalls, FS_CardinalityType DEF CountsOK
<1>1. ASSUME Done(t) PROVE OneCloser'
  <2>1. own[t] \in End /\ locks[own[t]] > 0 /\ life[own[t]] = "live"
    BY <1>1, <1>b, <1>c, <1>g DEF Done, CallOK
  <2>2. locks' = [locks EXCEPT ![own[t]] = @ - 1] /\ UNCHANGED <<handles, life>>
    BY <1>1 DEF Done
  <2>3. \A e \in End : ~Closes(t, e)
    BY <1>1 DEF Done, Closes
  <2>4. \A e \in End : Closes(t, e)' => e = own[t] /\ handles[own[t]] = 0 /\ locks[own[t]] = 1
    BY <1>1, <1>a DEF Done, Closes, Labels
  <2> QED
    BY <1>c, <2>1, <2>2, <2>3, <2>4, CloserFound
<1>2. ASSUME UnlockReader(t) PROVE OneCloser'
  <2>1. target[t] \in End /\ locks[target[t]] > 0 /\ life[target[t]] = "live"
    BY <1>2, <1>b, <1>c, <1>g DEF UnlockReader, CallOK
  <2>2. locks' = [locks EXCEPT ![target[t]] = @ - 1] /\ UNCHANGED <<handles, life, target>>
    BY <1>2 DEF UnlockReader
  <2>3. \A e \in End : ~Closes(t, e)
    BY <1>2 DEF UnlockReader, Closes
  <2>4. \A e \in End : Closes(t, e)' => e = target[t] /\ handles[target[t]] = 0 /\ locks[target[t]] = 1
    BY <1>2, <1>a, <2>2 DEF UnlockReader, Closes, Labels
  <2> QED
    BY <1>c, <2>1, <2>2, <2>3, <2>4, CloserFound
<1> DEFINE Right ==
        /\ \A e \in End : handles[e] = 0 /\ locks[e] = 0 /\ life[e] = "live" =>
               \/ undefined'
               \/ handles'[e] = 0 /\ locks'[e] = 0 /\ (life'[e] = "live" \/ Closes(t, e))
        /\ \A e \in End : ~Closes(t, e)'
<1>3. ASSUME WriteAlert(t) PROVE Right
  BY <1>0, <1>a, <1>b, <1>e, <1>f, <1>g, <1>3 DEF WriteAlert, LockReader, Closes, qVars, endVars, history, Labels
<1>4. ASSUME WriteSmall(t) PROVE Right
  BY <1>0, <1>a, <1>b, <1>e, <1>f, <1>g, <1>4 DEF WriteSmall, LockReader, Closes, qVars, endVars, history, Labels
<1>5. ASSUME WriteBigDone(t) PROVE Right
  BY <1>0, <1>a, <1>b, <1>e, <1>f, <1>g, <1>5 DEF WriteBigDone, LockReader, Closes, qVars, endVars, history, Labels
<1>6. ASSUME NEW e \in End, OpenExDup(t, e) PROVE Right
  BY <1>0, <1>a, <1>b, <1>e, <1>f, <1>g, <1>6 DEF OpenExDup, Side, Other, Closes, qVars, endVars, history, Labels
<1>7. ASSUME NEW e \in End, CreateNamed(t, e) PROVE Right
  BY <1>0, <1>a, <1>b, <1>e, <1>f, <1>g, <1>7 DEF CreateNamed, LinkQToPHD, Closes, qVars, endVars, history, Labels
<1>8. ASSUME NEW e \in End, OpenExCreate(t, e) PROVE Right
  BY <1>0, <1>a, <1>b, <1>e, <1>f, <1>g, <1>8 DEF OpenExCreate, LinkQToPHD, Closes, qVars, endVars, history, Labels
<1>9. ASSUME NEW e \in End, OpenNamed(t, e) PROVE Right
  BY <1>0, <1>a, <1>b, <1>e, <1>f, <1>g, <1>9 DEF OpenNamed, NamedEnd, Closes, qVars, endVars, history, Labels
<1>10. ASSUME DropHandle(t) PROVE Right
  BY <1>0, <1>a, <1>b, <1>c, <1>e, <1>f, <1>g, <1>10 DEF DropHandle, CallOK, Closes, qVars, endVars, history, Labels
<1>11. ASSUME Signal(t) PROVE Right
  BY <1>0, <1>a, <1>b, <1>e, <1>f, <1>g, <1>11 DEF Signal, Closes, qVars, endVars, history, Labels
<1>12. ASSUME PreClose(t) PROVE Right
  BY <1>0, <1>a, <1>b, <1>e, <1>f, <1>g, <1>c, <1>12 DEF PreClose, Closes, qVars, endVars, history, Labels
<1>13. ASSUME Wait(t) PROVE Right
  BY <1>0, <1>a, <1>b, <1>e, <1>f, <1>g, <1>13 DEF Wait, Awake, Closes, qVars, endVars, history, Labels
<1>14. ASSUME CloseEnd(t) PROVE Right
  BY <1>0, <1>a, <1>b, <1>c, <1>e, <1>f, <1>g, <1>14 DEF CloseEnd, MSGQClose, CallOK, Closes, qVars, endVars, history, Labels
<1>15. ASSUME CloseReader(t) PROVE Right
  BY <1>0, <1>a, <1>b, <1>c, <1>e, <1>f, <1>g, <1>15 DEF CloseReader, MSGQClose, CallOK, Closes, qVars, endVars, history, Labels
<1>16. ASSUME NEW e \in End, Read(t, e) PROVE Right
  BY <1>0, <1>a, <1>b, <1>e, <1>f, <1>g, <1>16 DEF Read, Enter, Closes, qVars, endVars, history, Labels
<1>17. ASSUME NEW e \in End, Write(t, e) PROVE Right
  BY <1>0, <1>a, <1>b, <1>e, <1>f, <1>g, <1>17 DEF Write, Enter, Closes, qVars, endVars, history, Labels
<1>18. ASSUME NEW e \in End, Close(t, e) PROVE Right
  BY <1>0, <1>a, <1>b, <1>e, <1>f, <1>g, <1>18 DEF Close, Enter, Closes, qVars, endVars, history, Labels
<1>19. ASSUME NEW e \in End, OpenEx(t, e) PROVE Right
  BY <1>0, <1>a, <1>b, <1>e, <1>f, <1>g, <1>19 DEF OpenEx, Enter, Closes, qVars, endVars, history, Labels
<1>20. ASSUME
          \/ ReadFails(t) \/ ReadAlert(t) \/ ReadSmall(t) \/ ReadBig(t) \/ ReadBigDone(t)
          \/ ReadWait(t) \/ WriteFails(t) \/ WriteBig(t) \/ WriteWait(t) \/ OpenExFails(t)
          \/ WaitEnds(t) \/ WriteFaults(t) \/ WriteBigFaults(t)
      PROVE Right
  BY <1>0, <1>a, <1>b, <1>20
     DEF ReadFails, ReadAlert, ReadSmall, ReadBig, ReadBigDone, ReadWait, WriteFails,
         WriteBig, WriteWait, OpenExFails, WaitEnds, WriteFaults, WriteBigFaults,
         Closes, qVars, endVars, history, Labels
<1>r. ASSUME ~Done(t), ~UnlockReader(t) PROVE Right
  BY <1>r, <1>3, <1>4, <1>5, <1>6, <1>7, <1>8, <1>9, <1>10, <1>11, <1>12, <1>13, <1>14, <1>15, <1>16, <1>17, <1>18, <1>19, <1>20 DEF Acts, Step
<1> QED
  BY <1>1, <1>2, <1>c, <1>r, CloserKept

-----------------------------------------------------------------------------
(* The nodes *)

\* What a step moves between the places that hold nodes.
Moves(t, queued, cur, free) ==
    LET copied == One(pc'[t] = "wcopy") - One(pc[t] = "wcopy")
        read == One(pc'[t] = "rcopy") - One(pc[t] = "rcopy") IN
    /\ invalid' = invalid /\ flags' = flags
    /\ Len(queue') = Len(queue) + queued
    /\ dwCurNumMsg' = dwCurNumMsg + cur
    /\ freeNodes' = freeNodes + free
    /\ cur = queued + copied
    /\ IF flags.nocommit
       THEN /\ freeNodes + free <= 1
            /\ \/ cur + free + read <= 0
               \/ pc'[t] # "rcopy" /\ dwCurNumMsg + cur + freeNodes + free <= MaxNumMsg
       ELSE cur + free + read = 0

\* The sums this is about.
LEMMA Sums ==
    ASSUME NEW len \in Int, NEW cur \in Int, NEW free \in Int, NEW W \in Int, NEW R \in Int,
           NEW W1 \in Int, NEW R1 \in Int, NEW a \in Int, NEW b \in Int, NEW limit \in Int,
           NEW bound \in Int, NEW q \in Int, NEW c \in Int, NEW f \in Int,
           W1 = W + a, R1 = R + b, cur = len + W, c = q + a
    PROVE  /\ cur + c = len + q + W1
           /\ cur + free + R <= limit + bound /\ c + f + b <= 0 =>
                 cur + c + (free + f) + R1 <= limit + bound
           /\ R1 <= bound /\ cur + c + free + f <= limit => cur + c + (free + f) + R1 <= limit + bound
           /\ cur + free + R = limit /\ c + f + b = 0 => cur + c + (free + f) + R1 = limit
<1> QED
  OBVIOUS

\* Moved from one place to another, none is lost.
LEMMA NodesByMove ==
    ASSUME TypeOK, NodesExact, NEW t \in Thread, OnlyCall(t),
           NEW queued \in Int, NEW cur \in Int, NEW free \in Int, Moves(t, queued, cur, free)
    PROVE  NodesExact'
<1> DEFINE W == Cardinality(Copying("wcopy"))
           R == Cardinality(Copying("rcopy"))
           W1 == Cardinality(Copying("wcopy")')
           R1 == Cardinality(Copying("rcopy")')
           N == Cardinality(Thread)
           a == One(pc'[t] = "wcopy") - One(pc[t] = "wcopy")
           b == One(pc'[t] = "rcopy") - One(pc[t] = "rcopy")
<1>1. /\ W1 = W + One(pc'[t] = "wcopy") - One(pc[t] = "wcopy")
      /\ R1 = R + One(pc'[t] = "rcopy") - One(pc[t] = "rcopy")
      /\ W \in Nat /\ R \in Nat
  BY CallStep
<1>2. N \in Nat /\ (pc'[t] # "rcopy" => R1 <= N - 1)
  <2>1. N \in Nat
    BY CountBound
  <2>2. (pc[t] # "rcopy" => Cardinality(Copying("rcopy")) <= Cardinality(Thread) - 1)'
    BY CountBound, PTL
  <2> QED
    BY <2>1, <2>2
<1>3. /\ freeNodes \in Int /\ dwCurNumMsg \in Int /\ Len(queue) \in Int /\ MaxNumMsg \in Int
      /\ a \in Int /\ b \in Int
  BY MsgQueueAssumption DEF TypeOK, One
<1>4. W1 = W + a /\ R1 = R + b /\ W1 \in Int /\ R1 \in Int
  BY <1>1, <1>3 DEF One
<1>5. /\ Len(queue') = Len(queue) + queued /\ dwCurNumMsg' = dwCurNumMsg + cur
      /\ freeNodes' = freeNodes + free /\ cur = queued + a /\ invalid' = invalid /\ flags' = flags
      /\ flags.nocommit => /\ freeNodes + free <= 1
                           /\ \/ cur + free + b <= 0
                              \/ pc'[t] # "rcopy" /\ dwCurNumMsg + cur + freeNodes + free <= MaxNumMsg
      /\ ~flags.nocommit => cur + free + b = 0
  BY DEF Moves
<1> SUFFICES ASSUME ~invalid
             PROVE  /\ dwCurNumMsg' = Len(queue') + W1
                    /\ flags.nocommit =>
                          freeNodes' <= 1 /\ dwCurNumMsg' + freeNodes' + R1 <= MaxNumMsg + N - 1
                    /\ ~flags.nocommit => dwCurNumMsg' + freeNodes' + R1 = MaxNumMsg
  BY <1>5 DEF NodesExact
<1>6. /\ dwCurNumMsg = Len(queue) + W
      /\ flags.nocommit => dwCurNumMsg + freeNodes + R <= MaxNumMsg + N - 1
      /\ ~flags.nocommit => dwCurNumMsg + freeNodes + R = MaxNumMsg
  BY DEF NodesExact
<1> HIDE DEF W, R, W1, R1, N, a, b
<1>7. N - 1 \in Int /\ MaxNumMsg + N - 1 = MaxNumMsg + (N - 1) /\ W \in Int /\ R \in Int
  BY <1>1, <1>2, <1>3
<1>8. /\ dwCurNumMsg + cur = Len(queue) + queued + W1
      /\ dwCurNumMsg + freeNodes + R <= MaxNumMsg + (N - 1) /\ cur + free + b <= 0 =>
            dwCurNumMsg + cur + (freeNodes + free) + R1 <= MaxNumMsg + (N - 1)
      /\ R1 <= N - 1 /\ dwCurNumMsg + cur + freeNodes + free <= MaxNumMsg =>
            dwCurNumMsg + cur + (freeNodes + free) + R1 <= MaxNumMsg + (N - 1)
      /\ dwCurNumMsg + freeNodes + R = MaxNumMsg /\ cur + free + b = 0 =>
            dwCurNumMsg + cur + (freeNodes + free) + R1 = MaxNumMsg
  BY SMTT(40), <1>3, <1>4, <1>5, <1>6, <1>7, Sums
<1> QED
  BY <1>2, <1>5, <1>6, <1>7, <1>8

\* Every step keeps the count of the nodes.
LEMMA NodesStep ==
    ASSUME TypeOK, CallsOK, NodesExact, NEW t \in Thread, Acts(t)
    PROVE  NodesExact'
<1>0. \A label \in Labels : \A es : GoWaking(t, label, es) => pc'[t] = label
  BY Goes
<1>a. \A label \in Labels : Go(t, label) => pc'[t] = label
  BY <1>0 DEF Go
<1>b. OnlyCall(t) /\ CallOK(t)
  BY ActsOnCall DEF CallsOK
<1>e. /\ freeNodes \in Nat /\ dwCurNumMsg \in Int /\ Len(queue) \in Nat /\ MaxNumMsg \in Nat \ {0}
      /\ invalid \in BOOLEAN /\ flags.nocommit \in BOOLEAN
  BY MsgQueueAssumption DEF TypeOK
<1>f. /\ pc[t] = "wcopy" => Len(Enqueue(queue, node[t])) = Len(queue) + 1
      /\ writes < MaxWrites => Len(Enqueue(queue, [id |-> writes + 1, big |-> FALSE])) = Len(queue) + 1
      /\ queue # <<>> => Len(Dequeue(queue)) = Len(queue) - 1
  <2>1. writes < MaxWrites => [id |-> writes + 1, big |-> FALSE] \in Message
    BY MsgQueueAssumption DEF TypeOK, Message
  <2>2. pc[t] = "wcopy" => node[t] \in Message
    BY <1>b DEF CallOK, TypeOK
  <2> QED
    BY <2>1, <2>2, QueueMoves DEF TypeOK
<1> SUFFICES ASSUME ~invalid' PROVE NodesExact'
  BY DEF NodesExact
<1>g. ~invalid /\ flags.nocommit => freeNodes <= 1
  BY DEF NodesExact
<1>1. ASSUME ReadSmall(t) PROVE NodesExact'
  <2>1. FreeNode(Head(queue)) - freeNodes \in Int
    BY <1>e, <1>1 DEF ReadSmall, FreeNode
  <2>2. Moves(t, -1, -1, FreeNode(Head(queue)) - freeNodes)
    BY <1>0, <1>a, <1>e, <1>f, <1>g, <1>1 DEF ReadSmall, FreeNode, Moves, One, qVars, Labels
  <2> QED
    BY <1>b, <2>1, <2>2, NodesByMove
<1>2. ASSUME ReadBig(t) PROVE NodesExact'
  <2>1. Moves(t, -1, -1, 0)
    BY <1>0, <1>a, <1>e, <1>f, <1>g, <1>2 DEF ReadBig, Moves, One, qVars, Labels
  <2> QED
    BY <1>b, <2>1, NodesByMove
<1>3. ASSUME ReadBigDone(t) PROVE NodesExact'
  <2>1. FreeNode(node[t]) - freeNodes \in Int
    BY <1>e, <1>3 DEF ReadBigDone, FreeNode
  <2>2. Moves(t, 0, 0, FreeNode(node[t]) - freeNodes)
    BY <1>0, <1>a, <1>e, <1>f, <1>g, <1>3 DEF ReadBigDone, FreeNode, Moves, One, qVars, Labels
  <2> QED
    BY <1>b, <2>1, <2>2, NodesByMove
<1>4. ASSUME WriteSmall(t) PROVE NodesExact'
  <2>1. NodeFromList - freeNodes \in Int
    BY <1>e, <1>4 DEF WriteSmall, NodeFromList, HasNode, LockReader
  <2>2. Moves(t, 1, 1, NodeFromList - freeNodes)
    BY <1>0, <1>a, <1>e, <1>f, <1>g, <1>4 DEF WriteSmall, NodeFromList, HasNode, LockReader, Moves, One, qVars, Labels
  <2> QED
    BY <1>b, <2>1, <2>2, NodesByMove
<1>5. ASSUME WriteBig(t) PROVE NodesExact'
  <2>1. NodeFromList - freeNodes \in Int
    BY <1>e, <1>5 DEF WriteBig, NodeFromList, HasNode
  <2>2. Moves(t, 0, 1, NodeFromList - freeNodes)
    BY <1>0, <1>a, <1>e, <1>f, <1>g, <1>5 DEF WriteBig, NodeFromList, HasNode, Moves, One, qVars, Labels
  <2> QED
    BY <1>b, <2>1, <2>2, NodesByMove
<1>6. ASSUME WriteBigDone(t) PROVE NodesExact'
  <2>1. Moves(t, 1, 0, 0)
    BY <1>0, <1>a, <1>e, <1>f, <1>g, <1>6 DEF WriteBigDone, LockReader, Moves, One, qVars, Labels
  <2> QED
    BY <1>b, <2>1, NodesByMove
<1>7. ASSUME WriteAlert(t) PROVE NodesExact'
  <2>1. Moves(t, 0, 0, 0)
    BY <1>0, <1>a, <1>e, <1>f, <1>g, <1>7 DEF WriteAlert, LockReader, Moves, One, qVars, Labels
  <2> QED
    BY <1>b, <2>1, NodesByMove
<1>8. ASSUME WriteFaults(t) PROVE NodesExact'
  <2>1. freeNodes' - freeNodes \in Int
    BY <1>e, <1>8 DEF WriteFaults, NodeFromList
  <2>2. Moves(t, 0, 0, freeNodes' - freeNodes)
    BY <1>0, <1>a, <1>e, <1>f, <1>g, <1>8 DEF WriteFaults, NodeFromList, Moves, One, qVars, Labels
  <2> QED
    BY <1>b, <2>1, <2>2, NodesByMove
<1>9. ASSUME WriteBigFaults(t) PROVE NodesExact'
  <2>1. freeNodes' - freeNodes \in Int
    BY <1>e, <1>9 DEF WriteBigFaults
  <2>2. Moves(t, 0, -1, freeNodes' - freeNodes)
    BY <1>0, <1>a, <1>e, <1>f, <1>g, <1>9 DEF WriteBigFaults, Moves, One, qVars, Labels
  <2> QED
    BY <1>b, <2>1, <2>2, NodesByMove
<1>10. ASSUME CloseEnd(t) PROVE NodesExact'
  <2>1. /\ UNCHANGED <<flags, invalid, queue, dwCurNumMsg, freeNodes>>
        /\ pc[t] \notin {"wcopy", "rcopy"} /\ pc'[t] \notin {"wcopy", "rcopy"}
    BY <1>0, <1>e, <1>10 DEF CloseEnd, MSGQClose, Labels
  <2>2. Moves(t, 0, 0, 0)
    BY <1>e, <1>g, <2>1 DEF Moves, One
  <2> QED
    BY <1>b, <2>2, NodesByMove
<1>11. ASSUME CloseReader(t) PROVE NodesExact'
  <2>1. /\ UNCHANGED <<flags, invalid, queue, dwCurNumMsg, freeNodes>>
        /\ pc[t] \notin {"wcopy", "rcopy"} /\ pc'[t] \notin {"wcopy", "rcopy"}
    BY <1>0, <1>e, <1>11 DEF CloseReader, MSGQClose, Labels
  <2>2. Moves(t, 0, 0, 0)
    BY <1>e, <1>g, <2>1 DEF Moves, One
  <2> QED
    BY <1>b, <2>2, NodesByMove
<1> DEFINE Quiet ==
        /\ UNCHANGED <<flags, invalid, queue, dwCurNumMsg, freeNodes>>
        /\ pc[t] \notin {"wcopy", "rcopy"} /\ pc'[t] \notin {"wcopy", "rcopy"}
<1>12. ASSUME
          \/ ReadFails(t) \/ ReadAlert(t) \/ ReadWait(t) \/ Wait(t) \/ WriteFails(t)
          \/ WriteWait(t) \/ Signal(t) \/ UnlockReader(t) \/ OpenExFails(t)
          \/ DropHandle(t) \/ PreClose(t) \/ Done(t) \/ WaitEnds(t)
          \/ \E e \in End :
              \/ OpenExDup(t, e) \/ OpenExCreate(t, e) \/ Read(t, e) \/ Write(t, e)
              \/ Close(t, e) \/ OpenNamed(t, e) \/ CreateNamed(t, e) \/ OpenEx(t, e)
      PROVE Quiet
  BY <1>0, <1>a, <1>12
     DEF Labels, ReadFails, ReadAlert, ReadWait, Wait, WriteFails, WriteWait, Signal,
         UnlockReader, OpenExDup, OpenExFails, DropHandle, PreClose, Done, WaitEnds,
         OpenExCreate, Read, Write, Close, OpenNamed, CreateNamed, OpenEx, Enter, Awake,
         qVars, LinkQToPHD
<1>13. ASSUME Quiet PROVE NodesExact'
  <2>1. Moves(t, 0, 0, 0)
    BY <1>e, <1>g, <1>13 DEF Moves, One
  <2> QED
    BY <1>b, <2>1, NodesByMove
<1> QED
  BY <1>1, <1>2, <1>3, <1>4, <1>5, <1>6, <1>7, <1>8, <1>9, <1>10, <1>11, <1>12, <1>13 DEF Acts, Step

-----------------------------------------------------------------------------
(* The messages *)

\* The head of the queue leaves it.
LEMMA QueueFront ==
    ASSUME queue \in Seq(Message), QueueApart, queue # <<>>, queue' = Dequeue(queue)
    PROVE  /\ QueueApart' /\ InQueue(Head(queue).id)
           /\ \A n : InQueue(n)' <=> InQueue(n) /\ n # Head(queue).id
<1>1. /\ Head(queue) = queue[1] /\ Len(queue) \in Nat \ {0} /\ DOMAIN queue' = 1..Len(queue) - 1
      /\ DOMAIN queue = 1..Len(queue) /\ \A i \in 1..Len(queue) - 1 : queue'[i] = queue[i + 1]
  BY QueueMoves
<1>2. /\ 1 \in DOMAIN queue
      /\ \A i \in DOMAIN queue' : i + 1 \in DOMAIN queue /\ i + 1 # 1 /\ queue'[i] = queue[i + 1]
      /\ \A i, j \in DOMAIN queue' : i + 1 = j + 1 => i = j
  BY <1>1
<1>3. ASSUME NEW i \in DOMAIN queue, i # 1 PROVE \E k \in DOMAIN queue' : queue'[k] = queue[i]
  <2>1. i - 1 \in DOMAIN queue' /\ i - 1 + 1 = i
    BY <1>1, <1>3
  <2> QED
    BY <1>1, <2>1
<1>4. QueueApart'
  BY <1>2 DEF QueueApart
<1>5. InQueue(Head(queue).id)
  BY <1>1, <1>2 DEF InQueue
<1>6. ASSUME NEW n PROVE InQueue(n)' <=> InQueue(n) /\ n # Head(queue).id
  <2>1. ASSUME InQueue(n)' PROVE InQueue(n) /\ n # Head(queue).id
    <3>1. PICK i \in DOMAIN queue' : queue'[i].id = n
      BY <2>1 DEF InQueue
    <3>2. i + 1 \in DOMAIN queue /\ i + 1 # 1 /\ queue[i + 1].id = n
      BY <1>2, <3>1
    <3> QED
      BY <1>1, <1>2, <3>2 DEF InQueue, QueueApart
  <2>2. ASSUME InQueue(n), n # Head(queue).id PROVE InQueue(n)'
    <3>1. PICK i \in DOMAIN queue : queue[i].id = n
      BY <2>2 DEF InQueue
    <3>2. i # 1
      BY <1>1, <2>2, <3>1
    <3> QED
      BY <1>3, <3>1, <3>2 DEF InQueue
  <2> QED
    BY <2>1, <2>2
<1> QED
  BY <1>4, <1>5, <1>6

\* A message that is not in it comes to its end.
LEMMA QueueBack ==
    ASSUME queue \in Seq(Message), QueueApart, NEW m \in Message, ~InQueue(m.id),
           queue' = Enqueue(queue, m)
    PROVE  QueueApart' /\ \A n : InQueue(n)' <=> InQueue(n) \/ n = m.id
<1> DEFINE last == Len(queue) + 1
<1>1. /\ DOMAIN queue' = 1..Len(queue) + 1 /\ queue'[last] = m
      /\ DOMAIN queue = 1..Len(queue) /\ Len(queue) \in Nat
      /\ \A i \in 1..Len(queue) : queue'[i] = queue[i]
  BY ZenonT(30), QueueMoves
<1>2. /\ last \in DOMAIN queue'
      /\ \A i \in DOMAIN queue' : i = last \/ i \in DOMAIN queue
      /\ \A i \in DOMAIN queue : i \in DOMAIN queue' /\ i # last /\ queue'[i] = queue[i]
  BY <1>1
<1> HIDE DEF last
<1>3. queue'[last] = m
  BY <1>1
<1>4. QueueApart'
  <2> SUFFICES ASSUME NEW i \in DOMAIN queue', NEW j \in DOMAIN queue', queue'[i].id = queue'[j].id
               PROVE  i = j
    BY DEF QueueApart
  <2>1. \A k \in DOMAIN queue : queue[k].id # m.id
    BY DEF InQueue
  <2> QED
    BY <1>2, <1>3, <2>1 DEF QueueApart
<1>5. ASSUME NEW n PROVE InQueue(n)' <=> InQueue(n) \/ n = m.id
  BY <1>2, <1>3 DEF InQueue
<1> QED
  BY <1>4, <1>5

\* A message that no thread has comes to one, and leaves it.
LEMMA NodeTaken ==
    ASSUME node \in [Thread -> Message \cup {None}], None \notin Message, NodesApart, NEW t \in Thread,
           NEW m \in Message, node[t] = None, ~InNode(m.id), node' = [node EXCEPT ![t] = m]
    PROVE  NodesApart' /\ \A n : InNode(n)' <=> InNode(n) \/ n = m.id
<1>1. /\ node'[t] = m /\ m # None
      /\ \A u \in Thread : u # t => node'[u] = node[u]
  OBVIOUS
<1>2. \A u \in Thread : node[u] # None => node[u].id # m.id
  BY DEF InNode
<1>3. NodesApart'
  <2> SUFFICES ASSUME NEW u \in Thread, NEW v \in Thread,
                      node'[u] # None, node'[v] # None, node'[u].id = node'[v].id
               PROVE  u = v
    BY DEF NodesApart
  <2> QED
    BY <1>1, <1>2 DEF NodesApart
<1>4. ASSUME NEW n PROVE InNode(n)' <=> InNode(n) \/ n = m.id
  <2>1. ASSUME InNode(n)' PROVE InNode(n) \/ n = m.id
    BY <1>1, <2>1 DEF InNode
  <2>2. ASSUME InNode(n) \/ n = m.id PROVE InNode(n)'
    BY <1>1, <2>2 DEF InNode
  <2> QED
    BY <2>1, <2>2
<1> QED
  BY <1>3, <1>4

\* A call that gives its message up leaves the others theirs.
LEMMA NodeLeft ==
    ASSUME node \in [Thread -> Message \cup {None}], NodesApart, NEW t \in Thread,
           node[t] # None, node' = [node EXCEPT ![t] = None]
    PROVE  /\ NodesApart' /\ InNode(node[t].id)
           /\ \A n : InNode(n)' <=> InNode(n) /\ n # node[t].id
<1>1. /\ node'[t] = None
      /\ \A u \in Thread : u # t => node'[u] = node[u]
  OBVIOUS
<1>2. NodesApart'
  <2> SUFFICES ASSUME NEW u \in Thread, NEW v \in Thread,
                      node'[u] # None, node'[v] # None, node'[u].id = node'[v].id
               PROVE  u = v
    BY DEF NodesApart
  <2> QED
    BY <1>1 DEF NodesApart
<1>3. InNode(node[t].id)
  BY DEF InNode
<1>4. ASSUME NEW n PROVE InNode(n)' <=> InNode(n) /\ n # node[t].id
  <2>1. ASSUME InNode(n)' PROVE InNode(n) /\ n # node[t].id
    BY <1>1, <2>1 DEF InNode, NodesApart
  <2>2. ASSUME InNode(n), n # node[t].id PROVE InNode(n)'
    BY <1>1, <2>2 DEF InNode
  <2> QED
    BY <2>1, <2>2
<1> QED
  BY <1>2, <1>3, <1>4

\* What stays where it is.
LEMMA PlacesSame ==
    /\ UNCHANGED queue => (QueueApart <=> QueueApart') /\ \A n : InQueue(n)' <=> InQueue(n)
    /\ UNCHANGED pAlert => \A n : IsAlert(n)' <=> IsAlert(n)
    /\ UNCHANGED node => (NodesApart <=> NodesApart') /\ \A n : InNode(n)' <=> InNode(n)
<1> QED
  BY DEF QueueApart, InQueue, IsAlert, NodesApart, InNode

\* Every step keeps each message in one place.
LEMMA PlacesStep ==
    ASSUME TypeOK, CallsOK, Places, NEW t \in Thread, Acts(t)
    PROVE  Places'
<1>a. /\ queue \in Seq(Message) /\ pAlert \in Message \cup {None} /\ writes \in Nat
      /\ node \in [Thread -> Message \cup {None}]
      /\ None \notin Message
  BY MsgQueueAssumption DEF TypeOK, Message, Alert
<1>b. CallOK(t)
  BY DEF CallsOK
<1>c. writes < MaxWrites =>
         /\ \A b \in BOOLEAN : [id |-> writes + 1, big |-> b] \in Message
         /\ ~InQueue(writes + 1) /\ ~InNode(writes + 1) /\ ~IsAlert(writes + 1) /\ writes + 1 \notin taken
  <2>1. writes + 1 \notin 1..writes
    BY <1>a
  <2> QED
    BY <1>a, <2>1, MsgQueueAssumption DEF TypeOK, Message, Places, OnePlace
<1>d. QueueApart /\ NodesApart
  BY DEF Places
<1>e. queue # <<>> => Head(queue) \in Message /\ InQueue(Head(queue).id)
  <2>1. queue # <<>> => Head(queue) = queue[1] /\ 1 \in DOMAIN queue /\ queue[1] \in Message
    BY <1>a, QueueMoves
  <2> QED
    BY <2>1 DEF InQueue
<1>f. 1..writes + 1 = 1..writes \cup {writes + 1}
  BY <1>a
\* A message that is in a place comes to another.
<1>1. ASSUME UNCHANGED <<writes, taken, queue, pAlert, node>> PROVE Places'
  BY <1>1, PlacesSame DEF Places, OnePlace
<1>2. ASSUME pAlert # None, pAlert' = None, taken' = taken \cup {pAlert.id},
             UNCHANGED <<writes, queue, node>>
      PROVE  Places'
  <2>1. \A n : ~IsAlert(n)' /\ (IsAlert(n) <=> n = pAlert.id)
    BY <1>2 DEF IsAlert
  <2> QED
    BY <1>2, <2>1, PlacesSame DEF Places, OnePlace
<1>3. ASSUME queue # <<>>, queue' = Dequeue(queue), taken' = taken \cup {Head(queue).id},
             UNCHANGED <<writes, pAlert, node>>
      PROVE  Places'
  <2>1. /\ QueueApart' /\ InQueue(Head(queue).id)
        /\ \A n : InQueue(n)' <=> InQueue(n) /\ n # Head(queue).id
    BY <1>3, <1>a, <1>d, QueueFront
  <2> QED
    BY <1>3, <2>1, PlacesSame DEF Places, OnePlace
<1>4. ASSUME queue # <<>>, queue' = Dequeue(queue), node[t] = None,
             node' = [node EXCEPT ![t] = Head(queue)], UNCHANGED <<writes, pAlert, taken>>
      PROVE  Places'
  <2>1. /\ QueueApart' /\ InQueue(Head(queue).id)
        /\ \A n : InQueue(n)' <=> InQueue(n) /\ n # Head(queue).id
    BY <1>4, <1>a, <1>d, QueueFront
  <2>2. ~InNode(Head(queue).id)
    BY <2>1 DEF Places, OnePlace
  <2>3. NodesApart' /\ \A n : InNode(n)' <=> InNode(n) \/ n = Head(queue).id
    BY <1>4, <1>a, <1>d, <1>e, <2>2, NodeTaken
  <2> QED
    BY <1>4, <2>1, <2>3, PlacesSame DEF Places, OnePlace
<1>5. ASSUME node[t] # None, node' = [node EXCEPT ![t] = None], taken' = taken \cup {node[t].id},
             UNCHANGED <<writes, pAlert, queue>>
      PROVE  Places'
  <2>1. /\ NodesApart' /\ InNode(node[t].id)
        /\ \A n : InNode(n)' <=> InNode(n) /\ n # node[t].id
    BY <1>5, <1>a, <1>d, NodeLeft
  <2> QED
    BY <1>5, <2>1, PlacesSame DEF Places, OnePlace
<1>6. ASSUME node[t] # None, node' = [node EXCEPT ![t] = None], queue' = Enqueue(queue, node[t]),
             UNCHANGED <<writes, pAlert, taken>>
      PROVE  Places'
  <2>1. /\ NodesApart' /\ InNode(node[t].id)
        /\ \A n : InNode(n)' <=> InNode(n) /\ n # node[t].id
    BY <1>6, <1>a, <1>d, NodeLeft
  <2>2. ~InQueue(node[t].id) /\ node[t] \in Message
    BY <1>6, <1>a, <2>1 DEF Places, OnePlace
  <2>3. QueueApart' /\ \A n : InQueue(n)' <=> InQueue(n) \/ n = node[t].id
    BY <1>6, <1>a, <1>d, <2>2, QueueBack
  <2> QED
    BY <1>6, <2>1, <2>3, PlacesSame DEF Places, OnePlace
\* One that is written comes to a place.
<1>7. ASSUME pAlert = None, pAlert' = [id |-> writes + 1, big |-> FALSE], writes' = writes + 1,
             writes < MaxWrites, UNCHANGED <<taken, queue, node>>
      PROVE  Places'
  <2>1. \A n : ~IsAlert(n) /\ (IsAlert(n)' <=> n = writes + 1)
    BY <1>7, <1>a, <1>c DEF IsAlert
  <2> QED
    BY <1>7, <1>c, <1>f, <2>1, PlacesSame DEF Places, OnePlace
<1>8. ASSUME queue' = Enqueue(queue, [id |-> writes + 1, big |-> FALSE]), writes' = writes + 1,
             writes < MaxWrites, UNCHANGED <<taken, pAlert, node>>
      PROVE  Places'
  <2> DEFINE m == [id |-> writes + 1, big |-> FALSE]
  <2>1. m \in Message /\ m.id = writes + 1 /\ ~InQueue(m.id)
    BY <1>8, <1>c
  <2> HIDE DEF m
  <2>2. queue' = Enqueue(queue, m)
    BY <1>8 DEF m
  <2>3. QueueApart' /\ \A n : InQueue(n)' <=> InQueue(n) \/ n = writes + 1
    BY <1>a, <1>d, <2>1, <2>2, QueueBack
  <2> QED
    BY <1>8, <1>c, <1>f, <2>3, PlacesSame DEF Places, OnePlace
<1>9. ASSUME node[t] = None, node' = [node EXCEPT ![t] = [id |-> writes + 1, big |-> TRUE]],
             writes' = writes + 1, writes < MaxWrites, UNCHANGED <<taken, pAlert, queue>>
      PROVE  Places'
  <2> DEFINE m == [id |-> writes + 1, big |-> TRUE]
  <2>1. m \in Message /\ m.id = writes + 1 /\ ~InNode(m.id)
    BY <1>9, <1>c
  <2> HIDE DEF m
  <2>2. node' = [node EXCEPT ![t] = m]
    BY <1>9 DEF m
  <2>3. NodesApart' /\ \A n : InNode(n)' <=> InNode(n) \/ n = writes + 1
    BY <1>9, <1>a, <1>d, <2>1, <2>2, NodeTaken
  <2> QED
    BY <1>9, <1>c, <1>f, <2>3, PlacesSame DEF Places, OnePlace
\* Those that are thrown away with the queue are out of it.
<1>10. ASSUME queue' = <<>>, pAlert' = None, taken' = taken \cup {n.id : n \in Messages},
              UNCHANGED <<writes, node>>
       PROVE  Places'
  <2>1. \A n : ~InQueue(n)' /\ ~IsAlert(n)' /\ QueueApart'
    BY <1>10 DEF InQueue, IsAlert, QueueApart
  <2>2. \A n : n \in {k.id : k \in Messages} <=> InQueue(n) \/ IsAlert(n)
    BY <1>a DEF Messages, InQueue, IsAlert
  <2> QED
    BY <1>10, <2>1, <2>2, PlacesSame DEF Places, OnePlace
<1>11. ASSUME NEW e, MSGQClose(e) PROVE Places'
  BY <1>1, <1>10, <1>11 DEF MSGQClose
<1>12. ASSUME ReadAlert(t) PROVE Places'
  BY <1>b, <1>2, <1>12 DEF ReadAlert
<1>13. ASSUME ReadSmall(t) PROVE Places'
  BY <1>b, <1>3, <1>13 DEF ReadSmall
<1>14. ASSUME ReadBig(t) PROVE Places'
  BY <1>b, <1>4, <1>14 DEF ReadBig, CallOK, history
<1>15. ASSUME ReadBigDone(t) PROVE Places'
  BY <1>b, <1>5, <1>15 DEF ReadBigDone, CallOK
<1>16. ASSUME WriteAlert(t) PROVE Places'
  BY <1>b, <1>7, <1>16 DEF WriteAlert
<1>17. ASSUME WriteSmall(t) PROVE Places'
  BY <1>b, <1>8, <1>17 DEF WriteSmall
<1>18. ASSUME WriteBig(t) PROVE Places'
  BY <1>b, <1>9, <1>18 DEF WriteBig, CallOK
<1>19. ASSUME WriteBigDone(t) PROVE Places'
  BY <1>b, <1>6, <1>19 DEF WriteBigDone, CallOK
<1>20. ASSUME WriteBigFaults(t) PROVE Places'
  BY <1>b, <1>5, <1>20 DEF WriteBigFaults, CallOK
<1>21. ASSUME CloseEnd(t) PROVE Places'
  BY <1>b, <1>11, <1>21 DEF CloseEnd
<1>22. ASSUME CloseReader(t) PROVE Places'
  BY <1>b, <1>11, <1>22 DEF CloseReader
<1>23. ASSUME
          \/ ReadFails(t) \/ ReadWait(t) \/ Wait(t) \/ WriteFails(t) \/ WriteWait(t)
          \/ Signal(t) \/ UnlockReader(t) \/ OpenExFails(t) \/ DropHandle(t)
          \/ PreClose(t) \/ Done(t) \/ WaitEnds(t) \/ WriteFaults(t)
          \/ \E e \in End :
              \/ OpenExDup(t, e) \/ OpenExCreate(t, e) \/ Read(t, e) \/ Write(t, e)
              \/ Close(t, e) \/ OpenNamed(t, e) \/ CreateNamed(t, e) \/ OpenEx(t, e)
      PROVE Places'
  BY ZenonT(30), <1>1, <1>23
     DEF ReadFails, ReadWait, Wait, WriteFails, WriteWait, Signal, UnlockReader,
         OpenExDup, OpenExFails, DropHandle, PreClose, Done, WaitEnds, WriteFaults,
         OpenExCreate, Read, Write, Close, OpenNamed, CreateNamed, OpenEx, Enter,
         LinkQToPHD, qVars, history
<1> QED
  BY <1>12, <1>13, <1>14, <1>15, <1>16, <1>17, <1>18, <1>19, <1>20, <1>21, <1>22, <1>23 DEF Acts, Step

-----------------------------------------------------------------------------
(* The events *)

\* Who waits is woken when a step sets an event.
LEMMA WokenByCall ==
    ASSUME Woken, NEW t \in Thread, OnlyCall(t),
           \A u \in Thread : u # t /\ pc'[u] \in {"rsleep", "wsleep"} /\ ~event[target[u]] =>
               ~event'[target[u]],
           pc'[t] \in {"rsleep", "wsleep"} => ~event'[target'[t]]
    PROVE  Woken'
<1> SUFFICES ASSUME NEW u \in Thread, pc'[u] \in {"rsleep", "wsleep"} PROVE ~event'[target'[u]]
  BY DEF Woken
<1>1. CASE u = t
  BY <1>1
<1>2. CASE u # t
  BY <1>2 DEF Woken, OnlyCall, Moved
<1> QED
  BY <1>1, <1>2

\* A step that leaves an event set leaves nobody asleep at it.
LEMMA WokenStep ==
    ASSUME TypeOK, CallsOK, Woken, NEW t \in Thread, Acts(t)
    PROVE  Woken'
<1>0. \A label \in Labels : \A es : GoWaking(t, label, es) =>
         /\ pc'[t] = label
         /\ \A u \in Thread : u # t =>
               \A e \in es : target[u] = e => pc'[u] \notin {"rsleep", "wsleep"}
  BY Goes
<1>a. \A label \in Labels : Go(t, label) => pc'[t] = label
  BY <1>0 DEF Go
<1>b. \A ev \in [End -> BOOLEAN] : \A e :
         /\ Reset(ev, e) \in [End -> BOOLEAN] /\ Set(ev, e) \in [End -> BOOLEAN]
         /\ \A o \in End : Reset(ev, e)[o] = (ev[o] /\ (o # e \/ e = None))
         /\ \A o \in End : Set(ev, e)[o] = (ev[o] \/ (o = e /\ e # None))
  BY EventMoves
<1>c. /\ event \in [End -> BOOLEAN] /\ pc[t] \in Labels /\ OnlyCall(t) /\ CallOK(t)
      /\ None \notin End /\ own[t] \in End \cup {None} /\ target \in [Thread -> End \cup {None}]
      /\ life \in [End -> {"fresh", "live", "gone"}]
      /\ link.reader \in End \cup {None} /\ link.writer \in End \cup {None}
      /\ \A e \in ReaderEnd \cup WriterEnd : e \in End
  BY ActsOnCall, MsgQueueAssumption DEF TypeOK, CallsOK, End
\* Only where somebody may wait does it matter.
<1>d. \A u \in Thread : u # t /\ pc'[u] \in {"rsleep", "wsleep"} =>
         /\ target[u] \in End /\ life[target[u]] # "fresh" /\ target'[u] = target[u]
         /\ pc[u] = pc'[u]
  <2> SUFFICES ASSUME NEW u \in Thread, u # t, pc'[u] \in {"rsleep", "wsleep"}
               PROVE  /\ target[u] \in End /\ life[target[u]] # "fresh" /\ target'[u] = target[u]
                      /\ pc[u] = pc'[u]
    OBVIOUS
  <2>1. pc[u] = pc'[u] /\ target'[u] = target[u]
    BY <1>c DEF OnlyCall, Moved
  <2>2. CallOK(u)
    BY DEF CallsOK
  <2>3. target[u] \in ReaderEnd \cup WriterEnd /\ (target[u] # None => life[target[u]] # "fresh")
    BY <2>1, <2>2 DEF CallOK
  <2> QED
    BY <1>c, <2>1, <2>3
<1> DEFINE Right ==
        /\ \A u \in Thread : u # t /\ pc'[u] \in {"rsleep", "wsleep"} /\ ~event[target[u]] =>
               ~event'[target[u]]
        /\ pc'[t] \in {"rsleep", "wsleep"} => ~event'[target'[t]]
<1>1. ASSUME ReadAlert(t) PROVE Right
  BY <1>0, <1>a, <1>b, <1>c, <1>d, <1>1 DEF ReadAlert, AfterRead, Labels, endVars
<1>2. ASSUME ReadSmall(t) PROVE Right
  BY <1>0, <1>a, <1>b, <1>c, <1>d, <1>2 DEF ReadSmall, AfterRead, Labels, endVars
<1>3. ASSUME ReadBigDone(t) PROVE Right
  BY <1>0, <1>a, <1>b, <1>c, <1>d, <1>3 DEF ReadBigDone, AfterRead, Labels, endVars
<1>4. ASSUME ReadWait(t) PROVE Right
  BY <1>0, <1>a, <1>b, <1>c, <1>d, <1>4 DEF ReadWait, Labels, endVars
<1>5. ASSUME Wait(t) PROVE Right
  BY <1>0, <1>a, <1>b, <1>c, <1>d, <1>5 DEF Wait, Awake, Labels, endVars
<1>6. ASSUME WriteWait(t) PROVE Right
  BY <1>0, <1>a, <1>b, <1>c, <1>d, <1>6 DEF WriteWait, Labels, endVars
<1>7. ASSUME Signal(t) PROVE Right
  BY <1>0, <1>a, <1>b, <1>c, <1>d, <1>7 DEF Signal, Labels, endVars
<1>8. ASSUME PreClose(t) PROVE Right
  BY <1>0, <1>a, <1>b, <1>c, <1>d, <1>8 DEF PreClose, Labels, endVars
<1>9. ASSUME WriteAlert(t) PROVE Right
  BY <1>0, <1>a, <1>b, <1>c, <1>d, <1>9 DEF WriteAlert, ResetIfFull, LockReader, Labels, endVars
<1>10. ASSUME WriteSmall(t) PROVE Right
  BY <1>0, <1>a, <1>b, <1>c, <1>d, <1>10 DEF WriteSmall, ResetIfFull, LockReader, Labels, endVars
<1>11. ASSUME WriteBigDone(t) PROVE Right
  BY <1>0, <1>a, <1>b, <1>c, <1>d, <1>11 DEF WriteBigDone, ResetIfFull, LockReader, Labels, endVars
<1>12. ASSUME NEW e \in End, CreateNamed(t, e) PROVE Right
  BY <1>0, <1>a, <1>b, <1>c, <1>d, <1>12 DEF CreateNamed, LinkQToPHD, Labels, endVars
<1>13. ASSUME NEW e \in End, OpenExCreate(t, e) PROVE Right
  BY <1>0, <1>a, <1>b, <1>c, <1>d, <1>13 DEF OpenExCreate, LinkQToPHD, Labels, endVars
<1>14. ASSUME CloseEnd(t) PROVE Right
  BY <1>0, <1>a, <1>b, <1>c, <1>d, <1>14 DEF CloseEnd, MSGQClose, Labels, endVars
<1>15. ASSUME CloseReader(t) PROVE Right
  BY <1>0, <1>a, <1>b, <1>c, <1>d, <1>15 DEF CloseReader, MSGQClose, Labels, endVars
<1>16. ASSUME NEW e \in End, OpenNamed(t, e) PROVE Right
  BY <1>0, <1>a, <1>b, <1>c, <1>d, <1>16 DEF OpenNamed, Labels, endVars
<1>17. ASSUME
          \/ ReadFails(t) \/ ReadBig(t) \/ WriteFails(t) \/ WriteBig(t) \/ UnlockReader(t)
          \/ OpenExFails(t) \/ DropHandle(t) \/ Done(t) \/ WaitEnds(t)
          \/ WriteFaults(t) \/ WriteBigFaults(t)
          \/ \E e \in End :
              \/ OpenExDup(t, e) \/ Read(t, e) \/ Write(t, e) \/ Close(t, e)
              \/ OpenEx(t, e)
      PROVE Right
  BY <1>0, <1>a, <1>c, <1>17
     DEF ReadFails, ReadBig, WriteFails, WriteBig, UnlockReader, OpenExDup, OpenExFails,
         DropHandle, Done, WaitEnds, WriteFaults, WriteBigFaults, Read, Write, Close,
         OpenEx, Enter, Labels, endVars, CallOK
<1>r. Right
  BY <1>1, <1>2, <1>3, <1>4, <1>5, <1>6, <1>7, <1>8, <1>9, <1>10, <1>11, <1>12, <1>13, <1>14, <1>15, <1>16, <1>17 DEF Acts, Step
<1> QED
  BY <1>c, <1>r, WokenByCall

\* With a message for it, a reader's event is set, or about to be.
LEMMA ReaderToldStep ==
    ASSUME TypeOK, CallsOK, ReaderTold, NEW t \in Thread, Acts(t)
    PROVE  ReaderTold'
<1>0. \A label \in Labels : \A es : GoWaking(t, label, es) => pc'[t] = label
  BY Goes
<1>a. \A label \in Labels : Go(t, label) => pc'[t] = label
  BY <1>0 DEF Go
<1>b. \A ev \in [End -> BOOLEAN] : \A e :
         /\ Reset(ev, e) \in [End -> BOOLEAN] /\ Set(ev, e) \in [End -> BOOLEAN]
         /\ \A o \in End : Reset(ev, e)[o] = (ev[o] /\ (o # e \/ e = None))
         /\ \A o \in End : Set(ev, e)[o] = (ev[o] \/ (o = e /\ e # None))
  BY EventMoves
<1>c. /\ event \in [End -> BOOLEAN] /\ pc[t] \in Labels /\ CallOK(t)
      /\ None \notin End /\ own[t] \in End \cup {None} /\ target \in [Thread -> End \cup {None}]
      /\ link \in [reader : ReaderEnd \cup {None}, writer : WriterEnd \cup {None}]
      /\ ReaderEnd \cap WriterEnd = {} /\ End = ReaderEnd \cup WriterEnd
  BY MsgQueueAssumption DEF TypeOK, CallsOK, End
<1>d. /\ OnlyCall(t)
      /\ \A u \in Thread : u # t /\ pc[u] = "signal" => pc'[u] = "signal" /\ target'[u] = target[u]
  BY ActsOnCall DEF OnlyCall, Moved
<1> SUFFICES ASSUME link'.reader # None, ~event'[link'.reader], ~IsQueueEmpty(queue', pAlert')
             PROVE  \E u \in Thread : pc'[u] = "signal" /\ target'[u] = link'.reader
  BY DEF ReaderTold
<1> DEFINE Told == \E u \in Thread : pc'[u] = "signal" /\ target'[u] = link'.reader
           Before == /\ link'.reader = link.reader /\ ~event[link.reader] /\ ~IsQueueEmpty(queue, pAlert)
                     /\ (pc[t] = "signal" => target[t] # link.reader)
<1>e. Before => Told
  BY <1>d DEF ReaderTold
<1>f. link.reader # None => link.reader \in End /\ link.reader # link.writer
  BY <1>c
<1>1. ASSUME ReadAlert(t) PROVE Before \/ Told
  <2>1. event' = Set(event, link.writer) /\ pc[t] = "read" /\ link' = link
    BY <1>1 DEF ReadAlert, AfterRead, IsQueueEmpty
  <2>2. ~IsQueueEmpty(queue, pAlert)
    BY <1>1 DEF ReadAlert, AfterRead, IsQueueEmpty
  <2>3. ~event[link.reader]
    BY <1>b, <1>c, <1>f, <2>1
  <2> QED
    BY <2>1, <2>2, <2>3
<1>2. ASSUME ReadSmall(t) PROVE Before \/ Told
  <2>1. event' = Set(event, link.writer) /\ pc[t] = "read" /\ link' = link
    BY <1>2 DEF ReadSmall, AfterRead, IsQueueEmpty
  <2>2. ~IsQueueEmpty(queue, pAlert)
    BY <1>2 DEF ReadSmall, AfterRead, IsQueueEmpty
  <2>3. ~event[link.reader]
    BY <1>b, <1>c, <1>f, <2>1
  <2> QED
    BY <2>1, <2>2, <2>3
<1>3. ASSUME ReadBig(t) PROVE Before \/ Told
  BY <1>0, <1>a, <1>b, <1>c, <1>f, <1>3 DEF ReadBig, IsQueueEmpty, Labels, endVars, qVars
<1>4. ASSUME ReadBigDone(t) PROVE Before \/ Told
  BY <1>0, <1>a, <1>b, <1>c, <1>f, <1>4 DEF ReadBigDone, AfterRead, IsQueueEmpty, Labels, endVars, qVars
<1>5. ASSUME ReadWait(t) PROVE Before \/ Told
  BY <1>0, <1>a, <1>b, <1>c, <1>f, <1>5 DEF ReadWait, IsQueueEmpty, Labels, endVars, qVars
<1>6. ASSUME WriteWait(t) PROVE Before \/ Told
  <2>1. event' = Reset(event, link.writer) /\ pc[t] = "write" /\ link' = link
    BY <1>6 DEF WriteWait, qVars
  <2>2. ~IsQueueEmpty(queue, pAlert)
    BY <1>6 DEF WriteWait, qVars, IsQueueEmpty
  <2>3. ~event[link.reader]
    BY <1>b, <1>c, <1>f, <2>1
  <2> QED
    BY <2>1, <2>2, <2>3
<1>7. ASSUME Signal(t) PROVE Before \/ Told
  BY <1>0, <1>a, <1>b, <1>c, <1>f, <1>7 DEF Signal, IsQueueEmpty, Labels, endVars, qVars
<1>8. ASSUME PreClose(t) PROVE Before \/ Told
  BY <1>0, <1>a, <1>b, <1>c, <1>f, <1>8 DEF PreClose, IsQueueEmpty, Labels, endVars, qVars
<1>9. ASSUME WriteAlert(t) PROVE Before \/ Told
  BY <1>0, <1>a, <1>b, <1>c, <1>f, <1>9 DEF WriteAlert, ResetIfFull, LockReader, IsQueueEmpty, Labels, endVars, qVars
<1>10. ASSUME WriteSmall(t) PROVE Before \/ Told
  BY <1>0, <1>a, <1>b, <1>c, <1>f, <1>10 DEF WriteSmall, ResetIfFull, LockReader, IsQueueEmpty, Labels, endVars, qVars
<1>11. ASSUME WriteBigDone(t) PROVE Before \/ Told
  BY <1>0, <1>a, <1>b, <1>c, <1>f, <1>11 DEF WriteBigDone, ResetIfFull, LockReader, IsQueueEmpty, Labels, endVars, qVars
<1>12. ASSUME NEW e \in End, CreateNamed(t, e) PROVE Before \/ Told
  BY <1>0, <1>a, <1>b, <1>c, <1>f, <1>12 DEF CreateNamed, LinkQToPHD, Side, IsQueueEmpty, Labels, endVars, qVars
<1>13. ASSUME NEW e \in End, OpenExCreate(t, e) PROVE Before \/ Told
  BY <1>0, <1>a, <1>b, <1>c, <1>f, <1>13 DEF OpenExCreate, LinkQToPHD, Side, IsQueueEmpty, Labels, endVars, qVars
<1>14. ASSUME CloseEnd(t) PROVE Before \/ Told
  BY <1>0, <1>a, <1>b, <1>c, <1>f, <1>14 DEF CloseEnd, MSGQClose, Side, CallOK, IsQueueEmpty, Labels, endVars, qVars
<1>15. ASSUME CloseReader(t) PROVE Before \/ Told
  BY <1>0, <1>a, <1>b, <1>c, <1>f, <1>15 DEF CloseReader, MSGQClose, Side, CallOK, IsQueueEmpty, Labels, endVars, qVars
<1>16. ASSUME
          \/ ReadFails(t) \/ Wait(t) \/ WriteFails(t) \/ WriteBig(t) \/ UnlockReader(t)
          \/ OpenExFails(t) \/ DropHandle(t) \/ Done(t) \/ WaitEnds(t)
          \/ WriteFaults(t) \/ WriteBigFaults(t)
          \/ \E e \in End :
              \/ OpenExDup(t, e) \/ Read(t, e) \/ Write(t, e) \/ Close(t, e)
              \/ OpenNamed(t, e) \/ OpenEx(t, e)
      PROVE Before \/ Told
  BY <1>16
     DEF ReadFails, Wait, WriteFails, WriteBig, UnlockReader, OpenExDup, OpenExFails,
         DropHandle, Done, WaitEnds, WriteFaults, WriteBigFaults, Read, Write, Close,
         OpenNamed, OpenEx, Enter, endVars, qVars
<1> QED
  BY <1>e, <1>1, <1>2, <1>3, <1>4, <1>5, <1>6, <1>7, <1>8, <1>9, <1>10, <1>11, <1>12, <1>13, <1>14, <1>15, <1>16 DEF Acts, Step

-----------------------------------------------------------------------------
(* Who waits has not been told for nothing *)

\* At the other end nothing is known to be wrong and, for a writer, nothing fits.
Fine(side) == ~Finished(side) /\ (side = "writer" => ~HasRoom)

\* A step resets an event only if the end is fine, or notes that it crossed a close;
\* the call that is to tell of a close does.
LEMMA Resets ==
    ASSUME TypeOK, EndsOK, NEW t \in Thread, Acts(t), NEW side \in {"reader", "writer"},
           link[side] # None
    PROVE  /\ ~event'[link[side]] => ~event[link[side]] \/ crossed' \/ Fine(side)'
           /\ pc[t] = "preclose" => event'[link[side]]
           /\ crossed => crossed'
<1>b. \A ev \in [End -> BOOLEAN] : \A e :
         /\ Reset(ev, e) \in [End -> BOOLEAN] /\ Set(ev, e) \in [End -> BOOLEAN]
         /\ \A o \in End : Reset(ev, e)[o] = (ev[o] /\ (o # e \/ e = None))
         /\ \A o \in End : Set(ev, e)[o] = (ev[o] \/ (o = e /\ e # None))
  BY EventMoves
<1>c. /\ event \in [End -> BOOLEAN] /\ crossed \in BOOLEAN
      /\ link[side] \in End
      /\ \/ side = "reader" /\ link[side] = link.reader
         \/ side = "writer" /\ link[side] = link.writer
      /\ link.reader # None => link.reader # link.writer
      /\ dwCurNumMsg \in Int /\ MaxNumMsg \in Nat
  BY MsgQueueAssumption DEF TypeOK, End
<1>d. /\ UNCHANGED <<flags, link, handles>> => (Finished(side)' <=> Finished(side))
      /\ UNCHANGED <<flags, freeNodes, dwCurNumMsg>> => (HasRoom' <=> HasRoom)
      /\ dwCurNumMsg' = MaxNumMsg => ~HasRoom'
      /\ ~HasNode => ~HasRoom
  BY <1>c DEF Finished, Broken, HasHandles, HasRoom, HasNode
<1>e. life[link[side]] = "live"
  BY DEF EndsOK
<1> DEFINE Right ==
        /\ ~event'[link[side]] => ~event[link[side]] \/ crossed' \/ Fine(side)'
        /\ pc[t] = "preclose" => event'[link[side]]
        /\ crossed => crossed'
<1>1. ASSUME ReadAlert(t) PROVE Right
  BY <1>b, <1>c, <1>d, <1>e, <1>1 DEF ReadAlert, AfterRead, Fine, endVars, qVars, history
<1>2. ASSUME ReadSmall(t) PROVE Right
  BY <1>b, <1>c, <1>d, <1>e, <1>2 DEF ReadSmall, AfterRead, Fine, endVars, qVars, history
<1>3. ASSUME ReadBigDone(t) PROVE Right
  BY <1>b, <1>c, <1>d, <1>e, <1>3 DEF ReadBigDone, AfterRead, Fine, endVars, qVars, history
<1>4. ASSUME ReadWait(t) PROVE Right
  BY <1>b, <1>c, <1>d, <1>e, <1>4 DEF ReadWait, Fine, endVars, qVars, history
<1>5. ASSUME WriteWait(t) PROVE Right
  BY <1>b, <1>c, <1>d, <1>e, <1>5 DEF WriteWait, Fine, endVars, qVars, history
<1>6. ASSUME Signal(t) PROVE Right
  BY <1>b, <1>c, <1>d, <1>e, <1>6 DEF Signal, Fine, endVars, qVars, history
<1>7. ASSUME PreClose(t) PROVE Right
  BY <1>b, <1>c, <1>d, <1>e, <1>7 DEF PreClose, Fine, endVars, qVars, history
<1>8. ASSUME WriteAlert(t) PROVE Right
  BY <1>b, <1>c, <1>d, <1>e, <1>8 DEF WriteAlert, ResetIfFull, Fine, endVars, qVars, history
<1>9. ASSUME WriteSmall(t) PROVE Right
  BY <1>b, <1>c, <1>d, <1>e, <1>9 DEF WriteSmall, ResetIfFull, Fine, endVars, qVars, history
<1>10. ASSUME WriteBigDone(t) PROVE Right
  BY <1>b, <1>c, <1>d, <1>e, <1>10 DEF WriteBigDone, ResetIfFull, Fine, endVars, qVars, history
<1>11. ASSUME NEW e \in End, CreateNamed(t, e) PROVE Right
  BY <1>b, <1>c, <1>d, <1>e, <1>11 DEF CreateNamed, LinkQToPHD, Fine, endVars, qVars, history
<1>12. ASSUME NEW e \in End, OpenExCreate(t, e) PROVE Right
  BY <1>b, <1>c, <1>d, <1>e, <1>12 DEF OpenExCreate, LinkQToPHD, Fine, endVars, qVars, history
<1>13. ASSUME CloseEnd(t) PROVE Right
  BY <1>b, <1>c, <1>d, <1>e, <1>13 DEF CloseEnd, MSGQClose, Fine, endVars, qVars, history
<1>14. ASSUME CloseReader(t) PROVE Right
  BY <1>b, <1>c, <1>d, <1>e, <1>14 DEF CloseReader, MSGQClose, Fine, endVars, qVars, history
<1>15. ASSUME NEW e \in End, OpenNamed(t, e) PROVE Right
  BY <1>b, <1>c, <1>d, <1>e, <1>15 DEF OpenNamed, Fine, endVars, qVars, history
<1>16. ASSUME
          \/ ReadFails(t) \/ ReadBig(t) \/ Wait(t) \/ WriteFails(t) \/ WriteBig(t)
          \/ UnlockReader(t) \/ OpenExFails(t) \/ DropHandle(t) \/ Done(t)
          \/ WaitEnds(t) \/ WriteFaults(t) \/ WriteBigFaults(t)
          \/ \E e \in End :
              \/ OpenExDup(t, e) \/ Read(t, e) \/ Write(t, e) \/ Close(t, e)
              \/ OpenEx(t, e)
      PROVE Right
  BY <1>16
     DEF ReadFails, ReadBig, Wait, WriteFails, WriteBig, UnlockReader, OpenExDup,
         OpenExFails, DropHandle, Done, WaitEnds, WriteFaults, WriteBigFaults, Read,
         Write, Close, OpenEx, Enter, endVars, history
<1> QED
  BY <1>1, <1>2, <1>3, <1>4, <1>5, <1>6, <1>7, <1>8, <1>9, <1>10, <1>11, <1>12, <1>13, <1>14, <1>15, <1>16 DEF Acts, Step

\* A queue's link to an end is cut, or leads to a new end.
LEMMA Relinks ==
    ASSUME TypeOK, CallsOK, NEW t \in Thread, Acts(t), NEW side \in {"reader", "writer"}
    PROVE  link'[side] = link[side] \/ link'[side] = None \/ life[link'[side]] = "fresh"
<1> DEFINE Right == link'[side] = link[side] \/ link'[side] = None \/ life[link'[side]] = "fresh"
<1>1. link \in [reader : ReaderEnd \cup {None}, writer : WriterEnd \cup {None}]
  BY DEF TypeOK
<1>2. ASSUME NEW e, life[e] = "fresh", LinkQToPHD(e) PROVE Right
  BY <1>1, <1>2 DEF LinkQToPHD
<1>3. ASSUME NEW e, MSGQClose(e) PROVE Right
  BY <1>1, <1>3 DEF MSGQClose
<1>4. ASSUME NEW e \in End, CreateNamed(t, e) PROVE Right
  BY <1>2, <1>4 DEF CreateNamed
<1>5. ASSUME NEW e \in End, OpenExCreate(t, e) PROVE Right
  BY <1>2, <1>5 DEF OpenExCreate
<1>6. ASSUME CloseEnd(t) PROVE Right
  BY <1>3, <1>6 DEF CloseEnd
<1>7. ASSUME CloseReader(t) PROVE Right
  BY <1>3, <1>7 DEF CloseReader
<1>8. ASSUME
          \/ ReadFails(t) \/ ReadAlert(t) \/ ReadSmall(t) \/ ReadBig(t) \/ ReadBigDone(t)
          \/ ReadWait(t) \/ Wait(t) \/ WriteFails(t) \/ WriteAlert(t) \/ WriteSmall(t)
          \/ WriteBig(t) \/ WriteBigDone(t) \/ WriteWait(t) \/ Signal(t) \/ UnlockReader(t)
          \/ OpenExFails(t) \/ DropHandle(t) \/ PreClose(t) \/ Done(t)
          \/ WaitEnds(t) \/ WriteFaults(t) \/ WriteBigFaults(t)
          \/ \E e \in End :
              \/ OpenExDup(t, e) \/ Read(t, e) \/ Write(t, e) \/ Close(t, e)
              \/ OpenNamed(t, e) \/ OpenEx(t, e)
      PROVE Right
  BY <1>8
     DEF ReadFails, ReadAlert, ReadSmall, ReadBig, ReadBigDone, ReadWait, Wait,
         WriteFails, WriteAlert, WriteSmall, WriteBig, WriteBigDone, WriteWait, Signal,
         UnlockReader, OpenExDup, OpenExFails, DropHandle, PreClose, Done, WaitEnds,
         WriteFaults, WriteBigFaults, Read, Write, Close, OpenNamed, OpenEx, Enter,
         qVars
<1> QED
  BY <1>4, <1>5, <1>6, <1>7, <1>8 DEF Acts, Step

\* What a call is about to wait for has been looked at under the lock.
LEMMA WaitsAfter ==
    ASSUME TypeOK, CallsOK, NEW t \in Thread, Acts(t), NEW side \in {"reader", "writer"},
           Waits(t, side)', ~event'[link'[side]]
    PROVE  \/ Fine(side)'
           \/ Waits(t, side) /\ link'[side] = link[side] /\ event' = event
<1>0. \A label \in Labels : \A es : GoWaking(t, label, es) => pc'[t] = label
  BY Goes
<1>a. \A label \in Labels : Go(t, label) => pc'[t] = label
  BY <1>0 DEF Go
<1>b. pc'[t] \in (IF side = "reader" THEN {"rwait", "rsleep"} ELSE {"wwait", "wsleep"})
      /\ target'[t] = link'[side]
  BY DEF Waits
<1>c. pc[t] \in Labels /\ target \in [Thread -> End \cup {None}] /\ CallOK(t)
  BY DEF TypeOK, CallsOK
<1>d. /\ UNCHANGED <<flags, link, handles>> => (Finished(side)' <=> Finished(side))
      /\ UNCHANGED <<flags, freeNodes, dwCurNumMsg>> => (HasRoom' <=> HasRoom)
      /\ ~HasNode => ~HasRoom
  BY DEF Finished, Broken, HasHandles, HasRoom, HasNode
<1> DEFINE Right == \/ Fine(side)'
                    \/ Waits(t, side) /\ link'[side] = link[side] /\ event' = event
<1>w. pc'[t] \in {"rwait", "rsleep", "wwait", "wsleep"}
  BY <1>b
<1>1. ASSUME ReadWait(t) PROVE Right
  BY <1>a, <1>b, <1>d, <1>1 DEF ReadWait, Fine, Labels, qVars
<1>2. ASSUME WriteWait(t) PROVE Right
  BY <1>a, <1>b, <1>d, <1>2 DEF WriteWait, Fine, Labels, qVars
<1>3. ASSUME Wait(t) PROVE Right
  BY <1>a, <1>b, <1>3 DEF Wait, Waits, Awake, Labels, qVars, endVars
<1>4. ASSUME NEW e \in End, OpenNamed(t, e) \/ CreateNamed(t, e) PROVE FALSE
  BY <1>w, <1>4 DEF OpenNamed, CreateNamed
<1>5. ASSUME
          \/ ReadFails(t) \/ ReadAlert(t) \/ ReadSmall(t) \/ ReadBig(t) \/ ReadBigDone(t)
          \/ WriteFails(t) \/ WriteAlert(t) \/ WriteSmall(t) \/ WriteBig(t) \/ WriteBigDone(t)
          \/ Signal(t) \/ UnlockReader(t) \/ OpenExFails(t) \/ DropHandle(t)
          \/ PreClose(t) \/ Done(t) \/ CloseEnd(t) \/ CloseReader(t) \/ WaitEnds(t)
          \/ WriteFaults(t) \/ WriteBigFaults(t)
          \/ \E e \in End :
              \/ OpenExDup(t, e) \/ OpenExCreate(t, e) \/ Read(t, e) \/ Write(t, e)
              \/ Close(t, e) \/ OpenEx(t, e)
      PROVE FALSE
  BY <1>0, <1>a, <1>w, <1>5
     DEF LockReader, ReadFails, ReadAlert, ReadSmall, ReadBig, ReadBigDone, WriteFails, WriteAlert,
         WriteSmall, WriteBig, WriteBigDone, Signal, UnlockReader, OpenExDup,
         OpenExFails, DropHandle, PreClose, Done, CloseEnd, CloseReader, WaitEnds,
         WriteFaults, WriteBigFaults, OpenExCreate, Read, Write, Close, OpenEx, Enter,
         Labels
<1> QED
  BY <1>1, <1>2, <1>3, <1>4, <1>5 DEF Acts, Step

\* A thread that nobody has told of anything was so before, or its end is fine.
LEMMA UntoldBefore ==
    ASSUME TypeOK, CallsOK, EndsOK, NEW t \in Thread, Acts(t),
           NEW u \in Thread, NEW side \in {"reader", "writer"}, Untold(u, side)'
    PROVE  \/ Fine(side)'
           \/ Untold(u, side) /\ link'[side] = link[side] /\ link[side] # None /\ ~event'[link[side]]
<1>a. OnlyCall(t) /\ CallOK(u) /\ crossed \in BOOLEAN /\ None \notin End
      /\ None \notin ReaderEnd \cup WriterEnd
  BY ActsOnCall, MsgQueueAssumption DEF CallsOK, TypeOK, End
<1>b. Waits(u, side)' /\ ~event'[link'[side]] /\ ~crossed' /\ \A v \in Thread : pc'[v] # "preclose"
  BY DEF Untold
<1>c. CASE u = t
  <2>1. SUFFICES ASSUME Waits(t, side), link'[side] = link[side], event' = event
                 PROVE  Untold(u, side) /\ link[side] # None
    BY <1>b, <1>c, WaitsAfter
  <2>2. link[side] # None /\ ~event[link[side]]
    BY <1>a, <1>b, <1>c, <2>1 DEF Waits, CallOK
  <2>3. ~crossed /\ pc[t] # "preclose"
    BY <1>a, <1>b, <2>1, <2>2, Resets DEF Waits
  <2>4. \A v \in Thread : v # t => pc[v] # "preclose"
    BY <1>a, <1>b DEF OnlyCall, Moved
  <2> QED
    BY <1>c, <2>1, <2>2, <2>3, <2>4 DEF Untold
<1>d. CASE u # t
  <2>1. /\ pc[u] = pc'[u] /\ target'[u] = target[u] /\ target[u] = link'[side]
        /\ pc[u] \in (IF side = "reader" THEN {"rwait", "rsleep"} ELSE {"wwait", "wsleep"})
    BY <1>a, <1>b, <1>d DEF Waits, OnlyCall, Moved
  <2>2. target[u] # None /\ life[target[u]] # "fresh"
    BY <1>a, <2>1 DEF CallOK
  <2>3. link'[side] = link[side]
    BY <2>1, <2>2, Relinks
  <2>4. /\ ~event[link[side]] \/ Fine(side)'
        /\ pc[t] # "preclose" /\ ~crossed
    BY <1>a, <1>b, <2>1, <2>2, <2>3, Resets
  <2>5. \A v \in Thread : v # t => pc[v] # "preclose"
    BY <1>a, <1>b DEF OnlyCall, Moved
  <2> QED
    BY <1>b, <2>1, <2>2, <2>3, <2>4, <2>5 DEF Untold, Waits
<1> QED
  BY <1>c, <1>d

\* An end that is fine, or one that the queue has lost, is left so by a step under
\* which its link stays and no close is left to be told.
LEMMA CloseTells ==
    ASSUME TypeOK, CallsOK, EndsOK, CountsOK, OneCloser, ~undefined, NEW t \in Thread, Acts(t),
           NEW side \in {"reader", "writer"}, link[side] # None, link'[side] = link[side],
           pc'[t] # "preclose", ~Finished(side) \/ \E e \in End : Orphan(e)
    PROVE  ~Finished(side)' \/ \E e \in End : Orphan(e)'
<1> DEFINE Right == ~Finished(side)' \/ \E e \in End : Orphan(e)'
<1>0. \A label \in Labels : \A es : GoWaking(t, label, es) => pc'[t] = label
  BY Goes
<1>a. \A label \in Labels : Go(t, label) => pc'[t] = label
  BY <1>0 DEF Go
<1>b. /\ link \in [reader : ReaderEnd \cup {None}, writer : WriterEnd \cup {None}]
      /\ handles \in [End -> Nat] /\ None \notin End /\ own[t] \in End \cup {None}
      /\ target[t] \in End \cup {None}
      /\ \A s \in {"reader", "writer"} : link[s] \in End \cup {None}
      /\ \A s \in {"reader", "writer"} : link[s] # None => Side(link[s]) = s
      /\ \A e \in End : Side(e) \in {"reader", "writer"}
      /\ Other(side) \in {"reader", "writer"} /\ Other(side) # side
      /\ \A s \in {"reader", "writer"} : s = side \/ s = Other(side)
  BY MsgQueueAssumption DEF TypeOK, End, Side, Other
<1>c. CallOK(t)
  BY DEF CallsOK
\* Nothing changes but the handles of one end, which keeps some if it had any.
<1>d. ASSUME UNCHANGED <<flags, link>>, \A e \in End : handles[e] > 0 => handles'[e] > 0
      PROVE  Right
  <2>1. ~Finished(side) => ~Finished(side)'
    BY <1>b, <1>d DEF Finished, Broken, HasHandles
  <2>2. \A e \in End : Orphan(e) => Orphan(e)'
    BY <1>d DEF Orphan
  <2> QED
    BY <2>1, <2>2
<1>e. ASSUME NEW e \in End, LinkQToPHD(e), flags' = flags, life[e] = "fresh",
             flags.named => NamedEnd(Side(e)) = {},
             ~flags.named => \A o \in End : ~Orphan(o)
      PROVE  Right
  <2>1. /\ handles' = [handles EXCEPT ![e] = 1] /\ link' = [link EXCEPT ![Side(e)] = e]
    BY <1>e DEF LinkQToPHD
  <2>2. link'[Side(e)] = e /\ \A s \in {"reader", "writer"} : s # Side(e) => link'[s] = link[s]
    BY <1>b, <2>1
  <2>3. handles'[e] = 1 /\ \A o \in End : o # e => handles'[o] = handles[o]
    BY <1>b, <2>1
  <2>4. Side(e) # side
    BY <1>e, <2>2 DEF EndsOK
  <2>5. Side(e) = Other(side)
    BY <1>b, <2>4
  <2>6. CASE \E o \in End : Orphan(o)
    <3>1. PICK o \in End : Orphan(o)
      BY <2>6
    <3>2. Side(o) # Side(e)
      BY <1>e, <3>1 DEF Orphan, NamedEnd, EndsOK
    <3>3. o # e /\ link'[Side(o)] = link[Side(o)]
      BY <1>b, <2>2, <3>2
    <3> QED
      BY <2>3, <3>1, <3>3 DEF Orphan
  <2>7. CASE ~Finished(side)
    BY <1>b, <1>e, <2>2, <2>3, <2>5, <2>7 DEF Finished, Broken, HasHandles
  <2> QED
    BY <2>6, <2>7
<1>f. ASSUME NEW e \in End, MSGQClose(e), Closes(t, e) PROVE Right
  <2>1. /\ handles' = handles /\ flags' = flags /\ link' = [link EXCEPT ![Side(e)] = None]
        /\ handles[e] = 0
    BY <1>f, NobodyElse DEF MSGQClose
  <2>2. link'[Side(e)] = None /\ \A s \in {"reader", "writer"} : s # Side(e) => link'[s] = link[s]
    BY <1>b, <2>1
  <2>3. Side(e) = Other(side)
    BY <1>b, <2>2
  <2>4. CASE \E o \in End : Orphan(o)
    <3>1. PICK o \in End : Orphan(o)
      BY <2>4
    <3> QED
      BY <1>b, <2>1, <2>2, <3>1 DEF Orphan
  <2>5. CASE ~Finished(side) /\ flags.broken
    BY <2>1, <2>5 DEF Finished, Broken, HasHandles
  <2>6. CASE ~Finished(side) /\ ~flags.broken
    <3>1. HasHandles(link[Other(side)])
      BY <2>6 DEF Finished, Broken
    <3>2. link[Other(side)] \in End /\ handles[link[Other(side)]] > 0 /\ Side(link[Other(side)]) = Other(side)
      BY <1>b, <3>1 DEF HasHandles
    <3> QED
      BY <1>b, <2>1, <2>2, <2>3, <3>2 DEF Orphan
  <2> QED
    BY <2>4, <2>5, <2>6
<1>1. ASSUME NEW e \in End, CreateNamed(t, e) PROVE Right
  BY <1>e, <1>1 DEF CreateNamed
<1>2. ASSUME NEW e \in End, OpenExCreate(t, e) PROVE Right
  <2>1. ~flags.named
    BY <1>c, <1>2 DEF OpenExCreate, CallOK
  <2>2. \A o \in End : ~Orphan(o)
    BY <1>b, <2>1 DEF EndsOK, Orphan
  <2> QED
    BY <1>e, <1>2, <2>1, <2>2 DEF OpenExCreate
<1>3. ASSUME CloseEnd(t) PROVE Right
  BY <1>b, <1>c, <1>f, <1>3 DEF CloseEnd, CallOK, Closes
<1>4. ASSUME CloseReader(t) PROVE Right
  BY <1>b, <1>c, <1>f, <1>4 DEF CloseReader, CallOK, Closes
<1>5. ASSUME NEW e \in End, OpenNamed(t, e) PROVE Right
  BY <1>b, <1>d, <1>5 DEF OpenNamed, qVars
<1>6. ASSUME NEW e \in End, OpenExDup(t, e) PROVE Right
  <2>1. \A o \in End : handles[o] > 0 => handles'[o] > 0
    BY <1>b, <1>6 DEF OpenExDup
  <2> QED
    BY <1>d, <1>6, <2>1 DEF OpenExDup, qVars
<1>7. ASSUME DropHandle(t) PROVE Right
  <2>1. handles[own[t]] # 1
    BY <1>a, <1>7 DEF DropHandle, Labels
  <2>2. \A e \in End : handles[e] > 0 => handles'[e] > 0
    BY <1>b, <1>7, <2>1 DEF DropHandle
  <2> QED
    BY <1>d, <1>7, <2>2 DEF DropHandle, qVars
<1>8. ASSUME
          \/ ReadFails(t) \/ ReadAlert(t) \/ ReadSmall(t) \/ ReadBig(t) \/ ReadBigDone(t)
          \/ ReadWait(t) \/ Wait(t) \/ WriteFails(t) \/ WriteAlert(t) \/ WriteSmall(t)
          \/ WriteBig(t) \/ WriteBigDone(t) \/ WriteWait(t) \/ Signal(t) \/ UnlockReader(t)
          \/ OpenExFails(t) \/ PreClose(t) \/ Done(t) \/ WaitEnds(t) \/ WriteFaults(t)
          \/ WriteBigFaults(t)
          \/ \E e \in End : Read(t, e) \/ Write(t, e) \/ Close(t, e) \/ OpenEx(t, e)
      PROVE UNCHANGED <<flags, link, handles>>
  BY <1>8
     DEF ReadFails, ReadAlert, ReadSmall, ReadBig, ReadBigDone, ReadWait, Wait,
         WriteFails, WriteAlert, WriteSmall, WriteBig, WriteBigDone, WriteWait, Signal,
         UnlockReader, OpenExFails, PreClose, Done, WaitEnds, WriteFaults,
         WriteBigFaults, Read, Write, Close, OpenEx, Enter, qVars, endVars
<1>9. ASSUME UNCHANGED <<flags, link, handles>> PROVE Right
  BY <1>b, <1>d, <1>9
<1> QED
  BY <1>1, <1>2, <1>3, <1>4, <1>5, <1>6, <1>7, <1>8, <1>9 DEF Acts, Step

\* Who waits at an end that is finished has been told, or is about to be.
LEMMA CloseToldStep ==
    ASSUME TypeOK, CallsOK, EndsOK, CountsOK, OneCloser, CloseTold, ~undefined,
           NEW t \in Thread, Acts(t)
    PROVE  CloseTold'
<1> SUFFICES ASSUME NEW u \in Thread, NEW side \in {"reader", "writer"}, Untold(u, side)'
             PROVE  ~Finished(side)' \/ \E e \in End : Orphan(e)'
  BY DEF CloseTold
<1>1. CASE Fine(side)'
  BY <1>1 DEF Fine
<1>2. CASE Untold(u, side) /\ link'[side] = link[side] /\ link[side] # None
  <2>1. ~Finished(side) \/ \E e \in End : Orphan(e)
    BY <1>2 DEF CloseTold
  <2>2. pc'[t] # "preclose"
    BY DEF Untold
  <2> QED
    BY <1>2, <2>1, <2>2, CloseTells
<1> QED
  BY <1>1, <1>2, UntoldBefore

\* Room comes with the event of the writers' end, with a reader that will set it, or
\* with a fault that tells nobody.
LEMMA RoomComes ==
    ASSUME TypeOK, CallsOK, NEW t \in Thread, Acts(t),
           link.writer # None, link'.writer = link.writer, ~event'[link.writer],
           HasRoom', ~Finished("writer")', ~unsignalled'
    PROVE  \/ pc'[t] = "rcopy"
           \/ HasRoom /\ ~unsignalled /\ (pc[t] = "rcopy" => pc'[t] = "rcopy")
<1>0. \A label \in Labels : \A es : GoWaking(t, label, es) => pc'[t] = label
  BY Goes
<1>a. \A label \in Labels : Go(t, label) => pc'[t] = label
  BY <1>0 DEF Go
<1>b. \A ev \in [End -> BOOLEAN] : \A e :
         /\ Reset(ev, e) \in [End -> BOOLEAN] /\ Set(ev, e) \in [End -> BOOLEAN]
         /\ \A o \in End : Reset(ev, e)[o] = (ev[o] /\ (o # e \/ e = None))
         /\ \A o \in End : Set(ev, e)[o] = (ev[o] \/ (o = e /\ e # None))
  BY EventMoves
<1>c. /\ event \in [End -> BOOLEAN] /\ unsignalled \in BOOLEAN /\ link.writer \in End
      /\ link.reader # None => link.reader # link.writer
      /\ dwCurNumMsg \in Int /\ MaxNumMsg \in Nat /\ freeNodes \in Nat
      /\ link \in [reader : ReaderEnd \cup {None}, writer : WriterEnd \cup {None}]
      /\ own[t] \in End \cup {None} /\ target[t] \in End \cup {None} /\ CallOK(t) /\ pc[t] \in Labels
  BY MsgQueueAssumption DEF TypeOK, End, CallsOK
<1>d. /\ UNCHANGED <<flags, freeNodes, dwCurNumMsg>> => (HasRoom' <=> HasRoom)
      /\ HasRoom' <=> /\ freeNodes' > 0 \/ (flags'.nocommit /\ dwCurNumMsg' \in 0..MaxNumMsg - 1)
                      /\ dwCurNumMsg' < MaxNumMsg
      /\ HasRoom <=> /\ freeNodes > 0 \/ (flags.nocommit /\ dwCurNumMsg \in 0..MaxNumMsg - 1)
                     /\ dwCurNumMsg < MaxNumMsg
  BY DEF HasRoom, HasNode
<1> DEFINE Right == \/ pc'[t] = "rcopy"
                    \/ HasRoom /\ ~unsignalled /\ (pc[t] = "rcopy" => pc'[t] = "rcopy")
\* The event of the writers' end is set by whoever takes a message out.
<1>e. event' # Set(event, link.writer)
      /\ event' # Reset(Set(event, link.writer), link.reader)
  BY <1>b, <1>c
<1>f. ASSUME NEW e \in End, MSGQClose(e), pc[t] # "rcopy" PROVE Right
  <2>1. Side(e) # "writer"
    <3>1. Side(e) = "writer" => link'.writer = None
      BY <1>c, <1>f DEF MSGQClose
    <3> QED
      BY <3>1
  <2>2. Side(e) = "reader" /\ Other(Side(e)) = "writer"
    BY <2>1 DEF Side, Other
  <2>3. link'.reader = None /\ UNCHANGED <<flags, unsignalled>>
    BY <1>c, <1>f, <2>2 DEF MSGQClose
  <2>4. flags.broken
    BY <2>3 DEF Finished, Broken, HasHandles, Other
  <2>5. UNCHANGED <<freeNodes, dwCurNumMsg>>
    BY <1>c, <1>f, <2>2, <2>4 DEF MSGQClose
  <2> QED
    BY <1>d, <1>f, <2>3, <2>5
<1>1. ASSUME ReadAlert(t) PROVE Right
  BY <1>e, <1>1 DEF ReadAlert, AfterRead
<1>2. ASSUME ReadSmall(t) PROVE Right
  BY <1>e, <1>2 DEF ReadSmall, AfterRead
<1>3. ASSUME ReadBigDone(t) PROVE Right
  BY <1>e, <1>3 DEF ReadBigDone, AfterRead
<1>4. ASSUME ReadBig(t) PROVE Right
  BY <1>a, <1>4 DEF ReadBig, Labels
<1>5. ASSUME CloseEnd(t) PROVE Right
  BY <1>c, <1>f, <1>5 DEF CloseEnd, CallOK
<1>6. ASSUME CloseReader(t) PROVE Right
  BY <1>c, <1>f, <1>6 DEF CloseReader, CallOK
<1>7. ASSUME WriteAlert(t) PROVE Right
  BY <1>c, <1>d, <1>7 DEF WriteAlert
<1>8. ASSUME WriteSmall(t) PROVE Right
  BY <1>c, <1>8 DEF WriteSmall, HasRoom
<1>9. ASSUME WriteBig(t) PROVE Right
  BY <1>c, <1>9 DEF WriteBig, HasRoom
<1>10. ASSUME WriteBigDone(t) PROVE Right
  BY <1>c, <1>d, <1>10 DEF WriteBigDone
<1>11. ASSUME WriteFaults(t) PROVE Right
  BY <1>c, <1>d, <1>11 DEF WriteFaults, NodeFromList, history
<1>12. ASSUME WriteBigFaults(t) PROVE Right
  BY <1>c, <1>d, <1>12 DEF WriteBigFaults
<1>13. ASSUME
          \/ ReadFails(t) \/ ReadWait(t) \/ Wait(t) \/ WriteFails(t) \/ WriteWait(t)
          \/ Signal(t) \/ UnlockReader(t) \/ OpenExFails(t) \/ DropHandle(t)
          \/ PreClose(t) \/ Done(t) \/ WaitEnds(t)
          \/ \E e \in End :
              \/ OpenExDup(t, e) \/ OpenExCreate(t, e) \/ Read(t, e) \/ Write(t, e)
              \/ Close(t, e) \/ OpenNamed(t, e) \/ CreateNamed(t, e) \/ OpenEx(t, e)
      PROVE UNCHANGED <<flags, freeNodes, dwCurNumMsg, unsignalled>> /\ pc[t] # "rcopy"
  BY <1>13
     DEF ReadFails, ReadWait, Wait, WriteFails, WriteWait, Signal, UnlockReader,
         OpenExDup, OpenExFails, DropHandle, PreClose, Done, WaitEnds, OpenExCreate,
         Read, Write, Close, OpenNamed, CreateNamed, OpenEx, Enter, LinkQToPHD, qVars,
         history
<1>14. ASSUME UNCHANGED <<flags, freeNodes, dwCurNumMsg, unsignalled>>, pc[t] # "rcopy" PROVE Right
  BY <1>d, <1>14
<1> QED
  BY <1>1, <1>2, <1>3, <1>4, <1>5, <1>6, <1>7, <1>8, <1>9, <1>10, <1>11, <1>12, <1>13, <1>14 DEF Acts, Step

\* While the queue has lost a reader's end, writers that are finished stay so.
LEMMA OrphanStays ==
    ASSUME TypeOK, CallsOK, EndsOK, CountsOK, NEW t \in Thread, Acts(t), flags.named,
           NEW o \in End, Orphan(o), Side(o) = "reader", link.reader = None,
           link'.writer = link.writer, Finished("writer")
    PROVE  Finished("writer")'
<1>b. /\ link \in [reader : ReaderEnd \cup {None}, writer : WriterEnd \cup {None}]
      /\ handles \in [End -> Nat] /\ None \notin End /\ own[t] \in End \cup {None}
      /\ link.writer \in End \cup {None} /\ target[t] \in End \cup {None}
  BY MsgQueueAssumption DEF TypeOK, End
<1>c. CallOK(t)
  BY DEF CallsOK
<1> DEFINE Right == /\ flags' = flags /\ link'.reader = None
                    /\ link.writer # None /\ handles[link.writer] = 0 => handles'[link.writer] = 0
<1>r. ASSUME Right PROVE Finished("writer")'
  BY <1>b, <1>r DEF Finished, Broken, HasHandles, Other
<1>1. ASSUME NEW e \in End, CreateNamed(t, e) PROVE Right
  <2>1. Side(e) # "reader"
    BY <1>1 DEF CreateNamed, NamedEnd, Orphan, EndsOK
  <2>2. Side(e) = "writer"
    BY <2>1 DEF Side
  <2>3. link'.writer = e
    BY <1>b, <1>1, <2>2 DEF CreateNamed, LinkQToPHD
  <2>4. e # None /\ life[e] = "fresh" /\ (link.writer # None => life[link.writer] = "live")
    BY <1>b, <1>1 DEF EndsOK, CreateNamed
  <2> QED
    BY <2>3, <2>4
<1>2. ASSUME NEW e \in End, OpenExCreate(t, e) PROVE Right
  BY <1>c, <1>2 DEF OpenExCreate, CallOK
<1>3. ASSUME NEW e \in End, OpenExDup(t, e) PROVE Right
  BY <1>c, <1>3 DEF OpenExDup, CallOK
<1>4. ASSUME NEW e \in End, MSGQClose(e) PROVE Right
  <2>1. link' = [link EXCEPT ![Side(e)] = None] /\ UNCHANGED <<flags, handles>>
    BY <1>4 DEF MSGQClose
  <2>2. Side(e) \in {"reader", "writer"}
    BY DEF Side
  <2> QED
    BY <1>b, <2>1, <2>2
<1>5. ASSUME CloseEnd(t) PROVE Right
  BY <1>b, <1>c, <1>4, <1>5 DEF CloseEnd, CallOK
<1>6. ASSUME CloseReader(t) PROVE Right
  BY <1>b, <1>c, <1>4, <1>6 DEF CloseReader, CallOK
<1>7. ASSUME NEW e \in End, OpenNamed(t, e) PROVE Right
  BY <1>b, <1>7 DEF OpenNamed, NamedEnd, qVars
<1>8. ASSUME DropHandle(t) PROVE Right
  <2>1. handles[own[t]] \in Nat \ {0} /\ own[t] \in End
    BY <1>b, <1>c, <1>8, HandleToDrop DEF DropHandle, CallOK
  <2> QED
    BY <1>b, <1>8, <2>1 DEF DropHandle, qVars
<1>9. ASSUME
          \/ ReadFails(t) \/ ReadAlert(t) \/ ReadSmall(t) \/ ReadBig(t) \/ ReadBigDone(t)
          \/ ReadWait(t) \/ Wait(t) \/ WriteFails(t) \/ WriteAlert(t) \/ WriteSmall(t)
          \/ WriteBig(t) \/ WriteBigDone(t) \/ WriteWait(t) \/ Signal(t) \/ UnlockReader(t)
          \/ OpenExFails(t) \/ PreClose(t) \/ Done(t) \/ WaitEnds(t) \/ WriteFaults(t)
          \/ WriteBigFaults(t)
          \/ \E e \in End : Read(t, e) \/ Write(t, e) \/ Close(t, e) \/ OpenEx(t, e)
      PROVE UNCHANGED <<flags, link, handles>>
  BY <1>9
     DEF ReadFails, ReadAlert, ReadSmall, ReadBig, ReadBigDone, ReadWait, Wait,
         WriteFails, WriteAlert, WriteSmall, WriteBig, WriteBigDone, WriteWait, Signal,
         UnlockReader, OpenExFails, PreClose, Done, WaitEnds, WriteFaults,
         WriteBigFaults, Read, Write, Close, OpenEx, Enter, qVars, endVars
<1> QED
  BY <1>r, <1>1, <1>2, <1>3, <1>5, <1>6, <1>7, <1>8, <1>9 DEF Acts, Step

\* No writer waits for room that is there, unless a reader will tell it.
LEMMA RoomToldStep ==
    ASSUME TypeOK, CallsOK, EndsOK, CountsOK, OneCloser, CloseTold, RoomTold, ~undefined,
           NEW t \in Thread, Acts(t)
    PROVE  RoomTold'
<1> SUFFICES ASSUME NEW u \in Thread, Untold(u, "writer")', HasRoom', ~Finished("writer")', ~unsignalled'
             PROVE  \E v \in Thread : pc'[v] = "rcopy"
  BY DEF RoomTold
<1>1. /\ Untold(u, "writer") /\ link'.writer = link.writer /\ link.writer # None
      /\ ~event'[link.writer]
  BY UntoldBefore DEF Fine
<1>2. CASE pc'[t] = "rcopy"
  BY <1>2
<1>3. CASE HasRoom /\ ~unsignalled /\ (pc[t] = "rcopy" => pc'[t] = "rcopy")
  <2>1. CASE ~Finished("writer")
    <3>1. PICK v \in Thread : pc[v] = "rcopy"
      BY <1>1, <1>3, <2>1 DEF RoomTold
    <3>2. pc'[v] = "rcopy"
      BY <1>3, <3>1, ActsOnCall DEF OnlyCall, Moved
    <3> QED
      BY <3>2
  <2>2. CASE Finished("writer")
    <3>1. PICK o \in End : Orphan(o)
      BY <1>1, <2>2 DEF CloseTold
    <3>2. Side(o) = "reader" /\ link.reader = None /\ flags.named
      BY <1>1, <3>1 DEF EndsOK, Orphan, Side
    <3> QED
      BY <1>1, <2>2, <3>1, <3>2, OrphanStays
  <2> QED
    BY <2>1, <2>2
<1> QED
  BY <1>1, <1>2, <1>3, RoomComes

-----------------------------------------------------------------------------
(* The invariant *)

\* It holds at the start,
LEMMA InvInit == Init => IInv
<1> SUFFICES ASSUME Init PROVE IInv
  OBVIOUS
<1>1. /\ \A t \in Thread : pc[t] = "idle" /\ own[t] = None /\ node[t] = None /\ target[t] = None
      /\ locks = [e \in End |-> 0] /\ queue = <<>> /\ pAlert = None /\ writes = 0 /\ taken = {}
  BY DEF Init
<1>2. PICK r \in ReaderEnd \cup {None}, w \in WriterEnd \cup {None} :
          /\ {r, w} # {None}
          /\ link = [reader |-> r, writer |-> w]
          /\ life = [e \in End |-> IF e \in {r, w} THEN "live" ELSE "fresh"]
          /\ handles = [e \in End |-> IF e \in {r, w} THEN 1 ELSE 0]
          /\ event = [e \in End |-> e = w]
  BY DEF Init
<1>3. /\ None \notin End /\ ReaderEnd \cap WriterEnd = {} /\ End = ReaderEnd \cup WriterEnd
      /\ MaxHandles \in [End -> Nat \ {0}] /\ MaxNumMsg \in Nat \ {0} /\ MaxWrites \in Nat
      /\ IsFiniteSet(Thread)
  BY MsgQueueAssumption DEF End
<1>4. /\ \A e \in End : Holders(e) = {} /\ Signallers(e) = {} /\ Droppers(e) = {}
      /\ Copying("wcopy") = {} /\ Copying("rcopy") = {}
  BY <1>1, <1>3 DEF Holders, Signallers, Droppers, Copying
<1>5. Cardinality({}) = 0 /\ Cardinality(Thread) \in Nat
  BY <1>3, FS_EmptySet, FS_CardinalityType
<1>6. TypeOK
  <2>1. /\ flags \in Flags /\ invalid \in BOOLEAN /\ freeNodes \in Nat /\ dwCurNumMsg \in Int
        /\ queue \in Seq(Message) /\ pAlert \in Alert \cup {None}
    <3>1. freeNodes = (IF flags.nocommit THEN 0 ELSE MaxNumMsg) /\ flags \in Flags
          /\ invalid = FALSE /\ dwCurNumMsg = 0
      BY DEF Init
    <3>2. <<>> \in Seq(Message)
      OBVIOUS
    <3>3. freeNodes \in Nat
      <4>1. CASE flags.nocommit
        BY <3>1, <4>1
      <4>2. CASE ~flags.nocommit
        BY <1>3, <3>1, <4>2
      <4> QED
        BY <4>1, <4>2
    <3>4. flags \in Flags /\ invalid \in BOOLEAN /\ dwCurNumMsg \in Int
      <4>1. flags \in Flags
        BY <3>1
      <4>2. invalid \in BOOLEAN
        BY <3>1
      <4>3. dwCurNumMsg \in Int
        BY <3>1
      <4> QED
        BY <4>1, <4>2, <4>3
    <3>5. queue \in Seq(Message)
      BY <1>1, <3>2
    <3>6. pAlert \in Alert \cup {None}
      BY <1>1
    <3> QED
      BY <3>3, <3>4, <3>5, <3>6
  <2>2. /\ link \in [reader : ReaderEnd \cup {None}, writer : WriterEnd \cup {None}]
        /\ life \in [End -> {"fresh", "live", "gone"}] /\ event \in [End -> BOOLEAN]
        /\ handles \in [End -> Nat] /\ (\A e \in End : handles[e] <= MaxHandles[e])
    BY <1>2, <1>3
  <2>3. locks \in [End -> 0..2 * Cardinality(Thread)]
    BY <1>1, <1>5
  <2>4. /\ pc \in [Thread -> Labels] /\ own \in [Thread -> End \cup {None}]
        /\ target \in [Thread -> End \cup {None}] /\ node \in [Thread -> Message \cup {None}]
        /\ writes \in 0..MaxWrites /\ taken \subseteq 1..writes
        /\ unsignalled \in BOOLEAN /\ crossed \in BOOLEAN /\ undefined \in BOOLEAN
    <3>1. pc = [t \in Thread |-> "idle"] /\ own = [t \in Thread |-> None]
          /\ target = [t \in Thread |-> None] /\ node = [t \in Thread |-> None]
          /\ unsignalled = FALSE /\ crossed = FALSE /\ undefined = FALSE
      BY DEF Init
    <3>2. "idle" \in Labels
      BY DEF Labels
    <3>3. 0 \in 0..MaxWrites
      BY <1>3
    <3> QED
      BY <1>1, <3>1, <3>2, <3>3
  <2> QED
    BY <2>1, <2>2, <2>3, <2>4 DEF TypeOK
<1>7. CallsOK
  BY <1>1 DEF CallsOK, CallOK
<1>8. EndsOK
  <2>1. \A e \in End : link[Side(e)] = e <=> e \in {r, w}
    BY <1>2, <1>3 DEF Side
  <2>2. \A side \in {"reader", "writer"} : link[side] \in {r, w} /\ link[side] \in End \cup {None}
    BY <1>2, <1>3
  <2> QED
    BY <1>2, <1>3, <2>1, <2>2 DEF EndsOK, Orphan
<1>9. CountsOK
  <2> SUFFICES ASSUME NEW e \in End
               PROVE  /\ locks[e] = Cardinality(Holders(e)) + Cardinality(Signallers(e))
                      /\ handles[e] >= Cardinality(Droppers(e))
    BY DEF CountsOK
  <2>1. /\ Cardinality(Holders(e)) = 0 /\ Cardinality(Signallers(e)) = 0
        /\ Cardinality(Droppers(e)) = 0
    BY <1>4, <1>5
  <2>2. locks[e] = 0 /\ handles[e] \in {0, 1}
    BY <1>1, <1>2
  <2> QED
    BY <2>1, <2>2
<1>10. OneCloser
  BY <1>1 DEF OneCloser, Closes
<1>11. NodesExact
  <2>1. freeNodes = IF flags.nocommit THEN 0 ELSE MaxNumMsg
    BY DEF Init
  <2>2. dwCurNumMsg = 0 /\ Len(queue) = 0
    BY DEF Init
  <2>3. Cardinality(Copying("wcopy")) = 0 /\ Cardinality(Copying("rcopy")) = 0
    BY <1>4, <1>5
  <2>4. MaxNumMsg + Cardinality(Thread) - 1 \in Nat
    BY <1>3, <1>5
  <2> QED
    BY <1>3, <2>1, <2>2, <2>3, <2>4 DEF NodesExact
<1>12. Places
  BY <1>1 DEF Places, QueueApart, NodesApart, OnePlace, InQueue, IsAlert, InNode
<1>13. Woken /\ ReaderTold /\ CloseTold /\ RoomTold
  BY <1>1 DEF Woken, ReaderTold, CloseTold, RoomTold, Untold, Waits, IsQueueEmpty
<1> QED
  BY <1>6, <1>7, <1>8, <1>9, <1>10, <1>11, <1>12, <1>13 DEF IInv

\* and every step keeps it.
LEMMA InvStep == IInv /\ [Next]_vars => IInv'
<1> SUFFICES ASSUME IInv, [Next]_vars PROVE IInv'
  OBVIOUS
<1>1. CASE Next
  <2>1. PICK t \in Thread : Acts(t)
    BY <1>1 DEF Next, Acts
  <2>2. ~undefined
    BY <1>1 DEF Next
  <2>3. TypeOK' /\ CallsOK' /\ EndsOK' /\ CountsOK'
    BY <2>1, <2>2, TypeStep, CallsStep, EndsStep, CountsStep DEF IInv
  <2>4. OneCloser' /\ NodesExact' /\ Places'
    BY <2>1, <2>2, OneCloserStep, NodesStep, PlacesStep DEF IInv
  <2>5. Woken' /\ ReaderTold'
    BY <2>1, WokenStep, ReaderToldStep DEF IInv
  <2>6. CloseTold' /\ RoomTold'
    BY <2>1, <2>2, CloseToldStep, RoomToldStep DEF IInv
  <2> QED
    BY <2>3, <2>4, <2>5, <2>6 DEF IInv
<1>2. CASE UNCHANGED vars
  <2>1. UNCHANGED <<flags, invalid, queue, pAlert, freeNodes, dwCurNumMsg, link>>
    BY <1>2 DEF vars, qVars
  <2>2. UNCHANGED <<life, handles, locks, event, pc, own, node, target>>
    BY <1>2 DEF vars, endVars
  <2>3. UNCHANGED <<writes, taken, unsignalled, crossed, undefined>>
    BY <1>2 DEF vars, history
  <2>4. /\ \A e : Holders(e)' = Holders(e) /\ Signallers(e)' = Signallers(e)
                  /\ Droppers(e)' = Droppers(e)
        /\ \A label : Copying(label)' = Copying(label)
    BY <2>2 DEF Holders, Signallers, Droppers, Copying
  <2>5. TypeOK'
    BY <2>1, <2>2, <2>3 DEF IInv, TypeOK
  <2>6. CallsOK' /\ EndsOK'
    BY <2>1, <2>2, <2>3 DEF IInv, CallsOK, CallOK, EndsOK, Orphan
  <2>7. CountsOK' /\ OneCloser'
    BY <2>2, <2>3, <2>4 DEF IInv, CountsOK, OneCloser, Closes
  <2>8. NodesExact'
    BY <2>1, <2>4 DEF IInv, NodesExact
  <2>9. Places'
    BY <2>1, <2>2, <2>3, PlacesSame DEF IInv, Places, OnePlace
  <2>10. Woken' /\ ReaderTold'
    BY <2>1, <2>2 DEF IInv, Woken, ReaderTold
  <2>11. CloseTold'
    BY <2>1, <2>2, <2>3 DEF IInv, CloseTold, Untold, Waits, Finished, Broken, HasHandles, Orphan
  <2>12. RoomTold'
    BY <2>1, <2>2, <2>3 DEF IInv, RoomTold, Untold, Waits, HasRoom, HasNode, Finished, Broken, HasHandles
  <2> QED
    BY <2>5, <2>6, <2>7, <2>8, <2>9, <2>10, <2>11, <2>12 DEF IInv
<1> QED
  BY <1>1, <1>2

\* It holds in every state.
LEMMA Invariant == Spec => []IInv
<1> QED
  BY InvInit, InvStep, PTL DEF Spec

-----------------------------------------------------------------------------
(* What it gives *)

\* Types, and no node lost or counted twice (PreAllocQNodes, GetQNode, FreeQNode).
THEOREM NodesAreExact == Spec => []QueueSound
<1>1. IInv => QueueSound
  BY DEF IInv, QueueSound
<1> QED
  BY <1>1, Invariant, PTL

\* None is no message.
LEMMA NoneApart == None \notin Message
<1>1. Message \subseteq [id : Nat, big : BOOLEAN]
  BY MsgQueueAssumption DEF Message
<1> QED
  BY <1>1, MsgQueueAssumption

\* As many messages are in the queue as its positions, and as the alert has.
LEMMA MessagesCount ==
    ASSUME TypeOK, Places
    PROVE  /\ IsFiniteSet(Messages) /\ Cardinality(Messages) = Len(queue) + IF pAlert = None THEN 0 ELSE 1
           /\ IsFiniteSet({n.id : n \in Messages})
           /\ Cardinality({n.id : n \in Messages}) = Cardinality(Messages)
<1> DEFINE Q == {queue[i] : i \in DOMAIN queue}
<1>1. /\ DOMAIN queue = 1..Len(queue) /\ Len(queue) \in Nat
      /\ \A i \in DOMAIN queue : queue[i] \in Message
      /\ None \notin Message
  <2>1. queue \in Seq(Message)
    BY DEF TypeOK
  <2> QED
    BY <2>1, NoneApart
<1>2. \A i, j \in DOMAIN queue : queue[i].id = queue[j].id => i = j
  BY DEF Places, QueueApart
<1>3. IsFiniteSet(1..Len(queue)) /\ Cardinality(1..Len(queue)) = Len(queue)
  BY <1>1, FS_Interval
<1>4. [i \in 1..Len(queue) |-> queue[i]] \in Bijection(1..Len(queue), Q)
  BY <1>1, <1>2 DEF Bijection, Injection, Surjection, IsInjective
<1>5. IsFiniteSet(Q) /\ Cardinality(Q) = Len(queue)
  BY <1>3, <1>4, FS_Bijection DEF ExistsBijection
<1>6. IsFiniteSet(Messages) /\ Cardinality(Messages) = Len(queue) + IF pAlert = None THEN 0 ELSE 1
  <2>1. CASE pAlert = None
    <3>1. Messages = Q
      BY <2>1 DEF Messages
    <3>2. IsFiniteSet(Messages) /\ Cardinality(Messages) = Len(queue)
      BY <1>5, <3>1
    <3> QED
      BY <1>1, <2>1, <3>2
  <2>2. CASE pAlert # None
    <3>1. Messages = Q \cup {pAlert}
      BY <2>2 DEF Messages
    <3>2. pAlert \notin Q
      BY <2>2 DEF Places, OnePlace, IsAlert, InQueue
    <3> QED
      BY <1>5, <2>2, <3>1, <3>2, FS_AddElement
  <2> QED
    BY <2>1, <2>2
<1>7. \A m, n \in Messages : m.id = n.id => m = n
  <2>1. \A m \in Messages : \/ pAlert # None /\ m = pAlert
                            \/ \E i \in DOMAIN queue : m = queue[i]
    BY DEF Messages
  <2>2. pAlert # None => \A i \in DOMAIN queue : queue[i].id # pAlert.id
    BY DEF Places, OnePlace, IsAlert, InQueue
  <2> QED
    BY <1>2, <2>1, <2>2
<1>8. [m \in Messages |-> m.id] \in Bijection(Messages, {n.id : n \in Messages})
  BY <1>7 DEF Bijection, Injection, Surjection, IsInjective
<1>9. IsFiniteSet({n.id : n \in Messages}) /\ Cardinality({n.id : n \in Messages}) = Cardinality(Messages)
  BY <1>6, <1>8, FS_Bijection DEF ExistsBijection
<1> QED
  BY <1>6, <1>9

\* As many messages are being copied as there are threads that copy one.
LEMMA CopiersCount ==
    ASSUME TypeOK, Places
    PROVE  LET copiers == {t \in Thread : node[t] # None} IN
           /\ IsFiniteSet({node[t].id : t \in copiers})
           /\ Cardinality({node[t].id : t \in copiers}) = Cardinality(copiers)
<1> DEFINE copiers == {t \in Thread : node[t] # None}
<1>1. IsFiniteSet(copiers)
  BY FS_Subset, MsgQueueAssumption
<1>2. [t \in copiers |-> node[t].id] \in Bijection(copiers, {node[t].id : t \in copiers})
  BY DEF Places, NodesApart, Bijection, Injection, Surjection, IsInjective
<1>3. /\ IsFiniteSet({node[t].id : t \in copiers})
      /\ Cardinality({node[t].id : t \in copiers}) = Cardinality(copiers)
  BY <1>1, <1>2, FS_Bijection DEF ExistsBijection
<1> QED
  BY <1>3

\* Every message is in one place: waiting, with one thread, read or thrown away
\* (ReadQueueBuffer, WriteQueueBuffer, MSGQClose).
THEOREM MessageOnce == Spec => []EachMessageOnce
<1>1. IInv => EachMessageOnce
  <2> SUFFICES ASSUME TypeOK, Places PROVE EachMessageOnce
    BY DEF IInv
  <2> DEFINE copiers == {t \in Thread : node[t] # None}
             M == {n.id : n \in Messages}
             C == {node[t].id : t \in copiers}
  <2>1. /\ \A n : n \in M <=> InQueue(n) \/ IsAlert(n)
        /\ \A n : n \in C <=> InNode(n)
    <3>1. None \notin Message /\ pAlert \in Alert \cup {None}
          /\ \A i \in DOMAIN queue : queue[i] \in Message
      <4>1. queue \in Seq(Message) /\ pAlert \in Alert \cup {None}
        BY DEF TypeOK
      <4> QED
        BY <4>1, NoneApart
    <3> QED
      BY <3>1 DEF Messages, InQueue, IsAlert, InNode
  <2>2. 1..writes = taken \cup M \cup C
    BY <2>1 DEF Places, OnePlace
  <2>3. taken \cap M = {} /\ (taken \cup M) \cap C = {}
    BY <2>1 DEF Places, OnePlace
  <2>4. writes \in Nat /\ IsFiniteSet(1..writes) /\ Cardinality(1..writes) = writes
    BY FS_Interval, MsgQueueAssumption DEF TypeOK
  <2>5. IsFiniteSet(taken)
    BY <2>2, <2>4, FS_Subset
  <2>6. IsFiniteSet(M) /\ Cardinality(M) = Cardinality(Messages)
        /\ IsFiniteSet(C) /\ Cardinality(C) = Cardinality(copiers)
    BY MessagesCount, CopiersCount
  <2> HIDE DEF M, C, copiers
  <2>7. IsFiniteSet(taken \cup M) /\ Cardinality(taken \cup M) = Cardinality(taken) + Cardinality(M)
    <3>1. Cardinality(taken \cap M) = 0
      BY <2>3, FS_EmptySet
    <3>2. Cardinality(taken \cup M) = Cardinality(taken) + Cardinality(M) - Cardinality(taken \cap M)
          /\ IsFiniteSet(taken \cup M)
      BY <2>5, <2>6, FS_Union
    <3> QED
      BY <2>5, <2>6, <3>1, <3>2, FS_CardinalityType
  <2>8. Cardinality(taken \cup M \cup C) = Cardinality(taken) + Cardinality(M) + Cardinality(C)
    <3>1. Cardinality((taken \cup M) \cap C) = 0
      BY <2>3, FS_EmptySet
    <3>2. Cardinality((taken \cup M) \cup C)
             = Cardinality(taken \cup M) + Cardinality(C) - Cardinality((taken \cup M) \cap C)
      BY <2>6, <2>7, FS_Union
    <3> QED
      BY <2>5, <2>6, <2>7, <3>1, <3>2, FS_CardinalityType
  <2>9. writes = Cardinality(taken) + Cardinality(Messages) + Cardinality(copiers)
    BY <2>2, <2>4, <2>6, <2>8
  <2> QED
    BY <2>2, <2>9, MessagesCount DEF EachMessageOnce, M, C, copiers
<1> QED
  BY <1>1, Invariant, PTL

\* Nobody sleeps while there is something for it to do: the calls of SetQEvent and
\* ResetQEvent are enough.
THEOREM NobodySleepsInVain == Spec => []NoSleeper
<1>1. IInv => NoSleepingReader
  <2> SUFFICES ASSUME IInv, NEW t \in Thread, pc[t] = "rsleep", target[t] = link.reader,
                      ~IsQueueEmpty(queue, pAlert)
               PROVE  \E u \in Thread : pc[u] = "signal" /\ target[u] = target[t]
    BY DEF NoSleepingReader
  <2>1. target[t] # None /\ ~event[target[t]]
    BY MsgQueueAssumption DEF IInv, CallsOK, CallOK, Woken, End
  <2> QED
    BY <2>1 DEF IInv, ReaderTold
<1>2. IInv => NoSleepingWriter
  <2> SUFFICES ASSUME IInv, NEW t \in Thread, pc[t] = "wsleep", target[t] = link.writer, HasRoom,
                      ~Finished("writer"), ~unsignalled, ~crossed, Copying("preclose") = {}
               PROVE  Copying("rcopy") # {}
    BY DEF NoSleepingWriter
  <2>1. ~event[target[t]] /\ \A u \in Thread : pc[u] # "preclose"
    BY DEF IInv, Woken, Copying
  <2>2. Untold(t, "writer")
    BY <2>1 DEF Untold, Waits
  <2>3. \E u \in Thread : pc[u] = "rcopy"
    BY <2>2 DEF IInv, RoomTold
  <2> QED
    BY <2>3 DEF Copying
<1> QED
  BY <1>1, <1>2, Invariant, PTL DEF NoSleeper

\* No end is closed under a call that is about it (LockHandleData, UnlockHandleData).
THEOREM EndsAreKept == Spec => []EndKept
<1>1. IInv => EndKept
  BY DEF IInv, CallsOK, CallOK, EndKept
<1> QED
  BY <1>1, Invariant, PTL

\* The close of the last handle of an end leaves nobody asleep (MSGQPreClose).
THEOREM CloseStrandsNobody == Spec => []NobodyStranded
<1>1. IInv => NobodyStranded
  <2> SUFFICES ASSUME IInv, ~crossed, NEW t \in Thread, Stranded(t)
               PROVE  \E e \in End : Orphan(e)
    BY DEF NobodyStranded
  <2> DEFINE side == Side(target[t])
  <2>1. /\ pc[t] \in {"rsleep", "wsleep"} /\ Finished(side) /\ target[t] = link[side]
        /\ \A u \in Thread : pc[u] # "preclose"
    BY DEF Stranded, Copying
  <2>2. /\ pc[t] = "rsleep" => target[t] \in ReaderEnd
        /\ pc[t] = "wsleep" => target[t] \in WriterEnd
    BY DEF IInv, CallsOK, CallOK
  <2>3. /\ side \in {"reader", "writer"}
        /\ pc[t] = IF side = "reader" THEN "rsleep" ELSE "wsleep"
    BY <2>1, <2>2, MsgQueueAssumption DEF Side
  <2>4. Untold(t, side)
    BY <2>1, <2>3 DEF IInv, Woken, Untold, Waits
  <2> QED
    BY <2>1, <2>3, <2>4 DEF IInv, CloseTold
<1> QED
  BY <1>1, Invariant, PTL

=============================================================================
