----------------------------- MODULE WaitProofs -----------------------------
(***************************************************************************)
(* Proofs about wait objects: whatever calls, interrupts, timeouts and     *)
(* terminations interleave, no waiter is lost and no wait is ended twice,  *)
(* for any threads and objects.                                            *)
(***************************************************************************)
EXTENDS WaitObjects, PrioSeqProofs

-----------------------------------------------------------------------------
(* The inductive invariant *)

WaitPCs == {"wait", "woken", "link", "boost", "dequeue"}

\* A wait for an interrupt event polls, or it has no timeout and its thread is not
\* terminated.  Other waits may lose their proxy there, and run while they count as
\* blocked: the code has no CLEANEVENT for them.
PlainIntrWaits ==
    \A t \in Threads : \A w \in Waits[t] :
        IsIntr(w[1]) => w[2] = "zero" \/ (w[2] = "infinite" /\ t \notin Mortal)

\* Where a thread is in its life, and in a call with what it is about.
LifeOK(t) ==
    /\ pc[t] = "gone" <=> life[t] = "gone"
    /\ pc[t] \in {"exit", "release"} => life[t] = "dead"
    /\ life[t] = "dead" => pc[t] \in {"exit", "release", "leave", "postunlink"}
    /\ life[t] # "alive" => t \in Mortal
CallOK(t) ==
    /\ pc[t] = "modify" => obj[t] \in Events
    /\ pc[t] = "wakeflat" => obj[t] \in ManualEvents
    /\ pc[t] = "sempop" => obj[t] \in Semaphores
    /\ pc[t] \in {"link", "boost", "leave"} => obj[t] \in Mutexes
    /\ stub[t] # <<>> => pc[t] = "wakeflat"
    /\ Distinct(stub[t])
    /\ pc[t] = "boost" => HasClean(t) /\ (current[t] => Queued(obj[t], lpProxy[t]))

\* What a thread in a wait waits for, and how its lists of proxies divide it up.
WaitOK(t) ==
    /\ pc[t] \in WaitPCs => <<waits[t], timeout[t]>> \in Waits[t]
    /\ pc[t] \notin WaitPCs => waits[t] = <<>> /\ ~current[t] /\ base[t] = <<>>
    /\ ~current[t] => lpProxy[t] = <<>>
    /\ current[t] => base[t] = <<>>
    /\ pc[t] \in {"link", "dequeue"} => ~current[t]
ListsOK(t) ==
    current[t] =>
        /\ Distinct(lpPendProxy[t]) /\ Distinct(lpProxy[t])
        /\ \A o \in Objects :
              Queued(o, waits[t]) <=> Queued(o, lpPendProxy[t]) \/ Queued(o, lpProxy[t])
        /\ \A o \in Objects : ~(Queued(o, lpPendProxy[t]) /\ Queued(o, lpProxy[t]))
        /\ timeout[t] = "zero" /\ ~HasClean(t) => lpProxy[t] = <<>>

\* A thread does not run in a blocked wait, unless to find its place among the
\* sleepers again.
RunOK(t) ==
    /\ current[t] /\ pc[t] = "woken" => runstate[t] = "blocked" \/ needsleep[t]
    /\ runstate[t] = "blocked" => pc[t] = "woken" /\ ~needsleep[t]
    /\ sleeping[t] => pc[t] = "woken" /\ runstate[t] # "runnable" /\ timeout[t] = "finite"
    /\ sleeping[t] /\ runstate[t] = "blocked" => retval[t] = "timeout"
StateOK(t) ==
    /\ current[t] /\ bWaitState[t] = "blocked" <=> runstate[t] = "blocked"
    /\ runstate[t] = "blocked" => lpPendProxy[t] = <<>>
    /\ pc[t] \in {"wait", "boost"} \/ (pc[t] = "woken" /\ needsleep[t]) =>
          IF current[t] THEN bWaitState[t] = "processing"
          ELSE bWaitState[t] = "signalled" /\ dwPendReturn[t] = granted[t]
    /\ pc[t] \in {"link", "dequeue"} \/ (pc[t] = "woken" /\ ~needsleep[t] /\ ~current[t]) =>
          retval[t] = granted[t] \/ granted[t] = "killed"

\* A proxy is queued at the objects its thread has listed, until the wait has ended.
PlaceOK(t, o) ==
    /\ QueuedFor(t, o) => Queued(o, lpProxy[t]) \/ (o \notin IntrEvents /\ Queued(o, base[t]))
    /\ current[t] /\ Queued(o, lpProxy[t]) => QueuedFor(t, o)

\* Nobody waits for what is there.
EventOK(o) == \A t \in Threads : current[t] /\ Queued(t, queue[o]) => ~state[o]
IntrOK(o) == \A t, u \in Threads : Queued(t, queue[o]) /\ Queued(u, queue[o]) => t = u
SemaphoreOK(s) == \A t \in Threads : current[t] /\ Queued(t, queue[s]) => lCount[s] = 0
ThreadOK(t) == life[t] \in {"dead", "gone"} => pc[t] = "exit" \/ queue[t] = <<>>
MutexOK(m) ==
    /\ \A t \in Threads : current[t] /\ Queued(t, queue[m]) => pOwner[m] # None
    /\ listed[m] # None => listed[m] = pOwner[m]
    /\ pOwner[m] # None =>
          \/ listed[m] = pOwner[m]
          \/ obj[pOwner[m]] = m /\ pc[pOwner[m]] \in {"link", "leave"}
    /\ pOwner[m] # None => pc[pOwner[m]] # "gone"
    /\ \A t \in Threads : obj[t] = m =>
          /\ pc[t] = "link" => pOwner[m] = t
          /\ pc[t] = "leave" => pOwner[m] = t /\ listed[m] = None

IInv ==
    /\ CountsSound
    /\ \A t \in Threads : LifeOK(t) /\ CallOK(t) /\ WaitOK(t) /\ ListsOK(t) /\ RunOK(t)
                          /\ StateOK(t) /\ ThreadOK(t)
    /\ \A t \in Threads, o \in Objects : PlaceOK(t, o)
    /\ \A o \in Events : EventOK(o)
    /\ \A o \in IntrEvents : IntrOK(o)
    /\ \A s \in Semaphores : SemaphoreOK(s)
    /\ \A m \in Mutexes : MutexOK(m)

----------------------------------------------------------------------------
(* The types of the variables, in the form the proofs use *)

PCs == {"idle", "wait", "woken", "link", "boost", "dequeue", "modify", "wakeflat", "sempop",
        "leave", "postunlink", "exit", "release", "gone"}

Shapes ==
    /\ state \in [Events -> BOOLEAN]
    /\ lCount \in [Semaphores -> Nat] /\ lPending \in [Semaphores -> Nat]
    /\ pOwner \in [Mutexes -> ThreadOrNone] /\ listed \in [Mutexes -> ThreadOrNone]
    /\ LockCount \in [Mutexes -> Nat]
    /\ queue \in [Objects -> Seq(Threads)]
    /\ pc \in [Threads -> PCs] /\ obj \in [Threads -> Objects \cup {None}]
    /\ type \in [Threads -> {"SET", "PULSE"}]
    /\ stub \in [Threads -> Seq(Threads)] /\ remain \in [Threads -> Nat]
    /\ toWake \in [Threads -> ThreadOrNone]
    /\ waits \in [Threads -> Seq(Objects)]
    /\ timeout \in [Threads -> {"zero", "finite", "infinite"}]
    /\ bWaitState \in [Threads -> {"signalled", "processing", "blocked"}]
    /\ current \in [Threads -> BOOLEAN]
    /\ lpPendProxy \in [Threads -> Seq(Objects)] /\ lpProxy \in [Threads -> Seq(Objects)]
    /\ base \in [Threads -> Seq(Objects)]
    /\ dwPendReturn \in [Threads -> Results] /\ retval \in [Threads -> Results]
    /\ granted \in [Threads -> Results]
    /\ runstate \in [Threads -> {"runnable", "needsrun", "blocked"}]
    /\ sleeping \in [Threads -> BOOLEAN] /\ needsleep \in [Threads -> BOOLEAN]
    /\ life \in [Threads -> {"alive", "dying", "dead", "gone"}] /\ killed \subseteq Threads

\* The waits of a thread are lists of objects of one kind, not empty and without
\* repetition.
LEMMA WaitsWellFormed ==
    ASSUME NEW t \in Threads, NEW w \in Waits[t]
    PROVE  /\ w = <<w[1], w[2]>> /\ w[1] \in Seq(Objects) /\ w[1] # <<>> /\ Distinct(w[1])
           /\ w[2] \in {"zero", "finite", "infinite"}
           /\ Len(w[1]) = 1 \/ \A i \in DOMAIN w[1] : w[1][i] \notin IntrEvents
<1>1. Waits[t] \subseteq Seq(Objects) \X {"zero", "finite", "infinite"}
  BY WaitAssumption
<1>2. w \in Seq(Objects) \X {"zero", "finite", "infinite"}
  BY <1>1
<1>3. w = <<w[1], w[2]>> /\ w[1] \in Seq(Objects) /\ w[2] \in {"zero", "finite", "infinite"}
  BY <1>2
<1> QED
  BY <1>3, WaitAssumption

\* Every object is of one kind, and None is not an object.
LEMMA Apart ==
    /\ AutoEvents \cap ManualEvents = {} /\ AutoEvents \cap IntrEvents = {}
    /\ ManualEvents \cap IntrEvents = {} /\ Events \cap Semaphores = {}
    /\ Events \cap Mutexes = {} /\ Events \cap Threads = {} /\ Semaphores \cap Mutexes = {}
    /\ Semaphores \cap Threads = {} /\ Mutexes \cap Threads = {}
    /\ None \notin Objects
<1>1. DOMAIN Kinds = 1..6
  BY DEF Kinds
<1>2. \A i, j \in 1..6 : i # j => Kinds[i] \cap Kinds[j] = {}
  BY <1>1, WaitAssumption
<1>3. /\ Kinds[1] = AutoEvents /\ Kinds[2] = ManualEvents /\ Kinds[3] = IntrEvents
      /\ Kinds[4] = Semaphores /\ Kinds[5] = Mutexes /\ Kinds[6] = Threads
  BY DEF Kinds
<1>4. /\ AutoEvents \cap ManualEvents = {} /\ AutoEvents \cap IntrEvents = {}
      /\ ManualEvents \cap IntrEvents = {}
  BY <1>2, <1>3
<1>5. /\ AutoEvents \cap Semaphores = {} /\ ManualEvents \cap Semaphores = {}
      /\ IntrEvents \cap Semaphores = {}
  BY <1>2, <1>3
<1>6. /\ AutoEvents \cap Mutexes = {} /\ ManualEvents \cap Mutexes = {}
      /\ IntrEvents \cap Mutexes = {}
  BY <1>2, <1>3
<1>7. /\ AutoEvents \cap Threads = {} /\ ManualEvents \cap Threads = {}
      /\ IntrEvents \cap Threads = {}
  BY <1>2, <1>3
<1>8. Semaphores \cap Mutexes = {} /\ Semaphores \cap Threads = {} /\ Mutexes \cap Threads = {}
  BY <1>2, <1>3
<1> QED
  BY <1>4, <1>5, <1>6, <1>7, <1>8, WaitAssumption DEF Events

LEMMA ShapesHold == ASSUME TypeOK PROVE Shapes
<1>1. waits \in [Threads -> Seq(Objects)]
  <2>1. \A s \in {w[1] : w \in UNION {Waits[t] : t \in Threads}} : s \in Seq(Objects)
    BY WaitsWellFormed
  <2>2. <<>> \in Seq(Objects)
    OBVIOUS
  <2>3. waits \in [Threads -> {w[1] : w \in UNION {Waits[t] : t \in Threads}} \cup {<<>>}]
    BY DEF TypeOK
  <2> DEFINE S == {w[1] : w \in UNION {Waits[t] : t \in Threads}}
  <2>4. S \cup {<<>>} \subseteq Seq(Objects)
    BY <2>1, <2>2
  <2> HIDE DEF S
  <2>5. waits \in [Threads -> S \cup {<<>>}]
    BY <2>3 DEF S
  <2> QED
    BY <2>4, <2>5
<1>2. LockCount \in [Mutexes -> Nat] /\ remain \in [Threads -> Nat]
  BY WaitAssumption DEF TypeOK
<1>3. timeout \in [Threads -> {"zero", "finite", "infinite"}]
  BY DEF TypeOK
<1>4. pc \in [Threads -> PCs]
  BY DEF TypeOK, PCs
<1> QED
  BY <1>1, <1>2, <1>3, <1>4 DEF TypeOK, Shapes

----------------------------------------------------------------------------
(* Who is in a queue after an operation on it *)

QueueAt(o) ==
    /\ queue[o] \in Seq(Threads) /\ Distinct(queue[o])
    /\ queue[o] # <<>> =>
          /\ Tail(queue[o]) \in Seq(Threads) /\ Distinct(Tail(queue[o]))
          /\ Head(queue[o]) \in Threads /\ Queued(Head(queue[o]), queue[o])
          /\ \A u : Queued(u, Tail(queue[o])) <=> u # Head(queue[o]) /\ Queued(u, queue[o])

LEMMA QueueHolds == ASSUME TypeOK, NEW o \in Objects PROVE QueueAt(o)
<1>1. queue[o] \in Seq(Threads) /\ Distinct(queue[o])
  BY DEF TypeOK
<1> QED
  BY <1>1, TailTakes DEF QueueAt

StubAt(t) ==
    /\ stub[t] \in Seq(Threads) /\ Distinct(stub[t])
    /\ stub[t] # <<>> =>
          /\ Tail(stub[t]) \in Seq(Threads) /\ Distinct(Tail(stub[t]))
          /\ Head(stub[t]) \in Threads /\ Queued(Head(stub[t]), stub[t])
          /\ \A u : Queued(u, Tail(stub[t])) <=> u # Head(stub[t]) /\ Queued(u, stub[t])

LEMMA StubHolds == ASSUME IInv, NEW t \in Threads PROVE StubAt(t)
<1>1. stub[t] \in Seq(Threads) /\ Distinct(stub[t])
  BY DEF IInv, CountsSound, TypeOK, CallOK
<1> QED
  BY <1>1, TailTakes DEF StubAt

\* The next object of a wait: only a wait that is current may count on it.
PendAt(t) ==
    /\ lpPendProxy[t] \in Seq(Objects)
    /\ lpPendProxy[t] # <<>> =>
          /\ Head(lpPendProxy[t]) \in Objects /\ Queued(Head(lpPendProxy[t]), lpPendProxy[t])
          /\ Tail(lpPendProxy[t]) \in Seq(Objects)
          /\ Distinct(lpPendProxy[t]) =>
                /\ Distinct(Tail(lpPendProxy[t]))
                /\ \A o : Queued(o, Tail(lpPendProxy[t])) <=>
                            o # Head(lpPendProxy[t]) /\ Queued(o, lpPendProxy[t])

LEMMA PendHolds == ASSUME TypeOK, NEW t \in Threads PROVE PendAt(t)
<1>1. lpPendProxy[t] \in Seq(Objects)
  BY DEF TypeOK
<1>2. lpPendProxy[t] # <<>> =>
          /\ Head(lpPendProxy[t]) \in Objects /\ Tail(lpPendProxy[t]) \in Seq(Objects)
          /\ Queued(Head(lpPendProxy[t]), lpPendProxy[t])
  <2> SUFFICES ASSUME lpPendProxy[t] # <<>>
               PROVE  /\ Head(lpPendProxy[t]) \in Objects
                      /\ Tail(lpPendProxy[t]) \in Seq(Objects)
                      /\ Queued(Head(lpPendProxy[t]), lpPendProxy[t])
    OBVIOUS
  <2>1. Head(lpPendProxy[t]) \in Objects /\ Tail(lpPendProxy[t]) \in Seq(Objects)
    BY <1>1, HeadTailProperties
  <2>2. 1 \in DOMAIN lpPendProxy[t] /\ lpPendProxy[t][1] = Head(lpPendProxy[t])
    BY <1>1, EmptySeq
  <2> QED
    BY <2>1, <2>2 DEF Queued
<1> QED
  BY <1>1, <1>2, TailTakes DEF PendAt

----------------------------------------------------------------------------
(* What the steps that move proxies do *)

\* A wait for an interrupt event waits for nothing else.
LEMMA IntrAlone ==
    ASSUME IInv, NEW t \in Threads, pc[t] \in WaitPCs
    PROVE  /\ waits[t] \in Seq(Objects) /\ waits[t] # <<>> /\ Distinct(waits[t])
           /\ waits[t][1] \in Objects /\ Queued(waits[t][1], waits[t])
           /\ <<waits[t], timeout[t]>> \in Waits[t]
           /\ \A o : Queued(o, waits[t]) => (o \in IntrEvents <=> ~HasClean(t))
           /\ ~HasClean(t) => \A o : Queued(o, waits[t]) => o = waits[t][1]
<1>1. <<waits[t], timeout[t]>> \in Waits[t]
  BY DEF IInv, WaitOK
<1> DEFINE w == <<waits[t], timeout[t]>>
<1>2. /\ w[1] \in Seq(Objects) /\ w[1] # <<>> /\ Distinct(w[1])
      /\ Len(w[1]) = 1 \/ \A i \in DOMAIN w[1] : w[1][i] \notin IntrEvents
  BY <1>1, WaitsWellFormed
<1>3. /\ waits[t] \in Seq(Objects) /\ waits[t] # <<>> /\ Distinct(waits[t])
      /\ Len(waits[t]) = 1 \/ \A i \in DOMAIN waits[t] : waits[t][i] \notin IntrEvents
  BY <1>2
<1>4. 1 \in DOMAIN waits[t] /\ waits[t][1] \in Objects
  BY <1>3, EmptySeq
<1>5. Len(waits[t]) = 1 => \A o : Queued(o, waits[t]) => o = waits[t][1]
  BY <1>3 DEF Queued
<1> QED
  BY <1>1, <1>3, <1>4, <1>5 DEF Queued, HasClean, IsIntr

\* A thread that looks at an object waits for it and is not queued there yet.
LEMMA LooksAt ==
    ASSUME IInv, NEW t \in Threads, NEW o \in Objects, pc[t] = "wait", Considers(t, o)
    PROVE  /\ current[t] /\ bWaitState[t] = "processing" /\ base[t] = <<>>
           /\ lpPendProxy[t] # <<>> /\ o = Head(lpPendProxy[t])
           /\ Queued(o, lpPendProxy[t]) /\ Queued(o, waits[t]) /\ ~Queued(o, lpProxy[t])
           /\ Distinct(lpPendProxy[t]) /\ Distinct(lpProxy[t])
           /\ ~QueuedFor(t, o) /\ ~Queued(t, queue[o])
           /\ o \in IntrEvents <=> ~HasClean(t)
<1>1. bWaitState[t] # "signalled" /\ lpPendProxy[t] # <<>> /\ o = Head(lpPendProxy[t])
  BY DEF Considers
<1>2. current[t] /\ bWaitState[t] = "processing"
  BY <1>1 DEF IInv, StateOK
<1>3. base[t] = <<>>
  BY <1>2 DEF IInv, WaitOK
<1>4. Queued(o, lpPendProxy[t])
  BY <1>1, PendHolds DEF PendAt, IInv, CountsSound
<1>5. ListsOK(t)
  BY DEF IInv
<1>6. /\ Queued(o, waits[t]) /\ ~Queued(o, lpProxy[t])
      /\ Distinct(lpPendProxy[t]) /\ Distinct(lpProxy[t])
  BY <1>2, <1>4, <1>5 DEF ListsOK
<1>7. PlaceOK(t, o)
  BY DEF IInv
<1>8. ~QueuedFor(t, o)
  BY <1>3, <1>6, <1>7, EmptyQueue DEF PlaceOK
<1>9. o \in IntrEvents <=> ~HasClean(t)
  BY <1>6, IntrAlone DEF WaitPCs
<1> QED
  BY <1>1, <1>2, <1>3, <1>4, <1>6, <1>8, <1>9 DEF QueuedFor

\* What WaitEnqueue does to the queue and the lists.
LEMMA EnqueueEffect ==
    ASSUME IInv, NEW t \in Threads, NEW o \in Objects, WaitEnqueue(t, o)
    PROVE  /\ queue' = [queue EXCEPT ![o] = queue'[o]]
           /\ queue'[o] \in Seq(Threads) /\ Distinct(queue'[o])
           /\ \A u : Queued(u, queue'[o]) <=> u = t \/ Queued(u, queue[o])
           /\ lpProxy' = [lpProxy EXCEPT ![t] = lpProxy'[t]]
           /\ lpProxy'[t] \in Seq(Objects) /\ Distinct(lpProxy'[t])
           /\ \A d : Queued(d, lpProxy'[t]) <=> d = o \/ Queued(d, lpProxy[t])
           /\ lpPendProxy' = [lpPendProxy EXCEPT ![t] = lpPendProxy'[t]]
           /\ lpPendProxy'[t] \in Seq(Objects) /\ Distinct(lpPendProxy'[t])
           /\ \A d : Queued(d, lpPendProxy'[t]) <=> d # o /\ Queued(d, lpPendProxy[t])
<1>1. pc[t] = "wait" /\ Considers(t, o)
  BY DEF WaitEnqueue, WaitOneMore, At
<1>2. TypeOK
  BY DEF IInv, CountsSound
<1>3. Shapes
  BY <1>2, ShapesHold
<1>4. queue[o] \in Seq(Threads) /\ Distinct(queue[o]) /\ ~Queued(t, queue[o])
  BY <1>1, <1>2, LooksAt, QueueHolds DEF QueueAt
<1>5. lpProxy[t] \in Seq(Objects) /\ Distinct(lpProxy[t]) /\ ~Queued(o, lpProxy[t])
  BY <1>1, <1>3, LooksAt DEF Shapes
<1>6. /\ lpPendProxy[t] # <<>> /\ o = Head(lpPendProxy[t]) /\ Distinct(lpPendProxy[t])
      /\ PendAt(t)
  BY <1>1, <1>2, LooksAt, PendHolds
<1>7. /\ queue' = [queue EXCEPT ![o] = queue'[o]]
      /\ queue'[o] \in Seq(Threads) /\ Distinct(queue'[o])
      /\ \A u : Queued(u, queue'[o]) <=> u = t \/ Queued(u, queue[o])
  <2>1. CASE o \in Flat
    <3>1. queue' = [queue EXCEPT ![o] = Append(queue[o], t)]
      BY <2>1 DEF WaitEnqueue, EnqueueProxy
    <3>2. queue'[o] = Append(queue[o], t)
      BY <1>3, <3>1 DEF Shapes
    <3>3. /\ Append(queue[o], t) \in Seq(Threads) /\ Distinct(Append(queue[o], t))
          /\ \A u : Queued(u, Append(queue[o], t)) <=> u = t \/ Queued(u, queue[o])
      BY <1>4, AppendAdds
    <3> QED
      BY <3>1, <3>2, <3>3
  <2>2. CASE o \notin Flat
    <3>1. queue' = [queue EXCEPT ![o] = Enqueue(queue[o], t, Prio[t], Prio)]
      BY <2>2 DEF WaitEnqueue, EnqueueProxy
    <3>2. queue'[o] = Enqueue(queue[o], t, Prio[t], Prio)
      BY <1>3, <3>1 DEF Shapes
    <3>3. /\ Enqueue(queue[o], t, Prio[t], Prio) \in Seq(Threads)
          /\ Distinct(Enqueue(queue[o], t, Prio[t], Prio))
          /\ \A u : Queued(u, Enqueue(queue[o], t, Prio[t], Prio)) <=>
                    u = t \/ Queued(u, queue[o])
      BY <1>4, EnqueueAdds
    <3> QED
      BY <3>1, <3>2, <3>3
  <2> QED
    BY <2>1, <2>2
<1>8. /\ lpProxy' = [lpProxy EXCEPT ![t] = lpProxy'[t]]
      /\ lpProxy'[t] \in Seq(Objects) /\ Distinct(lpProxy'[t])
      /\ \A d : Queued(d, lpProxy'[t]) <=> d = o \/ Queued(d, lpProxy[t])
  <2>1. lpProxy' = [lpProxy EXCEPT ![t] = <<o>> \o lpProxy[t]]
    BY DEF WaitEnqueue
  <2>2. lpProxy'[t] = <<o>> \o lpProxy[t]
    BY <1>3, <2>1 DEF Shapes
  <2>3. /\ <<o>> \o lpProxy[t] \in Seq(Objects) /\ Distinct(<<o>> \o lpProxy[t])
        /\ \A d : Queued(d, <<o>> \o lpProxy[t]) <=> d = o \/ Queued(d, lpProxy[t])
    BY <1>5, ConsAdds
  <2> QED
    BY <2>1, <2>2, <2>3
<1>9. /\ lpPendProxy' = [lpPendProxy EXCEPT ![t] = lpPendProxy'[t]]
      /\ lpPendProxy'[t] \in Seq(Objects) /\ Distinct(lpPendProxy'[t])
      /\ \A d : Queued(d, lpPendProxy'[t]) <=> d # o /\ Queued(d, lpPendProxy[t])
  <2>1. lpPendProxy' = [lpPendProxy EXCEPT ![t] = Tail(lpPendProxy[t])]
    BY DEF WaitEnqueue
  <2>2. lpPendProxy'[t] = Tail(lpPendProxy[t])
    BY <1>3, <2>1 DEF Shapes
  <2> QED
    BY <1>6, <2>1, <2>2 DEF PendAt
<1> QED
  BY <1>7, <1>8, <1>9

\* The same of DequeueProxy: t leaves o, the next object of base, with the stub events
\* its proxy there may have moved to.
DequeuesFrom(t, o) ==
    /\ o = Head(base[t]) /\ Queued(o, base[t]) /\ base[t] # <<>>
    /\ queue' = [queue EXCEPT ![o] = queue'[o]]
    /\ queue'[o] \in Seq(Threads) /\ Distinct(queue'[o])
    /\ \A u : Queued(u, queue'[o]) <=> u # t /\ Queued(u, queue[o])
    /\ base' = [base EXCEPT ![t] = base'[t]] /\ base'[t] \in Seq(Objects)
    /\ \A d : Queued(d, base[t]) <=> d = o \/ Queued(d, base'[t])
    /\ stub' \in [Threads -> Seq(Threads)]
    /\ \A v \in Threads :
          /\ Distinct(stub'[v])
          /\ stub[v] = <<>> => stub'[v] = <<>>
          /\ \A u : Queued(u, stub'[v]) <=>
                Queued(u, stub[v]) /\ ~(u = t /\ o \in ManualEvents /\ obj[v] = o)

LEMMA DequeueEffect ==
    ASSUME IInv, NEW t \in Threads, DequeueProxy(t)
    PROVE  \E o \in Objects : DequeuesFrom(t, o)
<1>o. PICK o : o = Head(base[t])
  OBVIOUS
<1>1. TypeOK
  BY DEF IInv, CountsSound
<1>2. Shapes
  BY <1>1, ShapesHold
<1>3. base[t] # <<>> /\ base[t] \in Seq(Objects)
  BY <1>2 DEF DequeueProxy, Shapes
<1>4. o \in Objects /\ Tail(base[t]) \in Seq(Objects)
  BY <1>o, <1>3, HeadTailProperties
<1>5. \A d : Queued(d, base[t]) <=> d = o \/ Queued(d, Tail(base[t]))
  <2>1. DOMAIN base[t] = 1..Len(base[t]) /\ Len(base[t]) \in Nat \ {0} /\ o = base[t][1]
    BY <1>o, <1>3, EmptySeq
  <2>2. /\ DOMAIN Tail(base[t]) = 1..Len(base[t]) - 1
        /\ \A i \in 1..Len(base[t]) - 1 : Tail(base[t])[i] = base[t][i + 1]
    BY <1>3, <1>4, HeadTailProperties, LenProperties
  <2>3. ASSUME NEW d, Queued(d, base[t]), d # o PROVE Queued(d, Tail(base[t]))
    <3>1. PICK i \in 1..Len(base[t]) : base[t][i] = d
      BY <2>1, <2>3 DEF Queued
    <3>2. i - 1 \in 1..Len(base[t]) - 1 /\ Tail(base[t])[i - 1] = d
      BY <2>1, <2>2, <2>3, <3>1
    <3> QED
      BY <2>2, <3>2 DEF Queued
  <2>4. ASSUME NEW d, Queued(d, Tail(base[t])) PROVE Queued(d, base[t])
    <3>1. PICK i \in 1..Len(base[t]) - 1 : Tail(base[t])[i] = d
      BY <2>2, <2>4 DEF Queued
    <3>2. i + 1 \in 1..Len(base[t]) /\ base[t][i + 1] = d
      BY <2>1, <2>2, <3>1
    <3> QED
      BY <2>1, <3>2 DEF Queued
  <2>5. Queued(o, base[t])
    BY <2>1 DEF Queued
  <2> QED
    BY <2>3, <2>4, <2>5
<1>6. base' = [base EXCEPT ![t] = base'[t]] /\ base'[t] = Tail(base[t])
  BY <1>2 DEF DequeueProxy, Shapes
<1>7. /\ queue' = [queue EXCEPT ![o] = queue'[o]]
      /\ queue'[o] = Dequeue(queue[o], t)
  BY <1>o, <1>2, <1>4 DEF DequeueProxy, Shapes
<1>8. /\ queue'[o] \in Seq(Threads) /\ Distinct(queue'[o])
      /\ \A u : Queued(u, queue'[o]) <=> u # t /\ Queued(u, queue[o])
  <2>1. queue[o] \in Seq(Threads) /\ Distinct(queue[o])
    BY <1>1, <1>4, QueueHolds DEF QueueAt
  <2> QED
    BY <1>7, <2>1, DequeueTakes
<1>9. ASSUME NEW v \in Threads
      PROVE  /\ stub'[v] \in Seq(Threads) /\ Distinct(stub'[v])
             /\ stub[v] = <<>> => stub'[v] = <<>>
             /\ \A u : Queued(u, stub'[v]) <=>
                   Queued(u, stub[v]) /\ ~(u = t /\ o \in ManualEvents /\ obj[v] = o)
  <2>1. stub[v] \in Seq(Threads) /\ Distinct(stub[v])
    BY StubHolds DEF StubAt
  <2>2. /\ Dequeue(stub[v], t) \in Seq(Threads) /\ Distinct(Dequeue(stub[v], t))
        /\ \A u : Queued(u, Dequeue(stub[v], t)) <=> u # t /\ Queued(u, stub[v])
    BY <2>1, DequeueTakes
  <2>3. stub'[v] = IF o \in ManualEvents /\ obj[v] = o /\ Queued(t, stub[v])
                   THEN Dequeue(stub[v], t) ELSE stub[v]
    BY <1>o DEF DequeueProxy, StubsWithout, Stubs
  <2>4. stub[v] = <<>> => stub'[v] = <<>>
    BY <2>3, EmptyQueue
  <2> HIDE DEF Queued
  <2> QED
    BY <2>1, <2>2, <2>3, <2>4
<1>10. stub' \in [Threads -> Seq(Threads)]
  <2>1. stub' = [v \in Threads |-> stub'[v]]
    BY <1>2 DEF DequeueProxy, StubsWithout, Shapes
  <2> QED
    BY <1>9, <2>1
<1> QED
  BY <1>o, <1>3, <1>4, <1>5, <1>6, <1>7, <1>8, <1>9, <1>10 DEF DequeuesFrom

\* Who is taken off a queue and woken waits for the object.
LEMMA HeadWaits ==
    ASSUME IInv, NEW o \in Objects, queue[o] # <<>>, NEW p, p = Head(queue[o])
    PROVE  /\ p \in Threads /\ Queued(p, queue[o]) /\ QueuedFor(p, o)
           /\ current[p] => /\ Queued(o, lpProxy[p]) /\ Queued(o, waits[p])
                            /\ pc[p] \in WaitPCs /\ (o \in IntrEvents <=> ~HasClean(p))
           /\ o \in IntrEvents => current[p]
<1>1. p \in Threads /\ Queued(p, queue[o])
  BY QueueHolds DEF QueueAt, IInv, CountsSound
<1>2. PlaceOK(p, o) /\ WaitOK(p) /\ ListsOK(p)
  BY <1>1 DEF IInv
<1>3. QueuedFor(p, o)
  BY <1>1 DEF QueuedFor
<1>4. ASSUME current[p]
      PROVE  Queued(o, lpProxy[p]) /\ Queued(o, waits[p]) /\ pc[p] \in WaitPCs
  BY <1>2, <1>3, <1>4, EmptyQueue DEF PlaceOK, WaitOK, ListsOK
<1>5. o \in IntrEvents => current[p]
  BY <1>2, <1>3, EmptyQueue DEF PlaceOK, WaitOK
<1> QED
  BY <1>1, <1>3, <1>4, <1>5, IntrAlone

LEMMA StubWaits ==
    ASSUME IInv, NEW t \in Threads, NEW p, Queued(p, stub[t]), p \in Threads
    PROVE  /\ pc[t] = "wakeflat" /\ obj[t] \in ManualEvents /\ QueuedFor(p, obj[t])
           /\ current[p] => /\ Queued(obj[t], lpProxy[p]) /\ Queued(obj[t], waits[p])
                            /\ pc[p] \in WaitPCs /\ HasClean(p)
<1>1. pc[t] = "wakeflat" /\ obj[t] \in ManualEvents
  BY EmptyQueue DEF IInv, CallOK
<1>2. obj[t] \in Objects /\ obj[t] \notin IntrEvents
  BY <1>1, Apart DEF Objects, Events
<1>3. PlaceOK(p, obj[t]) /\ WaitOK(p) /\ ListsOK(p)
  BY <1>2 DEF IInv
<1>4. QueuedFor(p, obj[t])
  BY <1>1 DEF QueuedFor, Stubs
<1>5. ASSUME current[p]
      PROVE  Queued(obj[t], lpProxy[p]) /\ Queued(obj[t], waits[p]) /\ pc[p] \in WaitPCs
  BY <1>2, <1>3, <1>4, <1>5, EmptyQueue DEF PlaceOK, WaitOK, ListsOK
<1> QED
  BY <1>1, <1>2, <1>4, <1>5, IntrAlone

\* The kernel calls that take a waiter off an object.
Release(t) ==
    \/ EventModAuto(t) \/ EventModIntr(t) \/ WakeOneThreadFlat(t)
    \/ SemPop(t) \/ LeaveMutex(t) \/ WakeExitWaiter(t)

\* What wait p ends with o, by t.
Serves(t, p, o) ==
    /\ current[p] /\ Queued(o, lpProxy[p]) /\ Queued(o, waits[p]) /\ pc[p] \in WaitPCs
    /\ o \in IntrEvents <=> ~HasClean(p)
    /\ Satisfy(p, o) /\ UNCHANGED <<sleeping, needsleep, life, killed>>

\* They end one wait, or leave the waits alone; neither they nor their caller are in
\* a wait before or after.
LEMMA ReleaseEffect ==
    ASSUME IInv, NEW t \in Threads, Release(t)
    PROVE  /\ \A v \in Threads : pc'[v] = pc[v] \/ (v = t /\ pc[v] \notin WaitPCs
                                                         /\ pc'[v] \notin WaitPCs)
           /\ pc[t] \notin WaitPCs
           /\ \/ UNCHANGED <<waitVars, runVars>>
              \/ \E p \in Threads, o \in Objects : Serves(t, p, o)
<1>S. /\ pc \in [Threads -> PCs] /\ obj \in [Threads -> Objects \cup {None}]
  BY ShapesHold DEF Shapes, IInv, CountsSound
<1>1. /\ pc[t] \notin WaitPCs
      /\ \/ pc' = pc
         \/ \E x \in PCs : x \notin WaitPCs /\ pc' = [pc EXCEPT ![t] = x]
  BY DEF Release, EventModAuto, EventModIntr, WakeOneThreadFlat, SemPop, LeaveMutex,
     WakeExitWaiter, At, WaitPCs, PCs, Return, ReturnPC
<1>2. \A v \in Threads : pc'[v] = pc[v] \/ (v = t /\ pc[v] \notin WaitPCs
                                                  /\ pc'[v] \notin WaitPCs)
  BY <1>1, <1>S
<1>3. ASSUME NEW o \in Objects, queue[o] # <<>>, current[Head(queue[o])],
             SatisfyBy(t, Head(queue[o]), o)
      PROVE  \E p \in Threads, d \in Objects : Serves(t, p, d)
  <2> DEFINE p == Head(queue[o])
  <2>1. /\ p \in Threads /\ Queued(o, lpProxy[p]) /\ Queued(o, waits[p]) /\ pc[p] \in WaitPCs
        /\ o \in IntrEvents <=> ~HasClean(p)
    BY <1>3, HeadWaits
  <2>2. Satisfy(p, o) /\ UNCHANGED <<sleeping, needsleep, life, killed>>
    BY <1>3 DEF SatisfyBy
  <2>3. current[p]
    BY <1>3
  <2> HIDE DEF p
  <2>4. Serves(t, p, o)
    BY <2>1, <2>2, <2>3 DEF Serves
  <2> QED
    BY <2>1, <2>4
<1>4. CASE EventModAuto(t)
  <2>1. obj[t] \in Objects
    BY <1>4 DEF EventModAuto, Objects, Events
  <2> QED
    BY <1>1, <1>2, <1>3, <1>4, <2>1 DEF EventModAuto, IsCurrent
<1>5. CASE EventModIntr(t)
  <2>1. obj[t] \in Objects /\ obj[t] \in IntrEvents
    BY <1>5 DEF EventModIntr, Objects, Events
  <2>2. queue[obj[t]] # <<>> => current[Head(queue[obj[t]])]
    BY <2>1, HeadWaits
  <2> QED
    BY <1>1, <1>2, <1>3, <1>5, <2>1, <2>2 DEF EventModIntr
<1>6. CASE WakeOneThreadFlat(t)
  <2>1. CASE stub[t] # <<>> /\ current[Head(stub[t])]
    <3>1. Head(stub[t]) \in Threads /\ Queued(Head(stub[t]), stub[t])
      BY <2>1, StubHolds DEF StubAt
    <3>2. obj[t] \in Objects /\ obj[t] \in ManualEvents /\ obj[t] \notin IntrEvents
      BY <1>S, <3>1, StubWaits, Apart DEF Objects, Events
    <3>3. SatisfyBy(t, Head(stub[t]), obj[t])
      BY <1>6, <2>1 DEF WakeOneThreadFlat, IsCurrent
    <3>4. Serves(t, Head(stub[t]), obj[t])
      BY <2>1, <3>1, <3>2, <3>3, StubWaits DEF Serves, SatisfyBy
    <3> QED
      BY <1>1, <1>2, <3>1, <3>2, <3>4
  <2>2. CASE ~(stub[t] # <<>> /\ current[Head(stub[t])])
    BY <1>1, <1>2, <1>6, <2>2 DEF WakeOneThreadFlat, IsCurrent
  <2> QED
    BY <2>1, <2>2
<1>7. CASE SemPop(t)
  <2>1. obj[t] \in Objects
    BY <1>7 DEF SemPop, At, IInv, CallOK, Objects
  <2> QED
    BY <1>1, <1>2, <1>3, <1>7, <2>1 DEF SemPop, IsCurrent
<1>8. CASE LeaveMutex(t)
  <2>1. obj[t] \in Objects
    BY <1>8 DEF LeaveMutex, At, IInv, CallOK, Objects
  <2> QED
    BY <1>1, <1>2, <1>3, <1>8, <2>1 DEF LeaveMutex, IsCurrent
<1>9. CASE WakeExitWaiter(t)
  <2>1. t \in Objects
    BY DEF Objects
  <2> QED
    BY <1>1, <1>2, <1>3, <1>9, <2>1 DEF WakeExitWaiter, IsCurrent
<1> QED
  BY <1>4, <1>5, <1>6, <1>7, <1>8, <1>9 DEF Release

\* The same by an interrupt, which makes p run at once.
Interrupts(i, p) ==
    /\ current[p] /\ Queued(i, lpProxy[p]) /\ Queued(i, waits[p])
    /\ pc[p] \in WaitPCs /\ ~HasClean(p)
    /\ CloseWait(p, i)
    /\ IF bWaitState[p] = "blocked"
       THEN /\ retval' = [retval EXCEPT ![p] = i]
            /\ runstate' = [runstate EXCEPT ![p] = "runnable"]
            /\ sleeping' = [sleeping EXCEPT ![p] = FALSE]
            /\ UNCHANGED <<dwPendReturn, bWaitState>>
       ELSE /\ dwPendReturn' = [dwPendReturn EXCEPT ![p] = i]
            /\ bWaitState' = [bWaitState EXCEPT ![p] = "signalled"]
            /\ UNCHANGED <<retval, runstate, sleeping>>
    /\ UNCHANGED <<waits, timeout, lpPendProxy, needsleep, life, killed>>

\* An interrupt ends the wait of the one thread that waits for it.
LEMMA InterruptEffect ==
    ASSUME IInv, NEW i \in IntrEvents, Interrupt(i)
    PROVE  \/ UNCHANGED <<queue, waitVars, runVars>> /\ state' = [state EXCEPT ![i] = TRUE]
           \/ /\ queue[i] # <<>> /\ Head(queue[i]) \in Threads
              /\ queue' = [queue EXCEPT ![i] = <<>>] /\ UNCHANGED state
              /\ Interrupts(i, Head(queue[i]))
<1>1. i \in Objects
  BY DEF Objects, Events
<1>2. CASE queue[i] = <<>>
  BY <1>2 DEF Interrupt, runVars, waitVars
<1>3. CASE queue[i] # <<>>
  <2> DEFINE p == Head(queue[i])
  <2>1. /\ p \in Threads /\ current[p] /\ Queued(i, lpProxy[p]) /\ Queued(i, waits[p])
        /\ pc[p] \in WaitPCs /\ ~HasClean(p)
    BY <1>1, <1>3, HeadWaits
  <2> QED
    BY <1>3, <2>1 DEF Interrupt, Interrupts
<1> QED
  BY <1>2, <1>3

\* A wait for an interrupt event is not ended by a timeout nor by termination.
LEMMA PlainWait ==
    ASSUME IInv, PlainIntrWaits, NEW t \in Threads, pc[t] \in WaitPCs, ~HasClean(t)
    PROVE  timeout[t] = "zero" \/ (timeout[t] = "infinite" /\ t \notin Mortal)
<1> DEFINE w == <<waits[t], timeout[t]>>
<1>1. w \in Waits[t] /\ w[1] = waits[t] /\ w[2] = timeout[t]
  BY DEF IInv, WaitOK
<1>2. IsIntr(w[1])
  BY <1>1 DEF HasClean
<1> HIDE DEF w
<1> QED
  BY <1>1, <1>2 DEF PlainIntrWaits

----------------------------------------------------------------------------
(* The kinds of steps, by what they do to the proxies *)

\* t ends its wait, or loses it.
Ends(t) ==
    \/ WaitTerminated(t) \/ WaitTimeout(t)
    \/ \E o \in Objects : WaitOk(t, o) \/ WaitBad(t, o)
    \/ KillBlocked(t) \/ (TimerFires(t) /\ runstate[t] = "blocked")

\* No proxy moves.
Keeps(t) ==
    \/ Wake(t) \/ WaitSignalled(t) \/ WaitBlock(t) \/ Resume(t) \/ LaterLinkCritMut(t)
    \/ PostBoostMut(t) \/ WaitReturn(t) \/ PostUnlinkCritMut(t) \/ Bury(t)
    \/ BeginCall(t) \/ KillRunnable(t) \/ KillLater(t) \/ MakeKilledRun(t)
    \/ (TimerFires(t) /\ runstate[t] # "blocked")
    \/ \E boost \in BOOLEAN : Reprio(t, boost)

LEMMA StepKinds ==
    ASSUME Next
    PROVE  \/ \E t \in Threads :
                 \/ Ends(t) \/ Keeps(t) \/ Release(t) \/ DequeueProxy(t) \/ EventModMan(t)
                 \/ \E o \in Objects : WaitEnqueue(t, o)
           \/ \E i \in IntrEvents : Interrupt(i)
<1>1. ASSUME NEW t \in Threads, Continue(t)
      PROVE  \/ Ends(t) \/ Keeps(t) \/ Release(t) \/ DequeueProxy(t) \/ EventModMan(t)
             \/ \E o \in Objects : WaitEnqueue(t, o)
  BY <1>1 DEF Continue, WaitStep, Ends, Keeps, Release
<1>2. ASSUME NEW t \in Threads,
             \/ BeginCall(t) \/ KillRunnable(t) \/ KillBlocked(t) \/ KillLater(t)
             \/ MakeKilledRun(t) \/ TimerFires(t) \/ \E boost \in BOOLEAN : Reprio(t, boost)
      PROVE  Ends(t) \/ Keeps(t)
  BY <1>2 DEF Ends, Keeps
<1> QED
  BY <1>1, <1>2 DEF Next

LEMMA QueuedSame ==
    ASSUME UNCHANGED <<queue, stub>>,
           \A v \in Threads : obj'[v] = obj[v] \/ stub[v] = <<>>,
           NEW u \in Threads, NEW d \in Objects
    PROVE  QueuedFor(u, d)' <=> QueuedFor(u, d)
BY EmptyQueue DEF QueuedFor, Stubs

\* A thread that is killed or whose timeout expires while it is blocked does not wait
\* for an interrupt event.
LEMMA BlockedIsPlain ==
    ASSUME IInv, PlainIntrWaits, NEW t \in Threads, runstate[t] = "blocked",
           t \in Mortal \/ sleeping[t]
    PROVE  HasClean(t)
<1>1. pc[t] = "woken" /\ current[t] /\ lpPendProxy[t] = <<>>
  BY DEF IInv, RunOK, StateOK
<1>2. /\ waits[t][1] \in Objects /\ Queued(waits[t][1], waits[t])
  BY <1>1, IntrAlone DEF WaitPCs
<1>3. lpProxy[t] # <<>>
  BY <1>1, <1>2, EmptyQueue DEF IInv, ListsOK
<1>4. ~HasClean(t) => timeout[t] # "zero"
  BY <1>1, <1>3 DEF IInv, ListsOK
<1>5. sleeping[t] => timeout[t] = "finite"
  BY DEF IInv, RunOK
<1> QED
  BY <1>1, <1>4, <1>5, PlainWait DEF WaitPCs

\* A wait is ended once, and if nobody takes its proxy off there is none.
LEMMA EndsEffect ==
    ASSUME IInv, PlainIntrWaits, NEW t \in Threads, Ends(t)
    PROVE  /\ current[t] /\ pc[t] \in WaitPCs /\ base[t] = <<>> /\ stub[t] = <<>>
           /\ CloseWait(t, granted'[t])
           /\ ~HasClean(t) => \A d \in Objects : ~Queued(d, lpProxy[t])
           /\ UNCHANGED <<queue, stub>> /\ \A v \in Threads : v # t => obj'[v] = obj[v]
<1>S. /\ granted \in [Threads -> Results] /\ obj \in [Threads -> Objects \cup {None}]
  BY ShapesHold DEF IInv, CountsSound, Shapes
<1>I. LifeOK(t) /\ CallOK(t) /\ WaitOK(t) /\ ListsOK(t) /\ RunOK(t) /\ StateOK(t)
  BY DEF IInv
<1>1. ASSUME WaitOneMore(t), bWaitState[t] # "signalled"
      PROVE  current[t] /\ pc[t] = "wait" /\ base[t] = <<>> /\ stub[t] = <<>>
  BY <1>1, <1>I DEF WaitOneMore, At, StateOK, WaitOK, CallOK
<1>2. ASSUME NEW r, ExitFunc(t, r) PROVE CloseWait(t, granted'[t])
  BY <1>2, <1>S DEF ExitFunc, CloseWait
<1>3. CASE WaitTerminated(t)
  <2>1. WaitOneMore(t) /\ bWaitState[t] # "signalled"
    BY <1>3 DEF WaitTerminated
  <2>2. /\ current[t] /\ pc[t] = "wait" /\ base[t] = <<>> /\ stub[t] = <<>>
    BY <1>1, <2>1
  <2>3. CloseWait(t, granted'[t]) /\ UNCHANGED <<queue, obj, stub>> /\ t \in Mortal
    BY <1>2, <1>3, <1>I DEF WaitTerminated, WaitOneMore, LifeOK
  <2>4. ~HasClean(t) => lpProxy[t] = <<>>
    BY <1>I, <2>2, <2>3, PlainWait DEF ListsOK, WaitPCs
  <2> QED
    BY <2>2, <2>3, <2>4, EmptyQueue DEF WaitPCs
<1>4. CASE WaitTimeout(t)
  <2>1. WaitOneMore(t) /\ bWaitState[t] # "signalled"
    BY <1>4 DEF WaitTimeout
  <2>2. /\ current[t] /\ pc[t] = "wait" /\ base[t] = <<>> /\ stub[t] = <<>>
    BY <1>1, <2>1
  <2>3. /\ CloseWait(t, granted'[t]) /\ UNCHANGED <<queue, obj, stub>>
        /\ timeout[t] # "infinite"
    BY <1>2, <1>4 DEF WaitTimeout, WaitOneMore, NoEnqueue
  <2>4. ~HasClean(t) => lpProxy[t] = <<>>
    BY <1>I, <2>2, <2>3, PlainWait DEF ListsOK, WaitPCs
  <2> QED
    BY <2>2, <2>3, <2>4, EmptyQueue DEF WaitPCs
<1>5. ASSUME NEW o \in Objects, WaitOk(t, o) \/ WaitBad(t, o)
      PROVE  /\ current[t] /\ pc[t] \in WaitPCs /\ base[t] = <<>> /\ stub[t] = <<>>
             /\ CloseWait(t, granted'[t])
             /\ ~HasClean(t) => \A d \in Objects : ~Queued(d, lpProxy[t])
             /\ UNCHANGED <<queue, stub>> /\ \A v \in Threads : v # t => obj'[v] = obj[v]
  <2>1. WaitOneMore(t) /\ Considers(t, o)
    BY <1>5 DEF WaitOk, WaitBad
  <2>2. /\ current[t] /\ pc[t] = "wait" /\ base[t] = <<>> /\ stub[t] = <<>>
    BY <1>1, <2>1 DEF Considers
  <2>3. CloseWait(t, granted'[t])
    BY <1>2, <1>5 DEF WaitOk, WaitBad
  <2>4. UNCHANGED <<queue, stub>> /\ \A v \in Threads : v # t => obj'[v] = obj[v]
    BY <1>5, <1>S DEF WaitOk, WaitBad, WaitOneMore
  <2>5. Queued(o, waits[t]) /\ ~Queued(o, lpProxy[t])
    BY <2>1, <2>2, LooksAt
  <2>6. ~HasClean(t) => \A d \in Objects : ~Queued(d, lpProxy[t])
    BY <1>I, <2>2, <2>5, IntrAlone DEF ListsOK, WaitPCs
  <2> QED
    BY <2>2, <2>3, <2>4, <2>6 DEF WaitPCs
<1>6. ASSUME runstate[t] = "blocked"
      PROVE  current[t] /\ pc[t] = "woken" /\ base[t] = <<>> /\ stub[t] = <<>>
  BY <1>6, <1>I DEF RunOK, StateOK, WaitOK, CallOK
<1>7. CASE KillBlocked(t)
  <2>1. HasClean(t) /\ runstate[t] = "blocked"
    BY <1>7, BlockedIsPlain DEF KillBlocked
  <2>2. CloseWait(t, granted'[t])
    BY <1>7, <1>S DEF KillBlocked, CloseWait
  <2>3. UNCHANGED <<queue, obj, stub>>
    BY <1>7, <2>1 DEF KillBlocked, callVars
  <2> QED
    BY <1>6, <2>1, <2>2, <2>3 DEF WaitPCs
<1>8. CASE TimerFires(t) /\ runstate[t] = "blocked"
  <2>1. HasClean(t)
    BY <1>8, BlockedIsPlain DEF TimerFires
  <2>2. CloseWait(t, granted'[t])
    BY <1>8, <1>S DEF TimerFires, CloseWait
  <2>3. UNCHANGED <<queue, obj, stub>>
    BY <1>8, <2>1 DEF TimerFires, callVars
  <2> QED
    BY <1>6, <1>8, <2>1, <2>2, <2>3 DEF WaitPCs
<1> QED
  BY <1>3, <1>4, <1>5, <1>7, <1>8 DEF Ends

\* A new wait is queued nowhere yet.
LEMMA KeepsEffect ==
    ASSUME IInv, NEW t \in Threads, Keeps(t)
    PROVE  /\ UNCHANGED <<queue, stub, lpProxy, base>>
           /\ \A v \in Threads : obj'[v] = obj[v] \/ stub[v] = <<>>
           /\ \A v \in Threads : current'[v] = current[v]
                                 \/ (pc[v] \notin WaitPCs /\ lpProxy[v] = <<>> /\ base[v] = <<>>)
<1>S. /\ current \in [Threads -> BOOLEAN] /\ obj \in [Threads -> Objects \cup {None}]
  BY ShapesHold DEF IInv, CountsSound, Shapes
<1>I. CallOK(t) /\ WaitOK(t)
  BY DEF IInv
<1>1. CASE BeginCall(t)
  <2>1. UNCHANGED <<queue, stub, lpProxy, base>>
    BY <1>1 DEF BeginCall, WaitConfig, EventReset, EventModify, SemAdd, ReleaseNested,
       PreUnlinkMutex, ExitThread, callVars, waitVars
  <2>2. pc[t] \in {"idle", "release"}
    BY <1>1 DEF BeginCall, WaitConfig, EventReset, EventModify, SemAdd, ReleaseNested,
       PreUnlinkMutex, ExitThread, Call, At
  <2>3. \A v \in Threads : v # t => obj'[v] = obj[v]
    BY <1>1, <1>S DEF BeginCall, WaitConfig, EventReset, EventModify, SemAdd, ReleaseNested,
       PreUnlinkMutex, ExitThread, Call, callVars
  <2>4. \A v \in Threads : v # t => current'[v] = current[v]
    BY <1>1, <1>S DEF BeginCall, WaitConfig, EventReset, EventModify, SemAdd, ReleaseNested,
       PreUnlinkMutex, ExitThread, Call, waitVars
  <2> QED
    BY <2>1, <2>2, <2>3, <2>4, <1>I DEF CallOK, WaitOK, WaitPCs
<1>2. CASE WaitReturn(t) \/ PostUnlinkCritMut(t)
  <2>1. UNCHANGED <<queue, stub, lpProxy, base, current>>
    BY <1>2 DEF WaitReturn, PostUnlinkCritMut, waitVars
  <2>2. \A v \in Threads : v # t => obj'[v] = obj[v]
    BY <1>2, <1>S DEF WaitReturn, PostUnlinkCritMut, Return
  <2>3. stub[t] = <<>>
    BY <1>2, <1>I DEF WaitReturn, PostUnlinkCritMut, At, CallOK
  <2> QED
    BY <2>1, <2>2, <2>3
<1>3. CASE \/ Wake(t) \/ WaitSignalled(t) \/ WaitBlock(t) \/ Resume(t) \/ LaterLinkCritMut(t)
           \/ PostBoostMut(t) \/ Bury(t) \/ KillRunnable(t) \/ KillLater(t) \/ MakeKilledRun(t)
           \/ (TimerFires(t) /\ runstate[t] # "blocked")
           \/ \E boost \in BOOLEAN : Reprio(t, boost)
  <2>1. UNCHANGED <<queue, stub, lpProxy, base, current, obj>>
    BY <1>3 DEF Wake, WaitSignalled, WaitBlock, Resume, LaterLinkCritMut, PostBoostMut, Bury,
       KillRunnable, KillLater, MakeKilledRun, TimerFires, Reprio, WaitOneMore, callVars,
       waitVars
  <2> QED
    BY <2>1
<1> QED
  BY <1>1, <1>2, <1>3 DEF Keeps

\* A proxy that moves to a stub event is queued for the same object.
LEMMA StubTakes ==
    ASSUME IInv, NEW t \in Threads, EventModMan(t)
    PROVE  /\ stub[t] = <<>> /\ stub' = [stub EXCEPT ![t] = queue[obj[t]]]
           /\ queue' = [queue EXCEPT ![obj[t]] = <<>>]
           /\ obj[t] \in ManualEvents /\ obj[t] \in Objects
           /\ UNCHANGED <<obj, waitVars, runVars>>
           /\ \A u \in Threads, d \in Objects : QueuedFor(u, d)' <=> QueuedFor(u, d)
<1>S. queue \in [Objects -> Seq(Threads)] /\ stub \in [Threads -> Seq(Threads)]
  BY ShapesHold DEF IInv, CountsSound, Shapes
<1>1. /\ stub[t] = <<>> /\ stub' = [stub EXCEPT ![t] = queue[obj[t]]]
      /\ queue' = [queue EXCEPT ![obj[t]] = <<>>]
      /\ obj[t] \in ManualEvents /\ obj[t] \in Objects
      /\ UNCHANGED <<obj, waitVars, runVars>>
  BY DEF EventModMan, At, IInv, CallOK, Objects, Events
<1>2. ASSUME NEW u \in Threads, NEW d \in Objects
      PROVE  QueuedFor(u, d)' <=> QueuedFor(u, d)
  <2>1. \A v \in Threads : stub'[v] = IF v = t THEN queue[obj[t]] ELSE stub[v]
    BY <1>1, <1>S
  <2>2. queue'[d] = IF d = obj[t] THEN <<>> ELSE queue[d]
    BY <1>1, <1>S
  <2>3. QueuedFor(u, d) <=> \/ Queued(u, queue[d])
                            \/ /\ d \in ManualEvents
                               /\ \E v \in Threads : obj[v] = d /\ Queued(u, stub[v])
    BY DEF QueuedFor, Stubs
  <2>4. QueuedFor(u, d)' <=> \/ Queued(u, queue'[d])
                             \/ /\ d \in ManualEvents
                                /\ \E v \in Threads : obj[v] = d /\ Queued(u, stub'[v])
    BY <1>1 DEF QueuedFor, Stubs
  <2>5. CASE d = obj[t]
    BY <1>1, <2>1, <2>2, <2>3, <2>4, <2>5, EmptyQueue
  <2>6. CASE d # obj[t]
    BY <1>1, <2>1, <2>2, <2>3, <2>4, <2>6, EmptyQueue
  <2> QED
    BY <2>5, <2>6
<1> QED
  BY <1>1, <1>2

\* Taking p off the queue of o, or all of an interrupt event, changes nothing for
\* other objects and other threads.
LEMMA TakenOff ==
    ASSUME IInv, NEW o \in Objects, NEW p \in Threads, Queued(p, queue[o]),
           queue' = [queue EXCEPT ![o] = queue'[o]],
           \A u : Queued(u, queue'[o]) <=> u # p /\ Queued(u, queue[o]),
           UNCHANGED stub, \A v \in Threads : obj'[v] = obj[v] \/ stub[v] = <<>>
    PROVE  /\ \A u \in Threads, d \in Objects :
                 /\ QueuedFor(u, d)' => QueuedFor(u, d)
                 /\ u # p /\ QueuedFor(u, d) => QueuedFor(u, d)'
           /\ o \in IntrEvents => ~QueuedFor(p, o)'
<1>S. queue \in [Objects -> Seq(Threads)]
  BY ShapesHold DEF IInv, CountsSound, Shapes
<1>1. \A d \in Objects : d # o => queue'[d] = queue[d]
  BY <1>S
<1>2. \A u \in Threads, d \in Objects : Stubs(u, d)' = {} <=> Stubs(u, d) = {}
  BY EmptyQueue DEF Stubs
<1> QED
  BY <1>1, <1>2, Apart DEF QueuedFor

LEMMA TailOff ==
    ASSUME IInv, NEW o \in Objects, queue[o] # <<>>
    PROVE  /\ Head(queue[o]) \in Threads /\ Queued(Head(queue[o]), queue[o])
           /\ \A u : Queued(u, Tail(queue[o])) <=> u # Head(queue[o]) /\ Queued(u, queue[o])
           /\ o \in IntrEvents =>
                 \A u : Queued(u, <<>>) <=> u # Head(queue[o]) /\ Queued(u, queue[o])
<1>1. QueueAt(o)
  BY QueueHolds DEF IInv, CountsSound
<1>2. \A u : Queued(u, queue[o]) => u \in Threads
  BY <1>1 DEF QueueAt, Queued
<1>3. o \in IntrEvents => \A u : Queued(u, queue[o]) => u = Head(queue[o])
  BY <1>1, <1>2 DEF QueueAt, IInv, IntrOK
<1> QED
  BY <1>1, <1>3, EmptyQueue DEF QueueAt

\* A release takes one proxy off, that of the wait it ends, or one that is not current.
Takes(t, p, o) ==
    /\ \A u \in Threads, d \in Objects :
          /\ QueuedFor(u, d)' => QueuedFor(u, d)
          /\ u # p /\ QueuedFor(u, d) => QueuedFor(u, d)'
    /\ o \in IntrEvents => ~QueuedFor(p, o)'
    /\ \/ Serves(t, p, o)
       \/ UNCHANGED <<waitVars, runVars>> /\ ~current[p]

LEMMA ReleaseTakes ==
    ASSUME IInv, NEW t \in Threads, Release(t)
    PROVE  \/ /\ UNCHANGED <<waitVars, runVars>>
              /\ \A u \in Threads, d \in Objects : QueuedFor(u, d)' <=> QueuedFor(u, d)
           \/ \E p \in Threads, o \in Objects : Takes(t, p, o)
<1>S. /\ obj \in [Threads -> Objects \cup {None}] /\ stub \in [Threads -> Seq(Threads)]
      /\ queue \in [Objects -> Seq(Threads)]
  BY ShapesHold DEF IInv, CountsSound, Shapes
<1>I. CallOK(t)
  BY DEF IInv
<1>1. ASSUME NEW o \in Objects, queue[o] # <<>>, NEW q, queue' = [queue EXCEPT ![o] = q],
             q = Tail(queue[o]) \/ (q = <<>> /\ o \in IntrEvents),
             UNCHANGED stub, \A v \in Threads : obj'[v] = obj[v] \/ stub[v] = <<>>,
             \/ current[Head(queue[o])] /\ SatisfyBy(t, Head(queue[o]), o)
             \/ UNCHANGED <<waitVars, runVars>> /\ ~current[Head(queue[o])]
      PROVE  \E p \in Threads, d \in Objects : Takes(t, p, d)
  <2>p. PICK p \in Threads : p = Head(queue[o])
    BY <1>1, TailOff
  <2>0. queue'[o] = q /\ queue' = [queue EXCEPT ![o] = queue'[o]]
    BY <1>1, <1>S
  <2>1. /\ Queued(p, queue[o])
        /\ \A u : Queued(u, queue'[o]) <=> u # p /\ Queued(u, queue[o])
    BY ZenonT(60), <1>1, <2>0, <2>p, TailOff
  <2>2. current[p] => /\ Queued(o, lpProxy[p]) /\ Queued(o, waits[p]) /\ pc[p] \in WaitPCs
                      /\ (o \in IntrEvents <=> ~HasClean(p))
    BY <1>1, <2>p, HeadWaits
  <2>3. /\ \A u \in Threads, d \in Objects :
              /\ QueuedFor(u, d)' => QueuedFor(u, d)
              /\ u # p /\ QueuedFor(u, d) => QueuedFor(u, d)'
        /\ o \in IntrEvents => ~QueuedFor(p, o)'
    <3>1. UNCHANGED stub /\ \A v \in Threads : obj'[v] = obj[v] \/ stub[v] = <<>>
      BY <1>1
    <3> QED
      BY <2>0, <2>1, <3>1, TakenOff
  <2>4. Serves(t, p, o) \/ (UNCHANGED <<waitVars, runVars>> /\ ~current[p])
    BY <1>1, <2>p, <2>2 DEF Serves, SatisfyBy
  <2>5. Takes(t, p, o)
    BY <2>3, <2>4 DEF Takes
  <2> QED
    BY <2>5
<1>2. ASSUME UNCHANGED <<waitVars, runVars, queue, stub>>,
             \A v \in Threads : obj'[v] = obj[v] \/ stub[v] = <<>>
      PROVE  /\ UNCHANGED <<waitVars, runVars>>
             /\ \A u \in Threads, d \in Objects : QueuedFor(u, d)' <=> QueuedFor(u, d)
  BY <1>2, QueuedSame
<1>3. CASE EventModAuto(t)
  <2>1. obj[t] \in Objects /\ stub[t] = <<>>
    BY <1>3, <1>I DEF EventModAuto, Objects, Events, At, CallOK
  <2>2. UNCHANGED stub /\ \A v \in Threads : obj'[v] = obj[v] \/ stub[v] = <<>>
    BY <1>3, <1>S, <2>1 DEF EventModAuto, Return
  <2>3. CASE queue[obj[t]] = <<>>
    BY <1>2, <1>3, <2>2, <2>3 DEF EventModAuto
  <2>4. CASE queue[obj[t]] # <<>>
    BY <1>1, <1>3, <2>1, <2>2, <2>4 DEF EventModAuto, IsCurrent
  <2> QED
    BY <2>3, <2>4
<1>4. CASE EventModIntr(t)
  <2>1. obj[t] \in Objects /\ stub[t] = <<>> /\ obj[t] \in IntrEvents
    BY <1>4, <1>I DEF EventModIntr, Objects, Events, At, CallOK
  <2>2. UNCHANGED stub /\ \A v \in Threads : obj'[v] = obj[v] \/ stub[v] = <<>>
    BY <1>4, <1>S, <2>1 DEF EventModIntr, Return
  <2>3. CASE queue[obj[t]] = <<>>
    BY <1>2, <1>4, <2>2, <2>3 DEF EventModIntr
  <2>4. CASE queue[obj[t]] # <<>>
    <3>1. current[Head(queue[obj[t]])]
      BY <2>1, <2>4, HeadWaits
    <3> QED
      BY <1>1, <1>4, <2>1, <2>2, <2>4, <3>1 DEF EventModIntr
  <2> QED
    BY <2>3, <2>4
<1>5. CASE WakeOneThreadFlat(t)
  <2>1. CASE stub[t] = <<>>
    <3>1. UNCHANGED <<queue, stub, waitVars, runVars>>
      BY <1>5, <2>1 DEF WakeOneThreadFlat
    <3>2. \A v \in Threads : obj'[v] = obj[v] \/ stub[v] = <<>>
      BY <1>5, <1>S, <2>1 DEF WakeOneThreadFlat, Return
    <3> QED
      BY <1>2, <3>1, <3>2
  <2>2. CASE stub[t] # <<>>
    <3>p. PICK p \in Threads, o \in Objects : p = Head(stub[t]) /\ o = obj[t]
      BY <2>2, StubHolds, StubWaits, <1>I DEF StubAt, CallOK, Objects, Events
    <3>1. /\ Queued(p, stub[t])
          /\ \A u : Queued(u, Tail(stub[t])) <=> u # p /\ Queued(u, stub[t])
      BY <2>2, <3>p, StubHolds DEF StubAt
    <3>2. /\ o \in ManualEvents
          /\ current[p] => /\ Queued(o, lpProxy[p]) /\ Queued(o, waits[p]) /\ pc[p] \in WaitPCs
                           /\ HasClean(p)
      BY <3>p, <3>1, StubWaits
    <3>3. o \notin IntrEvents
      BY <3>2, Apart DEF Objects, Events
    <3>4. UNCHANGED <<queue, obj>> /\ stub' = [stub EXCEPT ![t] = Tail(stub[t])]
      BY <1>5, <2>2 DEF WakeOneThreadFlat
    <3>5. \/ current[p] /\ SatisfyBy(t, p, o)
          \/ UNCHANGED <<waitVars, runVars>> /\ ~current[p]
      BY <1>5, <2>2, <3>p DEF WakeOneThreadFlat, IsCurrent
    <3>6. \A v \in Threads : \A u : /\ Queued(u, stub'[v]) => Queued(u, stub[v])
                                    /\ u # p /\ Queued(u, stub[v]) => Queued(u, stub'[v])
      BY <1>S, <3>1, <3>4
    <3>7. \A u \in Threads, d \in Objects :
              /\ QueuedFor(u, d)' => QueuedFor(u, d)
              /\ u # p /\ QueuedFor(u, d) => QueuedFor(u, d)'
      BY <3>4, <3>6 DEF QueuedFor, Stubs
    <3>8. Serves(t, p, o) \/ (UNCHANGED <<waitVars, runVars>> /\ ~current[p])
      BY <3>2, <3>3, <3>5 DEF Serves, SatisfyBy
    <3> QED
      BY <3>3, <3>7, <3>8 DEF Takes
  <2> QED
    BY <2>1, <2>2
<1>6. CASE SemPop(t)
  <2>1. obj[t] \in Objects /\ stub[t] = <<>>
    BY <1>6, <1>I DEF SemPop, At, CallOK, Objects
  <2>2. UNCHANGED stub /\ \A v \in Threads : obj'[v] = obj[v] \/ stub[v] = <<>>
    BY <1>6, <1>S, <2>1 DEF SemPop, Return
  <2>3. CASE remain[t] = 0 \/ queue[obj[t]] = <<>>
    BY <1>2, <1>6, <2>2, <2>3 DEF SemPop
  <2>4. CASE ~(remain[t] = 0 \/ queue[obj[t]] = <<>>)
    BY <1>1, <1>6, <2>1, <2>2, <2>4 DEF SemPop, IsCurrent
  <2> QED
    BY <2>3, <2>4
<1>7. CASE LeaveMutex(t)
  <2>1. obj[t] \in Objects
    BY <1>7, <1>I DEF LeaveMutex, At, CallOK, Objects
  <2>2. UNCHANGED <<stub, obj>>
    BY <1>7 DEF LeaveMutex
  <2>3. CASE queue[obj[t]] = <<>>
    BY <1>2, <1>7, <2>2, <2>3 DEF LeaveMutex
  <2>4. CASE queue[obj[t]] # <<>>
    BY <1>1, <1>7, <2>1, <2>2, <2>4 DEF LeaveMutex, IsCurrent
  <2> QED
    BY <2>3, <2>4
<1>8. CASE WakeExitWaiter(t)
  <2>1. t \in Objects
    BY DEF Objects
  <2>2. UNCHANGED <<stub, obj>>
    BY <1>8 DEF WakeExitWaiter
  <2>3. CASE queue[t] = <<>>
    BY <1>2, <1>8, <2>2, <2>3 DEF WakeExitWaiter
  <2>4. CASE queue[t] # <<>>
    BY <1>1, <1>8, <2>1, <2>2, <2>4 DEF WakeExitWaiter, IsCurrent
  <2> QED
    BY <2>3, <2>4
<1> QED
  BY <1>3, <1>4, <1>5, <1>6, <1>7, <1>8 DEF Release

\* The same of an interrupt.
LEMMA InterruptTakes ==
    ASSUME IInv, NEW i \in IntrEvents, Interrupt(i)
    PROVE  \/ /\ UNCHANGED <<waitVars, runVars>>
              /\ \A u \in Threads, d \in Objects : QueuedFor(u, d)' <=> QueuedFor(u, d)
           \/ \E p \in Threads :
                 /\ Interrupts(i, p) /\ ~QueuedFor(p, i)'
                 /\ \A u \in Threads, d \in Objects :
                       /\ QueuedFor(u, d)' => QueuedFor(u, d)
                       /\ u # p /\ QueuedFor(u, d) => QueuedFor(u, d)'
<1>1. UNCHANGED <<stub, obj>> /\ i \in Objects
  BY DEF Interrupt, callVars, Objects, Events
<1>2. CASE UNCHANGED <<queue, waitVars, runVars>>
  BY <1>1, <1>2, QueuedSame
<1>3. CASE /\ queue[i] # <<>> /\ Head(queue[i]) \in Threads
           /\ queue' = [queue EXCEPT ![i] = <<>>]
           /\ Interrupts(i, Head(queue[i]))
  <2>p. PICK p \in Threads : p = Head(queue[i])
    BY <1>3
  <2>0. queue'[i] = <<>> /\ queue' = [queue EXCEPT ![i] = queue'[i]]
    BY <1>1, <1>3, ShapesHold DEF IInv, CountsSound, Shapes
  <2>1. /\ Queued(p, queue[i])
        /\ \A u : Queued(u, queue'[i]) <=> u # p /\ Queued(u, queue[i])
    BY <1>1, <1>3, <2>0, <2>p, TailOff
  <2>2. Interrupts(i, p)
    BY <1>3, <2>p
  <2>3. /\ ~QueuedFor(p, i)'
        /\ \A u \in Threads, d \in Objects :
              /\ QueuedFor(u, d)' => QueuedFor(u, d)
              /\ u # p /\ QueuedFor(u, d) => QueuedFor(u, d)'
    BY <1>1, <2>0, <2>1, TakenOff
  <2> QED
    BY <2>2, <2>3
<1> QED
  BY <1>2, <1>3, InterruptEffect

----------------------------------------------------------------------------
(* What each step keeps *)

\* Where a thread is fits its life.
LEMMA LifeStep ==
    ASSUME IInv, PlainIntrWaits, Next, NEW u \in Threads
    PROVE  LifeOK(u)'
<1>S. /\ pc \in [Threads -> PCs]
      /\ life \in [Threads -> {"alive", "dying", "dead", "gone"}]
  BY ShapesHold DEF IInv, CountsSound, Shapes
<1>I. LifeOK(u)
  BY DEF IInv
<1>J. \A t \in Threads : LifeOK(t)
  BY DEF IInv
<1>1. ASSUME NEW t \in Threads, WaitSignalled(t) PROVE LifeOK(u)'
  BY <1>1, <1>S, <1>I, <1>J DEF WaitSignalled, At, WaitOneMore, LifeOK
<1>2. ASSUME NEW t \in Threads, WaitTerminated(t) PROVE LifeOK(u)'
  BY <1>2, <1>S, <1>I, <1>J DEF WaitTerminated, At, WaitOneMore, LifeOK
<1>3. ASSUME NEW t \in Threads, WaitBlock(t) PROVE LifeOK(u)'
  BY <1>3, <1>S, <1>I, <1>J DEF WaitBlock, At, WaitOneMore, LifeOK
<1>4. ASSUME NEW t \in Threads, WaitTimeout(t) PROVE LifeOK(u)'
  BY <1>4, <1>S, <1>I, <1>J DEF WaitTimeout, At, WaitOneMore, LifeOK
<1>5. ASSUME NEW t \in Threads, NEW o \in Objects, WaitOk(t, o) PROVE LifeOK(u)'
  BY <1>5, <1>S, <1>I, <1>J DEF WaitOk, At, WaitOneMore, LifeOK
<1>6. ASSUME NEW t \in Threads, NEW o \in Objects, WaitBad(t, o) PROVE LifeOK(u)'
  BY <1>6, <1>S, <1>I, <1>J DEF WaitBad, At, WaitOneMore, LifeOK
<1>7. ASSUME NEW t \in Threads, NEW o \in Objects, WaitEnqueue(t, o) PROVE LifeOK(u)'
  BY <1>7, <1>S, <1>I, <1>J DEF WaitEnqueue, At, WaitOneMore, LifeOK
<1>8. ASSUME NEW t \in Threads, Resume(t) PROVE LifeOK(u)'
  BY <1>8, <1>S, <1>I, <1>J DEF Resume, runVars, At, LifeOK
<1>9. ASSUME NEW t \in Threads, LaterLinkCritMut(t) PROVE LifeOK(u)'
  BY <1>9, <1>S, <1>I, <1>J DEF LaterLinkCritMut, runVars, At, LifeOK
<1>10. ASSUME NEW t \in Threads, PostBoostMut(t) PROVE LifeOK(u)'
  BY <1>10, <1>S, <1>I, <1>J DEF PostBoostMut, runVars, At, LifeOK
<1>11. ASSUME NEW t \in Threads, WaitReturn(t) PROVE LifeOK(u)'
  BY <1>11, <1>S, <1>I, <1>J DEF WaitReturn, runVars, At, ReturnPC, LifeOK
<1>12. ASSUME NEW t \in Threads, EventModAuto(t) PROVE LifeOK(u)'
  BY <1>12, <1>S, <1>I, <1>J DEF EventModAuto, runVars, At, ReturnPC, SatisfyBy, Return,
     LifeOK
<1>13. ASSUME NEW t \in Threads, EventModIntr(t) PROVE LifeOK(u)'
  BY <1>13, <1>S, <1>I, <1>J DEF EventModIntr, runVars, At, ReturnPC, SatisfyBy, Return,
     LifeOK
<1>14. ASSUME NEW t \in Threads, EventModMan(t) PROVE LifeOK(u)'
  BY <1>14, <1>S, <1>I, <1>J DEF EventModMan, runVars, At, LifeOK
<1>15. ASSUME NEW t \in Threads, WakeOneThreadFlat(t) PROVE LifeOK(u)'
  BY <1>15, <1>S, <1>I, <1>J DEF WakeOneThreadFlat, runVars, At, ReturnPC, SatisfyBy, Return,
     LifeOK
<1>16. ASSUME NEW t \in Threads, SemPop(t) PROVE LifeOK(u)'
  BY <1>16, <1>S, <1>I, <1>J DEF SemPop, runVars, At, ReturnPC, SatisfyBy, Return, LifeOK
<1>17. ASSUME NEW t \in Threads, LeaveMutex(t) PROVE LifeOK(u)'
  BY <1>17, <1>S, <1>I, <1>J DEF LeaveMutex, runVars, At, SatisfyBy, LifeOK
<1>18. ASSUME NEW t \in Threads, PostUnlinkCritMut(t) PROVE LifeOK(u)'
  BY <1>18, <1>S, <1>I, <1>J DEF PostUnlinkCritMut, runVars, At, ReturnPC, Return, LifeOK
<1>19. ASSUME NEW t \in Threads, WakeExitWaiter(t) PROVE LifeOK(u)'
  BY <1>19, <1>S, <1>I, <1>J DEF WakeExitWaiter, runVars, At, SatisfyBy, LifeOK
<1>20. ASSUME NEW t \in Threads, Bury(t) PROVE LifeOK(u)'
  BY <1>20, <1>S, <1>I, <1>J DEF Bury, At, LifeOK
<1>21. ASSUME NEW t \in Threads, NEW w \in Waits[t], WaitConfig(t, w) PROVE LifeOK(u)'
  BY <1>21, <1>S, <1>I, <1>J DEF WaitConfig, runVars, At, LifeOK
<1>22. ASSUME NEW t \in Threads, NEW o \in Events, NEW action \in {"SET", "PULSE"},
              EventModify(t, o, action)
      PROVE  LifeOK(u)'
  BY <1>22, <1>S, <1>I, <1>J DEF EventModify, runVars, At, Call, LifeOK
<1>23. ASSUME NEW t \in Threads, NEW s \in Semaphores, NEW n \in 1..MaxCount, SemAdd(t, s, n)
      PROVE  LifeOK(u)'
  BY <1>23, <1>S, <1>I, <1>J DEF SemAdd, runVars, At, Call, LifeOK
<1>24. ASSUME NEW t \in Threads, NEW m \in Mutexes, PreUnlinkMutex(t, m) PROVE LifeOK(u)'
  BY <1>24, <1>S, <1>I, <1>J DEF PreUnlinkMutex, runVars, At, LifeOK
<1>25. ASSUME NEW t \in Threads, ExitThread(t) PROVE LifeOK(u)'
  BY <1>25, <1>S, <1>I, <1>J DEF ExitThread, At, LifeOK
<1>26. ASSUME NEW t \in Threads, KillRunnable(t) PROVE LifeOK(u)'
  BY <1>26, <1>S, <1>I, <1>J DEF KillRunnable, At, LifeOK
<1>27. ASSUME NEW t \in Threads, KillBlocked(t) PROVE LifeOK(u)'
  BY <1>27, <1>S, <1>I, <1>J DEF KillBlocked, LifeOK
<1>28. ASSUME NEW t \in Threads, KillLater(t) PROVE LifeOK(u)'
  BY <1>28, <1>S, <1>I, <1>J DEF KillLater, At, LifeOK
<1>29. ASSUME NEW t \in Threads,
             \/ Wake(t) \/ DequeueProxy(t) \/ (\E o \in Events : EventReset(t, o))
             \/ (\E m \in Mutexes : ReleaseNested(t, m)) \/ MakeKilledRun(t) \/ TimerFires(t)
             \/ (\E boost \in BOOLEAN : Reprio(t, boost))
      PROVE  LifeOK(u)'
  <2>1. UNCHANGED <<pc, life>>
    BY <1>29 DEF Wake, DequeueProxy, runVars, At, EventReset, ReleaseNested, MakeKilledRun,
       TimerFires, Reprio
  <2> QED
    BY <2>1, <1>I DEF LifeOK
<1>30. ASSUME NEW i \in IntrEvents, Interrupt(i) PROVE LifeOK(u)'
  <2>1. UNCHANGED <<pc, life>>
    BY <1>30 DEF Interrupt
  <2> QED
    BY <2>1, <1>I DEF LifeOK
<1> QED
  BY <1>1, <1>2, <1>3, <1>4, <1>5, <1>6, <1>7, <1>8, <1>9, <1>10, <1>11, <1>12, <1>13, <1>14,
     <1>15, <1>16, <1>17, <1>18, <1>19, <1>20, <1>21, <1>22, <1>23, <1>24, <1>25, <1>26,
     <1>27, <1>28, <1>29, <1>30 DEF Next, Continue, WaitStep, BeginCall

\* What a call is about fits the call.
LEMMA CallStep ==
    ASSUME IInv, PlainIntrWaits, Next, NEW u \in Threads
    PROVE  CallOK(u)'
<1>S. /\ pc \in [Threads -> PCs] /\ obj \in [Threads -> Objects \cup {None}]
      /\ stub \in [Threads -> Seq(Threads)] /\ waits \in [Threads -> Seq(Objects)]
      /\ current \in [Threads -> BOOLEAN] /\ lpProxy \in [Threads -> Seq(Objects)]
  BY ShapesHold DEF IInv, CountsSound, Shapes
<1>I. CallOK(u)
  BY DEF IInv
<1>J. \A t \in Threads : CallOK(t)
  BY DEF IInv
<1>1. ASSUME NEW t \in Threads, WaitSignalled(t) PROVE CallOK(u)'
  BY <1>1, <1>S, <1>I, <1>J DEF WaitSignalled, At, WaitOneMore, CallOK, HasClean, IsIntr
<1>2. ASSUME NEW t \in Threads, WaitTerminated(t) PROVE CallOK(u)'
  BY <1>2, <1>S, <1>I, <1>J DEF WaitTerminated, At, CloseWait, WaitOneMore, ExitFunc, CallOK,
     HasClean, IsIntr
<1>3. ASSUME NEW t \in Threads, WaitBlock(t) PROVE CallOK(u)'
  BY <1>3, <1>S, <1>I, <1>J DEF WaitBlock, At, WaitOneMore, CallOK, HasClean, IsIntr
<1>4. ASSUME NEW t \in Threads, WaitTimeout(t) PROVE CallOK(u)'
  BY <1>4, <1>S, <1>I, <1>J DEF WaitTimeout, At, CloseWait, WaitOneMore, ExitFunc, CallOK,
     HasClean, IsIntr
<1>5. ASSUME NEW t \in Threads, NEW o \in Objects, WaitOk(t, o) PROVE CallOK(u)'
  BY <1>5, <1>S, <1>I, <1>J DEF WaitOk, At, CloseWait, WaitOneMore, ExitFunc, CallOK,
     HasClean, IsIntr
<1>6. ASSUME NEW t \in Threads, NEW o \in Objects, WaitBad(t, o) PROVE CallOK(u)'
  BY <1>6, <1>S, <1>I, <1>J DEF WaitBad, At, CloseWait, WaitOneMore, ExitFunc, CallOK,
     HasClean, IsIntr
<1>7. ASSUME NEW t \in Threads, NEW o \in Objects, WaitEnqueue(t, o) PROVE CallOK(u)'
  <2>1. current[t] /\ (o \in IntrEvents <=> ~HasClean(t))
    BY <1>7, LooksAt DEF WaitEnqueue, WaitOneMore, At
  <2>2. /\ lpProxy' = [lpProxy EXCEPT ![t] = lpProxy'[t]]
        /\ Queued(o, lpProxy'[t])
    BY <1>7, EnqueueEffect
  <2> QED
    BY <1>7, <2>1, <2>2, Apart, <1>S, <1>I, <1>J DEF WaitEnqueue, At, WaitOneMore, CallOK,
       HasClean, IsIntr, HasClean, IsIntr, Events
<1>8. ASSUME NEW t \in Threads, Resume(t) PROVE CallOK(u)'
  BY <1>8, <1>S, <1>I, <1>J DEF Resume, callVars, waitVars, At, CallOK, HasClean, IsIntr
<1>9. ASSUME NEW t \in Threads, LaterLinkCritMut(t) PROVE CallOK(u)'
  BY <1>9, <1>S, <1>I, <1>J DEF LaterLinkCritMut, callVars, waitVars, At, CallOK, HasClean,
     IsIntr
<1>10. ASSUME NEW t \in Threads, PostBoostMut(t) PROVE CallOK(u)'
  BY <1>10, <1>S, <1>I, <1>J DEF PostBoostMut, callVars, waitVars, At, CallOK, HasClean,
     IsIntr
<1>11. ASSUME NEW t \in Threads, DequeueProxy(t) PROVE CallOK(u)'
  <2>1. \A v \in Threads : Distinct(stub'[v]) /\ (stub[v] = <<>> => stub'[v] = <<>>)
    BY <1>11, DequeueEffect DEF DequeuesFrom
  <2> QED
    BY <1>11, <2>1, <1>S, <1>I, <1>J DEF DequeueProxy, At, CallOK, HasClean, IsIntr
<1>12. ASSUME NEW t \in Threads, WaitReturn(t) PROVE CallOK(u)'
  BY <1>12, <1>S, <1>I, <1>J DEF WaitReturn, At, ReturnPC, CallOK, HasClean, IsIntr
<1>13. ASSUME NEW t \in Threads, EventModAuto(t) PROVE CallOK(u)'
  <2>1. /\ UNCHANGED <<stub, waits>>
        /\ \A v \in Threads : current'[v] => current[v] /\ lpProxy'[v] = lpProxy[v]
    BY <1>13, <1>S DEF EventModAuto, waitVars, At, ReturnPC, CloseWait, Satisfy, SatisfyBy,
       Return
  <2>2. \/ UNCHANGED <<pc, obj>>
        \/ pc' = [pc EXCEPT ![t] = ReturnPC(t)] /\ obj' = [obj EXCEPT ![t] = None]
    BY <1>13 DEF EventModAuto, waitVars, At, ReturnPC, CloseWait, Satisfy, SatisfyBy, Return
  <2>3. pc[t] = "modify"
    BY <1>13 DEF EventModAuto, At
  <2> QED
    BY <2>1, <2>2, <2>3, <1>S, <1>I, <1>J DEF ReturnPC, CallOK, HasClean, IsIntr
<1>14. ASSUME NEW t \in Threads, EventModIntr(t) PROVE CallOK(u)'
  BY <1>14, <1>S, <1>I, <1>J DEF EventModIntr, waitVars, At, ReturnPC, CloseWait, Satisfy,
     SatisfyBy, Return, CallOK, HasClean, IsIntr
<1>15. ASSUME NEW t \in Threads, EventModMan(t) PROVE CallOK(u)'
  <2>1. Distinct(queue[obj[t]])
    BY <1>15, QueueHolds, Apart DEF IInv, CountsSound, QueueAt, EventModMan, Objects, Events
  <2> QED
    BY <1>15, <2>1, Apart, <1>S, <1>I, <1>J DEF EventModMan, waitVars, At, CallOK, HasClean,
       IsIntr
<1>16. ASSUME NEW t \in Threads, WakeOneThreadFlat(t) PROVE CallOK(u)'
  <2>1. stub[t] # <<>> => Distinct(Tail(stub[t])) /\ Tail(stub[t]) \in Seq(Threads)
    BY StubHolds DEF StubAt
  <2>2. pc[t] = "wakeflat"
    BY <1>16 DEF WakeOneThreadFlat, At
  <2>3. CASE stub[t] = <<>>
    <3>1. /\ pc' = [pc EXCEPT ![t] = ReturnPC(t)] /\ obj' = [obj EXCEPT ![t] = None]
          /\ UNCHANGED <<stub, waits, current, lpProxy>>
      BY <1>16, <2>3 DEF WakeOneThreadFlat, Return, waitVars
    <3> QED
      BY <2>2, <2>3, <3>1, <1>S, <1>I, <1>J DEF ReturnPC, CallOK, HasClean, IsIntr
  <2>4. CASE stub[t] # <<>>
    <3>1. stub' = [stub EXCEPT ![t] = Tail(stub[t])] /\ UNCHANGED <<pc, obj, waits>>
      BY <1>16, <2>4 DEF WakeOneThreadFlat, SatisfyBy, Satisfy, waitVars
    <3>2. \A v \in Threads : current'[v] => current[v] /\ lpProxy'[v] = lpProxy[v]
      BY <1>16, <2>4, <1>S DEF WakeOneThreadFlat, SatisfyBy, Satisfy, CloseWait, waitVars
    <3>3. \A v \in Threads : /\ Distinct(stub'[v])
                             /\ stub'[v] # <<>> => stub[v] # <<>>
      BY <2>1, <2>4, <3>1, <1>S, <1>J DEF CallOK
    <3>4. /\ pc'[u] = pc[u] /\ obj'[u] = obj[u] /\ waits'[u] = waits[u] /\ Distinct(stub'[u])
          /\ stub'[u] # <<>> => stub[u] # <<>>
      BY <3>1, <3>3
    <3>5. HasClean(u)' <=> HasClean(u)
      BY <3>4 DEF HasClean, IsIntr
    <3> QED
      BY <3>2, <3>4, <3>5, <1>I DEF CallOK
  <2> QED
    BY <2>3, <2>4
<1>17. ASSUME NEW t \in Threads, SemPop(t) PROVE CallOK(u)'
  <2>1. /\ UNCHANGED <<stub, waits>>
        /\ \A v \in Threads : current'[v] => current[v] /\ lpProxy'[v] = lpProxy[v]
    BY <1>17, <1>S DEF SemPop, waitVars, At, ReturnPC, CloseWait, Satisfy, SatisfyBy, Return
  <2>2. \/ UNCHANGED <<pc, obj>>
        \/ pc' = [pc EXCEPT ![t] = ReturnPC(t)] /\ obj' = [obj EXCEPT ![t] = None]
    BY <1>17 DEF SemPop, waitVars, At, ReturnPC, CloseWait, Satisfy, SatisfyBy, Return
  <2>3. pc[t] = "sempop"
    BY <1>17 DEF SemPop, At
  <2> QED
    BY <2>1, <2>2, <2>3, <1>S, <1>I, <1>J DEF ReturnPC, CallOK, HasClean, IsIntr
<1>18. ASSUME NEW t \in Threads, LeaveMutex(t) PROVE CallOK(u)'
  BY ZenonT(30), <1>18, <1>S, <1>I, <1>J
     DEF LeaveMutex, waitVars, At, CloseWait, Satisfy, SatisfyBy,
     CallOK, HasClean, IsIntr
<1>19. ASSUME NEW t \in Threads, PostUnlinkCritMut(t) PROVE CallOK(u)'
  BY <1>19, <1>S, <1>I, <1>J DEF PostUnlinkCritMut, waitVars, At, ReturnPC, Return, CallOK,
     HasClean, IsIntr
<1>20. ASSUME NEW t \in Threads, WakeExitWaiter(t) PROVE CallOK(u)'
  BY <1>20, <1>S, <1>I, <1>J DEF WakeExitWaiter, waitVars, At, CloseWait, Satisfy, SatisfyBy,
     CallOK, HasClean, IsIntr
<1>21. ASSUME NEW t \in Threads, Bury(t) PROVE CallOK(u)'
  BY <1>21, <1>S, <1>I, <1>J DEF Bury, callVars, waitVars, At, CallOK, HasClean, IsIntr
<1>22. ASSUME NEW t \in Threads, NEW w \in Waits[t], WaitConfig(t, w) PROVE CallOK(u)'
  BY <1>22, <1>S, <1>I, <1>J DEF WaitConfig, callVars, At, CallOK, HasClean, IsIntr
<1>23. ASSUME NEW t \in Threads, NEW o \in Events, NEW action \in {"SET", "PULSE"},
              EventModify(t, o, action)
      PROVE  CallOK(u)'
  BY <1>23, <1>S, <1>I, <1>J DEF EventModify, waitVars, At, Call, CallOK, HasClean, IsIntr
<1>24. ASSUME NEW t \in Threads, NEW s \in Semaphores, NEW n \in 1..MaxCount, SemAdd(t, s, n)
      PROVE  CallOK(u)'
  BY <1>24, <1>S, <1>I, <1>J DEF SemAdd, waitVars, At, Call, CallOK, HasClean, IsIntr
<1>25. ASSUME NEW t \in Threads, NEW m \in Mutexes, PreUnlinkMutex(t, m) PROVE CallOK(u)'
  BY <1>25, <1>S, <1>I, <1>J DEF PreUnlinkMutex, waitVars, At, CallOK, HasClean, IsIntr
<1>26. ASSUME NEW t \in Threads, ExitThread(t) PROVE CallOK(u)'
  BY <1>26, <1>S, <1>I, <1>J DEF ExitThread, callVars, waitVars, At, CallOK, HasClean, IsIntr
<1>27. ASSUME NEW t \in Threads, KillRunnable(t) PROVE CallOK(u)'
  <2>1. UNCHANGED <<pc, obj, stub, waits, current, lpProxy>>
    BY <1>27, <1>S DEF KillRunnable, callVars, waitVars, At, InProgram
  <2> QED
    BY <2>1, <1>I DEF CallOK, HasClean, IsIntr
<1>28. ASSUME NEW t \in Threads, KillBlocked(t) PROVE CallOK(u)'
  BY <1>28, <1>S, <1>I, <1>J DEF KillBlocked, callVars, CloseWait, CallOK, HasClean, IsIntr
<1>29. ASSUME NEW t \in Threads, TimerFires(t) PROVE CallOK(u)'
  BY <1>29, <1>S, <1>I, <1>J DEF TimerFires, callVars, waitVars, CloseWait, CallOK, HasClean,
     IsIntr
<1>30. ASSUME NEW i \in IntrEvents, Interrupt(i) PROVE CallOK(u)'
  BY <1>30, <1>S, <1>I, <1>J DEF Interrupt, callVars, waitVars, CloseWait, CallOK, HasClean,
     IsIntr
<1>31. ASSUME NEW t \in Threads,
             \/ Wake(t) \/ (\E o \in Events : EventReset(t, o))
             \/ (\E m \in Mutexes : ReleaseNested(t, m)) \/ KillLater(t) \/ MakeKilledRun(t)
             \/ (\E boost \in BOOLEAN : Reprio(t, boost))
      PROVE  CallOK(u)'
  <2>1. UNCHANGED <<pc, obj, stub, waits, current, lpProxy>>
    BY <1>31 DEF Wake, waitVars, EventReset, callVars, At, ReleaseNested, KillLater,
       MakeKilledRun, Reprio
  <2> QED
    BY <2>1, <1>I DEF CallOK, HasClean, IsIntr
<1> QED
  BY <1>1, <1>2, <1>3, <1>4, <1>5, <1>6, <1>7, <1>8, <1>9, <1>10, <1>11, <1>12, <1>13, <1>14,
     <1>15, <1>16, <1>17, <1>18, <1>19, <1>20, <1>21, <1>22, <1>23, <1>24, <1>25, <1>26,
     <1>27, <1>28, <1>29, <1>30, <1>31 DEF Next, Continue, WaitStep, BeginCall

\* A wait is one of the waits of its thread, and its lists are cleared when it ends.
LEMMA WaitStepOK ==
    ASSUME IInv, PlainIntrWaits, Next, NEW u \in Threads
    PROVE  WaitOK(u)'
<1>S. /\ pc \in [Threads -> PCs] /\ waits \in [Threads -> Seq(Objects)]
      /\ timeout \in [Threads -> {"zero", "finite", "infinite"}]
      /\ current \in [Threads -> BOOLEAN] /\ lpProxy \in [Threads -> Seq(Objects)]
      /\ base \in [Threads -> Seq(Objects)]
  BY ShapesHold DEF IInv, CountsSound, Shapes
<1>I. WaitOK(u)
  BY DEF IInv
<1>J. \A t \in Threads : WaitOK(t) /\ StateOK(t) /\ RunOK(t)
  BY DEF IInv
<1>1. ASSUME NEW t \in Threads, WaitSignalled(t) PROVE WaitOK(u)'
  BY <1>1, <1>S, <1>I, <1>J DEF WaitSignalled, At, WaitOneMore, WaitOK, WaitPCs, StateOK
<1>2. ASSUME NEW t \in Threads, WaitTerminated(t) PROVE WaitOK(u)'
  BY <1>2, <1>S, <1>I, <1>J DEF WaitTerminated, At, CloseWait, WaitOneMore, ExitFunc, WaitOK,
     WaitPCs
<1>3. ASSUME NEW t \in Threads, WaitBlock(t) PROVE WaitOK(u)'
  BY <1>3, <1>S, <1>I, <1>J DEF WaitBlock, At, WaitOneMore, WaitOK, WaitPCs
<1>4. ASSUME NEW t \in Threads, WaitTimeout(t) PROVE WaitOK(u)'
  BY <1>4, <1>S, <1>I, <1>J DEF WaitTimeout, At, CloseWait, WaitOneMore, ExitFunc, WaitOK,
     WaitPCs
<1>5. ASSUME NEW t \in Threads, NEW o \in Objects, WaitOk(t, o) PROVE WaitOK(u)'
  BY <1>5, <1>S, <1>I, <1>J DEF WaitOk, At, CloseWait, WaitOneMore, ExitFunc, Considers,
     WaitOK, WaitPCs
<1>6. ASSUME NEW t \in Threads, NEW o \in Objects, WaitBad(t, o) PROVE WaitOK(u)'
  BY <1>6, <1>S, <1>I, <1>J DEF WaitBad, At, CloseWait, WaitOneMore, ExitFunc, Considers,
     WaitOK, WaitPCs
<1>7. ASSUME NEW t \in Threads, NEW o \in Objects, WaitEnqueue(t, o) PROVE WaitOK(u)'
  <2>1. current[t] /\ base[t] = <<>>
    BY <1>7, LooksAt DEF WaitEnqueue, WaitOneMore, At
  <2> QED
    BY <1>7, <2>1, <1>S, <1>I, <1>J DEF WaitEnqueue, At, WaitOneMore, Considers, WaitOK,
       WaitPCs
<1>8. ASSUME NEW t \in Threads, Resume(t) PROVE WaitOK(u)'
  BY <1>8, <1>S, <1>I, <1>J DEF Resume, waitVars, At, WaitOK, WaitPCs, RunOK
<1>9. ASSUME NEW t \in Threads, LaterLinkCritMut(t) PROVE WaitOK(u)'
  BY <1>9, <1>S, <1>I, <1>J DEF LaterLinkCritMut, waitVars, At, WaitOK, WaitPCs
<1>10. ASSUME NEW t \in Threads, PostBoostMut(t) PROVE WaitOK(u)'
  BY <1>10, <1>S, <1>I, <1>J DEF PostBoostMut, waitVars, At, WaitOK, WaitPCs
<1>11. ASSUME NEW t \in Threads, DequeueProxy(t) PROVE WaitOK(u)'
  BY <1>11, <1>S, <1>I, <1>J DEF DequeueProxy, At, WaitOK, WaitPCs
<1>12. ASSUME NEW t \in Threads, WaitReturn(t) PROVE WaitOK(u)'
  BY <1>12, <1>S, <1>I, <1>J DEF WaitReturn, At, ReturnPC, WaitOK, WaitPCs
<1>13. ASSUME NEW t \in Threads, Release(t) PROVE WaitOK(u)'
  <2>1. CASE UNCHANGED <<waitVars, runVars>>
    BY <2>1, <1>13, ReleaseEffect, <1>S, <1>I, <1>J DEF waitVars, runVars, WaitOK, WaitPCs
  <2>2. ASSUME NEW p \in Threads, NEW o \in Objects, Serves(t, p, o) PROVE WaitOK(u)'
    BY <2>2, <1>13, ReleaseEffect, <1>S, <1>I, <1>J DEF Serves, Satisfy, CloseWait, WaitOK,
       WaitPCs
  <2> QED
    BY <2>1, <2>2, <1>13, ReleaseEffect
<1>14. ASSUME NEW t \in Threads, EventModMan(t) PROVE WaitOK(u)'
  BY <1>14, <1>S, <1>I, <1>J DEF EventModMan, waitVars, At, WaitOK, WaitPCs
<1>15. ASSUME NEW t \in Threads, PostUnlinkCritMut(t) PROVE WaitOK(u)'
  BY <1>15, <1>S, <1>I, <1>J DEF PostUnlinkCritMut, waitVars, At, ReturnPC, Return, WaitOK,
     WaitPCs
<1>16. ASSUME NEW t \in Threads, Bury(t) PROVE WaitOK(u)'
  BY <1>16, <1>S, <1>I, <1>J DEF Bury, waitVars, At, WaitOK, WaitPCs
<1>17. ASSUME NEW t \in Threads, NEW w \in Waits[t], WaitConfig(t, w) PROVE WaitOK(u)'
  <2>1. /\ w = <<w[1], w[2]>> /\ waits' = [waits EXCEPT ![t] = w[1]]
        /\ timeout' = [timeout EXCEPT ![t] = w[2]]
    BY <1>17, WaitsWellFormed DEF WaitConfig
  <2>2. u = t => <<waits'[u], timeout'[u]>> \in Waits[u]
    BY <2>1, <1>S, <1>I, <1>J
  <2> QED
    BY <1>17, <2>1, <2>2, <1>S, <1>I, <1>J DEF WaitConfig, At, WaitOK, WaitPCs
<1>18. ASSUME NEW t \in Threads, NEW o \in Events, NEW action \in {"SET", "PULSE"},
              EventModify(t, o, action)
      PROVE  WaitOK(u)'
  BY <1>18, <1>S, <1>I, <1>J DEF EventModify, waitVars, At, Call, WaitOK, WaitPCs
<1>19. ASSUME NEW t \in Threads, NEW s \in Semaphores, NEW n \in 1..MaxCount, SemAdd(t, s, n)
      PROVE  WaitOK(u)'
  BY <1>19, <1>S, <1>I, <1>J DEF SemAdd, waitVars, At, Call, WaitOK, WaitPCs
<1>20. ASSUME NEW t \in Threads, NEW m \in Mutexes, PreUnlinkMutex(t, m) PROVE WaitOK(u)'
  BY <1>20, <1>S, <1>I, <1>J DEF PreUnlinkMutex, waitVars, At, WaitOK, WaitPCs
<1>21. ASSUME NEW t \in Threads, ExitThread(t) PROVE WaitOK(u)'
  BY <1>21, <1>S, <1>I, <1>J DEF ExitThread, waitVars, At, WaitOK, WaitPCs
<1>22. ASSUME NEW t \in Threads, KillRunnable(t) PROVE WaitOK(u)'
    <2>1. UNCHANGED <<pc, waits, timeout, current, lpProxy, base>>
    BY <1>22, <1>S DEF KillRunnable, waitVars, At, InProgram
  <2> QED
    BY <2>1, <1>I DEF WaitOK, WaitPCs
<1>23. ASSUME NEW t \in Threads, KillBlocked(t) PROVE WaitOK(u)'
  BY <1>23, <1>S, <1>I, <1>J DEF KillBlocked, CloseWait, WaitOK, WaitPCs
<1>24. ASSUME NEW t \in Threads, TimerFires(t) PROVE WaitOK(u)'
  BY <1>24, <1>S, <1>I, <1>J DEF TimerFires, waitVars, CloseWait, WaitOK, WaitPCs
<1>25. ASSUME NEW i \in IntrEvents, Interrupt(i) PROVE WaitOK(u)'
  <2>0. UNCHANGED pc
    BY <1>25 DEF Interrupt
  <2>1. CASE UNCHANGED <<waitVars, runVars>>
    BY <2>0, <2>1, <1>25, <1>S, <1>I, <1>J DEF waitVars, runVars, WaitOK, WaitPCs
  <2>2. ASSUME NEW p \in Threads, Interrupts(i, p) PROVE WaitOK(u)'
    BY <2>0, <2>2, <1>S, <1>I, <1>J DEF Interrupts, CloseWait, WaitOK, WaitPCs
  <2> QED
    BY <2>1, <2>2, <1>25, InterruptEffect
<1>26. ASSUME NEW t \in Threads,
             \/ Wake(t) \/ (\E o \in Events : EventReset(t, o))
             \/ (\E m \in Mutexes : ReleaseNested(t, m)) \/ KillLater(t) \/ MakeKilledRun(t)
             \/ (\E boost \in BOOLEAN : Reprio(t, boost))
      PROVE  WaitOK(u)'
  <2>1. UNCHANGED <<pc, waits, timeout, current, lpProxy, base>>
    BY <1>26 DEF Wake, waitVars, EventReset, At, ReleaseNested, KillLater, MakeKilledRun,
       Reprio
  <2> QED
    BY <2>1, <1>I DEF WaitOK, WaitPCs
<1> QED
  BY <1>1, <1>2, <1>3, <1>4, <1>5, <1>6, <1>7, <1>8, <1>9, <1>10, <1>11, <1>12, <1>13, <1>14,
     <1>15, <1>16, <1>17, <1>18, <1>19, <1>20, <1>21, <1>22, <1>23, <1>24, <1>25, <1>26 DEF
     Next, Continue, WaitStep, BeginCall,
     Release

\* The lists of a wait divide its objects into those looked at and the others.
LEMMA ListsStep ==
    ASSUME IInv, PlainIntrWaits, Next, NEW u \in Threads
    PROVE  ListsOK(u)'
<1>S. /\ current \in [Threads -> BOOLEAN] /\ waits \in [Threads -> Seq(Objects)]
      /\ timeout \in [Threads -> {"zero", "finite", "infinite"}]
      /\ lpPendProxy \in [Threads -> Seq(Objects)] /\ lpProxy \in [Threads -> Seq(Objects)]
  BY ShapesHold DEF IInv, CountsSound, Shapes
<1>I. ListsOK(u)
  BY DEF IInv
<1>J. \A t \in Threads : WaitOK(t)
  BY DEF IInv
<1>1. ASSUME NEW t \in Threads, WaitTerminated(t) PROVE ListsOK(u)'
  BY <1>1, <1>S, <1>I, <1>J DEF WaitTerminated, At, CloseWait, WaitOneMore, ExitFunc, ListsOK,
     HasClean, IsIntr
<1>2. ASSUME NEW t \in Threads, WaitTimeout(t) PROVE ListsOK(u)'
  BY <1>2, <1>S, <1>I, <1>J DEF WaitTimeout, At, CloseWait, NoEnqueue, WaitOneMore, ExitFunc,
     ListsOK, HasClean, IsIntr
<1>3. ASSUME NEW t \in Threads, NEW o \in Objects, WaitOk(t, o) PROVE ListsOK(u)'
  BY <1>3, <1>S, <1>I, <1>J DEF WaitOk, At, CloseWait, WaitOneMore, ExitFunc, ListsOK,
     HasClean, IsIntr
<1>4. ASSUME NEW t \in Threads, NEW o \in Objects, WaitBad(t, o) PROVE ListsOK(u)'
  BY <1>4, <1>S, <1>I, <1>J DEF WaitBad, At, CloseWait, NoEnqueue, WaitOneMore, ExitFunc,
     ListsOK, HasClean, IsIntr
<1>5. ASSUME NEW t \in Threads, NEW o \in Objects, WaitEnqueue(t, o) PROVE ListsOK(u)'
  <2>1. current[t] /\ Queued(o, lpPendProxy[t])
    BY <1>5, LooksAt DEF WaitEnqueue, WaitOneMore, At
  <2>2. UNCHANGED <<waits, timeout, current>> /\ ~NoEnqueue(t)
    BY <1>5 DEF WaitEnqueue, WaitOneMore
  <2>3. CASE u # t
    <3>1. lpProxy'[u] = lpProxy[u] /\ lpPendProxy'[u] = lpPendProxy[u]
      BY <1>5, <1>S, <2>3, EnqueueEffect
    <3> QED
      BY <2>2, <3>1, <1>I DEF ListsOK, HasClean, IsIntr
  <2>4. CASE u = t
    <3>1. /\ Distinct(lpProxy'[t])
          /\ \A d : Queued(d, lpProxy'[t]) <=> d = o \/ Queued(d, lpProxy[t])
          /\ Distinct(lpPendProxy'[t])
          /\ \A d : Queued(d, lpPendProxy'[t]) <=> d # o /\ Queued(d, lpPendProxy[t])
      BY <1>5, EnqueueEffect
    <3> QED
      BY <2>1, <2>2, <2>4, <3>1, <1>I DEF ListsOK, NoEnqueue, HasClean
  <2> QED
    BY <2>3, <2>4
<1>6. ASSUME NEW t \in Threads, WaitReturn(t) PROVE ListsOK(u)'
  BY <1>6, <1>S, <1>I, <1>J DEF WaitReturn, At, ReturnPC, ListsOK, HasClean, IsIntr, WaitOK
<1>7. ASSUME NEW t \in Threads, Release(t) PROVE ListsOK(u)'
  <2>1. CASE UNCHANGED <<waitVars, runVars>>
    BY <2>1, <1>7, ReleaseEffect, <1>S, <1>I, <1>J DEF waitVars, runVars, ListsOK, HasClean,
       IsIntr
  <2>2. ASSUME NEW p \in Threads, NEW o \in Objects, Serves(t, p, o) PROVE ListsOK(u)'
    BY <2>2, <1>7, ReleaseEffect, <1>S, <1>I, <1>J DEF Serves, Satisfy, CloseWait, ListsOK,
       HasClean, IsIntr
  <2> QED
    BY <2>1, <2>2, <1>7, ReleaseEffect
<1>8. ASSUME NEW t \in Threads, NEW w \in Waits[t], WaitConfig(t, w) PROVE ListsOK(u)'
  <2>1. w[1] \in Seq(Objects) /\ Distinct(w[1])
    BY WaitsWellFormed
  <2>2. /\ waits' = [waits EXCEPT ![t] = w[1]] /\ lpPendProxy' = [lpPendProxy EXCEPT ![t] = w[1]]
        /\ current' = [current EXCEPT ![t] = TRUE] /\ timeout' = [timeout EXCEPT ![t] = w[2]]
        /\ lpProxy' = lpProxy /\ lpProxy[t] = <<>>
    BY <1>8, <1>J DEF WaitConfig, At, WaitOK, WaitPCs
  <2>3. Distinct(<<>>)
    BY DEF Distinct
  <2> QED
    BY <2>1, <2>2, <2>3, EmptyQueue, <1>S, <1>I DEF ListsOK, HasClean, IsIntr
<1>9. ASSUME NEW t \in Threads, KillBlocked(t) PROVE ListsOK(u)'
  BY <1>9, <1>S, <1>I, <1>J DEF KillBlocked, CloseWait, ListsOK, HasClean, IsIntr
<1>10. ASSUME NEW t \in Threads, TimerFires(t) PROVE ListsOK(u)'
  BY <1>10, <1>S, <1>I, <1>J DEF TimerFires, waitVars, CloseWait, ListsOK, HasClean, IsIntr
<1>11. ASSUME NEW i \in IntrEvents, Interrupt(i) PROVE ListsOK(u)'
  <2>0. UNCHANGED pc
    BY <1>11 DEF Interrupt
  <2>1. CASE UNCHANGED <<waitVars, runVars>>
    BY <2>0, <2>1, <1>11, <1>S, <1>I, <1>J DEF waitVars, runVars, ListsOK, HasClean, IsIntr
  <2>2. ASSUME NEW p \in Threads, Interrupts(i, p) PROVE ListsOK(u)'
    BY <2>0, <2>2, <1>S, <1>I, <1>J DEF Interrupts, CloseWait, ListsOK, HasClean, IsIntr
  <2> QED
    BY <2>1, <2>2, <1>11, InterruptEffect
<1>12. ASSUME NEW t \in Threads,
             \/ Wake(t) \/ WaitSignalled(t) \/ WaitBlock(t) \/ Resume(t)
             \/ LaterLinkCritMut(t) \/ PostBoostMut(t) \/ DequeueProxy(t) \/ EventModMan(t)
             \/ PostUnlinkCritMut(t) \/ Bury(t)
      PROVE  ListsOK(u)'
  <2>1. UNCHANGED <<current, waits, timeout, lpPendProxy, lpProxy>>
    BY <1>12 DEF Wake, waitVars, WaitSignalled, At, WaitOneMore, WaitBlock, Resume,
       LaterLinkCritMut, PostBoostMut, DequeueProxy, EventModMan, PostUnlinkCritMut, Bury
  <2> QED
    BY <2>1, <1>I DEF ListsOK, HasClean, IsIntr
<1>13. ASSUME NEW t \in Threads,
             \/ (\E o \in Events : EventReset(t, o))
             \/ (\E o \in Events, action \in {"SET", "PULSE"} : EventModify(t, o, action))
             \/ (\E s \in Semaphores, n \in 1..MaxCount : SemAdd(t, s, n))
             \/ (\E m \in Mutexes : ReleaseNested(t, m))
             \/ (\E m \in Mutexes : PreUnlinkMutex(t, m)) \/ ExitThread(t) \/ KillRunnable(t)
             \/ KillLater(t) \/ MakeKilledRun(t) \/ (\E boost \in BOOLEAN : Reprio(t, boost))
      PROVE  ListsOK(u)'
  <2>1. UNCHANGED <<current, waits, timeout, lpPendProxy, lpProxy>>
    BY <1>13 DEF EventReset, waitVars, At, EventModify, SemAdd, ReleaseNested, PreUnlinkMutex,
       ExitThread, KillRunnable, KillLater, MakeKilledRun, Reprio
  <2> QED
    BY <2>1, <1>I DEF ListsOK, HasClean, IsIntr
<1> QED
  BY <1>1, <1>2, <1>3, <1>4, <1>5, <1>6, <1>7, <1>8, <1>9, <1>10, <1>11, <1>12, <1>13 DEF
     Next, Continue, WaitStep, BeginCall,
     Release

\* Who is blocked, who sleeps, and where.
LEMMA RunStep ==
    ASSUME IInv, PlainIntrWaits, Next, NEW u \in Threads
    PROVE  RunOK(u)'
<1>S. /\ current \in [Threads -> BOOLEAN] /\ pc \in [Threads -> PCs]
      /\ runstate \in [Threads -> {"runnable", "needsrun", "blocked"}]
      /\ needsleep \in [Threads -> BOOLEAN] /\ sleeping \in [Threads -> BOOLEAN]
      /\ timeout \in [Threads -> {"zero", "finite", "infinite"}]
      /\ retval \in [Threads -> Results]
  BY ShapesHold DEF IInv, CountsSound, Shapes
<1>I. RunOK(u)
  BY DEF IInv
<1>J. \A t \in Threads : WaitOK(t) /\ RunOK(t) /\ StateOK(t)
  BY DEF IInv
<1>1. ASSUME NEW t \in Threads, Wake(t) PROVE RunOK(u)'
  BY <1>1, <1>S, <1>I, <1>J DEF Wake, waitVars, MakeRunIfNeeded, RunOK, WaitPCs
<1>2. ASSUME NEW t \in Threads, WaitSignalled(t) PROVE RunOK(u)'
  BY <1>2, <1>S, <1>I, <1>J DEF WaitSignalled, At, WaitOneMore, RunOK, WaitPCs
<1>3. ASSUME NEW t \in Threads, WaitTerminated(t) PROVE RunOK(u)'
  BY <1>3, <1>S, <1>I, <1>J DEF WaitTerminated, At, IsIntr, HasClean, CloseWait, WaitOneMore,
     ExitFunc, RunOK, WaitPCs
<1>4. ASSUME NEW t \in Threads, WaitBlock(t) PROVE RunOK(u)'
  BY <1>4, <1>S, <1>I, <1>J DEF WaitBlock, At, WaitOneMore, RunOK, WaitPCs
<1>5. ASSUME NEW t \in Threads, WaitTimeout(t) PROVE RunOK(u)'
  BY <1>5, <1>S, <1>I, <1>J DEF WaitTimeout, At, IsIntr, HasClean, CloseWait, WaitOneMore,
     ExitFunc, RunOK, WaitPCs
<1>6. ASSUME NEW t \in Threads, NEW o \in Objects, WaitOk(t, o) PROVE RunOK(u)'
  BY <1>6, <1>S, <1>I, <1>J DEF WaitOk, At, IsIntr, HasClean, CloseWait, WaitOneMore,
     ExitFunc, RunOK, WaitPCs
<1>7. ASSUME NEW t \in Threads, NEW o \in Objects, WaitBad(t, o) PROVE RunOK(u)'
  BY <1>7, <1>S, <1>I, <1>J DEF WaitBad, At, IsIntr, HasClean, CloseWait, WaitOneMore,
     ExitFunc, RunOK, WaitPCs
<1>8. ASSUME NEW t \in Threads, NEW o \in Objects, WaitEnqueue(t, o) PROVE RunOK(u)'
  BY <1>8, <1>S, <1>I, <1>J DEF WaitEnqueue, At, IsIntr, HasClean, WaitOneMore, RunOK, WaitPCs
<1>9. ASSUME NEW t \in Threads, Resume(t) PROVE RunOK(u)'
  BY <1>9, <1>S, <1>I, <1>J DEF Resume, waitVars, runVars, At, RunOK, WaitPCs
<1>10. ASSUME NEW t \in Threads, LaterLinkCritMut(t) PROVE RunOK(u)'
  BY <1>10, <1>S, <1>I, <1>J DEF LaterLinkCritMut, waitVars, runVars, At, RunOK, WaitPCs
<1>11. ASSUME NEW t \in Threads, PostBoostMut(t) PROVE RunOK(u)'
  BY <1>11, <1>S, <1>I, <1>J DEF PostBoostMut, waitVars, runVars, At, RunOK, WaitPCs
<1>12. ASSUME NEW t \in Threads, WaitReturn(t) PROVE RunOK(u)'
  BY <1>12, <1>S, <1>I, <1>J DEF WaitReturn, runVars, At, ReturnPC, RunOK, WaitPCs
<1>13. ASSUME NEW t \in Threads, Release(t) PROVE RunOK(u)'
  <2>1. CASE UNCHANGED <<waitVars, runVars>>
    BY <2>1, <1>13, ReleaseEffect, <1>S, <1>I, <1>J DEF waitVars, runVars, RunOK, WaitPCs
  <2>2. ASSUME NEW p \in Threads, NEW o \in Objects, Serves(t, p, o) PROVE RunOK(u)'
    BY <2>2, <1>13, ReleaseEffect, <1>S, <1>I, <1>J DEF Serves, Satisfy, CloseWait, RunOK,
       WaitPCs
  <2> QED
    BY <2>1, <2>2, <1>13, ReleaseEffect
<1>14. ASSUME NEW t \in Threads, EventModMan(t) PROVE RunOK(u)'
  BY <1>14, <1>S, <1>I, <1>J DEF EventModMan, waitVars, runVars, At, RunOK, WaitPCs
<1>15. ASSUME NEW t \in Threads, PostUnlinkCritMut(t) PROVE RunOK(u)'
  BY <1>15, <1>S, <1>I, <1>J DEF PostUnlinkCritMut, waitVars, runVars, At, ReturnPC, Return,
     RunOK, WaitPCs
<1>16. ASSUME NEW t \in Threads, Bury(t) PROVE RunOK(u)'
  BY <1>16, <1>S, <1>I, <1>J DEF Bury, waitVars, At, RunOK, WaitPCs
<1>17. ASSUME NEW t \in Threads, NEW w \in Waits[t], WaitConfig(t, w) PROVE RunOK(u)'
  BY <1>17, <1>S, <1>I, <1>J DEF WaitConfig, runVars, At, RunOK, WaitPCs
<1>18. ASSUME NEW t \in Threads, NEW o \in Events, NEW action \in {"SET", "PULSE"},
              EventModify(t, o, action)
      PROVE  RunOK(u)'
  BY <1>18, <1>S, <1>I, <1>J DEF EventModify, waitVars, runVars, At, Call, RunOK, WaitPCs
<1>19. ASSUME NEW t \in Threads, NEW s \in Semaphores, NEW n \in 1..MaxCount, SemAdd(t, s, n)
      PROVE  RunOK(u)'
  BY <1>19, <1>S, <1>I, <1>J DEF SemAdd, waitVars, runVars, At, Call, RunOK, WaitPCs
<1>20. ASSUME NEW t \in Threads, NEW m \in Mutexes, PreUnlinkMutex(t, m) PROVE RunOK(u)'
  BY <1>20, <1>S, <1>I, <1>J DEF PreUnlinkMutex, waitVars, runVars, At, RunOK, WaitPCs
<1>21. ASSUME NEW t \in Threads, ExitThread(t) PROVE RunOK(u)'
  BY <1>21, <1>S, <1>I, <1>J DEF ExitThread, waitVars, At, RunOK, WaitPCs
<1>22. ASSUME NEW t \in Threads, KillRunnable(t) PROVE RunOK(u)'
  BY <1>22, <1>S, <1>I, <1>J DEF KillRunnable, waitVars, At, InProgram, RunOK, WaitPCs
<1>23. ASSUME NEW t \in Threads, KillBlocked(t) PROVE RunOK(u)'
  BY <1>23, <1>S, <1>I, <1>J DEF KillBlocked, IsIntr, HasClean, CloseWait, RunOK, WaitPCs
<1>24. ASSUME NEW t \in Threads, MakeKilledRun(t) PROVE RunOK(u)'
  BY <1>24, <1>S, <1>I, <1>J DEF MakeKilledRun, waitVars, MakeRunIfNeeded, RunOK, WaitPCs
<1>25. ASSUME NEW t \in Threads, TimerFires(t) PROVE RunOK(u)'
  BY <1>25, <1>S, <1>I, <1>J DEF TimerFires, waitVars, IsIntr, HasClean, CloseWait, RunOK,
     WaitPCs
<1>26. ASSUME NEW t \in Threads, NEW boost \in BOOLEAN, Reprio(t, boost) PROVE RunOK(u)'
  BY <1>26, <1>S, <1>I, <1>J DEF Reprio, IsIntr, HasClean, RunOK, WaitPCs
<1>27. ASSUME NEW i \in IntrEvents, Interrupt(i) PROVE RunOK(u)'
  <2>0. UNCHANGED pc
    BY <1>27 DEF Interrupt
  <2>1. CASE UNCHANGED <<waitVars, runVars>>
    BY <2>0, <2>1, <1>27, <1>S, <1>I, <1>J DEF waitVars, runVars, RunOK, WaitPCs
  <2>2. ASSUME NEW p \in Threads, Interrupts(i, p) PROVE RunOK(u)'
    BY <2>0, <2>2, <1>S, <1>I, <1>J DEF Interrupts, CloseWait, RunOK, WaitPCs
  <2> QED
    BY <2>1, <2>2, <1>27, InterruptEffect
<1>28. ASSUME NEW t \in Threads,
             \/ DequeueProxy(t) \/ (\E o \in Events : EventReset(t, o))
             \/ (\E m \in Mutexes : ReleaseNested(t, m)) \/ KillLater(t)
      PROVE  RunOK(u)'
  <2>1. UNCHANGED <<current, pc, runstate, needsleep, sleeping, timeout, retval>>
    BY <1>28 DEF DequeueProxy, runVars, At, EventReset, waitVars, ReleaseNested, KillLater
  <2> QED
    BY <2>1, <1>I DEF RunOK, WaitPCs
<1> QED
  BY <1>1, <1>2, <1>3, <1>4, <1>5, <1>6, <1>7, <1>8, <1>9, <1>10, <1>11, <1>12, <1>13, <1>14,
     <1>15, <1>16, <1>17, <1>18, <1>19, <1>20, <1>21, <1>22, <1>23, <1>24, <1>25, <1>26,
     <1>27, <1>28 DEF Next, Continue, WaitStep, BeginCall,
     Release

\* What the wait state and the result of a thread are at each point of a wait.
LEMMA StateStep ==
    ASSUME IInv, PlainIntrWaits, Next, NEW u \in Threads
    PROVE  StateOK(u)'
<1>S. /\ current \in [Threads -> BOOLEAN] /\ pc \in [Threads -> PCs]
      /\ runstate \in [Threads -> {"runnable", "needsrun", "blocked"}]
      /\ needsleep \in [Threads -> BOOLEAN]
      /\ bWaitState \in [Threads -> {"signalled", "processing", "blocked"}]
      /\ lpPendProxy \in [Threads -> Seq(Objects)] /\ dwPendReturn \in [Threads -> Results]
      /\ retval \in [Threads -> Results] /\ granted \in [Threads -> Results]
  BY ShapesHold DEF IInv, CountsSound, Shapes
<1>I. WaitOK(u) /\ RunOK(u) /\ StateOK(u)
  BY DEF IInv
<1>J. \A t \in Threads : WaitOK(t) /\ RunOK(t) /\ StateOK(t)
  BY DEF IInv
<1>1. ASSUME NEW t \in Threads, Wake(t) PROVE StateOK(u)'
  BY <1>1, <1>S, <1>I, <1>J DEF Wake, waitVars, MakeRunIfNeeded, StateOK, WaitPCs
<1>2. ASSUME NEW t \in Threads, WaitSignalled(t) PROVE StateOK(u)'
  BY <1>2, <1>S, <1>I, <1>J DEF WaitSignalled, At, WaitOneMore, StateOK, WaitPCs
<1>3. ASSUME NEW t \in Threads, WaitTerminated(t) PROVE StateOK(u)'
  BY <1>3, <1>S, <1>I, <1>J DEF WaitTerminated, At, IsIntr, HasClean, CloseWait, WaitOneMore,
     ExitFunc, StateOK, WaitPCs
<1>4. ASSUME NEW t \in Threads, WaitBlock(t) PROVE StateOK(u)'
  BY <1>4, <1>S, <1>I, <1>J DEF WaitBlock, At, WaitOneMore, StateOK, WaitPCs
<1>5. ASSUME NEW t \in Threads, WaitTimeout(t) PROVE StateOK(u)'
  BY <1>5, <1>S, <1>I, <1>J DEF WaitTimeout, At, IsIntr, HasClean, CloseWait, WaitOneMore,
     ExitFunc, StateOK, WaitPCs
<1>6. ASSUME NEW t \in Threads, NEW o \in Objects, WaitOk(t, o) PROVE StateOK(u)'
  BY <1>6, <1>S, <1>I, <1>J DEF WaitOk, At, IsIntr, HasClean, CloseWait, WaitOneMore,
     ExitFunc, StateOK, WaitPCs
<1>7. ASSUME NEW t \in Threads, NEW o \in Objects, WaitBad(t, o) PROVE StateOK(u)'
  BY <1>7, <1>S, <1>I, <1>J DEF WaitBad, At, IsIntr, HasClean, CloseWait, WaitOneMore,
     ExitFunc, StateOK, WaitPCs
<1>8. ASSUME NEW t \in Threads, NEW o \in Objects, WaitEnqueue(t, o) PROVE StateOK(u)'
  BY <1>8, <1>S, <1>I, <1>J DEF WaitEnqueue, At, IsIntr, HasClean, WaitOneMore, StateOK,
     WaitPCs
<1>9. ASSUME NEW t \in Threads, Resume(t) PROVE StateOK(u)'
  BY <1>9, <1>S, <1>I, <1>J DEF Resume, waitVars, runVars, At, StateOK, WaitPCs, RunOK
<1>10. ASSUME NEW t \in Threads, LaterLinkCritMut(t) PROVE StateOK(u)'
  BY <1>10, <1>S, <1>I, <1>J DEF LaterLinkCritMut, waitVars, runVars, At, StateOK, WaitPCs
<1>11. ASSUME NEW t \in Threads, PostBoostMut(t) PROVE StateOK(u)'
  BY <1>11, <1>S, <1>I, <1>J DEF PostBoostMut, waitVars, runVars, At, StateOK, WaitPCs
<1>12. ASSUME NEW t \in Threads, WaitReturn(t) PROVE StateOK(u)'
  BY <1>12, <1>S, <1>I, <1>J DEF WaitReturn, runVars, At, ReturnPC, StateOK, WaitPCs
<1>13. ASSUME NEW t \in Threads, Release(t) PROVE StateOK(u)'
  <2>1. CASE UNCHANGED <<waitVars, runVars>>
    BY <2>1, <1>13, ReleaseEffect, <1>S, <1>I, <1>J DEF waitVars, runVars, StateOK, WaitPCs
  <2>2. ASSUME NEW p \in Threads, NEW o \in Objects, Serves(t, p, o) PROVE StateOK(u)'
    <3>1. /\ pc'[u] = pc[u] \/ (u = t /\ pc[u] \notin WaitPCs /\ pc'[u] \notin WaitPCs)
          /\ pc[t] \notin WaitPCs
      BY <1>13, ReleaseEffect
    <3>2. CASE u = p
      <4>1. u # t /\ pc'[u] = pc[u] /\ ~current'[u] /\ current[u] /\ granted'[u] = o
            /\ needsleep' = needsleep /\ lpPendProxy' = lpPendProxy
        BY <2>2, <3>1, <3>2, <1>S DEF Serves, Satisfy, CloseWait
      <4>2. CASE bWaitState[u] = "blocked"
        <5>1. retval'[u] = o /\ runstate'[u] = "needsrun"
          BY <2>2, <3>2, <4>2, <1>S DEF Serves, Satisfy
        <5> QED
          BY <4>1, <4>2, <5>1, <1>I DEF StateOK, RunOK, WaitOK, WaitPCs
      <4>3. CASE bWaitState[u] # "blocked"
        <5>1. dwPendReturn'[u] = o /\ bWaitState'[u] = "signalled" /\ runstate'[u] = runstate[u]
          BY <2>2, <3>2, <4>3, <1>S DEF Serves, Satisfy
        <5> QED
          BY <4>1, <4>3, <5>1, <1>I DEF StateOK, RunOK, WaitOK, WaitPCs
      <4> QED
        BY <4>2, <4>3
    <3>3. CASE u # p
      <4>1. /\ current'[u] = current[u] /\ granted'[u] = granted[u] /\ retval'[u] = retval[u]
            /\ runstate'[u] = runstate[u] /\ dwPendReturn'[u] = dwPendReturn[u]
            /\ bWaitState'[u] = bWaitState[u]
            /\ needsleep' = needsleep /\ lpPendProxy' = lpPendProxy
        BY <2>2, <3>3, <1>S DEF Serves, Satisfy, CloseWait
      <4> QED
        BY <3>1, <4>1, <1>I DEF StateOK, WaitPCs
    <3> QED
      BY <3>2, <3>3
  <2> QED
    BY <2>1, <2>2, <1>13, ReleaseEffect
<1>14. ASSUME NEW t \in Threads, EventModMan(t) PROVE StateOK(u)'
  BY <1>14, <1>S, <1>I, <1>J DEF EventModMan, waitVars, runVars, At, StateOK, WaitPCs
<1>15. ASSUME NEW t \in Threads, PostUnlinkCritMut(t) PROVE StateOK(u)'
  BY <1>15, <1>S, <1>I, <1>J DEF PostUnlinkCritMut, waitVars, runVars, At, ReturnPC, Return,
     StateOK, WaitPCs
<1>16. ASSUME NEW t \in Threads, Bury(t) PROVE StateOK(u)'
  BY <1>16, <1>S, <1>I, <1>J DEF Bury, waitVars, At, StateOK, WaitPCs
<1>17. ASSUME NEW t \in Threads, NEW w \in Waits[t], WaitConfig(t, w) PROVE StateOK(u)'
  BY <1>17, <1>S, <1>I, <1>J DEF WaitConfig, runVars, At, StateOK, WaitPCs
<1>18. ASSUME NEW t \in Threads, NEW o \in Events, NEW action \in {"SET", "PULSE"},
              EventModify(t, o, action)
      PROVE  StateOK(u)'
  BY <1>18, <1>S, <1>I, <1>J DEF EventModify, waitVars, runVars, At, Call, StateOK, WaitPCs
<1>19. ASSUME NEW t \in Threads, NEW s \in Semaphores, NEW n \in 1..MaxCount, SemAdd(t, s, n)
      PROVE  StateOK(u)'
  BY <1>19, <1>S, <1>I, <1>J DEF SemAdd, waitVars, runVars, At, Call, StateOK, WaitPCs
<1>20. ASSUME NEW t \in Threads, NEW m \in Mutexes, PreUnlinkMutex(t, m) PROVE StateOK(u)'
  BY <1>20, <1>S, <1>I, <1>J DEF PreUnlinkMutex, waitVars, runVars, At, StateOK, WaitPCs
<1>21. ASSUME NEW t \in Threads, ExitThread(t) PROVE StateOK(u)'
  BY <1>21, <1>S, <1>I, <1>J DEF ExitThread, waitVars, At, StateOK, WaitPCs
<1>22. ASSUME NEW t \in Threads, KillRunnable(t) PROVE StateOK(u)'
  BY <1>22, <1>S, <1>I, <1>J DEF KillRunnable, waitVars, At, InProgram, StateOK, WaitPCs
<1>23. ASSUME NEW t \in Threads, KillBlocked(t) PROVE StateOK(u)'
  BY <1>23, <1>S, <1>I, <1>J DEF KillBlocked, IsIntr, HasClean, CloseWait, StateOK, WaitPCs
<1>24. ASSUME NEW t \in Threads, MakeKilledRun(t) PROVE StateOK(u)'
  BY <1>24, <1>S, <1>I, <1>J DEF MakeKilledRun, waitVars, MakeRunIfNeeded, StateOK, WaitPCs
<1>25. ASSUME NEW t \in Threads, TimerFires(t) PROVE StateOK(u)'
  <2>1. CASE runstate[t] = "blocked"
    <3>1. pc[t] = "woken" /\ retval[t] = "timeout" /\ ~needsleep[t]
      BY <1>25, <2>1, <1>J DEF TimerFires, RunOK
    <3>2. /\ UNCHANGED <<pc, needsleep, lpPendProxy, bWaitState, dwPendReturn, retval>>
          /\ current' = [current EXCEPT ![t] = FALSE]
          /\ runstate' = [runstate EXCEPT ![t] = "runnable"]
          /\ granted' = [granted EXCEPT ![t] = "timeout"]
      BY <1>25, <2>1 DEF TimerFires, CloseWait
    <3> QED
      BY <3>1, <3>2, <1>S, <1>I DEF StateOK, WaitPCs
  <2>2. CASE runstate[t] # "blocked"
    BY <1>25, <2>2, <1>S, <1>I, <1>J DEF TimerFires, waitVars, StateOK, WaitPCs
  <2> QED
    BY <2>1, <2>2
<1>26. ASSUME NEW t \in Threads, NEW boost \in BOOLEAN, Reprio(t, boost) PROVE StateOK(u)'
  <2>1. pc[t] = "woken" /\ timeout[t] = "finite"
    BY <1>26, <1>J DEF Reprio, RunOK
  <2>2. Reprocesses(t, boost)
    BY <2>1, PlainWait DEF Reprocesses, WaitPCs
  <2> QED
    BY <1>26, <2>1, <2>2, <1>S, <1>I, <1>J DEF Reprio, StateOK, WaitPCs, RunOK
<1>27. ASSUME NEW i \in IntrEvents, Interrupt(i) PROVE StateOK(u)'
  <2>0. UNCHANGED pc
    BY <1>27 DEF Interrupt
  <2>1. CASE UNCHANGED <<waitVars, runVars>>
    BY <2>0, <2>1, <1>27, <1>S, <1>I, <1>J DEF waitVars, runVars, StateOK, WaitPCs
  <2>2. ASSUME NEW p \in Threads, Interrupts(i, p) PROVE StateOK(u)'
    <3>1. CASE u = p
      <4>1. ~current'[u] /\ current[u] /\ granted'[u] = i
            /\ needsleep' = needsleep /\ lpPendProxy' = lpPendProxy
        BY <2>2, <3>1, <1>S DEF Interrupts, CloseWait
      <4>2. CASE bWaitState[u] = "blocked"
        <5>1. retval'[u] = i /\ runstate'[u] = "runnable"
          BY <2>2, <3>1, <4>2, <1>S DEF Interrupts
        <5> QED
          BY <2>0, <4>1, <4>2, <5>1, <1>I DEF StateOK, RunOK, WaitOK, WaitPCs
      <4>3. CASE bWaitState[u] # "blocked"
        <5>1. dwPendReturn'[u] = i /\ bWaitState'[u] = "signalled" /\ runstate'[u] = runstate[u]
          BY <2>2, <3>1, <4>3, <1>S DEF Interrupts
        <5> QED
          BY <2>0, <4>1, <4>3, <5>1, <1>I DEF StateOK, RunOK, WaitOK, WaitPCs
      <4> QED
        BY <4>2, <4>3
    <3>2. CASE u # p
      <4>1. /\ current'[u] = current[u] /\ granted'[u] = granted[u] /\ retval'[u] = retval[u]
            /\ runstate'[u] = runstate[u] /\ dwPendReturn'[u] = dwPendReturn[u]
            /\ bWaitState'[u] = bWaitState[u]
            /\ needsleep' = needsleep /\ lpPendProxy' = lpPendProxy
        BY <2>2, <3>2, <1>S DEF Interrupts, CloseWait
      <4> QED
        BY <2>0, <4>1, <1>I DEF StateOK, WaitPCs
    <3> QED
      BY <3>1, <3>2
  <2> QED
    BY <2>1, <2>2, <1>27, InterruptEffect
<1>28. ASSUME NEW t \in Threads,
             \/ DequeueProxy(t) \/ (\E o \in Events : EventReset(t, o))
             \/ (\E m \in Mutexes : ReleaseNested(t, m)) \/ KillLater(t)
      PROVE  StateOK(u)'
  <2>1. UNCHANGED <<current, pc, runstate, needsleep, bWaitState, lpPendProxy, dwPendReturn,
                   retval, granted>>
    BY <1>28 DEF DequeueProxy, runVars, At, EventReset, waitVars, ReleaseNested, KillLater
  <2> QED
    BY <2>1, <1>I DEF StateOK, WaitPCs
<1> QED
  BY <1>1, <1>2, <1>3, <1>4, <1>5, <1>6, <1>7, <1>8, <1>9, <1>10, <1>11, <1>12, <1>13, <1>14,
     <1>15, <1>16, <1>17, <1>18, <1>19, <1>20, <1>21, <1>22, <1>23, <1>24, <1>25, <1>26,
     <1>27, <1>28 DEF Next, Continue, WaitStep, BeginCall,
     Release

\* A proxy is queued at the objects its thread has listed, until the wait has ended.
LEMMA PlaceStep ==
    ASSUME IInv, PlainIntrWaits, Next, NEW u \in Threads, NEW d \in Objects
    PROVE  PlaceOK(u, d)'
<1>S. /\ current \in [Threads -> BOOLEAN] /\ lpProxy \in [Threads -> Seq(Objects)]
      /\ base \in [Threads -> Seq(Objects)] /\ waits \in [Threads -> Seq(Objects)]
  BY ShapesHold DEF IInv, CountsSound, Shapes
<1>I. PlaceOK(u, d) /\ WaitOK(u) /\ ListsOK(u)
  BY DEF IInv
<1>1. ASSUME NEW t \in Threads, Keeps(t) PROVE PlaceOK(u, d)'
  <2>1. UNCHANGED <<lpProxy, base>> /\ (QueuedFor(u, d)' <=> QueuedFor(u, d))
    BY <1>1, KeepsEffect, QueuedSame
  <2>2. current'[u] = current[u] \/ lpProxy[u] = <<>>
    BY <1>1, KeepsEffect
  <2> QED
    BY <2>1, <2>2, <1>I, EmptyQueue DEF PlaceOK
<1>2. ASSUME NEW t \in Threads, Ends(t) PROVE PlaceOK(u, d)'
  <2>1. QueuedFor(u, d)' <=> QueuedFor(u, d)
    BY <1>2, EndsEffect, QueuedSame
  <2>2. CASE u = t
    <3>1. /\ current[t] /\ base[t] = <<>> /\ CloseWait(t, granted'[t])
          /\ ~HasClean(t) => ~Queued(d, lpProxy[t])
          /\ Queued(d, lpProxy[t]) => (d \in IntrEvents <=> ~HasClean(t))
      BY <1>2, <1>I, <2>2, EndsEffect, IntrAlone DEF ListsOK
    <3>2. /\ ~current'[t] /\ lpProxy'[t] = <<>>
          /\ base'[t] = IF HasClean(t) THEN lpProxy[t] ELSE <<>>
      BY <1>S, <3>1 DEF CloseWait
    <3> QED
      BY <1>I, <2>1, <2>2, <3>1, <3>2, EmptyQueue DEF PlaceOK
  <2>3. CASE u # t
    <3>0. CloseWait(t, granted'[t])
      BY <1>2, EndsEffect
    <3>1. /\ current'[u] = current[u] /\ lpProxy'[u] = lpProxy[u] /\ base'[u] = base[u]
      BY <1>S, <2>3, <3>0 DEF CloseWait
    <3> QED
      BY <1>I, <2>1, <3>1 DEF PlaceOK
  <2> QED
    BY <2>2, <2>3
\* The wait of p is ended by somebody else.
<1>3. ASSUME NEW p \in Threads, NEW o \in Objects, NEW r, CloseWait(p, r),
             current[p], Queued(o, lpProxy[p]), pc[p] \in WaitPCs,
             o \in IntrEvents <=> ~HasClean(p),
             o \in IntrEvents => ~QueuedFor(p, o)',
             QueuedFor(u, d)' => QueuedFor(u, d),
             u # p /\ QueuedFor(u, d) => QueuedFor(u, d)'
      PROVE  PlaceOK(u, d)'
  <2>1. CASE u = p
    <3>1. /\ ~current'[p] /\ lpProxy'[p] = <<>> /\ base[p] = <<>>
          /\ base'[p] = IF HasClean(p) THEN lpProxy[p] ELSE <<>>
      BY <1>3, <1>I, <1>S, <2>1 DEF CloseWait, WaitOK
    <3>2. Queued(d, lpProxy[p]) => (d \in IntrEvents <=> ~HasClean(p))
                                   /\ (~HasClean(p) => d = o)
      BY <1>3, <1>I, <2>1, IntrAlone DEF ListsOK
    <3> QED
      BY <1>3, <1>I, <2>1, <3>1, <3>2, EmptyQueue DEF PlaceOK
  <2>2. CASE u # p
    <3>1. /\ current'[u] = current[u] /\ lpProxy'[u] = lpProxy[u] /\ base'[u] = base[u]
      BY <1>3, <1>S, <2>2 DEF CloseWait
    <3> QED
      BY <1>3, <1>I, <2>2, <3>1 DEF PlaceOK
  <2> QED
    BY <2>1, <2>2
<1>4. ASSUME NEW t \in Threads, Release(t) PROVE PlaceOK(u, d)'
  <2>1. CASE UNCHANGED <<waitVars, runVars>> /\ (QueuedFor(u, d)' <=> QueuedFor(u, d))
    BY <1>I, <2>1 DEF PlaceOK, waitVars
  <2>2. ASSUME NEW p \in Threads, NEW o \in Objects, Takes(t, p, o) PROVE PlaceOK(u, d)'
    <3>1. /\ QueuedFor(u, d)' => QueuedFor(u, d)
          /\ u # p /\ QueuedFor(u, d) => QueuedFor(u, d)'
          /\ o \in IntrEvents => ~QueuedFor(p, o)'
      BY <2>2 DEF Takes
    <3>2. CASE Serves(t, p, o)
      <4>1. /\ CloseWait(p, o) /\ current[p] /\ Queued(o, lpProxy[p]) /\ pc[p] \in WaitPCs
            /\ o \in IntrEvents <=> ~HasClean(p)
        BY <3>2 DEF Serves, Satisfy
      <4> QED
        BY <1>3, <3>1, <4>1
    <3>3. CASE UNCHANGED <<waitVars, runVars>> /\ ~current[p]
      BY <1>I, <3>1, <3>3 DEF PlaceOK, waitVars
    <3> QED
      BY <2>2, <3>2, <3>3 DEF Takes
  <2> QED
    BY <1>4, <2>1, <2>2, ReleaseTakes
<1>5. ASSUME NEW i \in IntrEvents, Interrupt(i) PROVE PlaceOK(u, d)'
  <2>1. CASE UNCHANGED <<waitVars, runVars>> /\ (QueuedFor(u, d)' <=> QueuedFor(u, d))
    BY <1>I, <2>1 DEF PlaceOK, waitVars
  <2>2. ASSUME NEW p \in Threads, Interrupts(i, p), ~QueuedFor(p, i)',
               QueuedFor(u, d)' => QueuedFor(u, d),
               u # p /\ QueuedFor(u, d) => QueuedFor(u, d)'
        PROVE  PlaceOK(u, d)'
    <3>1. /\ CloseWait(p, i) /\ current[p] /\ Queued(i, lpProxy[p]) /\ pc[p] \in WaitPCs
          /\ ~HasClean(p) /\ i \in Objects
      BY <2>2 DEF Interrupts, Objects, Events
    <3> QED
      BY <1>3, <2>2, <3>1
  <2> QED
    BY <1>5, <2>1, <2>2, InterruptTakes
<1>6. ASSUME NEW t \in Threads, DequeueProxy(t) PROVE PlaceOK(u, d)'
  <2>1. PICK o \in Objects : DequeuesFrom(t, o)
    BY <1>6, DequeueEffect
  <2>2. /\ queue' = [queue EXCEPT ![o] = queue'[o]]
        /\ \A v : Queued(v, queue'[o]) <=> v # t /\ Queued(v, queue[o])
        /\ base' = [base EXCEPT ![t] = base'[t]]
        /\ \A e : Queued(e, base[t]) <=> e = o \/ Queued(e, base'[t])
    BY <2>1 DEF DequeuesFrom
  <2>3. \A v \in Threads : \A w : Queued(w, stub'[v]) <=>
            Queued(w, stub[v]) /\ ~(w = t /\ o \in ManualEvents /\ obj[v] = o)
    BY <2>1 DEF DequeuesFrom
  <2>4. UNCHANGED <<obj, current, lpProxy>>
    BY <1>6 DEF DequeueProxy
  <2>5. queue \in [Objects -> Seq(Threads)]
    BY ShapesHold DEF IInv, CountsSound, Shapes
  <2>6. Queued(u, queue'[d]) <=> Queued(u, queue[d]) /\ ~(u = t /\ d = o)
    BY <2>2, <2>5
  <2>7. QueuedFor(u, d)' <=> QueuedFor(u, d) /\ ~(u = t /\ d = o)
    BY <2>3, <2>4, <2>6 DEF QueuedFor, Stubs
  <2>8. base'[u] = IF u = t THEN base'[t] ELSE base[u]
    BY <1>S, <2>2
  <2>9. pc[t] = "dequeue"
    BY <1>6 DEF DequeueProxy, At
  <2>10. u = t => ~current[u]
    BY <1>I, <2>9 DEF WaitOK
  <2> QED
    BY <1>I, <2>2, <2>4, <2>7, <2>8, <2>10 DEF PlaceOK
<1>7. ASSUME NEW t \in Threads, EventModMan(t) PROVE PlaceOK(u, d)'
  BY <1>7, <1>I, StubTakes DEF PlaceOK, waitVars
<1>8. ASSUME NEW t \in Threads, NEW o \in Objects, WaitEnqueue(t, o) PROVE PlaceOK(u, d)'
  <2>1. /\ queue' = [queue EXCEPT ![o] = queue'[o]]
        /\ \A v : Queued(v, queue'[o]) <=> v = t \/ Queued(v, queue[o])
        /\ lpProxy' = [lpProxy EXCEPT ![t] = lpProxy'[t]]
        /\ \A e : Queued(e, lpProxy'[t]) <=> e = o \/ Queued(e, lpProxy[t])
    BY <1>8, EnqueueEffect
  <2>2. UNCHANGED <<stub, current, base>> /\ obj' = [obj EXCEPT ![t] = o] /\ pc[t] = "wait"
    BY <1>8 DEF WaitEnqueue, WaitOneMore, At
  <2>3. stub[t] = <<>>
    BY <2>2 DEF IInv, CallOK
  <2>4. queue \in [Objects -> Seq(Threads)] /\ obj \in [Threads -> Objects \cup {None}]
    BY ShapesHold DEF IInv, CountsSound, Shapes
  <2>5. Queued(u, queue'[d]) <=> Queued(u, queue[d]) \/ (u = t /\ d = o)
    BY <2>1, <2>4
  <2>6. Stubs(u, d)' = Stubs(u, d)
    BY <2>2, <2>3, <2>4, EmptyQueue DEF Stubs
  <2>7. QueuedFor(u, d)' <=> QueuedFor(u, d) \/ (u = t /\ d = o)
    BY <2>5, <2>6 DEF QueuedFor
  <2>8. Queued(d, lpProxy'[u]) <=> Queued(d, lpProxy[u]) \/ (u = t /\ d = o)
    BY <1>S, <2>1
  <2> QED
    BY <1>I, <2>2, <2>7, <2>8 DEF PlaceOK
<1> QED
  BY StepKinds, <1>1, <1>2, <1>4, <1>5, <1>6, <1>7, <1>8

\* Who is in a queue after a step was there before, or has just queued.
LEMMA QueuedBefore ==
    ASSUME IInv, PlainIntrWaits, Next, NEW u \in Threads, NEW d \in Objects,
           Queued(u, queue'[d])
    PROVE  Queued(u, queue[d]) \/ WaitEnqueue(u, d)
<1>S. queue \in [Objects -> Seq(Threads)]
  BY ShapesHold DEF IInv, CountsSound, Shapes
<1>1. ASSUME NEW t \in Threads, Keeps(t) PROVE Queued(u, queue[d])
  BY <1>1, KeepsEffect
<1>2. ASSUME NEW t \in Threads, Ends(t) PROVE Queued(u, queue[d])
  BY <1>2, EndsEffect
\* Releases only take off.
<1>3. ASSUME NEW o \in Objects, queue[o] # <<>>,
             queue' = [queue EXCEPT ![o] = Tail(@)] \/ queue' = [queue EXCEPT ![o] = <<>>]
      PROVE  Queued(u, queue[d])
  BY <1>3, <1>S, TailOff, EmptyQueue
<1>4. ASSUME NEW t \in Threads, Release(t) PROVE Queued(u, queue[d])
  <2>1. CallOK(t)
    BY DEF IInv
  <2>2. t \in Objects /\ (obj[t] \in Objects \/ WakeExitWaiter(t) \/ queue' = queue)
    BY <1>4, <2>1 DEF Release, EventModAuto, EventModIntr, WakeOneThreadFlat, SemPop,
       LeaveMutex,
       WakeExitWaiter, At, CallOK, Objects, Events
  <2>3. \/ queue' = queue
        \/ \E o \in Objects : queue[o] # <<>> /\ \/ queue' = [queue EXCEPT ![o] = Tail(@)]
                                                 \/ queue' = [queue EXCEPT ![o] = <<>>]
    BY <1>4, <2>2 DEF Release, EventModAuto, EventModIntr, WakeOneThreadFlat, SemPop,
       LeaveMutex,
       WakeExitWaiter
  <2> QED
    BY <1>3, <2>3
<1>5. ASSUME NEW i \in IntrEvents, Interrupt(i) PROVE Queued(u, queue[d])
  <2>1. i \in Objects
    BY DEF Objects, Events
  <2> QED
    BY <1>3, <1>5, <2>1, InterruptEffect
<1>6. ASSUME NEW t \in Threads, DequeueProxy(t) PROVE Queued(u, queue[d])
  <2>1. PICK o \in Objects : DequeuesFrom(t, o)
    BY <1>6, DequeueEffect
  <2>2. /\ queue' = [queue EXCEPT ![o] = queue'[o]]
        /\ \A v : Queued(v, queue'[o]) <=> v # t /\ Queued(v, queue[o])
    BY <2>1 DEF DequeuesFrom
  <2> QED
    BY <1>S, <2>2
<1>7. ASSUME NEW t \in Threads, EventModMan(t) PROVE Queued(u, queue[d])
  BY <1>7, <1>S, StubTakes, EmptyQueue
<1>8. ASSUME NEW t \in Threads, NEW o \in Objects, WaitEnqueue(t, o)
      PROVE  Queued(u, queue[d]) \/ WaitEnqueue(u, d)
  <2>1. /\ queue' = [queue EXCEPT ![o] = queue'[o]]
        /\ \A v : Queued(v, queue'[o]) <=> v = t \/ Queued(v, queue[o])
    BY <1>8, EnqueueEffect
  <2>2. Queued(u, queue'[d]) => Queued(u, queue[d]) \/ (u = t /\ d = o)
    BY <1>S, <2>1
  <2> QED
    BY <1>8, <2>2
<1> QED
  BY StepKinds, <1>1, <1>2, <1>4, <1>5, <1>6, <1>7, <1>8

\* A wait that is current after a step was so before, or was queued nowhere.
LEMMA WaiterBefore ==
    ASSUME IInv, PlainIntrWaits, Next, NEW u \in Threads, NEW d \in Objects,
           current'[u], Queued(u, queue'[d])
    PROVE  (current[u] /\ Queued(u, queue[d])) \/ WaitEnqueue(u, d)
<1>S. current \in [Threads -> BOOLEAN]
  BY ShapesHold DEF IInv, CountsSound, Shapes
<1>1. CASE Queued(u, queue[d])
  <2>1. PlaceOK(u, d) /\ QueuedFor(u, d)
    BY <1>1 DEF IInv, QueuedFor
  <2>2. lpProxy[u] # <<>> \/ base[u] # <<>>
    BY <2>1, EmptyQueue DEF PlaceOK
  <2>3. ASSUME NEW t \in Threads, Keeps(t) PROVE current[u]
    BY <2>2, <2>3, KeepsEffect
  <2>4. ASSUME NEW t \in Threads, Ends(t) PROVE current[u]
    BY <2>4, <1>S, EndsEffect DEF CloseWait
  <2>5. ASSUME NEW t \in Threads, Release(t) PROVE current[u]
    BY <2>5, <1>S, ReleaseEffect DEF Serves, Satisfy, CloseWait, waitVars
  <2>6. ASSUME NEW i \in IntrEvents, Interrupt(i) PROVE current[u]
    BY <2>6, <1>S, InterruptEffect DEF Interrupts, CloseWait, waitVars
  <2>7. ASSUME NEW t \in Threads, \/ DequeueProxy(t) \/ EventModMan(t)
                                  \/ \E o \in Objects : WaitEnqueue(t, o)
        PROVE  current[u]
    BY <2>7 DEF DequeueProxy, EventModMan, WaitEnqueue, waitVars
  <2> QED
    BY <1>1, StepKinds, <2>3, <2>4, <2>5, <2>6, <2>7
<1>2. CASE WaitEnqueue(u, d)
  BY <1>2
<1> QED
  BY <1>1, <1>2, QueuedBefore

ObjectTypes ==
    /\ state \in [Events -> BOOLEAN]
    /\ pOwner \in [Mutexes -> ThreadOrNone] /\ listed \in [Mutexes -> ThreadOrNone]

CallTypes ==
    /\ pc \in [Threads -> PCs] /\ obj \in [Threads -> Objects \cup {None}]
    /\ type \in [Threads -> {"SET", "PULSE"}]

WakeTypes ==
    toWake \in [Threads -> ThreadOrNone]

TimeTypes ==
    /\ timeout \in [Threads -> {"zero", "finite", "infinite"}]
    /\ bWaitState \in [Threads -> {"signalled", "processing", "blocked"}]
    /\ current \in [Threads -> BOOLEAN]

ProxyTypes ==
    /\ lpPendProxy \in [Threads -> Seq(Objects)] /\ lpProxy \in [Threads -> Seq(Objects)]
    /\ base \in [Threads -> Seq(Objects)]

ResultTypes ==
    /\ dwPendReturn \in [Threads -> Results] /\ retval \in [Threads -> Results]
    /\ granted \in [Threads -> Results]

RunTypes ==
    /\ runstate \in [Threads -> {"runnable", "needsrun", "blocked"}]
    /\ sleeping \in [Threads -> BOOLEAN] /\ needsleep \in [Threads -> BOOLEAN]
    /\ life \in [Threads -> {"alive", "dying", "dead", "gone"}] /\ killed \subseteq Threads

\* The objects keep their types.
LEMMA ObjectTypesStep ==
    ASSUME IInv, PlainIntrWaits, Next
    PROVE  ObjectTypes'
<1>S. /\ state \in [Events -> BOOLEAN] /\ pOwner \in [Mutexes -> ThreadOrNone]
      /\ listed \in [Mutexes -> ThreadOrNone]
  BY ShapesHold DEF IInv, CountsSound, Shapes
<1>1. ASSUME NEW t \in Threads, NEW o \in Objects, WaitOk(t, o) PROVE ObjectTypes'
  BY <1>1, <1>S DEF WaitOk, At, Consume, ObjectTypes, ThreadOrNone
<1>2. ASSUME NEW t \in Threads, LaterLinkCritMut(t) PROVE ObjectTypes'
  BY <1>2, <1>S DEF LaterLinkCritMut, At, ObjectTypes, ThreadOrNone
<1>3. ASSUME NEW t \in Threads, PostBoostMut(t) PROVE ObjectTypes'
  BY <1>3, <1>S DEF PostBoostMut, At, ObjectTypes, ThreadOrNone
<1>4. ASSUME NEW t \in Threads, EventModAuto(t) PROVE ObjectTypes'
  BY <1>4, <1>S DEF EventModAuto, objectVars, At, ReturnPC, SetState, ObjectTypes,
     ThreadOrNone
<1>5. ASSUME NEW t \in Threads, EventModIntr(t) PROVE ObjectTypes'
  BY <1>5, <1>S DEF EventModIntr, At, ReturnPC, SetState, ObjectTypes, ThreadOrNone
<1>6. ASSUME NEW t \in Threads, EventModMan(t) PROVE ObjectTypes'
  BY <1>6, <1>S DEF EventModMan, At, SetState, ObjectTypes, ThreadOrNone
<1>7. ASSUME NEW t \in Threads, LeaveMutex(t) PROVE ObjectTypes'
  <2>1. obj[t] \in Mutexes /\ (queue[obj[t]] # <<>> => Head(queue[obj[t]]) \in Threads)
    BY <1>7, HeadWaits DEF LeaveMutex, At, IInv, CallOK, Objects
  <2> QED
    BY <1>7, <2>1, <1>S DEF LeaveMutex, At, ObjectTypes, ThreadOrNone
<1>8. ASSUME NEW t \in Threads, NEW o \in Events, EventReset(t, o) PROVE ObjectTypes'
  BY <1>8, <1>S DEF EventReset, At, ObjectTypes, ThreadOrNone
<1>9. ASSUME NEW t \in Threads, NEW m \in Mutexes, PreUnlinkMutex(t, m) PROVE ObjectTypes'
  BY <1>9, <1>S DEF PreUnlinkMutex, At, ObjectTypes, ThreadOrNone
<1>10. ASSUME NEW i \in IntrEvents, Interrupt(i) PROVE ObjectTypes'
  BY <1>10, <1>S DEF Interrupt, ObjectTypes, ThreadOrNone
<1>11. ASSUME NEW t \in Threads,
             \/ Wake(t) \/ WaitSignalled(t) \/ WaitTerminated(t) \/ WaitBlock(t)
             \/ WaitTimeout(t) \/ (\E o \in Objects : WaitBad(t, o))
             \/ (\E o \in Objects : WaitEnqueue(t, o)) \/ Resume(t) \/ DequeueProxy(t)
             \/ WaitReturn(t) \/ WakeOneThreadFlat(t) \/ SemPop(t) \/ PostUnlinkCritMut(t)
      PROVE  ObjectTypes'
  <2>1. UNCHANGED <<state, pOwner, listed>>
    BY <1>11 DEF Wake, objectVars, WaitSignalled, At, WaitTerminated, WaitBlock, WaitTimeout,
       WaitBad, WaitEnqueue, Resume, DequeueProxy, WaitReturn, WakeOneThreadFlat, SemPop,
       PostUnlinkCritMut
  <2> QED
    BY <2>1, <1>S DEF ObjectTypes, ThreadOrNone
<1>12. ASSUME NEW t \in Threads,
             \/ WakeExitWaiter(t) \/ Bury(t) \/ (\E w \in Waits[t] : WaitConfig(t, w))
             \/ (\E o \in Events, action \in {"SET", "PULSE"} : EventModify(t, o, action))
             \/ (\E s \in Semaphores, n \in 1..MaxCount : SemAdd(t, s, n))
             \/ (\E m \in Mutexes : ReleaseNested(t, m)) \/ ExitThread(t) \/ KillRunnable(t)
             \/ KillBlocked(t) \/ KillLater(t) \/ MakeKilledRun(t) \/ TimerFires(t)
             \/ (\E boost \in BOOLEAN : Reprio(t, boost))
      PROVE  ObjectTypes'
  <2>1. UNCHANGED <<state, pOwner, listed>>
    BY <1>12 DEF WakeExitWaiter, objectVars, At, Bury, WaitConfig, EventModify, SemAdd,
       ReleaseNested, ExitThread, KillRunnable, KillBlocked, KillLater, MakeKilledRun,
       TimerFires, Reprio
  <2> QED
    BY <2>1, <1>S DEF ObjectTypes, ThreadOrNone
<1> QED
  BY <1>1, <1>2, <1>3, <1>4, <1>5, <1>6, <1>7, <1>8, <1>9, <1>10, <1>11, <1>12 DEF Next,
     Continue, WaitStep, BeginCall

\* Calls keep their types.
LEMMA CallTypesStep ==
    ASSUME IInv, PlainIntrWaits, Next
    PROVE  CallTypes'
<1>S. /\ pc \in [Threads -> PCs] /\ obj \in [Threads -> Objects \cup {None}]
      /\ type \in [Threads -> {"SET", "PULSE"}]
  BY ShapesHold DEF IInv, CountsSound, Shapes
<1>1. ASSUME NEW t \in Threads, WaitSignalled(t) PROVE CallTypes'
  BY <1>1, <1>S DEF WaitSignalled, At, WaitOneMore, CallTypes, PCs, Objects, Events
<1>2. ASSUME NEW t \in Threads, WaitTerminated(t) PROVE CallTypes'
  BY <1>2, <1>S DEF WaitTerminated, At, WaitOneMore, CallTypes, PCs, Objects, Events
<1>3. ASSUME NEW t \in Threads, WaitBlock(t) PROVE CallTypes'
  BY <1>3, <1>S DEF WaitBlock, At, WaitOneMore, CallTypes, PCs, Objects, Events
<1>4. ASSUME NEW t \in Threads, WaitTimeout(t) PROVE CallTypes'
  BY <1>4, <1>S DEF WaitTimeout, At, WaitOneMore, CallTypes, PCs, Objects, Events
<1>5. ASSUME NEW t \in Threads, NEW o \in Objects, WaitOk(t, o) PROVE CallTypes'
  BY <1>5, <1>S DEF WaitOk, At, WaitOneMore, CallTypes, PCs, Objects, Events
<1>6. ASSUME NEW t \in Threads, NEW o \in Objects, WaitBad(t, o) PROVE CallTypes'
  BY <1>6, <1>S DEF WaitBad, At, WaitOneMore, CallTypes, PCs, Objects, Events
<1>7. ASSUME NEW t \in Threads, NEW o \in Objects, WaitEnqueue(t, o) PROVE CallTypes'
  BY <1>7, <1>S DEF WaitEnqueue, At, WaitOneMore, CallTypes, PCs, Objects, Events
<1>8. ASSUME NEW t \in Threads, Resume(t) PROVE CallTypes'
  BY <1>8, <1>S DEF Resume, callVars, At, CallTypes, PCs, Objects, Events
<1>9. ASSUME NEW t \in Threads, LaterLinkCritMut(t) PROVE CallTypes'
  BY <1>9, <1>S DEF LaterLinkCritMut, callVars, At, CallTypes, PCs, Objects, Events
<1>10. ASSUME NEW t \in Threads, PostBoostMut(t) PROVE CallTypes'
  BY <1>10, <1>S DEF PostBoostMut, callVars, At, CallTypes, PCs, Objects, Events
<1>11. ASSUME NEW t \in Threads, WaitReturn(t) PROVE CallTypes'
  BY <1>11, <1>S DEF WaitReturn, At, ReturnPC, CallTypes, PCs, Objects, Events
<1>12. ASSUME NEW t \in Threads, EventModAuto(t) PROVE CallTypes'
  BY <1>12, <1>S DEF EventModAuto, At, ReturnPC, Return, CallTypes, PCs, Objects, Events
<1>13. ASSUME NEW t \in Threads, EventModIntr(t) PROVE CallTypes'
  BY <1>13, <1>S DEF EventModIntr, At, ReturnPC, Return, CallTypes, PCs, Objects, Events
<1>14. ASSUME NEW t \in Threads, EventModMan(t) PROVE CallTypes'
  BY <1>14, <1>S DEF EventModMan, At, CallTypes, PCs, Objects, Events
<1>15. ASSUME NEW t \in Threads, WakeOneThreadFlat(t) PROVE CallTypes'
  BY <1>15, <1>S DEF WakeOneThreadFlat, At, ReturnPC, Return, CallTypes, PCs, Objects, Events
<1>16. ASSUME NEW t \in Threads, SemPop(t) PROVE CallTypes'
  BY <1>16, <1>S DEF SemPop, At, ReturnPC, Return, CallTypes, PCs, Objects, Events
<1>17. ASSUME NEW t \in Threads, LeaveMutex(t) PROVE CallTypes'
  BY <1>17, <1>S DEF LeaveMutex, At, CallTypes, PCs, Objects, Events
<1>18. ASSUME NEW t \in Threads, PostUnlinkCritMut(t) PROVE CallTypes'
  BY <1>18, <1>S DEF PostUnlinkCritMut, At, ReturnPC, Return, CallTypes, PCs, Objects, Events
<1>19. ASSUME NEW t \in Threads, WakeExitWaiter(t) PROVE CallTypes'
  BY <1>19, <1>S DEF WakeExitWaiter, At, CallTypes, PCs, Objects, Events
<1>20. ASSUME NEW t \in Threads, Bury(t) PROVE CallTypes'
  BY <1>20, <1>S DEF Bury, callVars, At, CallTypes, PCs, Objects, Events
<1>21. ASSUME NEW t \in Threads, NEW w \in Waits[t], WaitConfig(t, w) PROVE CallTypes'
  BY <1>21, <1>S DEF WaitConfig, callVars, At, CallTypes, PCs, Objects, Events
<1>22. ASSUME NEW t \in Threads, NEW o \in Events, NEW action \in {"SET", "PULSE"},
              EventModify(t, o, action)
      PROVE  CallTypes'
  BY <1>22, <1>S DEF EventModify, At, Call, CallTypes, PCs, Objects, Events
<1>23. ASSUME NEW t \in Threads, NEW s \in Semaphores, NEW n \in 1..MaxCount, SemAdd(t, s, n)
      PROVE  CallTypes'
  BY <1>23, <1>S DEF SemAdd, At, Call, CallTypes, PCs, Objects, Events
<1>24. ASSUME NEW t \in Threads, NEW m \in Mutexes, PreUnlinkMutex(t, m) PROVE CallTypes'
  BY <1>24, <1>S DEF PreUnlinkMutex, At, CallTypes, PCs, Objects, Events
<1>25. ASSUME NEW t \in Threads, ExitThread(t) PROVE CallTypes'
  BY <1>25, <1>S DEF ExitThread, callVars, At, CallTypes, PCs, Objects, Events
<1>26. ASSUME NEW t \in Threads, KillRunnable(t) PROVE CallTypes'
  BY <1>26, <1>S DEF KillRunnable, callVars, At, CallTypes, PCs, Objects, Events
<1>27. ASSUME NEW t \in Threads,
             \/ Wake(t) \/ DequeueProxy(t) \/ (\E o \in Events : EventReset(t, o))
             \/ (\E m \in Mutexes : ReleaseNested(t, m)) \/ KillBlocked(t) \/ KillLater(t)
             \/ MakeKilledRun(t) \/ TimerFires(t) \/ (\E boost \in BOOLEAN : Reprio(t, boost))
      PROVE  CallTypes'
  <2>1. UNCHANGED <<pc, obj, type>>
    BY <1>27 DEF Wake, DequeueProxy, At, EventReset, callVars, ReleaseNested, KillBlocked,
       KillLater, MakeKilledRun, TimerFires, Reprio
  <2> QED
    BY <2>1, <1>S DEF CallTypes, PCs, Objects, Events
<1>28. ASSUME NEW i \in IntrEvents, Interrupt(i) PROVE CallTypes'
  <2>1. UNCHANGED <<pc, obj, type>>
    BY <1>28 DEF Interrupt, callVars
  <2> QED
    BY <2>1, <1>S DEF CallTypes, PCs, Objects, Events
<1> QED
  BY <1>1, <1>2, <1>3, <1>4, <1>5, <1>6, <1>7, <1>8, <1>9, <1>10, <1>11, <1>12, <1>13, <1>14,
     <1>15, <1>16, <1>17, <1>18, <1>19, <1>20, <1>21, <1>22, <1>23, <1>24, <1>25, <1>26,
     <1>27, <1>28 DEF Next, Continue, WaitStep, BeginCall

\* A thread to be woken is a thread.
LEMMA WakeTypesStep ==
    ASSUME IInv, PlainIntrWaits, Next
    PROVE  WakeTypes'
<1>S. /\ toWake \in [Threads -> ThreadOrNone]
  BY ShapesHold DEF IInv, CountsSound, Shapes
<1>1. ASSUME NEW t \in Threads, Wake(t) PROVE WakeTypes'
  BY <1>1, <1>S DEF Wake, WakeTypes, ThreadOrNone
<1>2. ASSUME NEW t \in Threads, EventModAuto(t) PROVE WakeTypes'
  <2>1. obj[t] \in Objects /\ (queue[obj[t]] # <<>> => Head(queue[obj[t]]) \in Threads)
    BY <1>2, HeadWaits DEF EventModAuto, At, IInv, CallOK, Objects, Events
  <2> QED
    BY <1>2, <2>1, <1>S DEF EventModAuto, At, ReturnPC, SatisfyBy, WakeTypes, ThreadOrNone
<1>3. ASSUME NEW t \in Threads, EventModIntr(t) PROVE WakeTypes'
  <2>1. obj[t] \in Objects /\ (queue[obj[t]] # <<>> => Head(queue[obj[t]]) \in Threads)
    BY <1>3, HeadWaits DEF EventModIntr, At, IInv, CallOK, Objects, Events
  <2> QED
    BY <1>3, <2>1, <1>S DEF EventModIntr, At, ReturnPC, SatisfyBy, WakeTypes, ThreadOrNone
<1>4. ASSUME NEW t \in Threads, WakeOneThreadFlat(t) PROVE WakeTypes'
  <2>1. stub[t] # <<>> => Head(stub[t]) \in Threads
    BY StubHolds DEF StubAt
  <2> QED
    BY <1>4, <2>1, <1>S DEF WakeOneThreadFlat, At, ReturnPC, SatisfyBy, WakeTypes,
       ThreadOrNone
<1>5. ASSUME NEW t \in Threads, SemPop(t) PROVE WakeTypes'
  <2>1. obj[t] \in Objects /\ (queue[obj[t]] # <<>> => Head(queue[obj[t]]) \in Threads)
    BY <1>5, HeadWaits DEF SemPop, At, IInv, CallOK, Objects, Events
  <2> QED
    BY <1>5, <2>1, <1>S DEF SemPop, At, ReturnPC, SatisfyBy, WakeTypes, ThreadOrNone
<1>6. ASSUME NEW t \in Threads, LeaveMutex(t) PROVE WakeTypes'
  <2>1. obj[t] \in Objects /\ (queue[obj[t]] # <<>> => Head(queue[obj[t]]) \in Threads)
    BY <1>6, HeadWaits DEF LeaveMutex, At, IInv, CallOK, Objects, Events
  <2> QED
    BY <1>6, <2>1, <1>S DEF LeaveMutex, At, SatisfyBy, WakeTypes, ThreadOrNone
<1>7. ASSUME NEW t \in Threads, WakeExitWaiter(t) PROVE WakeTypes'
  <2>1. queue[t] # <<>> => Head(queue[t]) \in Threads
    BY HeadWaits DEF Objects
  <2> QED
    BY <1>7, <2>1, <1>S DEF WakeExitWaiter, At, SatisfyBy, WakeTypes, ThreadOrNone
<1>8. ASSUME NEW t \in Threads,
             \/ WaitSignalled(t) \/ WaitTerminated(t) \/ WaitBlock(t) \/ WaitTimeout(t)
             \/ (\E o \in Objects : WaitOk(t, o)) \/ (\E o \in Objects : WaitBad(t, o))
             \/ (\E o \in Objects : WaitEnqueue(t, o)) \/ Resume(t) \/ LaterLinkCritMut(t)
             \/ PostBoostMut(t) \/ DequeueProxy(t) \/ WaitReturn(t) \/ EventModMan(t)
             \/ PostUnlinkCritMut(t)
      PROVE  WakeTypes'
  <2>1. UNCHANGED <<toWake>>
    BY <1>8 DEF WaitSignalled, At, WaitOneMore, WaitTerminated, WaitBlock, WaitTimeout,
       WaitOk, WaitBad, WaitEnqueue, Resume, callVars, LaterLinkCritMut, PostBoostMut,
       DequeueProxy, WaitReturn, EventModMan, PostUnlinkCritMut
  <2> QED
    BY <2>1, <1>S DEF WakeTypes, ThreadOrNone
<1>9. ASSUME NEW t \in Threads,
             \/ Bury(t) \/ (\E w \in Waits[t] : WaitConfig(t, w))
             \/ (\E o \in Events : EventReset(t, o))
             \/ (\E o \in Events, action \in {"SET", "PULSE"} : EventModify(t, o, action))
             \/ (\E s \in Semaphores, n \in 1..MaxCount : SemAdd(t, s, n))
             \/ (\E m \in Mutexes : ReleaseNested(t, m))
             \/ (\E m \in Mutexes : PreUnlinkMutex(t, m)) \/ ExitThread(t) \/ KillRunnable(t)
             \/ KillBlocked(t) \/ KillLater(t) \/ MakeKilledRun(t) \/ TimerFires(t)
             \/ (\E boost \in BOOLEAN : Reprio(t, boost))
      PROVE  WakeTypes'
  <2>1. UNCHANGED <<toWake>>
    BY <1>9 DEF Bury, callVars, At, WaitConfig, EventReset, EventModify, SemAdd,
       ReleaseNested, PreUnlinkMutex, ExitThread, KillRunnable, KillBlocked, KillLater,
       MakeKilledRun, TimerFires, Reprio
  <2> QED
    BY <2>1, <1>S DEF WakeTypes, ThreadOrNone
<1>10. ASSUME NEW i \in IntrEvents, Interrupt(i) PROVE WakeTypes'
  <2>1. UNCHANGED <<toWake>>
    BY <1>10 DEF Interrupt, callVars
  <2> QED
    BY <2>1, <1>S DEF WakeTypes, ThreadOrNone
<1> QED
  BY <1>1, <1>2, <1>3, <1>4, <1>5, <1>6, <1>7, <1>8, <1>9, <1>10 DEF Next, Continue, WaitStep,
     BeginCall

\* Waits, timeouts and wait states keep their types.
LEMMA TimeTypesStep ==
    ASSUME IInv, PlainIntrWaits, Next
    PROVE  TimeTypes'
<1>S. /\ timeout \in [Threads -> {"zero", "finite", "infinite"}]
      /\ bWaitState \in [Threads -> {"signalled", "processing", "blocked"}]
      /\ current \in [Threads -> BOOLEAN]
  BY ShapesHold DEF IInv, CountsSound, Shapes
<1>1. ASSUME NEW t \in Threads, WaitTerminated(t) PROVE TimeTypes'
  BY <1>1, <1>S, WaitsWellFormed DEF WaitTerminated, At, CloseWait, WaitOneMore, ExitFunc,
     TimeTypes
<1>2. ASSUME NEW t \in Threads, WaitBlock(t) PROVE TimeTypes'
  BY <1>2, <1>S, WaitsWellFormed DEF WaitBlock, At, WaitOneMore, TimeTypes
<1>3. ASSUME NEW t \in Threads, WaitTimeout(t) PROVE TimeTypes'
  BY <1>3, <1>S, WaitsWellFormed DEF WaitTimeout, At, CloseWait, WaitOneMore, ExitFunc,
     TimeTypes
<1>4. ASSUME NEW t \in Threads, NEW o \in Objects, WaitOk(t, o) PROVE TimeTypes'
  BY <1>4, <1>S, WaitsWellFormed DEF WaitOk, At, CloseWait, WaitOneMore, ExitFunc, TimeTypes
<1>5. ASSUME NEW t \in Threads, NEW o \in Objects, WaitBad(t, o) PROVE TimeTypes'
  BY <1>5, <1>S, WaitsWellFormed DEF WaitBad, At, CloseWait, WaitOneMore, ExitFunc, TimeTypes
<1>6. ASSUME NEW t \in Threads, WaitReturn(t) PROVE TimeTypes'
  BY <1>6, <1>S, WaitsWellFormed DEF WaitReturn, At, ReturnPC, TimeTypes
<1>7. ASSUME NEW t \in Threads, Release(t) PROVE TimeTypes'
  <2>1. CASE UNCHANGED <<waitVars, runVars>>
    BY <2>1, <1>7, ReleaseEffect, <1>S, WaitsWellFormed DEF waitVars, runVars, TimeTypes
  <2>2. ASSUME NEW p \in Threads, NEW o \in Objects, Serves(t, p, o) PROVE TimeTypes'
    BY <2>2, <1>7, ReleaseEffect, <1>S, WaitsWellFormed DEF Serves, Satisfy, CloseWait,
       TimeTypes
  <2> QED
    BY <2>1, <2>2, <1>7, ReleaseEffect
<1>8. ASSUME NEW t \in Threads, NEW w \in Waits[t], WaitConfig(t, w) PROVE TimeTypes'
  BY <1>8, <1>S, WaitsWellFormed DEF WaitConfig, At, TimeTypes
<1>9. ASSUME NEW t \in Threads, KillBlocked(t) PROVE TimeTypes'
  BY <1>9, <1>S, WaitsWellFormed DEF KillBlocked, CloseWait, TimeTypes
<1>10. ASSUME NEW t \in Threads, TimerFires(t) PROVE TimeTypes'
  BY <1>10, <1>S, WaitsWellFormed DEF TimerFires, waitVars, CloseWait, TimeTypes
<1>11. ASSUME NEW t \in Threads, NEW boost \in BOOLEAN, Reprio(t, boost) PROVE TimeTypes'
  BY <1>11, <1>S, WaitsWellFormed DEF Reprio, TimeTypes
<1>12. ASSUME NEW i \in IntrEvents, Interrupt(i) PROVE TimeTypes'
  <2>0. UNCHANGED pc
    BY <1>12 DEF Interrupt
  <2>1. CASE UNCHANGED <<waitVars, runVars>>
    BY <2>0, <2>1, <1>12, <1>S, WaitsWellFormed DEF waitVars, runVars, TimeTypes
  <2>2. ASSUME NEW p \in Threads, Interrupts(i, p) PROVE TimeTypes'
    BY <2>0, <2>2, <1>S, WaitsWellFormed DEF Interrupts, CloseWait, TimeTypes
  <2> QED
    BY <2>1, <2>2, <1>12, InterruptEffect
<1>13. ASSUME NEW t \in Threads,
             \/ Wake(t) \/ WaitSignalled(t) \/ (\E o \in Objects : WaitEnqueue(t, o))
             \/ Resume(t) \/ LaterLinkCritMut(t) \/ PostBoostMut(t) \/ DequeueProxy(t)
             \/ EventModMan(t) \/ PostUnlinkCritMut(t) \/ Bury(t)
      PROVE  TimeTypes'
  <2>1. UNCHANGED <<timeout, bWaitState, current>>
    BY <1>13 DEF Wake, waitVars, WaitSignalled, At, WaitOneMore, WaitEnqueue, Resume,
       LaterLinkCritMut, PostBoostMut, DequeueProxy, EventModMan, PostUnlinkCritMut, Bury
  <2> QED
    BY <2>1, <1>S DEF TimeTypes
<1>14. ASSUME NEW t \in Threads,
             \/ (\E o \in Events : EventReset(t, o))
             \/ (\E o \in Events, action \in {"SET", "PULSE"} : EventModify(t, o, action))
             \/ (\E s \in Semaphores, n \in 1..MaxCount : SemAdd(t, s, n))
             \/ (\E m \in Mutexes : ReleaseNested(t, m))
             \/ (\E m \in Mutexes : PreUnlinkMutex(t, m)) \/ ExitThread(t) \/ KillRunnable(t)
             \/ KillLater(t) \/ MakeKilledRun(t)
      PROVE  TimeTypes'
  <2>1. UNCHANGED <<timeout, bWaitState, current>>
    BY <1>14 DEF EventReset, waitVars, At, EventModify, SemAdd, ReleaseNested, PreUnlinkMutex,
       ExitThread, KillRunnable, KillLater, MakeKilledRun
  <2> QED
    BY <2>1, <1>S DEF TimeTypes
<1> QED
  BY <1>1, <1>2, <1>3, <1>4, <1>5, <1>6, <1>7, <1>8, <1>9, <1>10, <1>11, <1>12, <1>13, <1>14
     DEF Next, Continue, WaitStep, BeginCall,
     Release

\* The lists of proxies are lists of objects.
LEMMA ProxyTypesStep ==
    ASSUME IInv, PlainIntrWaits, Next
    PROVE  ProxyTypes'
<1>S. /\ lpPendProxy \in [Threads -> Seq(Objects)] /\ lpProxy \in [Threads -> Seq(Objects)]
      /\ base \in [Threads -> Seq(Objects)]
  BY ShapesHold DEF IInv, CountsSound, Shapes
<1>1. ASSUME NEW t \in Threads, WaitTerminated(t) PROVE ProxyTypes'
  BY <1>1, <1>S, WaitsWellFormed DEF WaitTerminated, At, CloseWait, ExitFunc, ProxyTypes
<1>2. ASSUME NEW t \in Threads, WaitTimeout(t) PROVE ProxyTypes'
  BY <1>2, <1>S, WaitsWellFormed DEF WaitTimeout, At, CloseWait, ExitFunc, ProxyTypes
<1>3. ASSUME NEW t \in Threads, NEW o \in Objects, WaitOk(t, o) PROVE ProxyTypes'
  BY <1>3, <1>S, WaitsWellFormed DEF WaitOk, At, CloseWait, ExitFunc, ProxyTypes
<1>4. ASSUME NEW t \in Threads, NEW o \in Objects, WaitBad(t, o) PROVE ProxyTypes'
  BY <1>4, <1>S, WaitsWellFormed DEF WaitBad, At, CloseWait, ExitFunc, ProxyTypes
<1>5. ASSUME NEW t \in Threads, NEW o \in Objects, WaitEnqueue(t, o) PROVE ProxyTypes'
  <2>1. /\ lpProxy' = [lpProxy EXCEPT ![t] = lpProxy'[t]] /\ lpProxy'[t] \in Seq(Objects)
        /\ lpPendProxy' = [lpPendProxy EXCEPT ![t] = lpPendProxy'[t]]
        /\ lpPendProxy'[t] \in Seq(Objects)
    BY <1>5, EnqueueEffect
  <2>2. base' = base
    BY <1>5 DEF WaitEnqueue
  <2> QED
    BY <1>S, <2>1, <2>2 DEF ProxyTypes
<1>6. ASSUME NEW t \in Threads, DequeueProxy(t) PROVE ProxyTypes'
  <2>1. base' = [base EXCEPT ![t] = base'[t]] /\ base'[t] \in Seq(Objects)
    BY <1>6, DequeueEffect DEF DequeuesFrom
  <2>2. UNCHANGED <<lpPendProxy, lpProxy>>
    BY <1>6 DEF DequeueProxy
  <2> QED
    BY <1>S, <2>1, <2>2 DEF ProxyTypes
<1>7. ASSUME NEW t \in Threads, WaitReturn(t) PROVE ProxyTypes'
  BY <1>7, <1>S, WaitsWellFormed DEF WaitReturn, At, ReturnPC, ProxyTypes
<1>8. ASSUME NEW t \in Threads, Release(t) PROVE ProxyTypes'
  <2>1. CASE UNCHANGED <<waitVars, runVars>>
    BY <2>1, <1>8, ReleaseEffect, <1>S, WaitsWellFormed DEF waitVars, runVars, ProxyTypes
  <2>2. ASSUME NEW p \in Threads, NEW o \in Objects, Serves(t, p, o) PROVE ProxyTypes'
    BY <2>2, <1>8, ReleaseEffect, <1>S, WaitsWellFormed DEF Serves, Satisfy, CloseWait,
       ProxyTypes
  <2> QED
    BY <2>1, <2>2, <1>8, ReleaseEffect
<1>9. ASSUME NEW t \in Threads, NEW w \in Waits[t], WaitConfig(t, w) PROVE ProxyTypes'
  BY <1>9, <1>S, WaitsWellFormed DEF WaitConfig, At, ProxyTypes
<1>10. ASSUME NEW t \in Threads, KillBlocked(t) PROVE ProxyTypes'
  BY <1>10, <1>S, WaitsWellFormed DEF KillBlocked, CloseWait, ProxyTypes
<1>11. ASSUME NEW t \in Threads, TimerFires(t) PROVE ProxyTypes'
  <2>1. CASE runstate[t] = "blocked"
    <3>1. /\ lpPendProxy' = lpPendProxy /\ lpProxy' = [lpProxy EXCEPT ![t] = <<>>]
          /\ base' = base \/ base' = [base EXCEPT ![t] = lpProxy[t]]
      BY <1>11, <2>1 DEF TimerFires, CloseWait
    <3>2. lpProxy[t] \in Seq(Objects) /\ <<>> \in Seq(Objects)
      BY <1>S
    <3>3. [base EXCEPT ![t] = lpProxy[t]] \in [Threads -> Seq(Objects)]
      BY <3>2, <1>S
    <3>4. [lpProxy EXCEPT ![t] = <<>>] \in [Threads -> Seq(Objects)]
      BY <3>2, <1>S
    <3> QED
      BY <3>1, <3>3, <3>4, <1>S DEF ProxyTypes
  <2>2. CASE runstate[t] # "blocked"
    BY <1>11, <2>2, <1>S DEF TimerFires, waitVars, ProxyTypes
  <2> QED
    BY <2>1, <2>2
<1>12. ASSUME NEW i \in IntrEvents, Interrupt(i) PROVE ProxyTypes'
  <2>0. UNCHANGED pc
    BY <1>12 DEF Interrupt
  <2>1. CASE UNCHANGED <<waitVars, runVars>>
    BY <2>0, <2>1, <1>12, <1>S, WaitsWellFormed DEF waitVars, runVars, ProxyTypes
  <2>2. ASSUME NEW p \in Threads, Interrupts(i, p) PROVE ProxyTypes'
    BY <2>0, <2>2, <1>S, WaitsWellFormed DEF Interrupts, CloseWait, ProxyTypes
  <2> QED
    BY <2>1, <2>2, <1>12, InterruptEffect
<1>13. ASSUME NEW t \in Threads,
             \/ Wake(t) \/ WaitSignalled(t) \/ WaitBlock(t) \/ Resume(t)
             \/ LaterLinkCritMut(t) \/ PostBoostMut(t) \/ EventModMan(t)
             \/ PostUnlinkCritMut(t) \/ Bury(t) \/ (\E o \in Events : EventReset(t, o))
      PROVE  ProxyTypes'
  <2>1. UNCHANGED <<lpPendProxy, lpProxy, base>>
    BY <1>13 DEF Wake, waitVars, WaitSignalled, At, WaitBlock, Resume, LaterLinkCritMut,
       PostBoostMut, EventModMan, PostUnlinkCritMut, Bury, EventReset
  <2> QED
    BY <2>1, <1>S DEF ProxyTypes
<1>14. ASSUME NEW t \in Threads,
             \/ (\E o \in Events, action \in {"SET", "PULSE"} : EventModify(t, o, action))
             \/ (\E s \in Semaphores, n \in 1..MaxCount : SemAdd(t, s, n))
             \/ (\E m \in Mutexes : ReleaseNested(t, m))
             \/ (\E m \in Mutexes : PreUnlinkMutex(t, m)) \/ ExitThread(t) \/ KillRunnable(t)
             \/ KillLater(t) \/ MakeKilledRun(t) \/ (\E boost \in BOOLEAN : Reprio(t, boost))
      PROVE  ProxyTypes'
  <2>1. UNCHANGED <<lpPendProxy, lpProxy, base>>
    BY <1>14 DEF EventModify, waitVars, At, SemAdd, ReleaseNested, PreUnlinkMutex, ExitThread,
       KillRunnable, KillLater, MakeKilledRun, Reprio
  <2> QED
    BY <2>1, <1>S DEF ProxyTypes
<1> QED
  BY <1>1, <1>2, <1>3, <1>4, <1>5, <1>6, <1>7, <1>8, <1>9, <1>10, <1>11, <1>12, <1>13, <1>14
     DEF Next, Continue, WaitStep, BeginCall,
     Release

\* Results are results.
LEMMA ResultTypesStep ==
    ASSUME IInv, PlainIntrWaits, Next
    PROVE  ResultTypes'
<1>S. /\ dwPendReturn \in [Threads -> Results] /\ retval \in [Threads -> Results]
      /\ granted \in [Threads -> Results]
  BY ShapesHold DEF IInv, CountsSound, Shapes
<1>1. ASSUME NEW t \in Threads, WaitSignalled(t) PROVE ResultTypes'
  BY <1>1, <1>S DEF WaitSignalled, At, WaitOneMore, ResultTypes, Results
<1>2. ASSUME NEW t \in Threads, WaitTerminated(t) PROVE ResultTypes'
  BY <1>2, <1>S DEF WaitTerminated, At, CloseWait, WaitOneMore, ExitFunc, ResultTypes, Results
<1>3. ASSUME NEW t \in Threads, WaitBlock(t) PROVE ResultTypes'
  <2>1. waits[t][1] \in Objects
    BY <1>3, IntrAlone DEF WaitBlock, WaitOneMore, At, WaitPCs
  <2> QED
    BY <1>3, <2>1, <1>S DEF WaitBlock, At, WaitOneMore, ResultTypes, Results
<1>4. ASSUME NEW t \in Threads, WaitTimeout(t) PROVE ResultTypes'
  BY <1>4, <1>S DEF WaitTimeout, At, CloseWait, WaitOneMore, ExitFunc, ResultTypes, Results
<1>5. ASSUME NEW t \in Threads, NEW o \in Objects, WaitOk(t, o) PROVE ResultTypes'
  BY <1>5, <1>S DEF WaitOk, At, CloseWait, WaitOneMore, ExitFunc, ResultTypes, Results
<1>6. ASSUME NEW t \in Threads, NEW o \in Objects, WaitBad(t, o) PROVE ResultTypes'
  BY <1>6, <1>S DEF WaitBad, At, CloseWait, WaitOneMore, ExitFunc, ResultTypes, Results
<1>7. ASSUME NEW t \in Threads, WaitReturn(t) PROVE ResultTypes'
  BY <1>7, <1>S DEF WaitReturn, At, ReturnPC, ResultTypes, Results
<1>8. ASSUME NEW t \in Threads, Release(t) PROVE ResultTypes'
  <2>1. CASE UNCHANGED <<waitVars, runVars>>
    BY <2>1, <1>8, ReleaseEffect, <1>S DEF waitVars, runVars, ResultTypes, Results
  <2>2. ASSUME NEW p \in Threads, NEW o \in Objects, Serves(t, p, o) PROVE ResultTypes'
    BY <2>2, <1>8, ReleaseEffect, <1>S DEF Serves, Satisfy, CloseWait, ResultTypes, Results
  <2> QED
    BY <2>1, <2>2, <1>8, ReleaseEffect
<1>9. ASSUME NEW t \in Threads, KillBlocked(t) PROVE ResultTypes'
  BY <1>9, <1>S DEF KillBlocked, CloseWait, ResultTypes, Results
<1>10. ASSUME NEW t \in Threads, TimerFires(t) PROVE ResultTypes'
  BY <1>10, <1>S DEF TimerFires, waitVars, CloseWait, ResultTypes, Results
<1>11. ASSUME NEW i \in IntrEvents, Interrupt(i) PROVE ResultTypes'
  <2>0. i \in Objects
    BY DEF Objects, Events
  <2>1. CASE UNCHANGED <<waitVars, runVars>>
    BY <2>1, <1>S DEF waitVars, runVars, ResultTypes, Results
  <2>2. ASSUME NEW p \in Threads, Interrupts(i, p) PROVE ResultTypes'
    BY <2>0, <2>2, <1>S DEF Interrupts, CloseWait, ResultTypes, Results
  <2> QED
    BY <2>1, <2>2, <1>11, InterruptEffect
<1>12. ASSUME NEW t \in Threads,
             \/ Wake(t) \/ (\E o \in Objects : WaitEnqueue(t, o)) \/ Resume(t)
             \/ LaterLinkCritMut(t) \/ PostBoostMut(t) \/ DequeueProxy(t) \/ EventModMan(t)
             \/ PostUnlinkCritMut(t) \/ Bury(t) \/ (\E w \in Waits[t] : WaitConfig(t, w))
      PROVE  ResultTypes'
  <2>1. UNCHANGED <<dwPendReturn, retval, granted>>
    BY <1>12 DEF Wake, waitVars, WaitEnqueue, At, WaitOneMore, Resume, LaterLinkCritMut,
       PostBoostMut, DequeueProxy, EventModMan, PostUnlinkCritMut, Bury, WaitConfig
  <2> QED
    BY <2>1, <1>S DEF ResultTypes, Results
<1>13. ASSUME NEW t \in Threads,
             \/ (\E o \in Events : EventReset(t, o))
             \/ (\E o \in Events, action \in {"SET", "PULSE"} : EventModify(t, o, action))
             \/ (\E s \in Semaphores, n \in 1..MaxCount : SemAdd(t, s, n))
             \/ (\E m \in Mutexes : ReleaseNested(t, m))
             \/ (\E m \in Mutexes : PreUnlinkMutex(t, m)) \/ ExitThread(t) \/ KillRunnable(t)
             \/ KillLater(t) \/ MakeKilledRun(t) \/ (\E boost \in BOOLEAN : Reprio(t, boost))
      PROVE  ResultTypes'
  <2>1. UNCHANGED <<dwPendReturn, retval, granted>>
    BY <1>13 DEF EventReset, waitVars, At, EventModify, SemAdd, ReleaseNested, PreUnlinkMutex,
       ExitThread, KillRunnable, KillLater, MakeKilledRun, Reprio
  <2> QED
    BY <2>1, <1>S DEF ResultTypes, Results
<1> QED
  BY <1>1, <1>2, <1>3, <1>4, <1>5, <1>6, <1>7, <1>8, <1>9, <1>10, <1>11, <1>12, <1>13 DEF
     Next, Continue, WaitStep, BeginCall,
     Release

\* Run states keep their types.
LEMMA RunTypesStep ==
    ASSUME IInv, PlainIntrWaits, Next
    PROVE  RunTypes'
<1>S. /\ runstate \in [Threads -> {"runnable", "needsrun", "blocked"}]
      /\ sleeping \in [Threads -> BOOLEAN] /\ needsleep \in [Threads -> BOOLEAN]
      /\ life \in [Threads -> {"alive", "dying", "dead", "gone"}]
      /\ killed \subseteq Threads
  BY ShapesHold DEF IInv, CountsSound, Shapes
<1>1. ASSUME NEW t \in Threads, Wake(t) PROVE RunTypes'
  BY <1>1, <1>S DEF Wake, MakeRunIfNeeded, RunTypes
<1>2. ASSUME NEW t \in Threads, WaitSignalled(t) PROVE RunTypes'
  BY <1>2, <1>S DEF WaitSignalled, At, WaitOneMore, RunTypes
<1>3. ASSUME NEW t \in Threads, WaitTerminated(t) PROVE RunTypes'
  BY <1>3, <1>S DEF WaitTerminated, At, WaitOneMore, ExitFunc, RunTypes
<1>4. ASSUME NEW t \in Threads, WaitBlock(t) PROVE RunTypes'
  BY <1>4, <1>S DEF WaitBlock, At, WaitOneMore, RunTypes
<1>5. ASSUME NEW t \in Threads, WaitTimeout(t) PROVE RunTypes'
  BY <1>5, <1>S DEF WaitTimeout, At, WaitOneMore, ExitFunc, RunTypes
<1>6. ASSUME NEW t \in Threads, NEW o \in Objects, WaitOk(t, o) PROVE RunTypes'
  BY <1>6, <1>S DEF WaitOk, At, WaitOneMore, ExitFunc, RunTypes
<1>7. ASSUME NEW t \in Threads, NEW o \in Objects, WaitBad(t, o) PROVE RunTypes'
  BY <1>7, <1>S DEF WaitBad, At, WaitOneMore, ExitFunc, RunTypes
<1>8. ASSUME NEW t \in Threads, NEW o \in Objects, WaitEnqueue(t, o) PROVE RunTypes'
  BY <1>8, <1>S DEF WaitEnqueue, At, WaitOneMore, RunTypes
<1>9. ASSUME NEW t \in Threads, Release(t) PROVE RunTypes'
  <2>1. CASE UNCHANGED <<waitVars, runVars>>
    BY <2>1, <1>9, ReleaseEffect, <1>S DEF waitVars, runVars, RunTypes
  <2>2. ASSUME NEW p \in Threads, NEW o \in Objects, Serves(t, p, o) PROVE RunTypes'
    BY <2>2, <1>9, ReleaseEffect, <1>S DEF Serves, Satisfy, CloseWait, RunTypes
  <2> QED
    BY <2>1, <2>2, <1>9, ReleaseEffect
<1>10. ASSUME NEW t \in Threads, Bury(t) PROVE RunTypes'
  BY <1>10, <1>S DEF Bury, At, RunTypes
<1>11. ASSUME NEW t \in Threads, ExitThread(t) PROVE RunTypes'
  BY <1>11, <1>S DEF ExitThread, At, RunTypes
<1>12. ASSUME NEW t \in Threads, KillRunnable(t) PROVE RunTypes'
  BY <1>12, <1>S DEF KillRunnable, At, RunTypes
<1>13. ASSUME NEW t \in Threads, KillBlocked(t) PROVE RunTypes'
  BY <1>13, <1>S DEF KillBlocked, RunTypes
<1>14. ASSUME NEW t \in Threads, KillLater(t) PROVE RunTypes'
  BY <1>14, <1>S DEF KillLater, At, RunTypes
<1>15. ASSUME NEW t \in Threads, MakeKilledRun(t) PROVE RunTypes'
  BY <1>15, <1>S DEF MakeKilledRun, MakeRunIfNeeded, RunTypes
<1>16. ASSUME NEW t \in Threads, TimerFires(t) PROVE RunTypes'
  BY <1>16, <1>S DEF TimerFires, RunTypes
<1>17. ASSUME NEW t \in Threads, NEW boost \in BOOLEAN, Reprio(t, boost) PROVE RunTypes'
  BY <1>17, <1>S DEF Reprio, RunTypes
<1>18. ASSUME NEW i \in IntrEvents, Interrupt(i) PROVE RunTypes'
  <2>0. UNCHANGED pc
    BY <1>18 DEF Interrupt
  <2>1. CASE UNCHANGED <<waitVars, runVars>>
    BY <2>0, <2>1, <1>18, <1>S DEF waitVars, runVars, RunTypes
  <2>2. ASSUME NEW p \in Threads, Interrupts(i, p) PROVE RunTypes'
    BY <2>0, <2>2, <1>S DEF Interrupts, CloseWait, RunTypes
  <2> QED
    BY <2>1, <2>2, <1>18, InterruptEffect
<1>19. ASSUME NEW t \in Threads,
             \/ Resume(t) \/ LaterLinkCritMut(t) \/ PostBoostMut(t) \/ DequeueProxy(t)
             \/ WaitReturn(t) \/ EventModMan(t) \/ PostUnlinkCritMut(t)
             \/ (\E w \in Waits[t] : WaitConfig(t, w)) \/ (\E o \in Events : EventReset(t, o))
             \/ (\E o \in Events, action \in {"SET", "PULSE"} : EventModify(t, o, action))
             \/ (\E s \in Semaphores, n \in 1..MaxCount : SemAdd(t, s, n))
             \/ (\E m \in Mutexes : ReleaseNested(t, m))
             \/ (\E m \in Mutexes : PreUnlinkMutex(t, m))
      PROVE  RunTypes'
  <2>1. UNCHANGED <<runstate, sleeping, needsleep, life, killed>>
    BY <1>19 DEF Resume, runVars, At, LaterLinkCritMut, PostBoostMut, DequeueProxy,
       WaitReturn, EventModMan, PostUnlinkCritMut, WaitConfig, EventReset, EventModify,
       SemAdd, ReleaseNested, PreUnlinkMutex
  <2> QED
    BY <2>1, <1>S DEF RunTypes
<1> QED
  BY <1>1, <1>2, <1>3, <1>4, <1>5, <1>6, <1>7, <1>8, <1>9, <1>10, <1>11, <1>12, <1>13, <1>14,
     <1>15, <1>16, <1>17, <1>18, <1>19 DEF Next, Continue, WaitStep, BeginCall,
     Release

\* Queues and stub events keep their types, and nobody is in one twice.
LEMMA QueueTypesStep ==
    ASSUME IInv, PlainIntrWaits, Next
    PROVE  /\ queue' \in [Objects -> Seq(Threads)] /\ stub' \in [Threads -> Seq(Threads)]
           /\ \A o \in Objects : Distinct(queue'[o])
<1>S. /\ queue \in [Objects -> Seq(Threads)] /\ stub \in [Threads -> Seq(Threads)]
  BY ShapesHold DEF IInv, CountsSound, Shapes
<1>D. \A o \in Objects : Distinct(queue[o])
  BY DEF IInv, CountsSound, TypeOK
<1>E. Distinct(<<>>) /\ <<>> \in Seq(Threads)
  BY DEF Distinct
<1> DEFINE Goal == /\ queue' \in [Objects -> Seq(Threads)] /\ stub' \in [Threads -> Seq(Threads)]
                   /\ \A o \in Objects : Distinct(queue'[o])
<1>1. ASSUME UNCHANGED <<queue, stub>> PROVE Goal
  BY <1>1, <1>S, <1>D
<1>2. ASSUME NEW o \in Objects, NEW q \in Seq(Threads), Distinct(q),
             queue' = [queue EXCEPT ![o] = q], stub' \in [Threads -> Seq(Threads)]
      PROVE  Goal
  <2>1. \A d \in Objects : queue'[d] = IF d = o THEN q ELSE queue[d]
    BY <1>2, <1>S
  <2>2. queue' \in [Objects -> Seq(Threads)]
    BY <1>2, <1>S
  <2> QED
    BY <1>2, <1>D, <2>1, <2>2
<1> HIDE DEF Goal
<1>3. ASSUME NEW t \in Threads, Keeps(t) \/ Ends(t) PROVE Goal
  BY <1>1, <1>3, KeepsEffect, EndsEffect
<1>4. ASSUME NEW t \in Threads, Release(t) PROVE Goal
  <2>1. CallOK(t) /\ t \in Objects
    BY DEF IInv, Objects
  <2>2. CASE WakeOneThreadFlat(t)
    <3>1. queue' = queue /\ (stub' = stub \/ stub' = [stub EXCEPT ![t] = Tail(stub[t])])
      BY <2>2 DEF WakeOneThreadFlat
    <3>2. stub[t] # <<>> => Tail(stub[t]) \in Seq(Threads)
      BY StubHolds DEF StubAt
    <3>3. stub' \in [Threads -> Seq(Threads)]
      BY <1>S, <2>2, <3>1, <3>2 DEF WakeOneThreadFlat
    <3> QED
      BY <1>S, <1>D, <3>1, <3>3 DEF Goal
  <2>3. CASE ~WakeOneThreadFlat(t)
    <3>1. stub' = stub
      BY <1>4, <2>3 DEF Release, EventModAuto, EventModIntr, SemPop, LeaveMutex, WakeExitWaiter
    <3>2. obj[t] \in Objects \/ WakeExitWaiter(t)
      BY <1>4, <2>1, <2>3 DEF Release, EventModAuto, EventModIntr, SemPop, LeaveMutex, At,
         CallOK,
         Objects, Events
    <3>3. \/ queue' = queue
          \/ \E o \in Objects : /\ queue[o] # <<>>
                                /\ \/ queue' = [queue EXCEPT ![o] = Tail(queue[o])]
                                   \/ queue' = [queue EXCEPT ![o] = <<>>]
      BY <1>4, <2>1, <2>3, <3>2 DEF Release, EventModAuto, EventModIntr, SemPop, LeaveMutex,
         WakeExitWaiter
    <3>4. ASSUME NEW o \in Objects, queue[o] # <<>>,
                 \/ queue' = [queue EXCEPT ![o] = Tail(queue[o])]
                 \/ queue' = [queue EXCEPT ![o] = <<>>]
          PROVE  Goal
      <4>1. Tail(queue[o]) \in Seq(Threads) /\ Distinct(Tail(queue[o]))
        BY <3>4, QueueHolds DEF QueueAt, IInv, CountsSound
      <4> QED
        BY <1>2, <1>E, <1>S, <3>1, <3>4, <4>1
    <3> QED
      BY <1>1, <3>1, <3>3, <3>4
  <2> QED
    BY <2>2, <2>3
<1>5. ASSUME NEW i \in IntrEvents, Interrupt(i) PROVE Goal
  <2>1. stub' = stub /\ i \in Objects
    BY <1>5 DEF Interrupt, callVars, Objects, Events
  <2> QED
    BY <1>1, <1>2, <1>5, <1>E, <1>S, <2>1, InterruptEffect
<1>6. ASSUME NEW t \in Threads, DequeueProxy(t) PROVE Goal
  <2>1. PICK o \in Objects : DequeuesFrom(t, o)
    BY <1>6, DequeueEffect
  <2>2. /\ queue' = [queue EXCEPT ![o] = queue'[o]]
        /\ queue'[o] \in Seq(Threads) /\ Distinct(queue'[o])
        /\ stub' \in [Threads -> Seq(Threads)]
    BY <2>1 DEF DequeuesFrom
  <2> QED
    BY <1>2, <2>2
<1>7. ASSUME NEW t \in Threads, EventModMan(t) PROVE Goal
  <2>1. stub' \in [Threads -> Seq(Threads)]
    BY <1>7, <1>S, StubTakes
  <2> QED
    BY <1>2, <1>7, <1>E, <2>1, StubTakes
<1>8. ASSUME NEW t \in Threads, NEW o \in Objects, WaitEnqueue(t, o) PROVE Goal
  <2>1. /\ queue' = [queue EXCEPT ![o] = queue'[o]]
        /\ queue'[o] \in Seq(Threads) /\ Distinct(queue'[o])
    BY <1>8, EnqueueEffect
  <2>2. stub' = stub
    BY <1>8 DEF WaitEnqueue, WaitOneMore
  <2> QED
    BY <1>2, <1>S, <2>1, <2>2
<1>9. Goal
  BY StepKinds, <1>3, <1>4, <1>5, <1>6, <1>7, <1>8
<1> USE DEF Goal
<1> QED
  BY <1>9

WaitLists == {w[1] : w \in UNION {Waits[t] : t \in Threads}} \cup {<<>>}
WaitsType == waits \in [Threads -> WaitLists]

\* A wait is one of the waits that threads make.
LEMMA WaitsTypeStep ==
    ASSUME IInv, PlainIntrWaits, Next
    PROVE  WaitsType'
<1>S. /\ waits \in [Threads -> Seq(Objects)]
  BY ShapesHold DEF IInv, CountsSound, Shapes
<1>W. waits \in [Threads -> WaitLists]
  BY DEF IInv, CountsSound, TypeOK, WaitLists
<1>V. <<>> \in WaitLists /\ \A t \in Threads : \A w \in Waits[t] : w[1] \in WaitLists
  BY DEF WaitLists
<1>1. ASSUME NEW t \in Threads, WaitReturn(t) PROVE WaitsType'
  BY <1>1, <1>S, <1>W, <1>V DEF WaitReturn, At, ReturnPC, WaitsType
<1>2. ASSUME NEW t \in Threads, Release(t) PROVE WaitsType'
  <2>1. CASE UNCHANGED <<waitVars, runVars>>
    BY <2>1, <1>S, <1>W, <1>V DEF waitVars, WaitsType
  <2>2. ASSUME NEW p \in Threads, NEW o \in Objects, Serves(t, p, o) PROVE WaitsType'
    BY <2>2, <1>S, <1>W, <1>V DEF Serves, Satisfy, WaitsType
  <2> QED
    BY <2>1, <2>2, <1>2, ReleaseEffect
<1>3. ASSUME NEW t \in Threads, NEW w \in Waits[t], WaitConfig(t, w) PROVE WaitsType'
  BY <1>3, <1>S, <1>W, <1>V DEF WaitConfig, At, WaitsType
<1>4. ASSUME NEW t \in Threads,
             \/ Wake(t) \/ WaitSignalled(t) \/ WaitTerminated(t) \/ WaitBlock(t)
             \/ WaitTimeout(t) \/ (\E o \in Objects : WaitOk(t, o))
             \/ (\E o \in Objects : WaitBad(t, o)) \/ (\E o \in Objects : WaitEnqueue(t, o))
             \/ Resume(t) \/ LaterLinkCritMut(t) \/ PostBoostMut(t) \/ DequeueProxy(t)
             \/ EventModMan(t) \/ PostUnlinkCritMut(t)
      PROVE  WaitsType'
  <2>1. UNCHANGED <<waits>>
    BY <1>4 DEF Wake, waitVars, WaitSignalled, At, WaitOneMore, WaitTerminated, WaitBlock,
       WaitTimeout, WaitOk, WaitBad, WaitEnqueue, Resume, LaterLinkCritMut, PostBoostMut,
       DequeueProxy, EventModMan, PostUnlinkCritMut
  <2> QED
    BY <2>1, <1>W DEF WaitsType
<1>5. ASSUME NEW t \in Threads,
             \/ Bury(t) \/ (\E o \in Events : EventReset(t, o))
             \/ (\E o \in Events, action \in {"SET", "PULSE"} : EventModify(t, o, action))
             \/ (\E s \in Semaphores, n \in 1..MaxCount : SemAdd(t, s, n))
             \/ (\E m \in Mutexes : ReleaseNested(t, m))
             \/ (\E m \in Mutexes : PreUnlinkMutex(t, m)) \/ ExitThread(t) \/ KillRunnable(t)
             \/ KillBlocked(t) \/ KillLater(t) \/ MakeKilledRun(t) \/ TimerFires(t)
             \/ (\E boost \in BOOLEAN : Reprio(t, boost))
      PROVE  WaitsType'
  <2>1. UNCHANGED <<waits>>
    BY <1>5 DEF Bury, waitVars, At, EventReset, EventModify, SemAdd, ReleaseNested,
       PreUnlinkMutex, ExitThread, KillRunnable, KillBlocked, KillLater, MakeKilledRun,
       TimerFires, Reprio
  <2> QED
    BY <2>1, <1>W DEF WaitsType
<1>6. ASSUME NEW i \in IntrEvents, Interrupt(i) PROVE WaitsType'
  <2>1. UNCHANGED <<waits>>
    BY <1>6 DEF Interrupt, waitVars
  <2> QED
    BY <2>1, <1>W DEF WaitsType
<1> QED
  BY <1>1, <1>2, <1>3, <1>4, <1>5, <1>6 DEF Next, Continue, WaitStep, BeginCall,
     Release

LockTypes == LockCount \in [Mutexes -> 0..MaxLockCount]

\* A mutex is not taken more often than it may be.
LEMMA LockTypesStep ==
    ASSUME IInv, PlainIntrWaits, Next
    PROVE  LockTypes'
<1>S. /\ pOwner \in [Mutexes -> ThreadOrNone] /\ LockCount \in [Mutexes -> Nat]
  BY ShapesHold DEF IInv, CountsSound, Shapes
<1>L. LockCount \in [Mutexes -> 0..MaxLockCount] /\ MaxLockCount \in Nat \ {0}
  BY WaitAssumption DEF IInv, CountsSound, TypeOK
<1>1. ASSUME NEW t \in Threads, NEW o \in Objects, WaitOk(t, o) PROVE LockTypes'
  <2>1. o \in Mutexes => pOwner[o] = None \/ LockCount[o] < MaxLockCount
    BY <1>1, Apart DEF WaitOk, Signalled
  <2>2. LockCount' =
           IF o \in Mutexes
           THEN [LockCount EXCEPT ![o] = IF pOwner[o] = None THEN 1 ELSE LockCount[o] + 1]
           ELSE LockCount
    BY <1>1 DEF WaitOk, Consume
  <2> QED
    BY <2>1, <2>2, <1>L DEF LockTypes
<1>2. ASSUME NEW t \in Threads, LeaveMutex(t) PROVE LockTypes'
  BY <1>2, <1>S, <1>L DEF LeaveMutex, At, LockTypes
<1>3. ASSUME NEW t \in Threads, NEW m \in Mutexes, ReleaseNested(t, m) PROVE LockTypes'
  BY <1>3, <1>S, <1>L DEF ReleaseNested, At, LockTypes
<1>4. ASSUME NEW t \in Threads,
             \/ Wake(t) \/ WaitSignalled(t) \/ WaitTerminated(t) \/ WaitBlock(t)
             \/ WaitTimeout(t) \/ (\E o \in Objects : WaitBad(t, o))
             \/ (\E o \in Objects : WaitEnqueue(t, o)) \/ Resume(t) \/ LaterLinkCritMut(t)
             \/ PostBoostMut(t) \/ DequeueProxy(t) \/ WaitReturn(t) \/ EventModAuto(t)
             \/ EventModIntr(t) \/ EventModMan(t) \/ WakeOneThreadFlat(t)
      PROVE  LockTypes'
  <2>1. UNCHANGED <<LockCount>>
    BY <1>4 DEF Wake, objectVars, WaitSignalled, At, WaitTerminated, WaitBlock, WaitTimeout,
       WaitBad, WaitEnqueue, Resume, LaterLinkCritMut, PostBoostMut, DequeueProxy, WaitReturn,
       EventModAuto, SetState, EventModIntr, EventModMan, WakeOneThreadFlat
  <2> QED
    BY <2>1, <1>L DEF LockTypes
<1>5. ASSUME NEW t \in Threads,
             \/ SemPop(t) \/ PostUnlinkCritMut(t) \/ WakeExitWaiter(t) \/ Bury(t)
             \/ (\E w \in Waits[t] : WaitConfig(t, w)) \/ (\E o \in Events : EventReset(t, o))
             \/ (\E o \in Events, action \in {"SET", "PULSE"} : EventModify(t, o, action))
             \/ (\E s \in Semaphores, n \in 1..MaxCount : SemAdd(t, s, n))
             \/ (\E m \in Mutexes : PreUnlinkMutex(t, m)) \/ ExitThread(t) \/ KillRunnable(t)
             \/ KillBlocked(t) \/ KillLater(t) \/ MakeKilledRun(t) \/ TimerFires(t)
             \/ (\E boost \in BOOLEAN : Reprio(t, boost))
      PROVE  LockTypes'
  <2>1. UNCHANGED <<LockCount>>
    BY <1>5 DEF SemPop, At, PostUnlinkCritMut, objectVars, WakeExitWaiter, Bury, WaitConfig,
       EventReset, EventModify, SemAdd, PreUnlinkMutex, ExitThread, KillRunnable, KillBlocked,
       KillLater, MakeKilledRun, TimerFires, Reprio
  <2> QED
    BY <2>1, <1>L DEF LockTypes
<1>6. ASSUME NEW i \in IntrEvents, Interrupt(i) PROVE LockTypes'
  <2>1. UNCHANGED <<LockCount>>
    BY <1>6 DEF Interrupt
  <2> QED
    BY <2>1, <1>L DEF LockTypes
<1> QED
  BY <1>1, <1>2, <1>3, <1>4, <1>5, <1>6 DEF Next, Continue, WaitStep, BeginCall

\* In a step, v goes on with a release of a semaphore, or is in none.
SameCall(v) ==
    \/ UNCHANGED <<pc[v], obj[v], remain[v]>>
    \/ pc[v] # "sempop" /\ pc'[v] # "sempop"

SemCall ==
    \E t \in Threads :
        SemPop(t) \/ \E s \in Semaphores, n \in 1..MaxCount : SemAdd(t, s, n)

\* Nobody else touches what a release of a semaphore still owes.
LEMMA OtherCalls ==
    ASSUME IInv, PlainIntrWaits, Next, NEW u \in Threads
    PROVE  SemCall \/ SameCall(u)
<1>S. /\ pc \in [Threads -> PCs] /\ obj \in [Threads -> Objects \cup {None}]
      /\ remain \in [Threads -> Nat]
  BY ShapesHold DEF IInv, CountsSound, Shapes
<1>1. ASSUME NEW t \in Threads, WaitSignalled(t) PROVE SemCall \/ SameCall(u)
  BY <1>1, <1>S DEF WaitSignalled, At, WaitOneMore, SemCall, SameCall
<1>2. ASSUME NEW t \in Threads, WaitTerminated(t) PROVE SemCall \/ SameCall(u)
  BY <1>2, <1>S DEF WaitTerminated, At, WaitOneMore, SemCall, SameCall
<1>3. ASSUME NEW t \in Threads, WaitBlock(t) PROVE SemCall \/ SameCall(u)
  BY <1>3, <1>S DEF WaitBlock, At, WaitOneMore, SemCall, SameCall
<1>4. ASSUME NEW t \in Threads, WaitTimeout(t) PROVE SemCall \/ SameCall(u)
  BY <1>4, <1>S DEF WaitTimeout, At, WaitOneMore, SemCall, SameCall
<1>5. ASSUME NEW t \in Threads, NEW o \in Objects, WaitOk(t, o)
      PROVE  SemCall \/ SameCall(u)
  BY <1>5, <1>S DEF WaitOk, At, WaitOneMore, SemCall, SameCall
<1>6. ASSUME NEW t \in Threads, NEW o \in Objects, WaitBad(t, o)
      PROVE  SemCall \/ SameCall(u)
  BY <1>6, <1>S DEF WaitBad, At, WaitOneMore, SemCall, SameCall
<1>7. ASSUME NEW t \in Threads, NEW o \in Objects, WaitEnqueue(t, o)
      PROVE  SemCall \/ SameCall(u)
  BY <1>7, <1>S DEF WaitEnqueue, At, WaitOneMore, SemCall, SameCall
<1>8. ASSUME NEW t \in Threads, Resume(t) PROVE SemCall \/ SameCall(u)
  BY <1>8, <1>S DEF Resume, callVars, At, SemCall, SameCall
<1>9. ASSUME NEW t \in Threads, LaterLinkCritMut(t) PROVE SemCall \/ SameCall(u)
  BY <1>9, <1>S DEF LaterLinkCritMut, callVars, At, SemCall, SameCall
<1>10. ASSUME NEW t \in Threads, PostBoostMut(t) PROVE SemCall \/ SameCall(u)
  BY <1>10, <1>S DEF PostBoostMut, callVars, At, SemCall, SameCall
<1>11. ASSUME NEW t \in Threads, WaitReturn(t) PROVE SemCall \/ SameCall(u)
  BY <1>11, <1>S DEF WaitReturn, At, ReturnPC, SemCall, SameCall
<1>12. ASSUME NEW t \in Threads, EventModAuto(t) PROVE SemCall \/ SameCall(u)
  BY <1>12, <1>S DEF EventModAuto, At, ReturnPC, Return, SemCall, SameCall
<1>13. ASSUME NEW t \in Threads, EventModIntr(t) PROVE SemCall \/ SameCall(u)
  BY <1>13, <1>S DEF EventModIntr, At, ReturnPC, Return, SemCall, SameCall
<1>14. ASSUME NEW t \in Threads, EventModMan(t) PROVE SemCall \/ SameCall(u)
  BY <1>14, <1>S DEF EventModMan, At, SemCall, SameCall
<1>15. ASSUME NEW t \in Threads, WakeOneThreadFlat(t) PROVE SemCall \/ SameCall(u)
  BY <1>15, <1>S DEF WakeOneThreadFlat, At, ReturnPC, Return, SemCall, SameCall
<1>16. ASSUME NEW t \in Threads, SemPop(t) PROVE SemCall \/ SameCall(u)
  BY <1>16 DEF SemCall
<1>17. ASSUME NEW t \in Threads, LeaveMutex(t) PROVE SemCall \/ SameCall(u)
  BY <1>17, <1>S DEF LeaveMutex, At, SemCall, SameCall
<1>18. ASSUME NEW t \in Threads, PostUnlinkCritMut(t) PROVE SemCall \/ SameCall(u)
  BY <1>18, <1>S DEF PostUnlinkCritMut, At, ReturnPC, Return, SemCall, SameCall
<1>19. ASSUME NEW t \in Threads, WakeExitWaiter(t) PROVE SemCall \/ SameCall(u)
  BY <1>19, <1>S DEF WakeExitWaiter, At, SemCall, SameCall
<1>20. ASSUME NEW t \in Threads, Bury(t) PROVE SemCall \/ SameCall(u)
  BY <1>20, <1>S DEF Bury, callVars, At, SemCall, SameCall
<1>21. ASSUME NEW t \in Threads, NEW w \in Waits[t], WaitConfig(t, w)
      PROVE  SemCall \/ SameCall(u)
  BY <1>21, <1>S DEF WaitConfig, callVars, At, SemCall, SameCall
<1>22. ASSUME NEW t \in Threads, NEW o \in Events, NEW action \in {"SET", "PULSE"},
              EventModify(t, o, action)
      PROVE  SemCall \/ SameCall(u)
  BY <1>22, <1>S DEF EventModify, At, Call, SemCall, SameCall
<1>23. ASSUME NEW t \in Threads, NEW s \in Semaphores, NEW n \in 1..MaxCount, SemAdd(t, s, n)
      PROVE  SemCall \/ SameCall(u)
  BY <1>23 DEF SemCall
<1>24. ASSUME NEW t \in Threads, NEW m \in Mutexes, PreUnlinkMutex(t, m)
      PROVE  SemCall \/ SameCall(u)
  BY <1>24, <1>S DEF PreUnlinkMutex, At, SemCall, SameCall
<1>25. ASSUME NEW t \in Threads, ExitThread(t) PROVE SemCall \/ SameCall(u)
  BY <1>25, <1>S DEF ExitThread, callVars, At, SemCall, SameCall
<1>26. ASSUME NEW t \in Threads, KillRunnable(t) PROVE SemCall \/ SameCall(u)
  <2>1. UNCHANGED <<pc, obj, remain>>
    BY <1>26, <1>S DEF KillRunnable, callVars, At, InProgram
  <2> QED
    BY <2>1 DEF SameCall
<1>27. ASSUME NEW t \in Threads,
             \/ Wake(t) \/ DequeueProxy(t) \/ (\E o \in Events : EventReset(t, o))
             \/ (\E m \in Mutexes : ReleaseNested(t, m)) \/ KillBlocked(t) \/ KillLater(t)
             \/ MakeKilledRun(t) \/ TimerFires(t) \/ (\E boost \in BOOLEAN : Reprio(t, boost))
      PROVE  SemCall \/ SameCall(u)
  <2>1. UNCHANGED <<pc, obj, remain>>
    BY <1>27 DEF Wake, DequeueProxy, At, EventReset, callVars, ReleaseNested, KillBlocked,
       KillLater, MakeKilledRun, TimerFires, Reprio
  <2> QED
    BY <2>1, <1>S DEF SemCall, SameCall
<1>28. ASSUME NEW i \in IntrEvents, Interrupt(i) PROVE SemCall \/ SameCall(u)
  <2>1. UNCHANGED <<pc, obj, remain>>
    BY <1>28 DEF Interrupt, callVars
  <2> QED
    BY <2>1, <1>S DEF SemCall, SameCall
<1> QED
  BY <1>1, <1>2, <1>3, <1>4, <1>5, <1>6, <1>7, <1>8, <1>9, <1>10, <1>11, <1>12, <1>13, <1>14,
     <1>15, <1>16, <1>17, <1>18, <1>19, <1>20, <1>21, <1>22, <1>23, <1>24, <1>25, <1>26,
     <1>27, <1>28 DEF Next, Continue, WaitStep, BeginCall

\* Nobody releases: a count may lose a unit.
TakesUnit ==
    /\ lPending' = lPending /\ lCount' \in [Semaphores -> Nat]
    /\ \A s \in Semaphores : lCount'[s] <= lCount[s]

\* Only a wait takes a unit of a semaphore otherwise.
LEMMA OtherCounts ==
    ASSUME IInv, PlainIntrWaits, Next
    PROVE  SemCall \/ TakesUnit
<1>S. /\ lCount \in [Semaphores -> Nat] /\ lPending \in [Semaphores -> Nat]
  BY ShapesHold DEF IInv, CountsSound, Shapes
<1>1. ASSUME NEW t \in Threads, NEW o \in Objects, WaitOk(t, o) PROVE SemCall \/ TakesUnit
  <2>1. o \in Semaphores => lCount[o] > 0
    BY <1>1, Apart DEF WaitOk, Signalled
  <2>2. /\ lPending' = lPending
        /\ lCount' = IF o \in Semaphores THEN [lCount EXCEPT ![o] = @ - 1] ELSE lCount
    BY <1>1 DEF WaitOk, Consume
  <2> QED
    BY <2>1, <2>2, <1>S DEF TakesUnit
<1>2. ASSUME NEW t \in Threads, SemPop(t) PROVE SemCall \/ TakesUnit
  BY <1>2 DEF SemCall
<1>3. ASSUME NEW t \in Threads, NEW s \in Semaphores, NEW n \in 1..MaxCount, SemAdd(t, s, n)
      PROVE  SemCall \/ TakesUnit
  BY <1>3 DEF SemCall
<1>4. ASSUME NEW t \in Threads,
             \/ Wake(t) \/ WaitSignalled(t) \/ WaitTerminated(t) \/ WaitBlock(t)
             \/ WaitTimeout(t) \/ (\E o \in Objects : WaitBad(t, o))
             \/ (\E o \in Objects : WaitEnqueue(t, o)) \/ Resume(t) \/ LaterLinkCritMut(t)
             \/ PostBoostMut(t) \/ DequeueProxy(t) \/ WaitReturn(t) \/ EventModAuto(t)
             \/ EventModIntr(t) \/ EventModMan(t) \/ WakeOneThreadFlat(t)
      PROVE  SemCall \/ TakesUnit
  <2>1. UNCHANGED <<lCount, lPending>>
    BY <1>4 DEF Wake, objectVars, WaitSignalled, At, WaitTerminated, WaitBlock, WaitTimeout,
       WaitBad, WaitEnqueue, Resume, LaterLinkCritMut, PostBoostMut, DequeueProxy, WaitReturn,
       EventModAuto, SetState, EventModIntr, EventModMan, WakeOneThreadFlat
  <2> QED
    BY <2>1, <1>S DEF TakesUnit
<1>5. ASSUME NEW t \in Threads,
             \/ LeaveMutex(t) \/ PostUnlinkCritMut(t) \/ WakeExitWaiter(t) \/ Bury(t)
             \/ (\E w \in Waits[t] : WaitConfig(t, w)) \/ (\E o \in Events : EventReset(t, o))
             \/ (\E o \in Events, action \in {"SET", "PULSE"} : EventModify(t, o, action))
             \/ (\E m \in Mutexes : ReleaseNested(t, m))
             \/ (\E m \in Mutexes : PreUnlinkMutex(t, m)) \/ ExitThread(t) \/ KillRunnable(t)
             \/ KillBlocked(t) \/ KillLater(t) \/ MakeKilledRun(t) \/ TimerFires(t)
             \/ (\E boost \in BOOLEAN : Reprio(t, boost))
      PROVE  SemCall \/ TakesUnit
  <2>1. UNCHANGED <<lCount, lPending>>
    BY <1>5 DEF LeaveMutex, At, PostUnlinkCritMut, objectVars, WakeExitWaiter, Bury,
       WaitConfig, EventReset, EventModify, ReleaseNested, PreUnlinkMutex, ExitThread,
       KillRunnable, KillBlocked, KillLater, MakeKilledRun, TimerFires, Reprio
  <2> QED
    BY <2>1, <1>S DEF TakesUnit
<1>6. ASSUME NEW i \in IntrEvents, Interrupt(i) PROVE SemCall \/ TakesUnit
  <2>1. UNCHANGED <<lCount, lPending>>
    BY <1>6 DEF Interrupt
  <2> QED
    BY <2>1, <1>S DEF TakesUnit
<1> QED
  BY <1>1, <1>2, <1>3, <1>4, <1>5, <1>6 DEF Next, Continue, WaitStep, BeginCall

\* n units of t, in addition to those of others.
LEMMA UnitsAdd ==
    ASSUME NEW A, IsFiniteSet(A), NEW t, \A u \in A : u[1] # t, NEW n \in Nat
    PROVE  /\ IsFiniteSet(A \cup ({t} \X (1..n)))
           /\ Cardinality(A \cup ({t} \X (1..n))) = Cardinality(A) + n
<1> DEFINE B == {t} \X (1..n)
<1>1. IsFiniteSet({t}) /\ Cardinality({t}) = 1
  BY FS_Singleton
<1>2. IsFiniteSet(1..n) /\ Cardinality(1..n) = n
  <2>1. 1 \in Int /\ n \in Int
    OBVIOUS
  <2>2. IsFiniteSet(1..n) /\ Cardinality(1..n) = IF 1 > n THEN 0 ELSE n - 1 + 1
    BY <2>1, FS_Interval
  <2> QED
    BY <2>2
<1>3. IsFiniteSet(B) /\ Cardinality(B) = n
  <2>1. IsFiniteSet(B) /\ Cardinality(B) = Cardinality({t}) * Cardinality(1..n)
    BY <1>1, <1>2, FS_Product
  <2> QED
    BY <1>1, <1>2, <2>1
<1>4. A \cap B = {}
  OBVIOUS
<1>5. Cardinality(A \cap B) = 0
  BY <1>4, FS_EmptySet
<1>6. /\ IsFiniteSet(A \cup B)
      /\ Cardinality(A \cup B) = Cardinality(A) + Cardinality(B) - Cardinality(A \cap B)
  BY <1>3, FS_Union
<1>7. Cardinality(A) \in Nat
  BY FS_CardinalityType
<1> QED
  BY <1>3, <1>5, <1>6, <1>7

\* What t owes of s.
Owes(t, s) == IF pc[t] = "sempop" /\ obj[t] = s THEN remain[t] ELSE 0

\* When only t changes what it owes, the sum changes as much.
LEMMA PendingMoves ==
    ASSUME IInv, NEW t \in Threads, NEW s \in Semaphores,
           \A v \in Threads : v # t => SameCall(v), Owes(t, s)' \in 0..MaxCount
    PROVE  /\ Owes(t, s) \in 0..MaxCount /\ Owes(t, s) <= lPending[s]
           /\ Cardinality(Owed(s))' = lPending[s] - Owes(t, s) + Owes(t, s)'
<1> DEFINE A == {u \in Owed(s) : u[1] # t}
           m == Owes(t, s)
           n == Owes(t, s)'
<1>1. m \in 0..MaxCount /\ MaxCount \in Nat /\ m \in Nat /\ n \in Nat
  <2>1. remain[t] \in 0..MaxCount
    BY DEF IInv, CountsSound, TypeOK
  <2>2. MaxCount \in Nat
    BY WaitAssumption
  <2> QED
    BY <2>1, <2>2 DEF Owes
<1>2. IsFiniteSet(A)
  <2>1. IsFiniteSet(1..MaxCount)
    BY <1>1, FS_Interval
  <2>2. IsFiniteSet(Threads \X (1..MaxCount))
    BY <2>1, WaitAssumption, FS_Product
  <2>3. A \subseteq Threads \X (1..MaxCount)
    BY DEF Owed
  <2> QED
    BY <2>2, <2>3, FS_Subset
<1>3. Owed(s) = A \cup ({t} \X (1..m))
  <2>1. ASSUME NEW u PROVE u \in Owed(s) <=> u \in A \/ u \in {t} \X (1..m)
    <3>1. CASE u \in {t} \X (1..MaxCount)
      <4>1. u[1] = t /\ u[2] \in 1..MaxCount /\ u \in Threads \X (1..MaxCount) /\ u = <<t, u[2]>>
        BY <3>1
      <4>2. u \in Owed(s) <=> pc[t] = "sempop" /\ obj[t] = s /\ u[2] <= remain[t]
        BY <4>1 DEF Owed
      <4>3. u \in {t} \X (1..m) <=> u[2] <= m
        BY <1>1, <4>1
      <4>4. u \notin A
        BY <4>1
      <4> QED
        BY <4>1, <4>2, <4>3, <4>4 DEF Owes
    <3>2. CASE u \notin {t} \X (1..MaxCount)
      <4>1. u \notin {t} \X (1..m)
        BY <1>1, <3>2
      <4>2. u \in Owed(s) => u[1] # t
        BY <3>2 DEF Owed
      <4> QED
        BY <4>1, <4>2
    <3> QED
      BY <3>1, <3>2
  <2> QED
    BY <2>1
<1>4. Owed(s)' = A \cup ({t} \X (1..n))
  <2>1. ASSUME NEW u PROVE u \in Owed(s)' <=> u \in A \/ u \in {t} \X (1..n)
    <3>1. CASE u \in {t} \X (1..MaxCount)
      <4>1. u[1] = t /\ u[2] \in 1..MaxCount /\ u \in Threads \X (1..MaxCount) /\ u = <<t, u[2]>>
        BY <3>1
      <4>2. u \in Owed(s)' <=> pc'[t] = "sempop" /\ obj'[t] = s /\ u[2] <= remain'[t]
        BY <4>1 DEF Owed
      <4>3. u \in {t} \X (1..n) <=> u[2] <= n
        BY <1>1, <4>1
      <4>4. u \notin A
        BY <4>1
      <4>5. n = IF pc'[t] = "sempop" /\ obj'[t] = s THEN remain'[t] ELSE 0
        BY DEF Owes
      <4> QED
        BY <4>1, <4>2, <4>3, <4>4, <4>5
    <3>2. CASE u \notin {t} \X (1..MaxCount)
      <4>1. u \notin {t} \X (1..n)
        BY <1>1, <3>2
      <4>2. u \in Owed(s)' => u[1] # t /\ u[1] \in Threads
        BY <3>2 DEF Owed
      <4>3. u \in Owed(s) => u[1] # t /\ u[1] \in Threads
        BY <3>2 DEF Owed
      <4>4. u[1] # t /\ u[1] \in Threads => (u \in Owed(s)' <=> u \in Owed(s))
        BY DEF Owed, SameCall
      <4> QED
        BY <4>1, <4>2, <4>3, <4>4
    <3> QED
      BY <3>1, <3>2
  <2> QED
    BY <2>1
<1>9. \A u \in A : u[1] # t
  OBVIOUS
<1> HIDE DEF A, m, n
<1>5. Cardinality(Owed(s)) = Cardinality(A) + m
  <2>1. Cardinality(A \cup ({t} \X (1..m))) = Cardinality(A) + m
    BY <1>1, <1>2, <1>9, UnitsAdd
  <2> QED
    BY <2>1, <1>3
<1>6. Cardinality(Owed(s)') = Cardinality(A) + n
  <2>1. Cardinality(A \cup ({t} \X (1..n))) = Cardinality(A) + n
    BY <1>1, <1>2, <1>9, UnitsAdd
  <2> QED
    BY <2>1, <1>4
<1>7. lPending[s] = Cardinality(Owed(s)) /\ Cardinality(A) \in Nat
  BY <1>2, FS_CardinalityType DEF IInv, CountsSound, PendingExact
<1>8. Cardinality(Owed(s))' = Cardinality(Owed(s)')
  OBVIOUS
<1> USE DEF m, n
<1> QED
  BY <1>1, <1>5, <1>6, <1>7, <1>8

CountTypes ==
    /\ lCount \in [Semaphores -> Nat] /\ lPending \in [Semaphores -> Nat]
    /\ \A s \in Semaphores : lCount[s] + lPending[s] <= MaxCount
    /\ remain \in [Threads -> 0..MaxCount]

\* Nobody else changes how much a call has left to release.
LEMMA RemainStep ==
    ASSUME IInv, PlainIntrWaits, Next
    PROVE  SemCall \/ UNCHANGED remain
<1>S. /\ remain \in [Threads -> Nat]
  BY ShapesHold DEF IInv, CountsSound, Shapes
<1>1. ASSUME NEW t \in Threads, SemPop(t) PROVE SemCall \/ UNCHANGED remain
  BY <1>1 DEF SemCall
<1>2. ASSUME NEW t \in Threads, NEW s \in Semaphores, NEW n \in 1..MaxCount, SemAdd(t, s, n)
      PROVE  SemCall \/ UNCHANGED remain
  BY <1>2 DEF SemCall
<1>3. ASSUME NEW t \in Threads,
             \/ Wake(t) \/ WaitSignalled(t) \/ WaitTerminated(t) \/ WaitBlock(t)
             \/ WaitTimeout(t) \/ (\E o \in Objects : WaitOk(t, o))
             \/ (\E o \in Objects : WaitBad(t, o)) \/ (\E o \in Objects : WaitEnqueue(t, o))
             \/ Resume(t) \/ LaterLinkCritMut(t) \/ PostBoostMut(t)
      PROVE  SemCall \/ UNCHANGED remain
  <2>1. UNCHANGED <<remain>>
    BY <1>3 DEF Wake, WaitSignalled, At, WaitOneMore, WaitTerminated, WaitBlock, WaitTimeout,
       WaitOk, WaitBad, WaitEnqueue, Resume, callVars, LaterLinkCritMut, PostBoostMut
  <2> QED
    BY <2>1, <1>S DEF SemCall
<1>4. ASSUME NEW t \in Threads,
             \/ DequeueProxy(t) \/ WaitReturn(t) \/ EventModAuto(t) \/ EventModIntr(t)
             \/ EventModMan(t) \/ WakeOneThreadFlat(t) \/ LeaveMutex(t)
             \/ PostUnlinkCritMut(t) \/ WakeExitWaiter(t) \/ Bury(t)
             \/ (\E w \in Waits[t] : WaitConfig(t, w))
      PROVE  SemCall \/ UNCHANGED remain
  <2>1. UNCHANGED <<remain>>
    BY <1>4 DEF DequeueProxy, At, WaitReturn, EventModAuto, EventModIntr, EventModMan,
       WakeOneThreadFlat, LeaveMutex, PostUnlinkCritMut, WakeExitWaiter, Bury, callVars,
       WaitConfig
  <2> QED
    BY <2>1, <1>S DEF SemCall
<1>5. ASSUME NEW t \in Threads,
             \/ (\E o \in Events : EventReset(t, o))
             \/ (\E o \in Events, action \in {"SET", "PULSE"} : EventModify(t, o, action))
             \/ (\E m \in Mutexes : ReleaseNested(t, m))
             \/ (\E m \in Mutexes : PreUnlinkMutex(t, m)) \/ ExitThread(t) \/ KillRunnable(t)
             \/ KillBlocked(t) \/ KillLater(t) \/ MakeKilledRun(t) \/ TimerFires(t)
             \/ (\E boost \in BOOLEAN : Reprio(t, boost))
      PROVE  SemCall \/ UNCHANGED remain
  <2>1. UNCHANGED <<remain>>
    BY <1>5 DEF EventReset, callVars, At, EventModify, ReleaseNested, PreUnlinkMutex,
       ExitThread, KillRunnable, KillBlocked, KillLater, MakeKilledRun, TimerFires, Reprio
  <2> QED
    BY <2>1, <1>S DEF SemCall
<1>6. ASSUME NEW i \in IntrEvents, Interrupt(i) PROVE SemCall \/ UNCHANGED remain
  <2>1. UNCHANGED <<remain>>
    BY <1>6 DEF Interrupt, callVars
  <2> QED
    BY <2>1, <1>S DEF SemCall
<1> QED
  BY <1>1, <1>2, <1>3, <1>4, <1>5, <1>6 DEF Next, Continue, WaitStep, BeginCall

CountsOK == CountTypes /\ PendingExact

\* No count leaves its range, and lPending is what is owed.
LEMMA CountsStep ==
    ASSUME IInv, PlainIntrWaits, Next
    PROVE  CountsOK'
<1>S. /\ lCount \in [Semaphores -> Nat] /\ lPending \in [Semaphores -> Nat]
      /\ pc \in [Threads -> PCs] /\ obj \in [Threads -> Objects \cup {None}]
  BY ShapesHold DEF IInv, CountsSound, Shapes
<1>T. /\ \A s \in Semaphores : lCount[s] + lPending[s] <= MaxCount
      /\ remain \in [Threads -> 0..MaxCount] /\ MaxCount \in Nat
  BY WaitAssumption DEF IInv, CountsSound, TypeOK
<1>P. \A s \in Semaphores : lPending[s] = Cardinality(Owed(s))
  BY DEF IInv, CountsSound, PendingExact
<1>1. ASSUME NEW t \in Threads, SemPop(t) PROVE CountsOK'
  <2> DEFINE d == obj[t]
  <2>1. pc[t] = "sempop" /\ d \in Semaphores
    BY <1>1 DEF SemPop, At, IInv, CallOK
  <2>2. \A v \in Threads : v # t => SameCall(v)
    BY <1>1, <1>S, <1>T DEF SemPop, Return, SameCall
  <2>3. \A s \in Semaphores : Owes(t, s) = IF s = d THEN remain[t] ELSE 0
    BY <2>1 DEF Owes
  <2> DEFINE Moves(n, x) ==
               /\ remain' = [remain EXCEPT ![t] = remain'[t]]
               /\ \A s \in Semaphores : Owes(t, s)' = IF s = d THEN n ELSE 0
               /\ remain'[t] \in 0..MaxCount
               /\ lPending' = [lPending EXCEPT ![d] = lPending[d] - (remain[t] - n)]
               /\ lCount' = [lCount EXCEPT ![d] = lCount[d] + x] /\ x <= remain[t] - n
  <2>M. \E n \in 0..remain[t], x \in {0, remain[t]} : Moves(n, x)
    <3>0. remain[t] \in 0..MaxCount /\ lPending[d] \in Nat /\ lCount[d] \in Nat
      BY <1>S, <1>T, <2>1
    <3>1. CASE remain[t] = 0 /\ Return(t) /\ UNCHANGED <<lCount, lPending, remain>>
      <4>1. pc'[t] # "sempop"
        BY <3>1, <1>S DEF Return, ReturnPC
      <4>2. \A s \in Semaphores : Owes(t, s)' = IF s = d THEN 0 ELSE 0
        BY <4>1 DEF Owes
      <4>3. /\ remain' = [remain EXCEPT ![t] = remain'[t]]
            /\ lPending' = [lPending EXCEPT ![d] = lPending[d] - (remain[t] - 0)]
            /\ lCount' = [lCount EXCEPT ![d] = lCount[d] + 0]
        BY <1>S, <1>T, <3>0, <3>1
      <4>5. remain'[t] \in 0..MaxCount /\ 0 <= remain[t] - 0
        BY <1>T, <3>0, <3>1
      <4>4. Moves(0, 0)
        BY <4>2, <4>3, <4>5
      <4> HIDE DEF Moves
      <4> QED
        BY <3>0, <4>4
    <3>2. CASE Return(t) /\ AddToCount(t, d) /\ remain' = [remain EXCEPT ![t] = 0]
      <4>1. pc'[t] # "sempop"
        BY <3>2, <1>S DEF Return, ReturnPC
      <4>2. \A s \in Semaphores : Owes(t, s)' = IF s = d THEN 0 ELSE 0
        BY <4>1 DEF Owes
      <4>3. /\ remain' = [remain EXCEPT ![t] = remain'[t]] /\ remain'[t] = 0
        BY <1>T, <3>2
      <4>4. /\ lPending' = [lPending EXCEPT ![d] = lPending[d] - remain[t]]
            /\ lCount' = [lCount EXCEPT ![d] = lCount[d] + remain[t]]
        BY <3>2 DEF AddToCount
      <4>5. remain[t] - 0 = remain[t] /\ remain[t] <= remain[t] /\ 0 \in 0..MaxCount
        BY <1>T, <3>0
      <4>6. Moves(0, remain[t])
        BY <4>2, <4>3, <4>4, <4>5
      <4> HIDE DEF Moves
      <4> QED
        BY <3>0, <4>6
    <3>3. CASE /\ remain[t] > 0 /\ UNCHANGED <<lCount, pc, obj>>
               /\ lPending' = [lPending EXCEPT ![d] = @ - 1]
               /\ remain' = [remain EXCEPT ![t] = @ - 1]
      <4>1. \A s \in Semaphores : Owes(t, s)' = IF s = d THEN remain[t] - 1 ELSE 0
        BY <3>3, <1>T, <2>1 DEF Owes
      <4>2. /\ remain' = [remain EXCEPT ![t] = remain'[t]] /\ remain'[t] = remain[t] - 1
            /\ lPending' = [lPending EXCEPT ![d] = lPending[d] - (remain[t] - (remain[t] - 1))]
            /\ lCount' = [lCount EXCEPT ![d] = lCount[d] + 0]
        <5>1. remain' = [remain EXCEPT ![t] = remain'[t]] /\ remain'[t] = remain[t] - 1
          BY <1>T, <3>3
        <5>2. lPending' = [lPending EXCEPT ![d] = lPending[d] - 1] /\ lCount' = lCount
          BY <3>3
        <5>3. remain[t] - (remain[t] - 1) = 1 /\ lCount[d] + 0 = lCount[d]
          BY <3>0
        <5>4. lCount' = [lCount EXCEPT ![d] = lCount[d]]
          BY <1>S, <5>2
        <5> QED
          BY <5>1, <5>2, <5>3, <5>4
      <4>3. remain[t] - 1 \in 0..remain[t] /\ 0 <= remain[t] - (remain[t] - 1)
        BY <3>0, <3>3
      <4>4. remain'[t] \in 0..MaxCount
        BY <3>0, <3>3, <4>2, <1>T
      <4>5. Moves(remain[t] - 1, 0)
        BY <4>1, <4>2, <4>3, <4>4
      <4> HIDE DEF Moves
      <4> QED
        BY <4>3, <4>5
    <3>4. CASE UNCHANGED <<lCount, pc, obj, lPending, remain>>
      <4>1. \A s \in Semaphores : Owes(t, s)' = IF s = d THEN remain[t] ELSE 0
        BY <3>4, <2>1 DEF Owes
      <4>2. /\ remain' = [remain EXCEPT ![t] = remain'[t]] /\ remain'[t] = remain[t]
            /\ lPending' = [lPending EXCEPT ![d] = lPending[d] - (remain[t] - remain[t])]
            /\ lCount' = [lCount EXCEPT ![d] = lCount[d] + 0]
        BY <1>S, <1>T, <3>0, <3>4
      <4>3. remain[t] \in 0..remain[t] /\ 0 <= remain[t] - remain[t]
        BY <3>0
      <4>4. Moves(remain[t], 0)
        BY <3>0, <4>1, <4>2, <4>3
      <4> HIDE DEF Moves
      <4> QED
        BY <4>3, <4>4
    <3> HIDE DEF Moves
    <3> QED
      BY <1>1, <3>1, <3>2, <3>3, <3>4 DEF SemPop
  <2>4. PICK n \in 0..remain[t], x \in {0, remain[t]} : Moves(n, x)
    BY <2>M
  <2>5. \A s \in Semaphores : Owes(t, s) <= lPending[s] /\ Owes(t, s) \in 0..MaxCount
    <3> SUFFICES ASSUME NEW s \in Semaphores
                 PROVE  Owes(t, s) <= lPending[s] /\ Owes(t, s) \in 0..MaxCount
      OBVIOUS
    <3>1. Owes(t, s)' \in 0..MaxCount
      BY <2>4, <1>T, <2>1
    <3> QED
      BY <2>2, <3>1, PendingMoves
  <2>6. \A s \in Semaphores : lPending'[s] = Cardinality(Owed(s))'
    <3> SUFFICES ASSUME NEW s \in Semaphores PROVE lPending'[s] = Cardinality(Owed(s))'
      OBVIOUS
    <3>1. Owes(t, s)' \in 0..MaxCount
      BY <2>4, <1>T, <2>1
    <3>2. Cardinality(Owed(s))' = lPending[s] - Owes(t, s) + Owes(t, s)'
      BY <2>2, <3>1, PendingMoves
    <3>3. lPending'[s] = IF s = d THEN lPending[s] - (remain[t] - n) ELSE lPending[s]
      BY <2>4, <1>S
    <3>4. n \in Nat /\ remain[t] \in Nat /\ lPending[s] \in Nat
      BY <1>S, <1>T
    <3> QED
      BY <2>3, <2>4, <3>2, <3>3, <3>4
  <2>7. CountTypes'
    <3>1. /\ n \in Nat /\ x \in Nat /\ remain[t] \in Nat
          /\ lPending[d] \in Nat /\ lCount[d] \in Nat
          /\ n <= remain[t] /\ remain[t] <= lPending[d] /\ x <= remain[t] - n
      BY <1>S, <1>T, <2>1, <2>3, <2>4, <2>5
    <3>2. lPending' \in [Semaphores -> Nat] /\ lCount' \in [Semaphores -> Nat]
      <4>1. lPending[d] - (remain[t] - n) \in Nat /\ lCount[d] + x \in Nat
        BY <3>1
      <4> QED
        BY <1>S, <2>4, <4>1
    <3>3. remain' \in [Threads -> 0..MaxCount]
      BY <1>T, <2>4
    <3>4. \A s \in Semaphores : lCount'[s] + lPending'[s] <= MaxCount
      BY <1>S, <1>T, <2>1, <2>4, <3>1
    <3> QED
      BY <3>2, <3>3, <3>4 DEF CountTypes
  <2> QED
    BY <2>6, <2>7 DEF CountsOK, PendingExact
<1>2. ASSUME NEW t \in Threads, NEW d \in Semaphores, NEW n \in 1..MaxCount, SemAdd(t, d, n)
      PROVE CountsOK'
  <2>1. pc[t] = "idle" /\ HasRoom(d, n)
    BY <1>2 DEF SemAdd, Call, At
  <2>2. \A v \in Threads : v # t => SameCall(v)
    BY <1>2, <1>S, <1>T DEF SemAdd, Call, SameCall
  <2>3. \A s \in Semaphores : Owes(t, s) = 0
    BY <2>1 DEF Owes
  <2>4. /\ lCount' = lCount /\ lPending' = [lPending EXCEPT ![d] = @ + n]
        /\ remain' = [remain EXCEPT ![t] = n]
        /\ pc'[t] = "sempop" /\ obj'[t] = d
    BY <1>2, <1>S DEF SemAdd, Call
  <2>5. \A s \in Semaphores : Owes(t, s)' = IF s = d THEN n ELSE 0
    BY <2>4, <1>T DEF Owes
  <2>6. \A s \in Semaphores : lPending'[s] = Cardinality(Owed(s))'
    <3> SUFFICES ASSUME NEW s \in Semaphores PROVE lPending'[s] = Cardinality(Owed(s))'
      OBVIOUS
    <3>1. Owes(t, s)' \in 0..MaxCount
      BY <2>5, <1>T
    <3>2. Cardinality(Owed(s))' = lPending[s] - Owes(t, s) + Owes(t, s)'
      BY <2>2, <3>1, PendingMoves
    <3> QED
      BY <1>S, <2>3, <2>4, <2>5, <3>2
  <2>7. CountTypes'
    <3>1. lPending' \in [Semaphores -> Nat] /\ remain' \in [Threads -> 0..MaxCount]
      BY <1>S, <1>T, <2>4
    <3>2. \A s \in Semaphores : lCount'[s] + lPending'[s] <= MaxCount
      BY <1>S, <1>T, <2>1, <2>4 DEF HasRoom
    <3> QED
      BY <1>S, <2>4, <3>1, <3>2 DEF CountTypes
  <2> QED
    BY <2>6, <2>7 DEF CountsOK, PendingExact
<1>3. CASE ~SemCall
  <2>1. \A v \in Threads : SameCall(v)
    BY <1>3, OtherCalls
  <2>2. TakesUnit
    BY <1>3, OtherCounts
  <2>3. \A s \in Semaphores : Owed(s)' = Owed(s)
    <3> SUFFICES ASSUME NEW s \in Semaphores PROVE Owed(s)' = Owed(s)
      OBVIOUS
    <3>1. ASSUME NEW u \in Threads \X (1..MaxCount)
          PROVE  (pc'[u[1]] = "sempop" /\ obj'[u[1]] = s /\ u[2] <= remain'[u[1]])
                  <=> (pc[u[1]] = "sempop" /\ obj[u[1]] = s /\ u[2] <= remain[u[1]])
      BY <2>1 DEF SameCall
    <3> QED
      BY <3>1 DEF Owed
  <2>4. \A s \in Semaphores : Cardinality(Owed(s))' = Cardinality(Owed(s))
    BY <2>3
  <2>5. remain' \in [Threads -> 0..MaxCount]
    BY <1>3, <1>T, RemainStep
  <2>6. CountTypes'
    BY <1>S, <1>T, <2>2, <2>5 DEF TakesUnit, CountTypes
  <2> QED
    BY <1>P, <2>2, <2>4, <2>6 DEF TakesUnit, CountsOK, PendingExact
<1> QED
  BY <1>1, <1>2, <1>3 DEF SemCall

\* Every variable keeps its type, and no count leaves its range.
LEMMA CountsSoundStep ==
    ASSUME IInv, PlainIntrWaits, Next
    PROVE  CountsSound'
<1>1. /\ ObjectTypes' /\ CallTypes' /\ WakeTypes' /\ TimeTypes' /\ ProxyTypes'
      /\ ResultTypes' /\ RunTypes'
  BY ObjectTypesStep, CallTypesStep, WakeTypesStep, TimeTypesStep, ProxyTypesStep,
     ResultTypesStep,
     RunTypesStep
<1>2. WaitsType' /\ LockTypes' /\ CountsOK'
  BY WaitsTypeStep, LockTypesStep, CountsStep
<1>3. /\ queue' \in [Objects -> Seq(Threads)] /\ stub' \in [Threads -> Seq(Threads)]
      /\ \A o \in Objects : Distinct(queue'[o])
  BY QueueTypesStep
<1>4. TypeOK'
  BY <1>1, <1>2, <1>3 DEF TypeOK, ObjectTypes, CallTypes, WakeTypes, TimeTypes, ProxyTypes,
     ResultTypes, RunTypes, WaitsType, WaitLists, LockTypes, CountsOK, CountTypes, PCs
<1> QED
  BY <1>2, <1>4 DEF CountsSound, CountsOK

\* An event is set only when nobody is left in its queue.
LEMMA EventFilled ==
    ASSUME IInv, PlainIntrWaits, Next, NEW e \in Events
    PROVE  state'[e] => state[e] \/ queue'[e] = <<>>
<1>S. /\ state \in [Events -> BOOLEAN] /\ queue \in [Objects -> Seq(Threads)]
  BY ShapesHold DEF IInv, CountsSound, Shapes
<1>1. ASSUME NEW t \in Threads, NEW o \in Objects, WaitOk(t, o)
      PROVE  state'[e] => state[e] \/ queue'[e] = <<>>
  BY <1>1, <1>S, Apart DEF WaitOk, At, Signalled, Consume
<1>2. ASSUME NEW t \in Threads, EventModAuto(t)
      PROVE  state'[e] => state[e] \/ queue'[e] = <<>>
  BY <1>2, <1>S, Apart DEF EventModAuto, objectVars, At, ReturnPC, SetState
<1>3. ASSUME NEW t \in Threads, EventModIntr(t)
      PROVE  state'[e] => state[e] \/ queue'[e] = <<>>
  BY <1>3, <1>S, Apart DEF EventModIntr, At, ReturnPC, SetState
<1>4. ASSUME NEW t \in Threads, EventModMan(t)
      PROVE  state'[e] => state[e] \/ queue'[e] = <<>>
  <2>1. obj[t] \in Objects
    BY <1>4 DEF EventModMan, Objects, Events
  <2> QED
    BY <1>4, <2>1, <1>S, Apart DEF EventModMan, At, SetState
<1>5. ASSUME NEW t \in Threads, NEW o \in Events, EventReset(t, o)
      PROVE  state'[e] => state[e] \/ queue'[e] = <<>>
  BY <1>5, <1>S, Apart DEF EventReset, At
<1>6. ASSUME NEW i \in IntrEvents, Interrupt(i)
      PROVE  state'[e] => state[e] \/ queue'[e] = <<>>
  BY <1>6, <1>S, Apart DEF Interrupt
<1>7. ASSUME NEW t \in Threads,
             \/ Wake(t) \/ WaitSignalled(t) \/ WaitTerminated(t) \/ WaitBlock(t)
             \/ WaitTimeout(t) \/ (\E o \in Objects : WaitBad(t, o))
             \/ (\E o \in Objects : WaitEnqueue(t, o)) \/ Resume(t) \/ LaterLinkCritMut(t)
             \/ PostBoostMut(t) \/ DequeueProxy(t) \/ WaitReturn(t) \/ WakeOneThreadFlat(t)
             \/ SemPop(t) \/ LeaveMutex(t)
      PROVE  state'[e] => state[e] \/ queue'[e] = <<>>
  <2>1. UNCHANGED <<state>>
    BY <1>7 DEF Wake, objectVars, WaitSignalled, At, WaitTerminated, WaitBlock, WaitTimeout,
       WaitBad, WaitEnqueue, Resume, LaterLinkCritMut, PostBoostMut, DequeueProxy, WaitReturn,
       WakeOneThreadFlat, SemPop, LeaveMutex
  <2> QED
    BY <2>1, <1>S
<1>8. ASSUME NEW t \in Threads,
             \/ PostUnlinkCritMut(t) \/ WakeExitWaiter(t) \/ Bury(t)
             \/ (\E w \in Waits[t] : WaitConfig(t, w))
             \/ (\E o \in Events, action \in {"SET", "PULSE"} : EventModify(t, o, action))
             \/ (\E s \in Semaphores, n \in 1..MaxCount : SemAdd(t, s, n))
             \/ (\E m \in Mutexes : ReleaseNested(t, m))
             \/ (\E m \in Mutexes : PreUnlinkMutex(t, m)) \/ ExitThread(t) \/ KillRunnable(t)
             \/ KillBlocked(t) \/ KillLater(t) \/ MakeKilledRun(t) \/ TimerFires(t)
             \/ (\E boost \in BOOLEAN : Reprio(t, boost))
      PROVE  state'[e] => state[e] \/ queue'[e] = <<>>
  <2>1. UNCHANGED <<state>>
    BY <1>8 DEF PostUnlinkCritMut, objectVars, At, WakeExitWaiter, Bury, WaitConfig,
       EventModify, SemAdd, ReleaseNested, PreUnlinkMutex, ExitThread, KillRunnable,
       KillBlocked, KillLater, MakeKilledRun, TimerFires, Reprio
  <2> QED
    BY <2>1, <1>S
<1> QED
  BY <1>1, <1>2, <1>3, <1>4, <1>5, <1>6, <1>7, <1>8 DEF Next, Continue, WaitStep, BeginCall

\* The count of a semaphore gets units only when nobody is left in its queue.
LEMMA CountFilled ==
    ASSUME IInv, PlainIntrWaits, Next, NEW x \in Semaphores
    PROVE  lCount'[x] = 0 \/ lCount[x] # 0 \/ queue'[x] = <<>>
<1>S. /\ lCount \in [Semaphores -> Nat] /\ queue \in [Objects -> Seq(Threads)]
  BY ShapesHold DEF IInv, CountsSound, Shapes
<1>1. ASSUME NEW t \in Threads, NEW o \in Objects, WaitOk(t, o)
      PROVE  lCount'[x] = 0 \/ lCount[x] # 0 \/ queue'[x] = <<>>
  <2>1. x = o => lCount[x] > 0
    BY <1>1, Apart DEF WaitOk, Signalled
  <2>2. lCount' = IF o \in Semaphores THEN [lCount EXCEPT ![o] = @ - 1] ELSE lCount
    BY <1>1 DEF WaitOk, Consume
  <2>3. x # o => lCount'[x] = lCount[x]
    BY <2>2, <1>S
  <2> QED
    BY <2>1, <2>3, <1>S
<1>2. ASSUME NEW t \in Threads, SemPop(t)
      PROVE  lCount'[x] = 0 \/ lCount[x] # 0 \/ queue'[x] = <<>>
  BY <1>2, <1>S, Apart DEF SemPop, At, ReturnPC, AddToCount
<1>3. ASSUME NEW t \in Threads,
             \/ Wake(t) \/ WaitSignalled(t) \/ WaitTerminated(t) \/ WaitBlock(t)
             \/ WaitTimeout(t) \/ (\E o \in Objects : WaitBad(t, o))
             \/ (\E o \in Objects : WaitEnqueue(t, o)) \/ Resume(t) \/ LaterLinkCritMut(t)
             \/ PostBoostMut(t) \/ DequeueProxy(t)
      PROVE  lCount'[x] = 0 \/ lCount[x] # 0 \/ queue'[x] = <<>>
  <2>1. UNCHANGED <<lCount>>
    BY <1>3 DEF Wake, objectVars, WaitSignalled, At, WaitTerminated, WaitBlock, WaitTimeout,
       WaitBad, WaitEnqueue, Resume, LaterLinkCritMut, PostBoostMut, DequeueProxy
  <2> QED
    BY <2>1, <1>S
<1>4. ASSUME NEW t \in Threads,
             \/ WaitReturn(t) \/ EventModAuto(t) \/ EventModIntr(t) \/ EventModMan(t)
             \/ WakeOneThreadFlat(t) \/ LeaveMutex(t) \/ PostUnlinkCritMut(t)
             \/ WakeExitWaiter(t) \/ Bury(t) \/ (\E w \in Waits[t] : WaitConfig(t, w))
             \/ (\E o \in Events : EventReset(t, o))
      PROVE  lCount'[x] = 0 \/ lCount[x] # 0 \/ queue'[x] = <<>>
  <2>1. UNCHANGED <<lCount>>
    BY <1>4 DEF WaitReturn, objectVars, At, EventModAuto, SetState, EventModIntr, EventModMan,
       WakeOneThreadFlat, LeaveMutex, PostUnlinkCritMut, WakeExitWaiter, Bury, WaitConfig,
       EventReset
  <2> QED
    BY <2>1, <1>S
<1>5. ASSUME NEW t \in Threads,
             \/ (\E o \in Events, action \in {"SET", "PULSE"} : EventModify(t, o, action))
             \/ (\E s \in Semaphores, n \in 1..MaxCount : SemAdd(t, s, n))
             \/ (\E m \in Mutexes : ReleaseNested(t, m))
             \/ (\E m \in Mutexes : PreUnlinkMutex(t, m)) \/ ExitThread(t) \/ KillRunnable(t)
             \/ KillBlocked(t) \/ KillLater(t) \/ MakeKilledRun(t) \/ TimerFires(t)
             \/ (\E boost \in BOOLEAN : Reprio(t, boost))
      PROVE  lCount'[x] = 0 \/ lCount[x] # 0 \/ queue'[x] = <<>>
  <2>1. UNCHANGED <<lCount>>
    BY <1>5 DEF EventModify, objectVars, At, SemAdd, ReleaseNested, PreUnlinkMutex,
       ExitThread, KillRunnable, KillBlocked, KillLater, MakeKilledRun, TimerFires, Reprio
  <2> QED
    BY <2>1, <1>S
<1>6. ASSUME NEW i \in IntrEvents, Interrupt(i)
      PROVE  lCount'[x] = 0 \/ lCount[x] # 0 \/ queue'[x] = <<>>
  <2>1. UNCHANGED <<lCount>>
    BY <1>6 DEF Interrupt
  <2> QED
    BY <2>1, <1>S
<1> QED
  BY <1>1, <1>2, <1>3, <1>4, <1>5, <1>6 DEF Next, Continue, WaitStep, BeginCall

\* A mutex is left without an owner only when nobody is left in its queue.
LEMMA MutexFreed ==
    ASSUME IInv, PlainIntrWaits, Next, NEW x \in Mutexes
    PROVE  pOwner'[x] # None \/ pOwner[x] = None \/ queue'[x] = <<>>
<1>S. /\ pOwner \in [Mutexes -> ThreadOrNone] /\ queue \in [Objects -> Seq(Threads)]
  BY ShapesHold DEF IInv, CountsSound, Shapes
<1>1. ASSUME NEW t \in Threads, NEW o \in Objects, WaitOk(t, o)
      PROVE  pOwner'[x] # None \/ pOwner[x] = None \/ queue'[x] = <<>>
  <2>1. t # None
    BY Apart DEF Objects
  <2> QED
    BY <1>1, <2>1, <1>S, Apart DEF WaitOk, At, Signalled, Consume
<1>2. ASSUME NEW t \in Threads, LeaveMutex(t)
      PROVE  pOwner'[x] # None \/ pOwner[x] = None \/ queue'[x] = <<>>
  <2>1. queue[obj[t]] # <<>> => Head(queue[obj[t]]) # None
    <3>1. obj[t] \in Objects
      BY <1>2 DEF LeaveMutex, At, IInv, CallOK, Objects
    <3> QED
      BY <3>1, HeadWaits, Apart DEF Objects
  <2> QED
    BY <1>2, <2>1, <1>S, Apart DEF LeaveMutex, At
<1>3. ASSUME NEW t \in Threads,
             \/ Wake(t) \/ WaitSignalled(t) \/ WaitTerminated(t) \/ WaitBlock(t)
             \/ WaitTimeout(t) \/ (\E o \in Objects : WaitBad(t, o))
             \/ (\E o \in Objects : WaitEnqueue(t, o)) \/ Resume(t) \/ LaterLinkCritMut(t)
             \/ PostBoostMut(t) \/ DequeueProxy(t)
      PROVE  pOwner'[x] # None \/ pOwner[x] = None \/ queue'[x] = <<>>
  <2>1. UNCHANGED <<pOwner>>
    BY <1>3 DEF Wake, objectVars, WaitSignalled, At, WaitTerminated, WaitBlock, WaitTimeout,
       WaitBad, WaitEnqueue, Resume, LaterLinkCritMut, PostBoostMut, DequeueProxy
  <2> QED
    BY <2>1, <1>S
<1>4. ASSUME NEW t \in Threads,
             \/ WaitReturn(t) \/ EventModAuto(t) \/ EventModIntr(t) \/ EventModMan(t)
             \/ WakeOneThreadFlat(t) \/ SemPop(t) \/ PostUnlinkCritMut(t) \/ WakeExitWaiter(t)
             \/ Bury(t) \/ (\E w \in Waits[t] : WaitConfig(t, w))
             \/ (\E o \in Events : EventReset(t, o))
      PROVE  pOwner'[x] # None \/ pOwner[x] = None \/ queue'[x] = <<>>
  <2>1. UNCHANGED <<pOwner>>
    BY <1>4 DEF WaitReturn, objectVars, At, EventModAuto, SetState, EventModIntr, EventModMan,
       WakeOneThreadFlat, SemPop, PostUnlinkCritMut, WakeExitWaiter, Bury, WaitConfig,
       EventReset
  <2> QED
    BY <2>1, <1>S
<1>5. ASSUME NEW t \in Threads,
             \/ (\E o \in Events, action \in {"SET", "PULSE"} : EventModify(t, o, action))
             \/ (\E s \in Semaphores, n \in 1..MaxCount : SemAdd(t, s, n))
             \/ (\E m \in Mutexes : ReleaseNested(t, m))
             \/ (\E m \in Mutexes : PreUnlinkMutex(t, m)) \/ ExitThread(t) \/ KillRunnable(t)
             \/ KillBlocked(t) \/ KillLater(t) \/ MakeKilledRun(t) \/ TimerFires(t)
             \/ (\E boost \in BOOLEAN : Reprio(t, boost))
      PROVE  pOwner'[x] # None \/ pOwner[x] = None \/ queue'[x] = <<>>
  <2>1. UNCHANGED <<pOwner>>
    BY <1>5 DEF EventModify, objectVars, At, SemAdd, ReleaseNested, PreUnlinkMutex,
       ExitThread, KillRunnable, KillBlocked, KillLater, MakeKilledRun, TimerFires, Reprio
  <2> QED
    BY <2>1, <1>S
<1>6. ASSUME NEW i \in IntrEvents, Interrupt(i)
      PROVE  pOwner'[x] # None \/ pOwner[x] = None \/ queue'[x] = <<>>
  <2>1. UNCHANGED <<pOwner>>
    BY <1>6 DEF Interrupt
  <2> QED
    BY <2>1, <1>S
<1> QED
  BY <1>1, <1>2, <1>3, <1>4, <1>5, <1>6 DEF Next, Continue, WaitStep, BeginCall

\* A thread ends before it wakes who waits for it.
LEMMA ExitsFirst ==
    ASSUME IInv, PlainIntrWaits, Next, NEW x \in Threads
    PROVE  life'[x] \in {"dead", "gone"} => pc'[x] = "exit" \/ queue[x] = <<>>
<1>S. /\ pc \in [Threads -> PCs]
      /\ life \in [Threads -> {"alive", "dying", "dead", "gone"}]
  BY ShapesHold DEF IInv, CountsSound, Shapes
<1>I. LifeOK(x) /\ ThreadOK(x)
  BY DEF IInv
<1>K. life[x] \in {"dead", "gone"} => pc[x] = "exit" \/ queue[x] = <<>>
  BY <1>I DEF ThreadOK
<1>L. pc[x] \in {"exit", "release"} => life[x] = "dead"
  BY <1>I DEF LifeOK
<1>1. ASSUME NEW t \in Threads, WaitSignalled(t)
      PROVE  life'[x] \in {"dead", "gone"} => pc'[x] = "exit" \/ queue[x] = <<>>
  BY <1>1, <1>S, <1>I, <1>K, <1>L DEF WaitSignalled, At, WaitOneMore
<1>2. ASSUME NEW t \in Threads, WaitTerminated(t)
      PROVE  life'[x] \in {"dead", "gone"} => pc'[x] = "exit" \/ queue[x] = <<>>
  BY <1>2, <1>S, <1>I, <1>K, <1>L DEF WaitTerminated, At, WaitOneMore
<1>3. ASSUME NEW t \in Threads, WaitBlock(t)
      PROVE  life'[x] \in {"dead", "gone"} => pc'[x] = "exit" \/ queue[x] = <<>>
  BY <1>3, <1>S, <1>I, <1>K, <1>L DEF WaitBlock, At, WaitOneMore
<1>4. ASSUME NEW t \in Threads, WaitTimeout(t)
      PROVE  life'[x] \in {"dead", "gone"} => pc'[x] = "exit" \/ queue[x] = <<>>
  BY <1>4, <1>S, <1>I, <1>K, <1>L DEF WaitTimeout, At, WaitOneMore
<1>5. ASSUME NEW t \in Threads, NEW o \in Objects, WaitOk(t, o)
      PROVE  life'[x] \in {"dead", "gone"} => pc'[x] = "exit" \/ queue[x] = <<>>
  BY <1>5, <1>S, <1>I, <1>K, <1>L DEF WaitOk, At, WaitOneMore
<1>6. ASSUME NEW t \in Threads, NEW o \in Objects, WaitBad(t, o)
      PROVE  life'[x] \in {"dead", "gone"} => pc'[x] = "exit" \/ queue[x] = <<>>
  BY <1>6, <1>S, <1>I, <1>K, <1>L DEF WaitBad, At, WaitOneMore
<1>7. ASSUME NEW t \in Threads, NEW o \in Objects, WaitEnqueue(t, o)
      PROVE  life'[x] \in {"dead", "gone"} => pc'[x] = "exit" \/ queue[x] = <<>>
  BY <1>7, <1>S, <1>I, <1>K, <1>L DEF WaitEnqueue, At, WaitOneMore
<1>8. ASSUME NEW t \in Threads, Resume(t)
      PROVE  life'[x] \in {"dead", "gone"} => pc'[x] = "exit" \/ queue[x] = <<>>
  BY <1>8, <1>S, <1>I, <1>K, <1>L DEF Resume, runVars, At
<1>9. ASSUME NEW t \in Threads, LaterLinkCritMut(t)
      PROVE  life'[x] \in {"dead", "gone"} => pc'[x] = "exit" \/ queue[x] = <<>>
  BY <1>9, <1>S, <1>I, <1>K, <1>L DEF LaterLinkCritMut, runVars, At
<1>10. ASSUME NEW t \in Threads, PostBoostMut(t)
      PROVE  life'[x] \in {"dead", "gone"} => pc'[x] = "exit" \/ queue[x] = <<>>
  BY <1>10, <1>S, <1>I, <1>K, <1>L DEF PostBoostMut, runVars, At
<1>11. ASSUME NEW t \in Threads, WaitReturn(t)
      PROVE  life'[x] \in {"dead", "gone"} => pc'[x] = "exit" \/ queue[x] = <<>>
  BY <1>11, <1>S, <1>I, <1>K, <1>L DEF WaitReturn, runVars, At, ReturnPC
<1>12. ASSUME NEW t \in Threads, EventModAuto(t)
      PROVE  life'[x] \in {"dead", "gone"} => pc'[x] = "exit" \/ queue[x] = <<>>
  BY <1>12, <1>S, <1>I, <1>K, <1>L DEF EventModAuto, runVars, At, ReturnPC, SatisfyBy, Return
<1>13. ASSUME NEW t \in Threads, EventModIntr(t)
      PROVE  life'[x] \in {"dead", "gone"} => pc'[x] = "exit" \/ queue[x] = <<>>
  BY <1>13, <1>S, <1>I, <1>K, <1>L DEF EventModIntr, runVars, At, ReturnPC, SatisfyBy, Return
<1>14. ASSUME NEW t \in Threads, EventModMan(t)
      PROVE  life'[x] \in {"dead", "gone"} => pc'[x] = "exit" \/ queue[x] = <<>>
  BY <1>14, <1>S, <1>I, <1>K, <1>L DEF EventModMan, runVars, At
<1>15. ASSUME NEW t \in Threads, WakeOneThreadFlat(t)
      PROVE  life'[x] \in {"dead", "gone"} => pc'[x] = "exit" \/ queue[x] = <<>>
  BY <1>15, <1>S, <1>I, <1>K, <1>L DEF WakeOneThreadFlat, runVars, At, ReturnPC, SatisfyBy,
     Return
<1>16. ASSUME NEW t \in Threads, SemPop(t)
      PROVE  life'[x] \in {"dead", "gone"} => pc'[x] = "exit" \/ queue[x] = <<>>
  BY <1>16, <1>S, <1>I, <1>K, <1>L DEF SemPop, runVars, At, ReturnPC, SatisfyBy, Return
<1>17. ASSUME NEW t \in Threads, LeaveMutex(t)
      PROVE  life'[x] \in {"dead", "gone"} => pc'[x] = "exit" \/ queue[x] = <<>>
  BY <1>17, <1>S, <1>I, <1>K, <1>L DEF LeaveMutex, runVars, At, SatisfyBy
<1>18. ASSUME NEW t \in Threads, PostUnlinkCritMut(t)
      PROVE  life'[x] \in {"dead", "gone"} => pc'[x] = "exit" \/ queue[x] = <<>>
  BY <1>18, <1>S, <1>I, <1>K, <1>L DEF PostUnlinkCritMut, runVars, At, ReturnPC, Return
<1>19. ASSUME NEW t \in Threads, WakeExitWaiter(t)
      PROVE  life'[x] \in {"dead", "gone"} => pc'[x] = "exit" \/ queue[x] = <<>>
  BY <1>19, <1>S, <1>I, <1>K, <1>L DEF WakeExitWaiter, runVars, At, SatisfyBy
<1>20. ASSUME NEW t \in Threads, Bury(t)
      PROVE  life'[x] \in {"dead", "gone"} => pc'[x] = "exit" \/ queue[x] = <<>>
  BY <1>20, <1>S, <1>I, <1>K, <1>L DEF Bury, At
<1>21. ASSUME NEW t \in Threads, NEW w \in Waits[t], WaitConfig(t, w)
      PROVE  life'[x] \in {"dead", "gone"} => pc'[x] = "exit" \/ queue[x] = <<>>
  BY <1>21, <1>S, <1>I, <1>K, <1>L DEF WaitConfig, runVars, At
<1>22. ASSUME NEW t \in Threads, NEW o \in Events, NEW action \in {"SET", "PULSE"},
              EventModify(t, o, action)
      PROVE  life'[x] \in {"dead", "gone"} => pc'[x] = "exit" \/ queue[x] = <<>>
  BY <1>22, <1>S, <1>I, <1>K, <1>L DEF EventModify, runVars, At, Call
<1>23. ASSUME NEW t \in Threads, NEW s \in Semaphores, NEW n \in 1..MaxCount, SemAdd(t, s, n)
      PROVE  life'[x] \in {"dead", "gone"} => pc'[x] = "exit" \/ queue[x] = <<>>
  BY <1>23, <1>S, <1>I, <1>K, <1>L DEF SemAdd, runVars, At, Call
<1>24. ASSUME NEW t \in Threads, NEW m \in Mutexes, PreUnlinkMutex(t, m)
      PROVE  life'[x] \in {"dead", "gone"} => pc'[x] = "exit" \/ queue[x] = <<>>
  BY <1>24, <1>S, <1>I, <1>K, <1>L DEF PreUnlinkMutex, runVars, At
<1>25. ASSUME NEW t \in Threads, ExitThread(t)
      PROVE  life'[x] \in {"dead", "gone"} => pc'[x] = "exit" \/ queue[x] = <<>>
  BY <1>25, <1>S, <1>I, <1>K, <1>L DEF ExitThread, At
<1>26. ASSUME NEW t \in Threads, KillRunnable(t)
      PROVE  life'[x] \in {"dead", "gone"} => pc'[x] = "exit" \/ queue[x] = <<>>
  BY <1>26, <1>S, <1>I, <1>K, <1>L DEF KillRunnable, At
<1>27. ASSUME NEW t \in Threads, KillBlocked(t)
      PROVE  life'[x] \in {"dead", "gone"} => pc'[x] = "exit" \/ queue[x] = <<>>
  BY <1>27, <1>S, <1>I, <1>K, <1>L DEF KillBlocked
<1>28. ASSUME NEW t \in Threads, KillLater(t)
      PROVE  life'[x] \in {"dead", "gone"} => pc'[x] = "exit" \/ queue[x] = <<>>
  BY <1>28, <1>S, <1>I, <1>K, <1>L DEF KillLater, At
<1>29. ASSUME NEW t \in Threads,
             \/ Wake(t) \/ DequeueProxy(t) \/ (\E o \in Events : EventReset(t, o))
             \/ (\E m \in Mutexes : ReleaseNested(t, m)) \/ MakeKilledRun(t) \/ TimerFires(t)
             \/ (\E boost \in BOOLEAN : Reprio(t, boost))
      PROVE  life'[x] \in {"dead", "gone"} => pc'[x] = "exit" \/ queue[x] = <<>>
  <2>1. UNCHANGED <<pc, life>>
    BY <1>29 DEF Wake, DequeueProxy, runVars, At, EventReset, ReleaseNested, MakeKilledRun,
       TimerFires, Reprio
  <2> QED
    BY <2>1, <1>I DEF ThreadOK
<1>30. ASSUME NEW i \in IntrEvents, Interrupt(i)
      PROVE  life'[x] \in {"dead", "gone"} => pc'[x] = "exit" \/ queue[x] = <<>>
  <2>1. UNCHANGED <<pc, life>>
    BY <1>30 DEF Interrupt
  <2> QED
    BY <2>1, <1>I DEF ThreadOK
<1> QED
  BY <1>1, <1>2, <1>3, <1>4, <1>5, <1>6, <1>7, <1>8, <1>9, <1>10, <1>11, <1>12, <1>13, <1>14,
     <1>15, <1>16, <1>17, <1>18, <1>19, <1>20, <1>21, <1>22, <1>23, <1>24, <1>25, <1>26,
     <1>27, <1>28, <1>29, <1>30 DEF Next, Continue, WaitStep, BeginCall

\* Nobody waits for an event that is set.
LEMMA EventStep ==
    ASSUME IInv, PlainIntrWaits, Next, NEW e \in Events
    PROVE  EventOK(e)'
<1> SUFFICES ASSUME NEW u \in Threads, current'[u], Queued(u, queue'[e]), state'[e]
             PROVE  FALSE
  BY DEF EventOK
<1>1. e \in Objects /\ queue'[e] # <<>>
  BY EmptyQueue DEF Objects
<1>2. CASE current[u] /\ Queued(u, queue[e])
  <2>1. ~state[e]
    BY <1>2 DEF IInv, EventOK
  <2> QED
    BY <1>1, <2>1, EventFilled
<1>3. CASE WaitEnqueue(u, e)
  <2>1. ~Signalled(u, e) /\ state' = state
    BY <1>3 DEF WaitEnqueue, objectVars
  <2> QED
    BY <2>1, Apart DEF Signalled
<1> QED
  BY <1>1, <1>2, <1>3, WaiterBefore

\* ... for a semaphore with units.
LEMMA SemaphoreStep ==
    ASSUME IInv, PlainIntrWaits, Next, NEW s \in Semaphores
    PROVE  SemaphoreOK(s)'
<1> SUFFICES ASSUME NEW u \in Threads, current'[u], Queued(u, queue'[s]), lCount'[s] # 0
             PROVE  FALSE
  BY DEF SemaphoreOK
<1>1. s \in Objects /\ queue'[s] # <<>>
  BY EmptyQueue DEF Objects
<1>2. CASE current[u] /\ Queued(u, queue[s])
  <2>1. lCount[s] = 0
    BY <1>2 DEF IInv, SemaphoreOK
  <2> QED
    BY <1>1, <2>1, CountFilled
<1>3. CASE WaitEnqueue(u, s)
  <2>1. ~Signalled(u, s) /\ lCount' = lCount
    BY <1>3 DEF WaitEnqueue, objectVars
  <2>2. lCount[s] \in Nat
    BY DEF IInv, CountsSound, TypeOK
  <2>3. ~(lCount[s] > 0)
    BY <2>1, Apart DEF Signalled
  <2> QED
    BY <2>1, <2>2, <2>3
<1> QED
  BY <1>1, <1>2, <1>3, WaiterBefore

\* ... for a mutex without an owner.
LEMMA MutexQueueStep ==
    ASSUME IInv, PlainIntrWaits, Next, NEW m \in Mutexes, NEW u \in Threads,
           current'[u], Queued(u, queue'[m])
    PROVE  pOwner'[m] # None
<1>1. m \in Objects /\ queue'[m] # <<>>
  BY EmptyQueue DEF Objects
<1>2. CASE current[u] /\ Queued(u, queue[m])
  <2>1. pOwner[m] # None
    BY <1>2 DEF IInv, MutexOK
  <2> QED
    BY <1>1, <2>1, MutexFreed
<1>3. CASE WaitEnqueue(u, m)
  <2>1. ~Signalled(u, m) /\ pOwner' = pOwner
    BY <1>3 DEF WaitEnqueue, objectVars
  <2> QED
    BY <2>1, Apart DEF Signalled
<1> QED
  BY <1>1, <1>2, <1>3, WaiterBefore

\* One thread at most waits for an interrupt event.
LEMMA IntrStep ==
    ASSUME IInv, PlainIntrWaits, Next, NEW o \in IntrEvents
    PROVE  IntrOK(o)'
<1>1. o \in Objects
  BY DEF Objects, Events
<1>2. ASSUME NEW v \in Threads, WaitEnqueue(v, o), NEW w \in Threads, Queued(w, queue'[o])
      PROVE  w = v
  <2>1. queue[o] = <<>> /\ (Queued(w, queue'[o]) <=> w = v \/ Queued(w, queue[o]))
    BY <1>1, <1>2, EnqueueEffect DEF WaitEnqueue
  <2> QED
    BY <1>2, <2>1, EmptyQueue
<1> SUFFICES ASSUME NEW u \in Threads, NEW v \in Threads,
                    Queued(u, queue'[o]), Queued(v, queue'[o])
             PROVE  u = v
  BY DEF IntrOK
<1>3. Queued(u, queue[o]) \/ WaitEnqueue(u, o)
  BY <1>1, QueuedBefore
<1>4. Queued(v, queue[o]) \/ WaitEnqueue(v, o)
  BY <1>1, QueuedBefore
<1>5. IntrOK(o)
  BY DEF IInv
<1> QED
  BY <1>2, <1>3, <1>4, <1>5 DEF IntrOK

\* Nobody queues at a thread that is gone.
LEMMA ThreadStep ==
    ASSUME IInv, PlainIntrWaits, Next, NEW x \in Threads
    PROVE  ThreadOK(x)'
<1> SUFFICES ASSUME life'[x] \in {"dead", "gone"}, pc'[x] # "exit", queue'[x] # <<>>
             PROVE  FALSE
  BY DEF ThreadOK
<1>1. x \in Objects /\ queue'[x] \in Seq(Threads)
  BY QueueTypesStep DEF Objects
<1>2. PICK u \in Threads : Queued(u, queue'[x])
  <2>1. 1 \in DOMAIN queue'[x] /\ queue'[x][1] \in Threads
    BY <1>1, EmptySeq
  <2> QED
    BY <2>1 DEF Queued
<1>3. CASE Queued(u, queue[x])
  <2>1. queue[x] # <<>>
    BY <1>3, EmptyQueue
  <2> QED
    BY <2>1, ExitsFirst
<1>4. CASE WaitEnqueue(u, x)
  <2>1. ~Signalled(u, x) /\ life' = life
    BY <1>4 DEF WaitEnqueue, WaitOneMore
  <2> QED
    BY <2>1, Apart DEF Signalled
<1> QED
  BY <1>1, <1>2, <1>3, <1>4, QueuedBefore

\* The parts of MutexOK that are not about the queue.
OwnedOK(m) ==
    /\ listed[m] # None => listed[m] = pOwner[m]
    /\ pOwner[m] # None =>
          \/ listed[m] = pOwner[m]
          \/ obj[pOwner[m]] = m /\ pc[pOwner[m]] \in {"link", "leave"}
    /\ pOwner[m] # None => pc[pOwner[m]] # "gone"
    /\ \A t \in Threads : obj[t] = m =>
          /\ pc[t] = "link" => pOwner[m] = t
          /\ pc[t] = "leave" => pOwner[m] = t /\ listed[m] = None

\* v takes no mutex and leaves none.
Elsewhere(v) ==
    \/ UNCHANGED <<pc[v], obj[v]>>
    \/ pc[v] \notin {"link", "leave"} /\ pc'[v] \notin {"link", "leave", "gone"}

LEMMA OwnedKept ==
    ASSUME IInv, UNCHANGED <<listed, pOwner>>, \A v \in Threads : Elsewhere(v),
           NEW x \in Mutexes
    PROVE  OwnedOK(x)'
<1>1. OwnedOK(x)
  BY DEF IInv, MutexOK, OwnedOK
<1>2. pOwner[x] # None => pOwner[x] \in Threads
  BY DEF IInv, CountsSound, TypeOK, ThreadOrNone
<1> QED
  BY <1>1, <1>2 DEF OwnedOK, Elsewhere

\* A mutex is on the list of its owner, but for the steps that take or leave it.
LEMMA OwnedStep ==
    ASSUME IInv, PlainIntrWaits, Next, NEW x \in Mutexes
    PROVE  OwnedOK(x)'
<1>S. /\ pOwner \in [Mutexes -> ThreadOrNone] /\ listed \in [Mutexes -> ThreadOrNone]
      /\ obj \in [Threads -> Objects \cup {None}] /\ pc \in [Threads -> PCs]
  BY ShapesHold DEF IInv, CountsSound, Shapes
<1>C. \A m \in Mutexes : OwnedOK(m)
  BY DEF IInv, MutexOK, OwnedOK
<1>N. \A t \in Threads : t # None
  BY Apart DEF Objects
<1>D. \A t \in Threads : pc[t] \in {"link", "boost", "leave"} => obj[t] \in Mutexes
  BY DEF IInv, CallOK
<1>1. ASSUME NEW t \in Threads, WaitSignalled(t) PROVE OwnedOK(x)'
  <2>1. UNCHANGED <<listed, pOwner>>
    BY <1>1 DEF WaitSignalled, objectVars, At, WaitOneMore
  <2>2. \A v \in Threads : Elsewhere(v)
    BY <1>1, <1>S DEF WaitSignalled, objectVars, At, WaitOneMore, Elsewhere
  <2> QED
    BY <2>1, <2>2, OwnedKept
<1>2. ASSUME NEW t \in Threads, WaitTerminated(t) PROVE OwnedOK(x)'
  <2>1. UNCHANGED <<listed, pOwner>>
    BY <1>2 DEF WaitTerminated, objectVars, At, WaitOneMore
  <2>2. \A v \in Threads : Elsewhere(v)
    BY <1>2, <1>S DEF WaitTerminated, objectVars, At, WaitOneMore, Elsewhere
  <2> QED
    BY <2>1, <2>2, OwnedKept
<1>3. ASSUME NEW t \in Threads, WaitBlock(t) PROVE OwnedOK(x)'
  <2>1. UNCHANGED <<listed, pOwner>>
    BY <1>3 DEF WaitBlock, objectVars, At, WaitOneMore
  <2>2. \A v \in Threads : Elsewhere(v)
    BY <1>3, <1>S DEF WaitBlock, objectVars, At, WaitOneMore, Elsewhere
  <2> QED
    BY <2>1, <2>2, OwnedKept
<1>4. ASSUME NEW t \in Threads, WaitTimeout(t) PROVE OwnedOK(x)'
  <2>1. UNCHANGED <<listed, pOwner>>
    BY <1>4 DEF WaitTimeout, objectVars, At, WaitOneMore
  <2>2. \A v \in Threads : Elsewhere(v)
    BY <1>4, <1>S DEF WaitTimeout, objectVars, At, WaitOneMore, Elsewhere
  <2> QED
    BY <2>1, <2>2, OwnedKept
<1>5. ASSUME NEW t \in Threads, NEW o \in Objects, WaitOk(t, o) PROVE OwnedOK(x)'
  <2>1. /\ pc[t] = "wait" /\ t \in Threads
        /\ obj' = [obj EXCEPT ![t] = o] /\ listed' = listed
    BY <1>5 DEF WaitOk, WaitOneMore, At, Consume
  <2>2. CASE o \in Mutexes /\ pOwner[o] = None
    <3>1. pc' = [pc EXCEPT ![t] = "link"] /\ pOwner' = [pOwner EXCEPT ![o] = t]
      BY <1>5, <2>2 DEF WaitOk, Consume
    <3> QED
      BY <2>1, <2>2, <3>1, <1>S, <1>C, <1>N, <1>D DEF OwnedOK
  <2>3. CASE o \in Mutexes /\ pOwner[o] # None
    <3>1. pOwner[o] = t
      BY <1>5, <2>3, Apart DEF WaitOk, Signalled
    <3>2. pc' = [pc EXCEPT ![t] = "dequeue"] /\ pOwner' = [pOwner EXCEPT ![o] = t]
      BY <1>5, <2>3 DEF WaitOk, Consume
    <3> QED
      BY <2>1, <2>3, <3>1, <3>2, <1>S, <1>C, <1>N, <1>D DEF OwnedOK
  <2>4. CASE o \notin Mutexes
    <3>1. pc' = [pc EXCEPT ![t] = "dequeue"] /\ pOwner' = pOwner
      BY <1>5, <2>4 DEF WaitOk, Consume
    <3> QED
      BY <2>1, <2>4, <3>1, <1>S, <1>C, <1>N, <1>D DEF OwnedOK
  <2> QED
    BY <2>2, <2>3, <2>4
<1>6. ASSUME NEW t \in Threads, NEW o \in Objects, WaitBad(t, o) PROVE OwnedOK(x)'
  <2>1. UNCHANGED <<listed, pOwner>>
    BY <1>6 DEF WaitBad, objectVars, At, WaitOneMore
  <2>2. \A v \in Threads : Elsewhere(v)
    BY <1>6, <1>S DEF WaitBad, objectVars, At, WaitOneMore, Elsewhere
  <2> QED
    BY <2>1, <2>2, OwnedKept
<1>7. ASSUME NEW t \in Threads, NEW o \in Objects, WaitEnqueue(t, o) PROVE OwnedOK(x)'
  <2>1. UNCHANGED <<listed, pOwner>>
    BY <1>7 DEF WaitEnqueue, objectVars, At, WaitOneMore
  <2>2. \A v \in Threads : Elsewhere(v)
    BY <1>7, <1>S DEF WaitEnqueue, objectVars, At, WaitOneMore, Elsewhere
  <2> QED
    BY <2>1, <2>2, OwnedKept
<1>8. ASSUME NEW t \in Threads, Resume(t) PROVE OwnedOK(x)'
  BY <1>8, <1>S, <1>C, <1>N, <1>D DEF Resume, objectVars, callVars, At, OwnedOK
<1>9. ASSUME NEW t \in Threads, LaterLinkCritMut(t) PROVE OwnedOK(x)'
  BY <1>9, <1>S, <1>C, <1>N, <1>D DEF LaterLinkCritMut, callVars, At, OwnedOK
<1>10. ASSUME NEW t \in Threads, PostBoostMut(t) PROVE OwnedOK(x)'
  BY <1>10, <1>S, <1>C, <1>N, <1>D DEF PostBoostMut, callVars, At, NoPrioCalc, OwnedOK
<1>11. ASSUME NEW t \in Threads, WaitReturn(t) PROVE OwnedOK(x)'
  BY <1>11, <1>S, <1>C, <1>N, <1>D DEF WaitReturn, objectVars, At, ReturnPC, OwnedOK
<1>12. ASSUME NEW t \in Threads, EventModAuto(t) PROVE OwnedOK(x)'
  <2>1. UNCHANGED <<listed, pOwner>>
    BY <1>12 DEF EventModAuto, objectVars, At, ReturnPC, Return, SetState
  <2>2. \A v \in Threads : Elsewhere(v)
    BY <1>12, <1>S DEF EventModAuto, objectVars, At, ReturnPC, Return, SetState, Elsewhere
  <2> QED
    BY <2>1, <2>2, OwnedKept
<1>13. ASSUME NEW t \in Threads, EventModIntr(t) PROVE OwnedOK(x)'
  <2>1. UNCHANGED <<listed, pOwner>>
    BY <1>13 DEF EventModIntr, At, ReturnPC, Return, SetState
  <2>2. \A v \in Threads : Elsewhere(v)
    BY <1>13, <1>S DEF EventModIntr, At, ReturnPC, Return, SetState, Elsewhere
  <2> QED
    BY <2>1, <2>2, OwnedKept
<1>14. ASSUME NEW t \in Threads, EventModMan(t) PROVE OwnedOK(x)'
  <2>1. UNCHANGED <<listed, pOwner>>
    BY <1>14 DEF EventModMan, At, SetState
  <2>2. \A v \in Threads : Elsewhere(v)
    BY <1>14, <1>S DEF EventModMan, At, SetState, Elsewhere
  <2> QED
    BY <2>1, <2>2, OwnedKept
<1>15. ASSUME NEW t \in Threads, WakeOneThreadFlat(t) PROVE OwnedOK(x)'
  <2>1. UNCHANGED <<listed, pOwner>>
    BY <1>15 DEF WakeOneThreadFlat, objectVars, At, ReturnPC, Return
  <2>2. \A v \in Threads : Elsewhere(v)
    BY <1>15, <1>S DEF WakeOneThreadFlat, objectVars, At, ReturnPC, Return, Elsewhere
  <2> QED
    BY <2>1, <2>2, OwnedKept
<1>16. ASSUME NEW t \in Threads, SemPop(t) PROVE OwnedOK(x)'
  <2>1. UNCHANGED <<listed, pOwner>>
    BY <1>16 DEF SemPop, At, ReturnPC, Return
  <2>2. \A v \in Threads : Elsewhere(v)
    BY <1>16, <1>S DEF SemPop, At, ReturnPC, Return, Elsewhere
  <2> QED
    BY <2>1, <2>2, OwnedKept
<1>17. ASSUME NEW t \in Threads, LeaveMutex(t) PROVE OwnedOK(x)'
  <2>1. obj[t] \in Mutexes /\ (queue[obj[t]] # <<>> => Head(queue[obj[t]]) \in Threads)
    <3>1. obj[t] \in Mutexes /\ obj[t] \in Objects
      BY <1>17 DEF LeaveMutex, At, IInv, CallOK, Objects
    <3> QED
      BY <3>1, HeadWaits
  <2>2. pc[t] = "leave"
    BY <1>17 DEF LeaveMutex, At
  <2>0. pOwner[obj[t]] = t /\ listed[obj[t]] = None
    BY <2>1, <2>2, <1>C DEF OwnedOK
  <2>3. CASE queue[obj[t]] = <<>>
    <3>1. /\ pOwner' = [pOwner EXCEPT ![obj[t]] = None]
          /\ pc' = [pc EXCEPT ![t] = "postunlink"] /\ UNCHANGED <<listed, obj>>
      BY <1>17, <2>3 DEF LeaveMutex
    <3> QED
      BY <2>0, <2>1, <2>2, <3>1, <1>S, <1>C, <1>N, <1>D DEF OwnedOK
  <2>4. CASE queue[obj[t]] # <<>> /\ IsCurrent(Head(queue[obj[t]]))
    <3>0. pc[Head(queue[obj[t]])] \in WaitPCs
      BY <2>1, <2>4, HeadWaits DEF IsCurrent, Objects
    <3>1. PICK p \in Threads :
             /\ pc[p] # "gone"
             /\ pOwner' = [pOwner EXCEPT ![obj[t]] = p]
             /\ listed' = [listed EXCEPT ![obj[t]] = p]
             /\ pc' = [pc EXCEPT ![t] = "postunlink"] /\ UNCHANGED obj
      BY <1>17, <2>1, <2>4, <3>0 DEF LeaveMutex, WaitPCs
    <3> QED
      BY <2>0, <2>1, <2>2, <3>1, <1>S, <1>C, <1>N, <1>D DEF OwnedOK
  <2>5. CASE queue[obj[t]] # <<>> /\ ~IsCurrent(Head(queue[obj[t]]))
    BY <1>17, <2>1, <2>2, <2>5, <1>S, <1>C, <1>N, <1>D DEF LeaveMutex, OwnedOK
  <2> QED
    BY <2>3, <2>4, <2>5
<1>18. ASSUME NEW t \in Threads, PostUnlinkCritMut(t) PROVE OwnedOK(x)'
  BY <1>18, <1>S, <1>C, <1>N, <1>D DEF PostUnlinkCritMut, objectVars, At, ReturnPC, Return,
     OwnedOK
<1>19. ASSUME NEW t \in Threads, WakeExitWaiter(t) PROVE OwnedOK(x)'
  <2>1. UNCHANGED <<listed, pOwner>>
    BY <1>19 DEF WakeExitWaiter, objectVars, At
  <2>2. \A v \in Threads : Elsewhere(v)
    BY <1>19, <1>S DEF WakeExitWaiter, objectVars, At, Elsewhere
  <2> QED
    BY <2>1, <2>2, OwnedKept
<1>20. ASSUME NEW t \in Threads, Bury(t) PROVE OwnedOK(x)'
  BY <1>20, <1>S, <1>C, <1>N, <1>D DEF Bury, objectVars, callVars, At, OwnedOK
<1>21. ASSUME NEW t \in Threads, NEW w \in Waits[t], WaitConfig(t, w) PROVE OwnedOK(x)'
  BY <1>21, <1>S, <1>C, <1>N, <1>D DEF WaitConfig, objectVars, callVars, At, OwnedOK
<1>22. ASSUME NEW t \in Threads, NEW o \in Events, NEW action \in {"SET", "PULSE"},
              EventModify(t, o, action)
      PROVE  OwnedOK(x)'
  BY <1>22, <1>S, <1>C, <1>N, <1>D DEF EventModify, objectVars, At, Call, OwnedOK
<1>23. ASSUME NEW t \in Threads, NEW s \in Semaphores, NEW n \in 1..MaxCount, SemAdd(t, s, n)
      PROVE  OwnedOK(x)'
  BY <1>23, <1>S, <1>C, <1>N, <1>D DEF SemAdd, At, Call, OwnedOK
<1>24. ASSUME NEW t \in Threads, NEW m \in Mutexes, PreUnlinkMutex(t, m) PROVE OwnedOK(x)'
  BY <1>24, <1>S, <1>C, <1>N, <1>D DEF PreUnlinkMutex, At, OwnedOK
<1>25. ASSUME NEW t \in Threads, ExitThread(t) PROVE OwnedOK(x)'
  BY <1>25, <1>S, <1>C, <1>N, <1>D DEF ExitThread, objectVars, callVars, At, OwnedOK
<1>26. ASSUME NEW t \in Threads, KillRunnable(t) PROVE OwnedOK(x)'
  <2>1. UNCHANGED <<pc, obj, listed, pOwner>>
    BY <1>26, <1>S DEF KillRunnable, objectVars, callVars, At, InProgram
  <2> QED
    BY <2>1, <1>C DEF OwnedOK
<1>27. ASSUME NEW t \in Threads,
             \/ Wake(t) \/ DequeueProxy(t) \/ (\E o \in Events : EventReset(t, o))
             \/ (\E m \in Mutexes : ReleaseNested(t, m)) \/ KillBlocked(t) \/ KillLater(t)
             \/ MakeKilledRun(t) \/ TimerFires(t) \/ (\E boost \in BOOLEAN : Reprio(t, boost))
      PROVE  OwnedOK(x)'
  <2>1. UNCHANGED <<pOwner, listed, obj, pc>>
    BY <1>27 DEF Wake, objectVars, DequeueProxy, At, EventReset, callVars, ReleaseNested,
       KillBlocked, KillLater, MakeKilledRun, TimerFires, Reprio
  <2> QED
    BY <2>1, <1>C DEF OwnedOK
<1>28. ASSUME NEW i \in IntrEvents, Interrupt(i) PROVE OwnedOK(x)'
  <2>1. UNCHANGED <<pOwner, listed, obj, pc>>
    BY <1>28 DEF Interrupt, callVars
  <2> QED
    BY <2>1, <1>C DEF OwnedOK
<1> QED
  BY <1>1, <1>2, <1>3, <1>4, <1>5, <1>6, <1>7, <1>8, <1>9, <1>10, <1>11, <1>12, <1>13, <1>14,
     <1>15, <1>16, <1>17, <1>18, <1>19, <1>20, <1>21, <1>22, <1>23, <1>24, <1>25, <1>26,
     <1>27, <1>28 DEF Next, Continue, WaitStep, BeginCall

LEMMA MutexStep ==
    ASSUME IInv, PlainIntrWaits, Next, NEW m \in Mutexes
    PROVE  MutexOK(m)'
<1>1. OwnedOK(m)'
  BY OwnedStep
<1>2. \A t \in Threads : current'[t] /\ Queued(t, queue'[m]) => pOwner'[m] # None
  BY MutexQueueStep
<1> QED
  BY <1>1, <1>2 DEF OwnedOK, MutexOK

----------------------------------------------------------------------------
(* The invariant holds *)

LEMMA InitHolds == ASSUME Init PROVE IInv
<1>E. /\ Distinct(<<>>) /\ (\A x : ~Queued(x, <<>>))
      /\ <<>> \in Seq(Threads) /\ <<>> \in Seq(Objects)
  BY EmptyQueue DEF Distinct
<1>1. PendingExact
  <2> SUFFICES ASSUME NEW s \in Semaphores PROVE lPending[s] = Cardinality(Owed(s))
    BY DEF PendingExact
  <2>1. Owed(s) = {}
    BY DEF Init, Owed, All
  <2> QED
    BY <2>1, FS_EmptySet DEF Init
<1>2. TypeOK
  <2>1. MaxCount \in Nat /\ MaxLockCount \in Nat /\ 0..MaxCount \subseteq Nat
    BY WaitAssumption
  <2>2. /\ lCount \in [Semaphores -> 0..MaxCount] /\ lPending = [s \in Semaphores |-> 0]
        /\ remain \in [Threads -> 0..MaxCount]
        /\ LockCount \in [Mutexes -> 0..MaxLockCount]
    BY <2>1 DEF Init, All
  <2>3. /\ lCount \in [Semaphores -> Nat] /\ lPending \in [Semaphores -> Nat]
        /\ \A s \in Semaphores : lCount[s] + lPending[s] <= MaxCount
    BY <2>1, <2>2
  <2>4. /\ state \in [Events -> BOOLEAN]
        /\ pOwner \in [Mutexes -> ThreadOrNone] /\ listed \in [Mutexes -> ThreadOrNone]
        /\ queue \in [Objects -> Seq(Threads)] /\ \A o \in Objects : Distinct(queue[o])
    BY <1>E DEF Init, ThreadOrNone
  <2>5. /\ pc = [t \in Threads |-> "idle"] /\ obj = [t \in Threads |-> None]
        /\ type = [t \in Threads |-> "SET"] /\ stub = [t \in Threads |-> <<>>]
        /\ toWake = [t \in Threads |-> None] /\ waits = [t \in Threads |-> <<>>]
        /\ timeout = [t \in Threads |-> "zero"] /\ bWaitState = [t \in Threads |-> "signalled"]
        /\ current = [t \in Threads |-> FALSE]
    BY DEF Init, All
  <2>6. /\ lpPendProxy = [t \in Threads |-> <<>>] /\ lpProxy = [t \in Threads |-> <<>>]
        /\ base = [t \in Threads |-> <<>>] /\ dwPendReturn = [t \in Threads |-> None]
        /\ retval = [t \in Threads |-> None] /\ granted = [t \in Threads |-> None]
        /\ runstate = [t \in Threads |-> "runnable"] /\ sleeping = [t \in Threads |-> FALSE]
        /\ needsleep = [t \in Threads |-> FALSE] /\ life = [t \in Threads |-> "alive"]
        /\ killed = {}
    BY DEF Init, All
  <2>7. waits \in [Threads -> {w[1] : w \in UNION {Waits[t] : t \in Threads}} \cup {<<>>}]
    BY <2>5
  <2>8. /\ pc \in [Threads -> PCs]
        /\ obj \in [Threads -> Objects \cup {None}] /\ type \in [Threads -> {"SET", "PULSE"}]
        /\ stub \in [Threads -> Seq(Threads)] /\ toWake \in [Threads -> ThreadOrNone]
        /\ timeout \in [Threads -> {"zero", "finite", "infinite"}]
        /\ bWaitState \in [Threads -> {"signalled", "processing", "blocked"}]
        /\ current \in [Threads -> BOOLEAN]
    BY <1>E, <2>5 DEF PCs, ThreadOrNone
  <2>9. /\ lpPendProxy \in [Threads -> Seq(Objects)] /\ lpProxy \in [Threads -> Seq(Objects)]
        /\ base \in [Threads -> Seq(Objects)]
        /\ dwPendReturn \in [Threads -> Results] /\ retval \in [Threads -> Results]
        /\ granted \in [Threads -> Results]
    BY <1>E, <2>6 DEF Results
  <2>10. /\ runstate \in [Threads -> {"runnable", "needsrun", "blocked"}]
         /\ sleeping \in [Threads -> BOOLEAN] /\ needsleep \in [Threads -> BOOLEAN]
         /\ life \in [Threads -> {"alive", "dying", "dead", "gone"}] /\ killed \subseteq Threads
    BY <2>6
  <2> QED
    BY <2>2, <2>3, <2>4, <2>7, <2>8, <2>9, <2>10 DEF TypeOK, PCs
<1>3. ASSUME NEW t \in Threads
      PROVE  /\ LifeOK(t) /\ CallOK(t) /\ WaitOK(t) /\ ListsOK(t) /\ RunOK(t)
             /\ StateOK(t) /\ ThreadOK(t)
  <2>1. /\ pc[t] = "idle" /\ obj[t] = None /\ stub[t] = <<>> /\ life[t] = "alive"
        /\ waits[t] = <<>> /\ ~current[t] /\ lpProxy[t] = <<>> /\ base[t] = <<>>
        /\ runstate[t] = "runnable" /\ ~sleeping[t] /\ ~needsleep[t]
    BY DEF Init, All
  <2> QED
    BY <1>E, <2>1 DEF LifeOK, CallOK, WaitOK, ListsOK, RunOK, StateOK, ThreadOK, WaitPCs
<1>4. \A t \in Threads : ~current[t] /\ stub[t] = <<>> /\ pc[t] = "idle"
  BY DEF Init, All
<1>5. \A o \in Objects : queue[o] = <<>>
  BY DEF Init
<1>6. \A t \in Threads, o \in Objects : PlaceOK(t, o)
  BY <1>E, <1>4, <1>5 DEF PlaceOK, QueuedFor, Stubs
<1>7. /\ \A o \in Events : EventOK(o)
      /\ \A s \in Semaphores : SemaphoreOK(s)
      /\ \A o \in IntrEvents : IntrOK(o)
  BY <1>E, <1>4, <1>5 DEF EventOK, SemaphoreOK, IntrOK, Objects, Events
<1>8. \A m \in Mutexes : MutexOK(m)
  <2>1. \A m \in Mutexes : pOwner[m] = None /\ listed[m] = None
    BY DEF Init
  <2> QED
    BY <2>1, <1>4 DEF MutexOK
<1> QED
  BY <1>1, <1>2, <1>3, <1>6, <1>7, <1>8 DEF IInv, CountsSound

LEMMA StutterHolds == ASSUME IInv, UNCHANGED vars PROVE IInv'
<1>1. UNCHANGED <<objectVars, queue, pc, callVars, waitVars, runVars>>
  BY DEF vars
<1>2. CountsSound'
  <2>1. UNCHANGED <<lPending, pc, obj, remain>>
    BY <1>1 DEF objectVars, callVars
  <2>2. PendingExact'
    BY <2>1 DEF IInv, CountsSound, PendingExact, Owed
  <2>3. TypeOK'
    BY <1>1 DEF IInv, CountsSound, TypeOK, objectVars, callVars, waitVars, runVars
  <2> QED
    BY <2>2, <2>3 DEF CountsSound
<1>3. ASSUME NEW t \in Threads
      PROVE  LifeOK(t)' /\ CallOK(t)' /\ WaitOK(t)'
  BY <1>1 DEF IInv, LifeOK, CallOK, WaitOK, HasClean, IsIntr, WaitPCs,
     callVars, waitVars, runVars
<1>4. ASSUME NEW t \in Threads
      PROVE  ListsOK(t)' /\ RunOK(t)' /\ StateOK(t)' /\ ThreadOK(t)'
  <2>1. UNCHANGED <<pc, queue, waits, timeout, bWaitState, current, lpPendProxy, lpProxy,
                    dwPendReturn, retval, granted, runstate, sleeping, needsleep, life>>
    BY <1>1 DEF waitVars, runVars
  <2> QED
    BY <2>1 DEF IInv, ListsOK, RunOK, StateOK, ThreadOK, HasClean, IsIntr, WaitPCs
<1>5. ASSUME NEW t \in Threads, NEW o \in Objects PROVE PlaceOK(t, o)'
  <2>1. UNCHANGED <<queue, stub, obj, lpProxy, base, current>>
    BY <1>1 DEF callVars, waitVars
  <2> QED
    BY <2>1 DEF IInv, PlaceOK, QueuedFor, Stubs
<1>6. /\ \A o \in Events : EventOK(o)'
      /\ \A s \in Semaphores : SemaphoreOK(s)'
      /\ \A o \in IntrEvents : IntrOK(o)'
      /\ \A m \in Mutexes : MutexOK(m)'
  <2>1. UNCHANGED <<state, lCount, pOwner, listed, queue, pc, obj, current>>
    BY <1>1 DEF objectVars, callVars, waitVars
  <2>2. \A o \in Events : EventOK(o)'
    BY <2>1 DEF IInv, EventOK
  <2>3. \A s \in Semaphores : SemaphoreOK(s)'
    BY <2>1 DEF IInv, SemaphoreOK
  <2>4. \A o \in IntrEvents : IntrOK(o)'
    BY <2>1 DEF IInv, IntrOK
  <2>5. \A m \in Mutexes : MutexOK(m)'
    BY <2>1 DEF IInv, MutexOK
  <2> QED
    BY <2>2, <2>3, <2>4, <2>5
<1> QED
  BY <1>2, <1>3, <1>4, <1>5, <1>6 DEF IInv

LEMMA StepHolds == ASSUME IInv, PlainIntrWaits, Next PROVE IInv'
<1>1. CountsSound'
  BY CountsSoundStep
<1>2. ASSUME NEW t \in Threads
      PROVE  /\ LifeOK(t)' /\ CallOK(t)' /\ WaitOK(t)' /\ ListsOK(t)' /\ RunOK(t)'
             /\ StateOK(t)' /\ ThreadOK(t)'
  BY LifeStep, CallStep, WaitStepOK, ListsStep, RunStep, StateStep, ThreadStep
<1>3. \A t \in Threads, o \in Objects : PlaceOK(t, o)'
  BY PlaceStep
<1>4. /\ \A o \in Events : EventOK(o)'
      /\ \A s \in Semaphores : SemaphoreOK(s)'
      /\ \A o \in IntrEvents : IntrOK(o)'
      /\ \A m \in Mutexes : MutexOK(m)'
  BY EventStep, SemaphoreStep, IntrStep, MutexStep
<1> QED
  BY <1>1, <1>2, <1>3, <1>4 DEF IInv

\* The invariant holds in every behaviour, whatever the threads wait for, except that
\* waits for interrupt events are plain.
LEMMA Invariance == ASSUME PlainIntrWaits PROVE Spec => []IInv
<1>1. Init => IInv
  BY InitHolds
<1>2. IInv /\ [Next]_vars => IInv'
  BY StepHolds, StutterHolds
<1> QED
  BY <1>1, <1>2, PTL DEF Spec

----------------------------------------------------------------------------
(* What follows for the program *)

\* No count leaves its range whatever releases of a semaphore overlap, and lPending is
\* what those under way still have to give out (SEMRelease, SemPop).
THEOREM CountsAreSound == ASSUME PlainIntrWaits PROVE Spec => []CountsSound
<1>1. IInv => CountsSound
  BY DEF IInv
<1> QED
  BY <1>1, Invariance, PTL

\* Nobody waits for what is there, each object a blocked thread waits for can still wake
\* it, and none of them goes away with its queue (WaitOneMore, EventModify, SemPop,
\* LeaveMutex, FinalRemoveThread).
THEOREM NobodyWaitsInVain == ASSUME PlainIntrWaits PROVE Spec => []WaitersQueued
<1>1. IInv => NoLostWaiter
  <2> SUFFICES ASSUME IInv, NEW o \in Objects, NEW i \in DOMAIN queue[o], current[queue[o][i]]
               PROVE  CASE o \in Events     -> ~state[o]
                        [] o \in Semaphores -> lCount[o] = 0
                        [] o \in Mutexes    -> pOwner[o] # None
                        [] o \in Threads    -> life[o] \notin {"dead", "gone"} \/ pc[o] = "exit"
    BY DEF NoLostWaiter
  <2>1. queue[o] \in Seq(Threads)
    BY DEF IInv, CountsSound, TypeOK
  <2>2. queue[o][i] \in Threads /\ Queued(queue[o][i], queue[o]) /\ queue[o] # <<>>
    BY <2>1, EmptyQueue DEF Queued
  <2>3. o \in Events => ~state[o]
    BY <2>2 DEF IInv, EventOK
  <2>4. o \in Semaphores => lCount[o] = 0
    BY <2>2 DEF IInv, SemaphoreOK
  <2>5. o \in Mutexes => pOwner[o] # None
    BY <2>2 DEF IInv, MutexOK
  <2>6. o \in Threads => life[o] \notin {"dead", "gone"} \/ pc[o] = "exit"
    BY <2>2 DEF IInv, ThreadOK
  <2> QED
    BY <2>3, <2>4, <2>5, <2>6, Apart DEF Objects
<1>2. IInv => BlockedIsQueued
  <2> SUFFICES ASSUME IInv, NEW t \in Threads, bWaitState[t] = "blocked", current[t],
                      NEW i \in DOMAIN waits[t]
               PROVE  QueuedFor(t, waits[t][i])
    BY DEF BlockedIsQueued
  <2>1. lpPendProxy[t] = <<>> /\ pc[t] \in WaitPCs
    BY DEF IInv, StateOK, WaitOK
  <2>2. Queued(waits[t][i], waits[t]) /\ waits[t][i] \in Objects
    <3>1. waits[t] \in Seq(Objects)
      BY ShapesHold DEF IInv, CountsSound, Shapes
    <3> QED
      BY <3>1 DEF Queued
  <2>3. Queued(waits[t][i], lpProxy[t])
    BY <2>1, <2>2, EmptyQueue DEF IInv, ListsOK
  <2> QED
    BY <2>2, <2>3 DEF IInv, PlaceOK
<1>3. IInv => NobodyWaitsForGone
  <2> SUFFICES ASSUME IInv, NEW t \in Threads, life[t] = "gone" PROVE queue[t] = <<>>
    BY DEF NobodyWaitsForGone
  <2>1. pc[t] = "gone"
    BY DEF IInv, LifeOK
  <2> QED
    BY <2>1 DEF IInv, ThreadOK
<1> QED
  BY <1>1, <1>2, <1>3, Invariance, PTL DEF WaitersQueued

\* A wait returns what ended it and leaves no proxy, though waker, timeout and waiter
\* write the result in different places (DoWaitForObjects).
THEOREM WaitsEndCleanly == ASSUME PlainIntrWaits PROVE Spec => []EndsCleanly
<1>1. IInv => ReturnsGranted
  BY DEF IInv, StateOK, ReturnsGranted
<1>2. IInv => NoProxyLeft
  <2> SUFFICES ASSUME IInv, NEW t \in Threads, pc[t] \in {"idle", "gone"}, NEW o \in Objects
               PROVE  ~QueuedFor(t, o)
    BY DEF NoProxyLeft
  <2>1. lpProxy[t] = <<>> /\ base[t] = <<>>
    BY DEF IInv, WaitOK, WaitPCs
  <2> QED
    BY <2>1, EmptyQueue DEF IInv, PlaceOK
<1> QED
  BY <1>1, <1>2, Invariance, PTL DEF EndsCleanly

\* A thread that counts as blocked is not runnable, so that no waker makes it runnable
\* twice (NextThread, MakeRunIfNeeded).
THEOREM BlockedDoesNotRun == ASSUME PlainIntrWaits PROVE Spec => []BlockedNotRunnable
<1>1. IInv => BlockedNotRunnable
  BY DEF IInv, StateOK, BlockedNotRunnable
<1> QED
  BY <1>1, Invariance, PTL

\* A mutex is on the list of its owner, and of nobody else, when that runs in its
\* program; nobody who is gone owns one (LaterLinkCritMut, PostBoostMut, PreUnlinkMutex,
\* NKExitThread).
THEOREM MutexesAreSound == ASSUME PlainIntrWaits PROVE Spec => []MutexSound
<1>1. IInv => MutexListed
  <2> SUFFICES ASSUME IInv, NEW m \in Mutexes
               PROVE  /\ pOwner[m] # None /\ pc[pOwner[m]] = "idle" => listed[m] = pOwner[m]
                      /\ listed[m] # None => listed[m] = pOwner[m]
                      /\ \A t \in Threads : pc[t] = "leave" /\ obj[t] = m => listed[m] = None
    BY DEF MutexListed
  <2> QED
    BY DEF IInv, MutexOK
<1>2. IInv => NoMutexBuried
  <2> SUFFICES ASSUME IInv, NEW m \in Mutexes, pOwner[m] # None PROVE life[pOwner[m]] # "gone"
    BY DEF NoMutexBuried
  <2>1. pOwner[m] \in Threads
    BY DEF IInv, CountsSound, TypeOK, ThreadOrNone
  <2> QED
    BY <2>1 DEF IInv, MutexOK, LifeOK
<1>3. IInv => BoostFindsOwner
  <2> SUFFICES ASSUME IInv, NEW t \in Threads, pc[t] = "boost", bWaitState[t] = "processing"
               PROVE  pOwner[obj[t]] # None
    BY DEF BoostFindsOwner
  <2>1. current[t] /\ Queued(obj[t], lpProxy[t]) /\ obj[t] \in Mutexes
    BY DEF IInv, StateOK, CallOK
  <2>2. obj[t] \in Objects /\ obj[t] \notin ManualEvents
    BY <2>1, Apart DEF Objects, Events
  <2>3. Queued(t, queue[obj[t]])
    BY <2>1, <2>2 DEF IInv, PlaceOK, QueuedFor
  <2> QED
    BY <2>1, <2>3 DEF IInv, MutexOK
<1> QED
  BY <1>1, <1>2, <1>3, Invariance, PTL DEF MutexSound

\* A proxy in the queue of an interrupt event is that of the current wait of its thread,
\* and its only one (NextThread: DEBUGCHK(pth->lpProxy == pprox)).
THEOREM IntrProxyIsCurrent == ASSUME PlainIntrWaits PROVE Spec => []IntrProxyCurrent
<1>1. IInv => IntrProxyCurrent
  <2> SUFFICES ASSUME IInv, NEW o \in IntrEvents, NEW i \in DOMAIN queue[o]
               PROVE  current[queue[o][i]] /\ lpProxy[queue[o][i]] = <<o>>
    BY DEF IntrProxyCurrent
  <2>o. o \in Objects
    BY DEF Objects, Events
  <2>1. PICK t \in Threads : t = queue[o][i] /\ Queued(t, queue[o])
    BY <2>o DEF IInv, CountsSound, TypeOK, Queued
  <2>2. Queued(o, lpProxy[t]) /\ current[t]
    BY <2>o, <2>1, EmptyQueue DEF IInv, PlaceOK, QueuedFor, WaitOK
  <2>3. lpProxy[t] \in Seq(Objects) /\ Distinct(lpProxy[t]) /\ pc[t] \in WaitPCs
    BY <2>2 DEF IInv, CountsSound, TypeOK, ListsOK, WaitOK
  <2>4. \A d : Queued(d, lpProxy[t]) => d = o
    <3>1. \A d \in Objects : Queued(d, lpProxy[t]) => Queued(d, waits[t])
      BY <2>2 DEF IInv, ListsOK
    <3>2. \A d : Queued(d, lpProxy[t]) => d \in Objects
      BY <2>3 DEF Queued
    <3>3. ~HasClean(t)
      BY <2>o, <2>2, <2>3, <3>1, IntrAlone
    <3>4. \A d : Queued(d, waits[t]) => d = waits[t][1]
      BY <2>3, <3>3, IntrAlone
    <3> QED
      BY <2>o, <2>2, <3>1, <3>2, <3>4
  <2>5. lpProxy[t] = <<o>>
    <3>1. Len(lpProxy[t]) \in Nat /\ DOMAIN lpProxy[t] = 1..Len(lpProxy[t])
      BY <2>3, LenProperties
    <3>2. \A j \in 1..Len(lpProxy[t]) : lpProxy[t][j] = o
      BY <2>4, <3>1 DEF Queued
    <3>3. Len(lpProxy[t]) # 0
      BY <2>2, <3>1 DEF Queued
    <3>4. Len(lpProxy[t]) <= 1
      <4>1. SUFFICES ASSUME Len(lpProxy[t]) > 1 PROVE FALSE
        BY <3>1
      <4>2. 1 \in DOMAIN lpProxy[t] /\ 2 \in DOMAIN lpProxy[t]
        BY <3>1, <4>1
      <4>3. lpProxy[t][1] = lpProxy[t][2]
        BY <3>1, <3>2, <4>2
      <4> QED
        BY <2>3, <4>2, <4>3 DEF Distinct
    <3>n. PICK n \in Nat : n = Len(lpProxy[t])
      BY <3>1
    <3>7. n # 0 /\ n <= 1
      BY <3>n, <3>3, <3>4
    <3>8. n = 1
      BY <3>7
    <3>5. Len(lpProxy[t]) = 1
      BY <3>n, <3>8
    <3>6. lpProxy[t][1] = o
      BY <3>2, <3>5
    <3> QED
      BY <2>3, <3>5, <3>6
  <2> QED
    BY <2>1, <2>2, <2>5
<1> QED
  BY <1>1, Invariance, PTL

----------------------------------------------------------------------------
(* What else the service needs to know *)

\* A thread outside a wait has no result, and one that gives up a mutex while it lives
\* has it once.
OutcomeOK(t) == pc[t] \notin WaitPCs => granted[t] = None
LeaveOK(t) == pc[t] = "leave" => life[t] \in {"dead", "gone"} \/ LockCount[obj[t]] = 1
ServiceInv == \A t \in Threads : OutcomeOK(t) /\ LeaveOK(t)

KeepsLeaving(u) ==
    /\ pc'[u] = "leave" => pc[u] = "leave" /\ obj'[u] = obj[u]
    /\ life[u] \in {"dead", "gone"} => life'[u] \in {"dead", "gone"}
    /\ UNCHANGED LockCount

\* Most steps have nothing to do with giving up a mutex.
LEMMA OtherLeaves ==
    ASSUME IInv, Next, NEW u \in Threads
    PROVE  \/ KeepsLeaving(u)
           \/ \E t \in Threads :
                 \/ LeaveMutex(t)
                 \/ \E o \in Objects : WaitOk(t, o)
                 \/ \E m \in Mutexes : ReleaseNested(t, m) \/ PreUnlinkMutex(t, m)
<1> DEFINE Others == \E t \in Threads :
                 \/ LeaveMutex(t)
                 \/ \E o \in Objects : WaitOk(t, o)
                 \/ \E m \in Mutexes : ReleaseNested(t, m) \/ PreUnlinkMutex(t, m)
<1>S. /\ pc \in [Threads -> PCs] /\ obj \in [Threads -> Objects \cup {None}]
      /\ life \in [Threads -> {"alive", "dying", "dead", "gone"}]
  BY ShapesHold DEF IInv, CountsSound, Shapes
<1> HIDE DEF Others
<1>1. ASSUME NEW t \in Threads, WaitSignalled(t) PROVE KeepsLeaving(u)
  BY <1>1, <1>S DEF objectVars, WaitSignalled, At, WaitOneMore, KeepsLeaving
<1>2. ASSUME NEW t \in Threads, WaitTerminated(t) PROVE KeepsLeaving(u)
  BY <1>2, <1>S DEF objectVars, WaitTerminated, At, WaitOneMore, ExitFunc, KeepsLeaving
<1>3. ASSUME NEW t \in Threads, WaitBlock(t) PROVE KeepsLeaving(u)
  BY <1>3, <1>S DEF objectVars, WaitBlock, At, WaitOneMore, KeepsLeaving
<1>4. ASSUME NEW t \in Threads, WaitTimeout(t) PROVE KeepsLeaving(u)
  BY <1>4, <1>S DEF objectVars, WaitTimeout, At, WaitOneMore, ExitFunc, KeepsLeaving
<1>5. ASSUME NEW t \in Threads, NEW o \in Objects, WaitBad(t, o) PROVE KeepsLeaving(u)
  BY <1>5, <1>S DEF objectVars, WaitBad, At, WaitOneMore, ExitFunc, KeepsLeaving
<1>6. ASSUME NEW t \in Threads, NEW o \in Objects, WaitEnqueue(t, o) PROVE KeepsLeaving(u)
  BY <1>6, <1>S DEF objectVars, WaitEnqueue, At, WaitOneMore, KeepsLeaving
<1>7. ASSUME NEW t \in Threads, Resume(t) PROVE KeepsLeaving(u)
  BY <1>7, <1>S DEF objectVars, Resume, callVars, runVars, At, KeepsLeaving
<1>8. ASSUME NEW t \in Threads, LaterLinkCritMut(t) PROVE KeepsLeaving(u)
  BY <1>8, <1>S DEF LaterLinkCritMut, callVars, runVars, At, KeepsLeaving
<1>9. ASSUME NEW t \in Threads, PostBoostMut(t) PROVE KeepsLeaving(u)
  BY <1>9, <1>S DEF PostBoostMut, callVars, runVars, At, KeepsLeaving
<1>10. ASSUME NEW t \in Threads, WaitReturn(t) PROVE KeepsLeaving(u)
  BY <1>10, <1>S DEF objectVars, WaitReturn, At, ReturnPC, runVars, KeepsLeaving
<1>11. ASSUME NEW t \in Threads, EventModAuto(t) PROVE KeepsLeaving(u)
  BY <1>11, <1>S DEF objectVars, EventModAuto, At, Return, ReturnPC, runVars, SatisfyBy,
     Satisfy, SetState, KeepsLeaving
<1>12. ASSUME NEW t \in Threads, EventModIntr(t) PROVE KeepsLeaving(u)
  BY <1>12, <1>S DEF objectVars, EventModIntr, At, Return, ReturnPC, runVars, SatisfyBy,
     Satisfy, SetState, KeepsLeaving
<1>13. ASSUME NEW t \in Threads, EventModMan(t) PROVE KeepsLeaving(u)
  BY <1>13, <1>S DEF EventModMan, At, runVars, SetState, KeepsLeaving
<1>14. ASSUME NEW t \in Threads, WakeOneThreadFlat(t) PROVE KeepsLeaving(u)
  BY <1>14, <1>S DEF objectVars, WakeOneThreadFlat, At, Return, ReturnPC, runVars, SatisfyBy,
     Satisfy, KeepsLeaving
<1>15. ASSUME NEW t \in Threads, SemPop(t) PROVE KeepsLeaving(u)
  BY <1>15, <1>S DEF objectVars, SemPop, At, Return, ReturnPC, runVars, SatisfyBy, Satisfy,
     AddToCount, KeepsLeaving
<1>16. ASSUME NEW t \in Threads, PostUnlinkCritMut(t) PROVE KeepsLeaving(u)
  BY <1>16, <1>S DEF objectVars, PostUnlinkCritMut, At, Return, ReturnPC, runVars, KeepsLeaving
<1>17. ASSUME NEW t \in Threads, WakeExitWaiter(t) PROVE KeepsLeaving(u)
  BY <1>17, <1>S DEF objectVars, WakeExitWaiter, At, runVars, SatisfyBy, Satisfy, KeepsLeaving
<1>18. ASSUME NEW t \in Threads, Bury(t) PROVE KeepsLeaving(u)
  BY <1>18, <1>S DEF objectVars, Bury, callVars, At, KeepsLeaving
<1>19. ASSUME NEW t \in Threads, NEW w \in Waits[t], WaitConfig(t, w) PROVE KeepsLeaving(u)
  BY <1>19, <1>S DEF objectVars, WaitConfig, callVars, runVars, At, KeepsLeaving
<1>20. ASSUME NEW t \in Threads, NEW o \in Events, NEW action \in {"SET", "PULSE"},
              EventModify(t, o, action)
      PROVE  KeepsLeaving(u)
  BY <1>20, <1>S DEF objectVars, EventModify, Call, At, runVars, KeepsLeaving
<1>21. ASSUME NEW t \in Threads, NEW s \in Semaphores, NEW n \in 1..MaxCount, SemAdd(t, s, n)
      PROVE  KeepsLeaving(u)
  BY <1>21, <1>S DEF objectVars, SemAdd, Call, At, runVars, KeepsLeaving
<1>22. ASSUME NEW t \in Threads, ExitThread(t) PROVE KeepsLeaving(u)
  BY <1>22, <1>S DEF objectVars, ExitThread, callVars, At, KeepsLeaving
<1>23. ASSUME NEW t \in Threads, KillRunnable(t) PROVE KeepsLeaving(u)
  BY <1>23, <1>S DEF objectVars, KillRunnable, callVars, At, InProgram, KeepsLeaving
<1>24. ASSUME NEW t \in Threads,
             \/ Wake(t) \/ DequeueProxy(t) \/ (\E o \in Events : EventReset(t, o))
             \/ KillBlocked(t) \/ KillLater(t)
             \/ MakeKilledRun(t) \/ TimerFires(t) \/ (\E boost \in BOOLEAN : Reprio(t, boost))
      PROVE  KeepsLeaving(u)
  <2>1. UNCHANGED <<pc, obj, LockCount>>
    BY <1>24 DEF Wake, DequeueProxy, At, EventReset, callVars, objectVars, KillBlocked,
       KillLater, MakeKilledRun, TimerFires, Reprio
  <2>2. life[u] \in {"dead", "gone"} => life'[u] \in {"dead", "gone"}
    BY <1>24, <1>S DEF Wake, DequeueProxy, EventReset, KillBlocked,
       KillLater, MakeKilledRun, TimerFires, Reprio, runVars
  <2> QED
    BY <2>1, <2>2, <1>S DEF KeepsLeaving
<1>25. ASSUME NEW i \in IntrEvents, Interrupt(i) PROVE KeepsLeaving(u)
  BY <1>25, <1>S DEF Interrupt, callVars, KeepsLeaving
<1>26. ASSUME NEW t \in Threads,
             \/ LeaveMutex(t)
             \/ \E o \in Objects : WaitOk(t, o)
             \/ \E m \in Mutexes : ReleaseNested(t, m) \/ PreUnlinkMutex(t, m)
      PROVE  Others
  BY <1>26 DEF Others
<1>q. KeepsLeaving(u) \/ Others
  BY <1>1, <1>2, <1>3, <1>4, <1>5, <1>6, <1>7, <1>8, <1>9, <1>10, <1>11, <1>12, <1>13, <1>14,
     <1>15,
     <1>16, <1>17, <1>18, <1>19, <1>20, <1>21, <1>22, <1>23, <1>24, <1>25, <1>26
     DEF Next, Continue, WaitStep, BeginCall
<1> QED
  BY <1>q DEF Others

\* Nobody else changes how often a mutex is held that its owner is giving up.
LEMMA LeaveStep ==
    ASSUME IInv, IInv', ServiceInv, Next, NEW u \in Threads
    PROVE  LeaveOK(u)'
<1>S. /\ pc \in [Threads -> PCs] /\ obj \in [Threads -> Objects \cup {None}]
      /\ LockCount \in [Mutexes -> Nat]
  BY ShapesHold DEF IInv, CountsSound, Shapes
<1>U. LeaveOK(u) /\ LifeOK(u) /\ CallOK(u)
  BY DEF ServiceInv, IInv
<1>1. CASE KeepsLeaving(u)
  BY <1>1, <1>U DEF KeepsLeaving, LeaveOK
<1>2. ASSUME NEW t \in Threads, NEW m \in Mutexes, pOwner[m] \in {None, t}, t # u,
             LockCount' = [LockCount EXCEPT ![m] = LockCount'[m]],
             pc[u] = "leave", UNCHANGED <<pc[u], obj[u], life>>
      PROVE  LeaveOK(u)'
  <2>1. obj[u] \in Mutexes /\ MutexOK(obj[u])
    BY <1>2, <1>U DEF CallOK, IInv
  <2>2. pOwner[obj[u]] = u /\ u # None
    BY <1>2, <2>1, WaitAssumption DEF MutexOK, Objects
  <2>3. LockCount'[obj[u]] = LockCount[obj[u]]
    BY <1>2, <1>S, <2>1, <2>2
  <2> QED
    BY <1>2, <1>U, <2>3 DEF LeaveOK
<1>3. ASSUME NEW t \in Threads, LeaveMutex(t)
      PROVE  LeaveOK(u)'
  <2> DEFINE m == obj[t]
  <2>1. /\ m \in Mutexes /\ MutexOK(m) /\ pc[t] = "leave" /\ UNCHANGED <<obj, life>>
    BY <1>3 DEF LeaveMutex, At, IInv, CallOK, SatisfyBy, runVars
  <2>2. pOwner[m] = t
    BY <2>1 DEF MutexOK
  <2>3. LockCount' = [LockCount EXCEPT ![m] = LockCount'[m]] /\ pc' = [pc EXCEPT ![t] = pc'[t]]
    BY <1>3, <1>S, <2>1 DEF LeaveMutex
  <2>4. CASE t = u
    <3>1. pc'[u] = "leave" => UNCHANGED LockCount
      BY <1>3, <1>S, <2>4 DEF LeaveMutex
    <3> QED
      BY <1>U, <2>1, <2>4, <3>1 DEF LeaveOK
  <2>5. CASE t # u
    <3>1. CASE pc[u] = "leave"
      BY <1>2, <1>S, <2>1, <2>2, <2>3, <2>5, <3>1
    <3>2. CASE pc[u] # "leave"
      BY <1>S, <2>3, <2>5, <3>2 DEF LeaveOK
    <3> QED
      BY <3>1, <3>2
  <2> QED
    BY <2>4, <2>5
<1>4. ASSUME NEW t \in Threads, NEW o \in Objects, WaitOk(t, o)
      PROVE  LeaveOK(u)'
  <2>1. /\ pc[t] = "wait" /\ UNCHANGED life /\ pc' = [pc EXCEPT ![t] = pc'[t]]
        /\ pc'[t] # "leave" /\ obj' = [obj EXCEPT ![t] = o]
    BY <1>4, <1>S DEF WaitOk, WaitOneMore, At
  <2>2. CASE pc[u] # "leave"
    BY <1>S, <2>1, <2>2 DEF LeaveOK
  <2>3. CASE pc[u] = "leave" /\ o \notin Mutexes
    BY <1>4, <1>S, <1>U, <2>1, <2>3 DEF WaitOk, Consume, LeaveOK
  <2>4. CASE pc[u] = "leave" /\ o \in Mutexes
    <3>1. pOwner[o] \in {None, t}
      BY <1>4, <2>4, Apart DEF WaitOk, Signalled, Events
    <3>2. LockCount' = [LockCount EXCEPT ![o] = LockCount'[o]]
      BY <1>4, <1>S, <2>4 DEF WaitOk, Consume
    <3> QED
      BY <1>2, <1>S, <2>1, <2>4, <3>1, <3>2
  <2> QED
    BY <2>2, <2>3, <2>4
<1>5. ASSUME NEW t \in Threads, NEW m \in Mutexes, ReleaseNested(t, m)
      PROVE  LeaveOK(u)'
  <2>1. /\ pc[t] = "idle" /\ UNCHANGED <<life, pc, obj>> /\ pOwner[m] = t
        /\ LockCount' = [LockCount EXCEPT ![m] = LockCount'[m]]
    BY <1>5, <1>S DEF ReleaseNested, At, callVars, runVars
  <2> QED
    BY <1>2, <1>S, <2>1 DEF LeaveOK
<1>6. ASSUME NEW t \in Threads, NEW m \in Mutexes, PreUnlinkMutex(t, m)
      PROVE  LeaveOK(u)'
  <2>1. /\ UNCHANGED <<life, LockCount>> /\ pc' = [pc EXCEPT ![t] = "leave"]
        /\ obj' = [obj EXCEPT ![t] = m]
        /\ pc[t] = "release" \/ LockCount[m] = 1
    BY <1>6 DEF PreUnlinkMutex, At, runVars
  <2>2. CASE t = u
    BY <1>S, <1>U, <2>1, <2>2 DEF LeaveOK, LifeOK
  <2>3. CASE t # u
    BY <1>S, <1>U, <2>1, <2>3 DEF LeaveOK
  <2> QED
    BY <2>2, <2>3
<1> QED
  BY <1>1, <1>3, <1>4, <1>5, <1>6, OtherLeaves

\* Who ends its wait is still in the call.
LEMMA EndsInside ==
    ASSUME IInv, NEW t \in Threads, Ends(t), NEW v \in Threads
    PROVE  pc'[v] = pc[v] \/ pc'[v] \in WaitPCs
<1>S. pc \in [Threads -> PCs]
  BY ShapesHold DEF IInv, CountsSound, Shapes
<1>1. ASSUME NEW o \in Objects, WaitOk(t, o) \/ WaitBad(t, o)
      PROVE  pc'[v] = pc[v] \/ pc'[v] \in WaitPCs
  BY <1>1, <1>S DEF WaitOk, WaitBad, WaitPCs
<1>2. CASE WaitTerminated(t) \/ WaitTimeout(t)
  BY <1>2, <1>S DEF WaitTerminated, WaitTimeout, WaitPCs
<1>3. CASE KillBlocked(t) \/ TimerFires(t)
  BY <1>3 DEF KillBlocked, TimerFires
<1> QED
  BY <1>1, <1>2, <1>3 DEF Ends

\* The result of a wait is forgotten when the call returns, and not before.
LEMMA KeepsOutcome ==
    ASSUME IInv, NEW t \in Threads, Keeps(t), NEW v \in Threads
    PROVE  /\ granted'[v] \in {granted[v], None}
           /\ pc'[v] \notin WaitPCs => pc[v] \notin WaitPCs \/ granted'[v] = None
<1>S. pc \in [Threads -> PCs] /\ granted \in [Threads -> Results]
  BY ShapesHold DEF IInv, CountsSound, Shapes
<1> DEFINE Goal == /\ granted'[v] \in {granted[v], None}
                   /\ pc'[v] \notin WaitPCs => pc[v] \notin WaitPCs \/ granted'[v] = None
<1>1. CASE WaitReturn(t)
  BY <1>1, <1>S DEF WaitReturn, At
<1>2. CASE \/ Wake(t) \/ KillLater(t) \/ MakeKilledRun(t)
           \/ (TimerFires(t) /\ runstate[t] # "blocked") \/ \E boost \in BOOLEAN : Reprio(t, boost)
  <2>1. UNCHANGED <<pc, granted>>
    BY <1>2 DEF Wake, KillLater, MakeKilledRun, TimerFires, Reprio, waitVars
  <2> QED
    BY <2>1
<1>3. CASE WaitSignalled(t) \/ WaitBlock(t) \/ Resume(t) \/ LaterLinkCritMut(t) \/ PostBoostMut(t)
  <2>1. UNCHANGED granted
    BY <1>3 DEF WaitSignalled, WaitBlock, Resume, LaterLinkCritMut, PostBoostMut, waitVars
  <2>2. pc'[v] = pc[v] \/ pc'[v] \in WaitPCs
    BY <1>3, <1>S DEF WaitSignalled, WaitBlock, Resume, LaterLinkCritMut, PostBoostMut, WaitPCs
  <2> QED
    BY <2>1, <2>2
<1>4. CASE PostUnlinkCritMut(t) \/ Bury(t) \/ BeginCall(t) \/ KillRunnable(t)
  <2>1. UNCHANGED granted
    BY <1>4 DEF PostUnlinkCritMut, Bury, KillRunnable, waitVars, BeginCall, WaitConfig,
       EventReset, EventModify, SemAdd, ReleaseNested, PreUnlinkMutex, ExitThread
  <2>2. pc[t] \notin WaitPCs
    BY <1>4 DEF PostUnlinkCritMut, Bury, KillRunnable, BeginCall, WaitConfig, WaitPCs, Call,
       EventReset, EventModify, SemAdd, ReleaseNested, PreUnlinkMutex, ExitThread, At, InProgram
  <2>3. v # t => pc'[v] = pc[v]
    <3>1. CASE BeginCall(t)
      BY <3>1, <1>S DEF BeginCall, WaitConfig, Call,
         EventReset, EventModify, SemAdd, ReleaseNested, PreUnlinkMutex, ExitThread
    <3>2. CASE PostUnlinkCritMut(t) \/ Bury(t) \/ KillRunnable(t)
      BY <3>2, <1>S DEF PostUnlinkCritMut, Bury, KillRunnable, Return
    <3> QED
      BY <1>4, <3>1, <3>2
  <2> QED
    BY <2>1, <2>2, <2>3
<1> QED
  BY <1>1, <1>2, <1>3, <1>4 DEF Keeps

\* A wait has its result before its call returns, and none afterwards.
LEMMA OutcomeStep ==
    ASSUME IInv, PlainIntrWaits, ServiceInv, Next, NEW v \in Threads
    PROVE  OutcomeOK(v)'
<1>S. pc \in [Threads -> PCs] /\ granted \in [Threads -> Results]
  BY ShapesHold DEF IInv, CountsSound, Shapes
<1>U. OutcomeOK(v)
  BY DEF ServiceInv
<1>1. ASSUME NEW t \in Threads, Ends(t) PROVE OutcomeOK(v)'
  <2>1. pc[t] \in WaitPCs /\ CloseWait(t, granted'[t])
    BY <1>1, EndsEffect
  <2>2. v # t => granted'[v] = granted[v]
    BY <1>S, <2>1 DEF CloseWait
  <2>3. /\ pc'[v] = pc[v] \/ pc'[v] \in WaitPCs
        /\ pc'[t] = pc[t] \/ pc'[t] \in WaitPCs
    BY <1>1, EndsInside
  <2> QED
    BY <1>U, <2>1, <2>2, <2>3 DEF OutcomeOK
<1>2. ASSUME NEW t \in Threads, Keeps(t) PROVE OutcomeOK(v)'
  BY <1>2, <1>U, KeepsOutcome DEF OutcomeOK
<1>3. ASSUME NEW t \in Threads, Release(t) PROVE OutcomeOK(v)'
  <2>1. /\ pc'[v] = pc[v] \/ (pc[v] \notin WaitPCs /\ pc'[v] \notin WaitPCs)
        /\ \/ UNCHANGED granted
           \/ \E p \in Threads, o \in Objects : Serves(t, p, o)
    BY <1>3, ReleaseEffect DEF waitVars
  <2>2. granted'[v] = granted[v] \/ pc[v] \in WaitPCs
    BY <1>S, <2>1 DEF Serves, Satisfy, CloseWait
  <2> QED
    BY <1>U, <2>1, <2>2 DEF OutcomeOK
<1>4. ASSUME NEW t \in Threads,
             DequeueProxy(t) \/ EventModMan(t) \/ (\E o \in Objects : WaitEnqueue(t, o))
      PROVE  OutcomeOK(v)'
  <2>1. UNCHANGED granted
    BY <1>4 DEF DequeueProxy, EventModMan, WaitEnqueue, waitVars
  <2>2. pc'[v] = pc[v] \/ pc'[v] \in WaitPCs \/ pc[v] \notin WaitPCs
    BY <1>4, <1>S DEF DequeueProxy, EventModMan, WaitEnqueue, WaitPCs, At
  <2> QED
    BY <1>U, <2>1, <2>2 DEF OutcomeOK
<1>5. ASSUME NEW i \in IntrEvents, Interrupt(i) PROVE OutcomeOK(v)'
  <2>1. UNCHANGED pc
    BY <1>5 DEF Interrupt
  <2>2. UNCHANGED granted \/ (\E p \in Threads : Interrupts(i, p))
    BY <1>5, InterruptEffect DEF waitVars
  <2>3. granted'[v] = granted[v] \/ pc[v] \in WaitPCs
    BY <1>S, <2>2 DEF Interrupts, CloseWait
  <2> QED
    BY <1>U, <2>1, <2>3 DEF OutcomeOK
<1> QED
  BY <1>1, <1>2, <1>3, <1>4, <1>5, StepKinds

\* Both hold in every behaviour.
LEMMA ServiceInvariance == ASSUME PlainIntrWaits PROVE Spec => [](IInv /\ ServiceInv)
<1>1. Init => IInv /\ ServiceInv
  BY InitHolds DEF Init, All, ServiceInv, OutcomeOK, LeaveOK
<1>2. IInv /\ ServiceInv /\ [Next]_vars => (IInv /\ ServiceInv)'
  <2>1. ASSUME IInv, ServiceInv, Next PROVE IInv' /\ ServiceInv'
    BY <2>1, StepHolds, LeaveStep, OutcomeStep DEF ServiceInv
  <2>2. ASSUME IInv, ServiceInv, UNCHANGED vars PROVE IInv' /\ ServiceInv'
    <3>1. UNCHANGED <<pc, life, LockCount, obj, granted>>
      BY <2>2 DEF vars, objectVars, callVars, waitVars, runVars
    <3> QED
      BY <2>2, <3>1, StutterHolds DEF ServiceInv, OutcomeOK, LeaveOK
  <2> QED
    BY <2>1, <2>2
<1> QED
  BY <1>1, <1>2, PTL DEF Spec

----------------------------------------------------------------------------
(* The service sees most steps as nothing *)

\* Who is in the stubs is the same if only calls without a stub begin or end.
LEMMA StubsSame ==
    ASSUME UNCHANGED stub, \A v \in Threads : obj'[v] = obj[v] \/ stub[v] = <<>>,
           NEW u, NEW d
    PROVE  Stubs(u, d)' = Stubs(u, d)
BY EmptyQueue DEF Stubs

SameStubs == \A u \in Threads, d \in ManualEvents : (Stubs(u, d)' = {}) <=> (Stubs(u, d) = {})

\* The objects of the service are the same if nothing they are made of changes.
LEMMA ObjectsSame ==
    ASSUME UNCHANGED <<state, lCount, lPending, pOwner, LockCount>>,
           \A v \in Threads : life'[v] \in {"dead", "gone"} <=> life[v] \in {"dead", "gone"}
    PROVE  UNCHANGED Service!objects
BY DEF Service!objects, Count, Depth, Exited

\* So is what the threads wait for ...
LEMMA WaitingSame ==
    ASSUME UNCHANGED current, \A v \in Threads : current[v] => waits'[v] = waits[v]
    PROVE  UNCHANGED Waiting
BY DEF Waiting

\* ... and who is released from a manual event ...
LEMMA ReleasedSame ==
    ASSUME UNCHANGED current, SameStubs
    PROVE  UNCHANGED Released
BY DEF Released, SameStubs

\* ... and all of it.
LEMMA NothingSeen ==
    ASSUME UNCHANGED Service!objects, UNCHANGED <<current, waits, granted>>, SameStubs
    PROVE  UNCHANGED Service!serviceVars
BY WaitingSame, ReleasedSame DEF Service!serviceVars, Service!objects

\* The end of a wait is the decision of the service.
LEMMA Decides ==
    ASSUME IInv, NEW p \in Threads, NEW r, current[p], CloseWait(p, r), UNCHANGED waits,
           \A u \in Threads \ {p}, d \in ManualEvents :
              (Stubs(u, d)' = {}) <=> (Stubs(u, d) = {})
    PROVE  Service!Decide(p, r)
<1>S. current \in [Threads -> BOOLEAN] /\ waits \in [Threads -> Seq(Objects)]
  BY ShapesHold DEF IInv, CountsSound, Shapes
<1>1. pc[p] \in WaitPCs
  BY DEF IInv, WaitOK
<1>2. 1 \in DOMAIN waits[p]
  <2>1. waits[p] # <<>> /\ waits[p] \in Seq(Objects)
    BY <1>1, IntrAlone
  <2> QED
    BY <2>1, EmptySeq
<1>3. current' = [current EXCEPT ![p] = FALSE] /\ granted' = [granted EXCEPT ![p] = r]
  BY DEF CloseWait
<1>4. Waiting[p] # {}
  BY <1>2 DEF Waiting
<1>5. Waiting' = [Waiting EXCEPT ![p] = {}]
  BY <1>S, <1>3 DEF Waiting
<1>6. Released' = {r2 \in Released : r2[1] # p}
  BY <1>S, <1>3 DEF Released
<1> QED
  BY <1>3, <1>4, <1>5, <1>6 DEF Service!Decide

\* What a thread waits for, to the service.
LEMMA WaitsFor ==
    ASSUME IInv, NEW p \in Threads, NEW o \in Objects, current[p], Queued(o, waits[p])
    PROVE  o \in Waiting[p]
BY DEF Waiting, Queued

\* A result by itself.
LEMMA GivesUp ==
    ASSUME IInv, NEW p \in Threads, NEW r \in {"timeout", "failed", "killed"},
           current[p], CloseWait(p, r), UNCHANGED waits, UNCHANGED Service!objects, SameStubs
    PROVE  Service!ServiceNext
<1>1. Service!Decide(p, r)
  BY Decides DEF SameStubs
<1>2. Service!GiveUp(p)
  BY <1>1 DEF Service!GiveUp
<1> QED
  BY <1>2 DEF Service!ServiceNext

----------------------------------------------------------------------------
(* The steps of a wait *)

\* A wait that ends with an object.
LEMMA WaitOkSeen ==
    ASSUME IInv, PlainIntrWaits, NEW t \in Threads, NEW o \in Objects, WaitOk(t, o)
    PROVE  Service!ServiceNext
<1>S. /\ state \in [Events -> BOOLEAN] /\ lCount \in [Semaphores -> Nat]
      /\ lPending \in [Semaphores -> Nat]
      /\ pOwner \in [Mutexes -> ThreadOrNone] /\ LockCount \in [Mutexes -> Nat]
      /\ granted \in [Threads -> Results]
  BY ShapesHold DEF IInv, CountsSound, Shapes
<1>0. Ends(t)
  BY DEF Ends
<1>1. /\ pc[t] = "wait" /\ Considers(t, o) /\ Signalled(t, o) /\ Consume(t, o)
      /\ CloseWait(t, o) /\ UNCHANGED <<waits, life, lPending>>
  BY DEF WaitOk, WaitOneMore, At, ExitFunc, Consume
<1>2. current[t] /\ Queued(o, waits[t])
  BY <1>1, LooksAt
<1>3. UNCHANGED stub /\ \A v \in Threads : obj'[v] = obj[v] \/ stub[v] = <<>>
  BY <1>0, EndsEffect
<1>4. Service!Decide(t, o)
  BY <1>1, <1>2, <1>3, StubsSame, Decides
<1>5. o \in Waiting[t]
  BY <1>2, WaitsFor
<1>6. UNCHANGED Exited
  BY <1>1 DEF Exited
<1>7. UNCHANGED <<lCount, lPending>> => UNCHANGED Count
  BY DEF Count
<1>8. UNCHANGED <<pOwner, LockCount>> => UNCHANGED Depth
  BY DEF Depth
<1>9. CASE o \in AutoEvents \cup IntrEvents
  <2>1. /\ o \in Events /\ o \notin ManualEvents /\ o \notin Semaphores /\ o \notin Mutexes
        /\ o \notin Threads
    BY <1>9, Apart DEF Events
  <2>2. state[o] /\ state' = [state EXCEPT ![o] = FALSE]
    <3>1. state[o]
      BY <1>1, <2>1 DEF Signalled
    <3>2. (o \in ManualEvents) = FALSE
      BY <2>1
    <3>3. state' = [state EXCEPT ![o] = o \in ManualEvents]
      BY <1>1, <2>1 DEF Consume
    <3> QED
      BY <3>1, <3>2, <3>3
  <2>3. UNCHANGED <<lCount, pOwner, LockCount>>
    BY <1>1, <2>1 DEF Consume
  <2>4. Service!TakeAuto(t, o)
    BY <1>4, <1>5, <1>6, <1>7, <1>8, <1>1, <2>2, <2>3 DEF Service!TakeAuto
  <2> QED
    BY <1>9, <2>4 DEF Service!ServiceNext
<1>10. CASE o \in ManualEvents
  <2>1. o \in Events /\ o \notin Semaphores /\ o \notin Mutexes /\ o \notin Threads
    BY <1>10, Apart DEF Events
  <2>2. state[o] /\ UNCHANGED state
    BY <1>1, <1>S, <1>10, <2>1 DEF Signalled, Consume
  <2>3. UNCHANGED <<lCount, pOwner, LockCount>>
    BY <1>1, <2>1 DEF Consume
  <2>4. Service!SeeManual(t, o)
    BY <1>4, <1>5, <1>6, <1>7, <1>8, <1>1, <2>2, <2>3
       DEF Service!SeeManual, Service!objects
  <2> QED
    BY <1>10, <2>4 DEF Service!ServiceNext
<1>11. CASE o \in Semaphores
  <2>1. o \notin Events /\ o \notin Mutexes /\ o \notin Threads
    BY <1>11, Apart DEF Events
  <2>2. lCount[o] > 0 /\ lCount' = [lCount EXCEPT ![o] = @ - 1]
    BY <1>1, <1>11, <2>1 DEF Signalled, Consume
  <2>3. UNCHANGED <<state, pOwner, LockCount>>
    BY <1>1, <2>1 DEF Consume
  <2>4. Count[o] > 0 /\ Count' = [Count EXCEPT ![o] = @ - 1]
    <3>1. \A x \in Semaphores :
             (lCount[x] + lPending[x])' = IF x = o THEN (lCount[x] + lPending[x]) - 1
                                          ELSE lCount[x] + lPending[x]
      BY <1>1, <1>S, <1>11, <2>2
    <3>2. Count[o] > 0
      BY <1>S, <1>11, <2>2 DEF Count
    <3> QED
      BY <3>1, <3>2 DEF Count
  <2>5. Service!Acquire(t, o)
    BY <1>4, <1>5, <1>6, <1>8, <2>3, <2>4 DEF Service!Acquire
  <2> QED
    BY <1>11, <2>5 DEF Service!ServiceNext
<1>12. CASE o \in Mutexes
  <2>1. o \notin Events /\ o \notin Semaphores /\ o \notin Threads
    BY <1>12, Apart DEF Events
  <2>2. pOwner[o] \in {None, t} /\ pOwner' = [pOwner EXCEPT ![o] = t]
    BY <1>1, <1>12, <2>1 DEF Signalled, Consume
  <2>3. LockCount' = [LockCount EXCEPT ![o] = IF pOwner[o] = None THEN 1 ELSE @ + 1]
    BY <1>1, <1>12 DEF Consume
  <2>4. UNCHANGED <<state, lCount>>
    BY <1>1, <2>1 DEF Consume
  <2>5. Depth' = [Depth EXCEPT ![o] = @ + 1]
    <3>1. t # None
      BY WaitAssumption DEF Objects
    <3> QED
      <4>1. \A x \in Mutexes :
               (IF pOwner'[x] = None THEN 0 ELSE LockCount'[x])
               = IF x = o THEN (IF pOwner[x] = None THEN 0 ELSE LockCount[x]) + 1
                 ELSE IF pOwner[x] = None THEN 0 ELSE LockCount[x]
        BY <1>S, <1>12, <2>2, <2>3, <3>1
      <4> QED
        BY <4>1 DEF Depth
  <2>6. Service!Own(t, o)
    BY <1>4, <1>5, <1>6, <1>7, <1>1, <2>2, <2>4, <2>5 DEF Service!Own
  <2> QED
    BY <1>12, <2>6 DEF Service!ServiceNext
<1>13. CASE o \in Threads
  <2>1. /\ o \notin Events /\ o \notin Semaphores /\ o \notin Mutexes
    BY <1>13, Apart DEF Events
  <2>2. o \in Exited
    <3>1. life[o] \in {"dead", "gone"}
      BY <1>1, <1>13, <2>1 DEF Signalled
    <3> QED
      BY <1>13, <3>1 DEF Exited
  <2>3. UNCHANGED <<state, lCount, pOwner, LockCount>>
    BY <1>1, <2>1 DEF Consume
  <2>4. Service!SeeExit(t, o)
    BY <1>4, <1>5, <1>6, <1>7, <1>8, <1>1, <2>2, <2>3 DEF Service!SeeExit, Service!objects
  <2> QED
    BY <1>13, <2>4 DEF Service!ServiceNext
<1> QED
  BY <1>9, <1>10, <1>11, <1>12, <1>13 DEF Objects, Events

\* A wait that ends without one.
LEMMA EndsSeen ==
    ASSUME IInv, PlainIntrWaits, NEW t \in Threads, Ends(t)
    PROVE  Service!ServiceNext
<1>1. /\ current[t] /\ CloseWait(t, granted'[t]) /\ UNCHANGED <<queue, stub>>
      /\ \A v \in Threads : v # t => obj'[v] = obj[v]
      /\ stub[t] = <<>>
  BY EndsEffect
<1>2. SameStubs
  BY <1>1, StubsSame DEF SameStubs
<1>3. ASSUME NEW r \in {"timeout", "failed", "killed"}, CloseWait(t, r),
             UNCHANGED <<state, lCount, lPending, pOwner, LockCount, waits>>,
             \A v \in Threads : life'[v] \in {"dead", "gone"} <=> life[v] \in {"dead", "gone"}
      PROVE  Service!ServiceNext
  BY <1>1, <1>2, <1>3, ObjectsSame, GivesUp
<1>4. CASE WaitTerminated(t)
  BY <1>3, <1>4 DEF WaitTerminated, ExitFunc, WaitOneMore, objectVars
<1>5. CASE WaitTimeout(t)
  BY <1>3, <1>5 DEF WaitTimeout, ExitFunc, WaitOneMore, objectVars
<1>6. ASSUME NEW o \in Objects, WaitBad(t, o)
      PROVE  Service!ServiceNext
  BY <1>3, <1>6 DEF WaitBad, ExitFunc, WaitOneMore, objectVars
<1>7. ASSUME NEW o \in Objects, WaitOk(t, o)
      PROVE  Service!ServiceNext
  BY <1>7, WaitOkSeen
<1>8. CASE KillBlocked(t)
  <2>1. \A v \in Threads : life'[v] \in {"dead", "gone"} <=> life[v] \in {"dead", "gone"}
    BY <1>8, ShapesHold DEF KillBlocked, IInv, CountsSound, Shapes
  <2> QED
    BY <1>3, <1>8, <2>1 DEF KillBlocked, objectVars
<1>9. CASE TimerFires(t) /\ runstate[t] = "blocked"
  BY <1>3, <1>9 DEF TimerFires, objectVars
<1> QED
  BY <1>4, <1>5, <1>6, <1>7, <1>8, <1>9 DEF Ends

----------------------------------------------------------------------------
(* The steps that move no proxy *)

\* A call that begins: most have their effect later.
LEMMA BeginsSeen ==
    ASSUME IInv, ServiceInv, NEW t \in Threads, BeginCall(t)
    PROVE  Service!ServiceNext \/ UNCHANGED Service!serviceVars
<1>S. /\ state \in [Events -> BOOLEAN] /\ lCount \in [Semaphores -> Nat]
      /\ lPending \in [Semaphores -> Nat]
      /\ pOwner \in [Mutexes -> ThreadOrNone] /\ LockCount \in [Mutexes -> Nat]
      /\ pc \in [Threads -> PCs] /\ life \in [Threads -> {"alive", "dying", "dead", "gone"}]
      /\ current \in [Threads -> BOOLEAN] /\ waits \in [Threads -> Seq(Objects)]
  BY ShapesHold DEF IInv, CountsSound, Shapes
<1>I. /\ LifeOK(t) /\ CallOK(t) /\ WaitOK(t) /\ OutcomeOK(t)
  BY DEF IInv, ServiceInv
<1>0. Keeps(t)
  BY DEF Keeps
<1>1. UNCHANGED stub /\ \A v \in Threads : obj'[v] = obj[v] \/ stub[v] = <<>>
  BY <1>0, KeepsEffect
<1>2. SameStubs
  BY <1>1, StubsSame DEF SameStubs
<1>3. UNCHANGED <<current, waits>> => UNCHANGED <<Waiting, Released>>
  BY <1>2, WaitingSame, ReleasedSame
<1>c. UNCHANGED <<lCount, lPending>> => UNCHANGED Count
  BY DEF Count
<1>d. UNCHANGED <<pOwner, LockCount>> => UNCHANGED Depth
  BY DEF Depth
<1>e. UNCHANGED life => UNCHANGED Exited
  BY DEF Exited
<1>4. ASSUME NEW w \in Waits[t], WaitConfig(t, w)
      PROVE  Service!ServiceNext
  <2> DEFINE wanted == {w[1][i] : i \in DOMAIN w[1]}
  <2>1. w[1] \in Seq(Objects)
    BY WaitsWellFormed
  <2>2. pc[t] = "idle" /\ UNCHANGED <<objectVars, life, granted>>
        /\ current' = [current EXCEPT ![t] = TRUE] /\ waits' = [waits EXCEPT ![t] = w[1]]
    BY <1>4 DEF WaitConfig, At, runVars
  <2>3. ~current[t] /\ granted[t] = None /\ base[t] = <<>> /\ lpProxy[t] = <<>>
    BY <1>I, <2>2 DEF WaitOK, OutcomeOK, WaitPCs
  <2>4. Waiting[t] = {} /\ Waiting' = [Waiting EXCEPT ![t] = wanted]
    <3>1. Waiting[t] = {}
      BY <2>3 DEF Waiting
    <3>2. current'[t] = TRUE /\ waits'[t] = w[1]
      BY <1>S, <2>2
    <3>3. \A v \in Threads : v # t => current'[v] = current[v] /\ waits'[v] = waits[v]
      BY <1>S, <2>2
    <3>4. \A v \in Threads : Waiting'[v] = IF v = t THEN wanted ELSE Waiting[v]
      <4>1. Waiting'[t] = wanted
        BY <3>2 DEF Waiting
      <4>2. \A v \in Threads : v # t => Waiting'[v] = Waiting[v]
        BY <3>3 DEF Waiting
      <4> QED
        BY <4>1, <4>2
    <3>5. DOMAIN Waiting = Threads /\ DOMAIN Waiting' = Threads
          /\ Waiting = [v \in Threads |-> Waiting[v]] /\ Waiting' = [v \in Threads |-> Waiting'[v]]
      BY DEF Waiting
    <3> HIDE DEF wanted
    <3> QED
      BY <3>1, <3>4, <3>5
  <2>5. \A d \in ManualEvents : Stubs(t, d) = {}
    <3> TAKE d \in ManualEvents
    <3>1. d \in Objects /\ PlaceOK(t, d)
      BY DEF IInv, Objects, Events
    <3> QED
      BY <2>3, <3>1, EmptyQueue DEF PlaceOK, QueuedFor
  <2>6. Released' = Released
    BY <1>2, <1>S, <2>2, <2>3, <2>5 DEF Released, SameStubs
  <2>7. wanted \in SUBSET ((AutoEvents \cup IntrEvents) \cup ManualEvents \cup Semaphores
                           \cup Mutexes \cup Threads)
    BY <2>1 DEF Objects, Events
  <2> HIDE DEF wanted
  <2>8. UNCHANGED <<state, Count, pOwner, Depth, Exited>>
    BY <1>c, <1>d, <1>e, <2>2 DEF objectVars
  <2>9. Service!Begin(t, wanted)
    BY <2>2, <2>3, <2>4, <2>6, <2>8 DEF Service!Begin, Service!objects
  <2> QED
    BY <2>7, <2>9 DEF Service!ServiceNext
<1>5. ASSUME NEW o \in Events, EventReset(t, o)
      PROVE  Service!ServiceNext
  <2>1. /\ state' = [state EXCEPT ![o] = FALSE]
        /\ UNCHANGED <<lCount, lPending, pOwner, LockCount, current, waits, granted, life>>
    BY <1>5 DEF EventReset, waitVars, runVars
  <2>2. UNCHANGED <<Count, pOwner, Depth, Exited, Released, Waiting, granted>>
    BY <1>3, <1>c, <1>d, <1>e, <2>1
  <2>3. CASE o \in ManualEvents
    <3>1. {} \in SUBSET Threads /\ {} \X {o} = {}
      OBVIOUS
    <3>2. Service!ModifyManual(o, FALSE, {})
      BY <2>1, <2>2, <3>1 DEF Service!ModifyManual
    <3> QED
      BY <2>3, <3>2 DEF Service!ServiceNext
  <2>4. CASE o \in AutoEvents \cup IntrEvents
    <3>1. Service!ModifyAuto(o, FALSE)
      BY <2>1, <2>2 DEF Service!ModifyAuto
    <3> QED
      BY <2>4, <3>1 DEF Service!ServiceNext
  <2> QED
    BY <2>3, <2>4 DEF Events
<1>6. ASSUME NEW o \in Events, NEW action \in {"SET", "PULSE"}, EventModify(t, o, action)
      PROVE  UNCHANGED Service!serviceVars
  <2>1. UNCHANGED <<state, lCount, lPending, pOwner, LockCount, current, waits, granted, life>>
    BY <1>6 DEF EventModify, objectVars, waitVars, runVars
  <2> QED
    BY <1>2, <2>1, ObjectsSame, NothingSeen
<1>7. ASSUME NEW s \in Semaphores, NEW n \in 1..MaxCount, SemAdd(t, s, n)
      PROVE  Service!ServiceNext
  <2>1. /\ HasRoom(s, n) /\ lPending' = [lPending EXCEPT ![s] = @ + n]
        /\ UNCHANGED <<state, lCount, pOwner, LockCount, current, waits, granted, life>>
    BY <1>7 DEF SemAdd, waitVars, runVars
  <2>2. UNCHANGED <<pOwner, Depth, Exited, Released, Waiting, granted>>
    BY <1>3, <1>d, <1>e, <2>1
  <2>3. Count[s] + n <= MaxCount /\ Count' = [Count EXCEPT ![s] = @ + n]
    <3>1. MaxCount \in Nat
      BY WaitAssumption
    <3>2. Count[s] + n <= MaxCount
      BY <1>S, <2>1, <3>1 DEF Count, HasRoom
    <3>3. \A x \in Semaphores :
             (lCount[x] + lPending[x])' = IF x = s THEN (lCount[x] + lPending[x]) + n
                                          ELSE lCount[x] + lPending[x]
      BY <1>S, <2>1
    <3> QED
      BY <3>2, <3>3 DEF Count
  <2>4. Service!Release(s, n)
    BY <2>1, <2>2, <2>3 DEF Service!Release
  <2> QED
    BY <2>4 DEF Service!ServiceNext
<1>8. ASSUME NEW m \in Mutexes, ReleaseNested(t, m)
      PROVE  Service!ServiceNext
  <2>1. /\ LockCount' = [LockCount EXCEPT ![m] = @ - 1] /\ life[t] = "alive"
        /\ pOwner[m] = t /\ LockCount[m] > 1
        /\ UNCHANGED <<state, lCount, lPending, pOwner, current, waits, granted, life>>
    BY <1>8 DEF ReleaseNested, waitVars, runVars
  <2>2. UNCHANGED <<Count, pOwner, Exited, Released, Waiting, granted>>
    BY <1>3, <1>c, <1>e, <2>1
  <2>3. t # None
    BY WaitAssumption DEF Objects
  <2>4. Depth[m] > 1 /\ Depth' = [Depth EXCEPT ![m] = @ - 1]
    BY <1>S, <2>1, <2>3 DEF Depth
  <2>5. t \notin Exited
    BY <2>1 DEF Exited
  <2>6. Service!Disown(t, m)
    BY <2>1, <2>2, <2>4, <2>5 DEF Service!Disown
  <2> QED
    BY <2>6 DEF Service!ServiceNext
<1>9. ASSUME NEW m \in Mutexes, PreUnlinkMutex(t, m)
      PROVE  UNCHANGED Service!serviceVars
  <2>1. UNCHANGED <<state, lCount, lPending, pOwner, LockCount, current, waits, granted, life>>
    BY <1>9 DEF PreUnlinkMutex, waitVars, runVars
  <2> QED
    BY <1>2, <2>1, ObjectsSame, NothingSeen
<1>10. CASE ExitThread(t)
  <2>1. /\ life' = [life EXCEPT ![t] = "dead"]
        /\ UNCHANGED <<state, lCount, lPending, pOwner, LockCount, current, waits, granted>>
    BY <1>10 DEF ExitThread, objectVars, waitVars
  <2>2. UNCHANGED <<Count, Depth, Released, Waiting>>
    BY <1>3, <1>c, <1>d, <2>1
  <2>3. Exited' = Exited \cup {t}
    BY <1>S, <2>1 DEF Exited
  <2>4. Service!Exit(t)
    BY <2>1, <2>2, <2>3 DEF Service!Exit
  <2> QED
    BY <2>4 DEF Service!ServiceNext
<1> QED
  BY <1>4, <1>5, <1>6, <1>7, <1>8, <1>9, <1>10 DEF BeginCall

\* Of the rest only the return from a wait is a step of the service.
LEMMA KeepsSeen ==
    ASSUME IInv, ServiceInv, NEW t \in Threads, Keeps(t)
    PROVE  Service!ServiceNext \/ UNCHANGED Service!serviceVars
<1>S. life \in [Threads -> {"alive", "dying", "dead", "gone"}]
  BY ShapesHold DEF IInv, CountsSound, Shapes
<1>I. LifeOK(t) /\ WaitOK(t)
  BY DEF IInv
<1>1. UNCHANGED stub /\ \A v \in Threads : obj'[v] = obj[v] \/ stub[v] = <<>>
  BY KeepsEffect
<1>2. SameStubs
  BY <1>1, StubsSame DEF SameStubs
<1>3. ASSUME UNCHANGED <<state, lCount, lPending, pOwner, LockCount, current, waits, granted>>,
             \A v \in Threads : life'[v] \in {"dead", "gone"} <=> life[v] \in {"dead", "gone"}
      PROVE  UNCHANGED Service!serviceVars
  BY <1>2, <1>3, ObjectsSame, NothingSeen
<1>4. CASE BeginCall(t)
  BY <1>4, BeginsSeen
<1>5. CASE WaitReturn(t)
  <2>1. /\ granted' = [granted EXCEPT ![t] = None] /\ pc[t] = "dequeue"
        /\ waits' = [waits EXCEPT ![t] = <<>>]
        /\ UNCHANGED <<state, lCount, lPending, pOwner, LockCount, current, life>>
    BY <1>5 DEF WaitReturn, At, objectVars, runVars
  <2>2. ~current[t]
    BY <1>I, <2>1 DEF WaitOK
  <2>3. UNCHANGED <<Waiting, Released>>
    BY <1>2, <2>1, <2>2, WaitingSame, ReleasedSame
  <2>4. UNCHANGED Service!objects
    BY <2>1, ObjectsSame
  <2>5. Service!End(t)
    BY <2>1, <2>3, <2>4 DEF Service!End
  <2> QED
    BY <2>5 DEF Service!ServiceNext
<1>6. CASE \/ Wake(t) \/ WaitSignalled(t) \/ WaitBlock(t) \/ Resume(t) \/ LaterLinkCritMut(t)
           \/ PostBoostMut(t)
  <2>1. UNCHANGED <<state, lCount, lPending, pOwner, LockCount, current, waits, granted, life>>
    BY <1>6 DEF Wake, WaitSignalled, WaitBlock, Resume, LaterLinkCritMut, PostBoostMut,
       WaitOneMore, objectVars, waitVars, runVars
  <2> QED
    BY <1>3, <2>1
<1>7. CASE \/ PostUnlinkCritMut(t) \/ MakeKilledRun(t)
           \/ (TimerFires(t) /\ runstate[t] # "blocked")
           \/ \E boost \in BOOLEAN : Reprio(t, boost)
  <2>1. UNCHANGED <<state, lCount, lPending, pOwner, LockCount, current, waits, granted, life>>
    BY <1>7 DEF PostUnlinkCritMut, MakeKilledRun, TimerFires, Reprio, objectVars, waitVars,
       runVars
  <2> QED
    BY <1>3, <2>1
<1>8. CASE Bury(t) \/ KillRunnable(t) \/ KillLater(t)
  <2>1. UNCHANGED <<state, lCount, lPending, pOwner, LockCount, current, waits, granted>>
    BY <1>8 DEF Bury, KillRunnable, KillLater, objectVars, waitVars
  <2>2. \A v \in Threads : life'[v] \in {"dead", "gone"} <=> life[v] \in {"dead", "gone"}
    BY <1>8, <1>S, <1>I DEF Bury, KillRunnable, KillLater, LifeOK, At
  <2> QED
    BY <1>3, <2>1, <2>2
<1> QED
  BY <1>4, <1>5, <1>6, <1>7, <1>8 DEF Keeps

\* Proxies are not of the service.
LEMMA ProxySeen ==
    ASSUME IInv, NEW t \in Threads,
           DequeueProxy(t) \/ \E o \in Objects : WaitEnqueue(t, o)
    PROVE  UNCHANGED Service!serviceVars
<1>S. obj \in [Threads -> Objects \cup {None}] /\ stub \in [Threads -> Seq(Threads)]
  BY ShapesHold DEF IInv, CountsSound, Shapes
<1>I. CallOK(t) /\ WaitOK(t)
  BY DEF IInv
<1>1. UNCHANGED <<state, lCount, lPending, pOwner, LockCount, current, waits, granted, life>>
  BY DEF DequeueProxy, WaitEnqueue, WaitOneMore, objectVars, waitVars, runVars
<1>2. UNCHANGED Service!objects
  BY <1>1, ObjectsSame
<1>3. CASE \E o \in Objects : WaitEnqueue(t, o)
  <2>1. pc[t] = "wait" /\ UNCHANGED stub /\ \A v \in Threads : v # t => obj'[v] = obj[v]
    BY <1>3, <1>S DEF WaitEnqueue, WaitOneMore, At
  <2>2. stub[t] = <<>>
    BY <1>I, <2>1 DEF CallOK
  <2>3. SameStubs
    BY <2>1, <2>2, StubsSame DEF SameStubs
  <2> QED
    BY <1>1, <1>2, <2>3, NothingSeen
<1>4. CASE DequeueProxy(t)
  <2>1. pc[t] = "dequeue" /\ UNCHANGED obj /\ base[t] # <<>>
    BY <1>4 DEF DequeueProxy, At
  <2>2. ~current[t]
    BY <1>I, <2>1 DEF WaitOK
  <2>3. \A u \in Threads \ {t}, v \in Threads : Queued(u, stub'[v]) <=> Queued(u, stub[v])
    <3>1. PICK o \in Objects : DequeuesFrom(t, o)
      BY <1>4, DequeueEffect
    <3> QED
      BY <3>1 DEF DequeuesFrom
  <2>4. \A u \in Threads \ {t}, d \in ManualEvents : Stubs(u, d)' = Stubs(u, d)
    BY <2>1, <2>3 DEF Stubs
  <2>5. UNCHANGED Released
    BY <1>1, <2>2, <2>4 DEF Released
  <2> QED
    BY <1>1, <1>2, <2>5, WaitingSame DEF Service!serviceVars, Service!objects
<1> QED
  BY <1>3, <1>4

----------------------------------------------------------------------------
(* The releases *)

\* A wait that somebody else ends.
LEMMA ServedDecides ==
    ASSUME IInv, NEW p \in Threads, NEW o \in Objects, current[p], Satisfy(p, o),
           Queued(o, waits[p]),
           \A u \in Threads \ {p}, d \in ManualEvents :
              (Stubs(u, d)' = {}) <=> (Stubs(u, d) = {})
    PROVE  Service!Decide(p, o) /\ o \in Waiting[p]
<1>1. CloseWait(p, o) /\ UNCHANGED waits
  BY DEF Satisfy
<1> QED
  BY <1>1, Decides, WaitsFor

\* An event that resets itself goes to the first waiter whose wait is not over.
LEMMA AutoSeen ==
    ASSUME IInv, NEW t \in Threads, EventModAuto(t) \/ EventModIntr(t)
    PROVE  Service!ServiceNext \/ UNCHANGED Service!serviceVars
<1> DEFINE o == obj[t]
           p == Head(queue[o])
<1>S. state \in [Events -> BOOLEAN] /\ obj \in [Threads -> Objects \cup {None}]
  BY ShapesHold DEF IInv, CountsSound, Shapes
<1>1. /\ o \in AutoEvents \cup IntrEvents /\ o \in Events /\ o \in Objects /\ pc[t] = "modify"
  BY DEF EventModAuto, EventModIntr, At, Events, Objects
<1>2. stub[t] = <<>>
  BY <1>1 DEF IInv, CallOK
<1>3. UNCHANGED stub /\ \A v \in Threads : v # t => obj'[v] = obj[v]
  BY <1>S DEF EventModAuto, EventModIntr, Return
<1>4. SameStubs
  BY <1>2, <1>3, StubsSame DEF SameStubs
<1>5. UNCHANGED <<lCount, lPending, pOwner, LockCount, life>>
  BY DEF EventModAuto, EventModIntr, SetState, SatisfyBy, objectVars, runVars
<1>6. UNCHANGED <<Count, Depth, Exited>>
  BY <1>5 DEF Count, Depth, Exited
<1>7. CASE queue[o] = <<>>
  <2>1. state' = [state EXCEPT ![o] = (type[t] = "SET")] /\ UNCHANGED <<current, waits, granted>>
    BY <1>7 DEF EventModAuto, EventModIntr, SetState, waitVars
  <2>2. UNCHANGED <<Waiting, Released>>
    BY <1>4, <2>1, WaitingSame, ReleasedSame
  <2>3. Service!ModifyAuto(o, type[t] = "SET")
    BY <1>5, <1>6, <2>1, <2>2 DEF Service!ModifyAuto
  <2> QED
    BY <1>1, <2>3 DEF Service!ServiceNext
<1>8. CASE queue[o] # <<>> /\ ~current[p]
  <2>1. EventModAuto(t)
    BY <1>8, HeadWaits DEF EventModIntr, Objects, Events
  <2>2. UNCHANGED <<state, current, waits, granted>>
    BY <1>8, <2>1 DEF EventModAuto, IsCurrent, objectVars, waitVars
  <2> QED
    BY <1>4, <1>5, <2>2, ObjectsSame, NothingSeen
<1>9. CASE queue[o] # <<>> /\ current[p]
  <2>1. p \in Threads /\ Queued(p, queue[o]) /\ Queued(o, waits[p])
    BY <1>1, <1>9, HeadWaits
  <2>2. ~state[o]
    BY <1>1, <1>9, <2>1 DEF IInv, EventOK
  <2>3. state' = [state EXCEPT ![o] = FALSE] /\ Satisfy(p, o)
    BY <1>9 DEF EventModAuto, EventModIntr, IsCurrent, SetState, SatisfyBy
  <2>4. UNCHANGED state
    BY <1>S, <1>1, <2>2, <2>3
  <2> HIDE DEF o, p
  <2>5. Service!Decide(p, o) /\ o \in Waiting[p]
    BY <1>1, <1>4, <1>9, <2>1, <2>3, ServedDecides DEF SameStubs
  <2>6. Service!HandAuto(p, o)
    BY <1>5, <1>6, <2>2, <2>4, <2>5 DEF Service!HandAuto, Service!objects
  <2> QED
    BY <1>1, <2>1, <2>6 DEF Service!ServiceNext
<1> QED
  BY <1>7, <1>8, <1>9

\* So does an interrupt.
LEMMA InterruptSeen ==
    ASSUME IInv, NEW i \in IntrEvents, Interrupt(i)
    PROVE  Service!ServiceNext
<1>S. state \in [Events -> BOOLEAN]
  BY ShapesHold DEF IInv, CountsSound, Shapes
<1>1. i \in Events /\ i \in Objects
  BY DEF Events, Objects
<1>2. UNCHANGED <<lCount, lPending, pOwner, LockCount, life, stub, obj>>
  BY DEF Interrupt, callVars
<1>3. SameStubs
  BY <1>2, StubsSame DEF SameStubs
<1>4. UNCHANGED <<Count, Depth, Exited>>
  BY <1>2 DEF Count, Depth, Exited
<1>5. CASE UNCHANGED <<queue, waitVars, runVars>> /\ state' = [state EXCEPT ![i] = TRUE]
  <2>1. UNCHANGED <<current, waits, granted>>
    BY <1>5 DEF waitVars
  <2>2. UNCHANGED <<Waiting, Released>>
    BY <1>3, <2>1, WaitingSame, ReleasedSame
  <2>3. Service!ModifyAuto(i, TRUE)
    BY <1>2, <1>4, <1>5, <2>1, <2>2 DEF Service!ModifyAuto
  <2> QED
    BY <2>3 DEF Service!ServiceNext
<1>6. CASE /\ queue[i] # <<>> /\ Head(queue[i]) \in Threads /\ UNCHANGED state
           /\ Interrupts(i, Head(queue[i]))
  <2>p. PICK p \in Threads : p = Head(queue[i])
    BY <1>6
  <2>1. current[p] /\ Queued(i, waits[p]) /\ CloseWait(p, i) /\ UNCHANGED waits
    BY <1>6, <2>p DEF Interrupts
  <2>2. Queued(p, queue[i])
    BY <1>1, <1>6, <2>p, HeadWaits
  <2>3. ~state[i]
    BY <1>1, <2>1, <2>2 DEF IInv, EventOK
  <2>4. Service!Decide(p, i) /\ i \in Waiting[p]
    BY <1>1, <1>3, <2>1, Decides, WaitsFor DEF SameStubs
  <2>5. Service!HandAuto(p, i)
    BY <1>2, <1>4, <1>6, <2>3, <2>4 DEF Service!HandAuto, Service!objects
  <2> QED
    BY <2>5 DEF Service!ServiceNext
<1> QED
  BY <1>5, <1>6, InterruptEffect

\* A manual event releases all who are queued there.
LEMMA ManualSeen ==
    ASSUME IInv, NEW t \in Threads, EventModMan(t)
    PROVE  Service!ServiceNext
<1> DEFINE o == obj[t]
           S == {u \in Threads : current[u] /\ Queued(u, queue[o])}
<1>S. /\ state \in [Events -> BOOLEAN] /\ stub \in [Threads -> Seq(Threads)]
      /\ queue \in [Objects -> Seq(Threads)]
  BY ShapesHold DEF IInv, CountsSound, Shapes
<1>1. /\ o \in ManualEvents /\ o \in Events /\ o \in Objects /\ o \notin IntrEvents
      /\ pc[t] = "modify"
  BY Apart DEF EventModMan, At, Events, Objects
<1>2. stub[t] = <<>>
  BY <1>1 DEF IInv, CallOK
<1>3. /\ stub' = [stub EXCEPT ![t] = queue[o]]
      /\ state' = [state EXCEPT ![o] = (type[t] = "SET")]
      /\ UNCHANGED <<lCount, lPending, pOwner, LockCount, life, obj, current, waits, granted>>
  BY DEF EventModMan, SetState, waitVars, runVars
<1>4. UNCHANGED <<Count, Depth, Exited, Waiting>>
  BY <1>3, WaitingSame DEF Count, Depth, Exited
<1>5. \A u \in Threads, d \in ManualEvents :
         (Stubs(u, d)' # {}) <=> Stubs(u, d) # {} \/ (d = o /\ Queued(u, queue[o]))
  <2> TAKE u \in Threads, d \in ManualEvents
  <2>1. \A v \in Threads : v \in Stubs(u, d)' <=>
            v \in Stubs(u, d) \/ (v = t /\ d = o /\ Queued(u, queue[o]))
    BY <1>2, <1>3, <1>S, EmptyQueue DEF Stubs
  <2> QED
    BY <2>1 DEF Stubs
<1>6. Released' = Released \cup (S \X {o})
  <2>1. \A u \in Threads, d \in ManualEvents :
           <<u, d>> \in Released' <=> <<u, d>> \in Released \/ (u \in S /\ d = o)
    BY <1>3, <1>5 DEF Released
  <2>2. Released \subseteq Threads \X ManualEvents /\ Released' \subseteq Threads \X ManualEvents
    BY DEF Released
  <2>3. S \X {o} \subseteq Threads \X ManualEvents
    BY <1>1
  <2> HIDE DEF S, o
  <2> QED
    BY <2>1, <2>2, <2>3
<1>7. \A u \in S : o \in Waiting[u]
  <2> TAKE u \in S
  <2>1. PlaceOK(u, o) /\ ListsOK(u) /\ WaitOK(u) /\ QueuedFor(u, o)
    BY <1>1 DEF IInv, QueuedFor
  <2>2. Queued(o, waits[u])
    BY <1>1, <2>1, EmptyQueue DEF PlaceOK, ListsOK, WaitOK
  <2> QED
    BY <1>1, <2>2, WaitsFor
<1> HIDE DEF S, o
<1>8. Service!ModifyManual(o, type[t] = "SET", S)
  BY <1>3, <1>4, <1>6, <1>7 DEF Service!ModifyManual
<1>9. S \in SUBSET Threads
  BY DEF S
<1> QED
  BY <1>1, <1>8, <1>9 DEF Service!ServiceNext

\* and they find themselves released one by one.
LEMMA FlatSeen ==
    ASSUME IInv, NEW t \in Threads, WakeOneThreadFlat(t)
    PROVE  Service!ServiceNext \/ UNCHANGED Service!serviceVars
<1> DEFINE o == obj[t]
           p == Head(stub[t])
<1>S. /\ stub \in [Threads -> Seq(Threads)] /\ obj \in [Threads -> Objects \cup {None}]
      /\ current \in [Threads -> BOOLEAN]
  BY ShapesHold DEF IInv, CountsSound, Shapes
<1>1. UNCHANGED <<state, lCount, lPending, pOwner, LockCount, life>>
  BY DEF WakeOneThreadFlat, objectVars, SatisfyBy, runVars
<1>2. UNCHANGED Service!objects
  BY <1>1, ObjectsSame
<1>3. CASE stub[t] = <<>>
  <2>1. /\ UNCHANGED <<stub, current, waits, granted>>
        /\ \A v \in Threads : v # t => obj'[v] = obj[v]
    BY <1>3, <1>S DEF WakeOneThreadFlat, Return, waitVars
  <2>2. SameStubs
    BY <1>3, <2>1, StubsSame DEF SameStubs
  <2> QED
    BY <1>2, <2>1, <2>2, NothingSeen
<1>4. ASSUME stub[t] # <<>>
      PROVE  /\ p \in Threads /\ Queued(p, stub[t]) /\ UNCHANGED obj
             /\ \A u \in Threads \ {p}, d \in ManualEvents : Stubs(u, d)' = Stubs(u, d)
  <2>1. p \in Threads /\ Queued(p, stub[t])
        /\ \A u : Queued(u, Tail(stub[t])) <=> u # p /\ Queued(u, stub[t])
    BY <1>4, StubHolds DEF StubAt
  <2>2. UNCHANGED obj /\ stub' = [stub EXCEPT ![t] = Tail(stub[t])]
    BY <1>4 DEF WakeOneThreadFlat
  <2>3. \A u \in Threads \ {p}, v \in Threads : Queued(u, stub'[v]) <=> Queued(u, stub[v])
    BY <1>S, <2>1, <2>2
  <2> QED
    BY <2>1, <2>2, <2>3 DEF Stubs
<1>5. CASE stub[t] # <<>> /\ ~current[p]
  <2>1. UNCHANGED <<current, waits, granted>>
    BY <1>5 DEF WakeOneThreadFlat, IsCurrent, waitVars
  <2>2. UNCHANGED Released
    BY <1>4, <1>5, <2>1 DEF Released
  <2> QED
    BY <1>2, <2>1, <2>2, WaitingSame DEF Service!serviceVars, Service!objects
<1>6. CASE stub[t] # <<>> /\ current[p]
  <2>1. p \in Threads /\ o \in ManualEvents /\ o \in Objects /\ Queued(o, waits[p])
    BY <1>4, <1>6, StubWaits DEF Objects, Events
  <2>2. Satisfy(p, o)
    BY <1>6 DEF WakeOneThreadFlat, IsCurrent, SatisfyBy
  <2>3. t \in Stubs(p, o)
    BY <1>4, <1>6 DEF Stubs
  <2>4. <<p, o>> \in Released
    BY <1>6, <2>1, <2>3 DEF Released
  <2>5. \A u \in Threads \ {p}, d \in ManualEvents : (Stubs(u, d)' = {}) <=> (Stubs(u, d) = {})
    BY <1>4, <1>6
  <2> HIDE DEF p, o
  <2>6. Service!Decide(p, o) /\ o \in Waiting[p]
    BY <1>6, <2>1, <2>2, <2>5, ServedDecides
  <2>7. Service!SeeManual(p, o)
    BY <1>2, <2>4, <2>6 DEF Service!SeeManual
  <2> QED
    BY <2>1, <2>7 DEF Service!ServiceNext
<1> QED
  BY <1>3, <1>5, <1>6

\* Who waits for a thread sees that it has ended.
LEMMA ExitSeen ==
    ASSUME IInv, NEW t \in Threads, WakeExitWaiter(t)
    PROVE  Service!ServiceNext \/ UNCHANGED Service!serviceVars
<1> DEFINE p == Head(queue[t])
<1>1. /\ UNCHANGED <<state, lCount, lPending, pOwner, LockCount, life, stub, obj>>
      /\ pc[t] = "exit"
  BY DEF WakeExitWaiter, objectVars, SatisfyBy, runVars, At
<1>2. UNCHANGED Service!objects /\ SameStubs
  BY <1>1, ObjectsSame, StubsSame DEF SameStubs
<1>3. CASE queue[t] = <<>> \/ ~current[p]
  <2>1. UNCHANGED <<current, waits, granted>>
    BY <1>3 DEF WakeExitWaiter, IsCurrent, waitVars
  <2> QED
    BY <1>2, <2>1, NothingSeen
<1>4. CASE queue[t] # <<>> /\ current[p]
  <2>0. t \in Objects
    BY DEF Objects
  <2>1. p \in Threads /\ Queued(t, waits[p])
    BY <1>4, <2>0, HeadWaits
  <2>2. Satisfy(p, t)
    BY <1>4 DEF WakeExitWaiter, IsCurrent, SatisfyBy
  <2>3. t \in Exited
    BY <1>1 DEF Exited, IInv, LifeOK
  <2> HIDE DEF p
  <2>4. Service!Decide(p, t) /\ t \in Waiting[p]
    BY <1>2, <1>4, <2>0, <2>1, <2>2, ServedDecides DEF SameStubs
  <2>5. Service!SeeExit(p, t)
    BY <1>2, <2>3, <2>4 DEF Service!SeeExit
  <2> QED
    BY <2>1, <2>5 DEF Service!ServiceNext
<1> QED
  BY <1>3, <1>4

\* A unit of a semaphore goes to a waiter, or stays.
LEMMA SemSeen ==
    ASSUME IInv, NEW t \in Threads, SemPop(t)
    PROVE  Service!ServiceNext \/ UNCHANGED Service!serviceVars
<1> DEFINE s == obj[t]
           p == Head(queue[s])
<1>S. /\ lCount \in [Semaphores -> Nat] /\ lPending \in [Semaphores -> Nat]
      /\ obj \in [Threads -> Objects \cup {None}] /\ remain \in [Threads -> Nat]
      /\ pc \in [Threads -> PCs]
  BY ShapesHold DEF IInv, CountsSound, Shapes
<1>1. s \in Semaphores /\ s \in Objects /\ pc[t] = "sempop" /\ stub[t] = <<>>
  BY DEF SemPop, At, IInv, CallOK, Objects
<1>2. /\ UNCHANGED <<state, pOwner, LockCount, life, stub>>
      /\ \A v \in Threads : v # t => obj'[v] = obj[v]
  BY <1>S DEF SemPop, SatisfyBy, runVars, Return
<1>3. SameStubs
  BY <1>1, <1>2, StubsSame DEF SameStubs
<1>4. UNCHANGED <<Depth, Exited>>
  BY <1>2 DEF Depth, Exited
<1>5. CASE remain[t] = 0
  <2>1. UNCHANGED <<lCount, lPending, current, waits, granted>>
    BY <1>5 DEF SemPop, waitVars
  <2> QED
    BY <1>2, <1>3, <2>1, ObjectsSame, NothingSeen
<1>6. CASE remain[t] > 0 /\ queue[s] # <<>> /\ ~current[p]
  <2>1. UNCHANGED <<lCount, lPending, current, waits, granted>>
    BY <1>6 DEF SemPop, IsCurrent, waitVars
  <2> QED
    BY <1>2, <1>3, <2>1, ObjectsSame, NothingSeen
<1>7. CASE remain[t] > 0 /\ queue[s] = <<>>
  <2>1. AddToCount(t, s) /\ UNCHANGED <<current, waits, granted>>
    BY <1>7 DEF SemPop, waitVars
  <2>2. \A x \in Semaphores : lCount'[x] + lPending'[x] = lCount[x] + lPending[x]
    BY <1>S, <1>1, <2>1 DEF AddToCount
  <2>3. UNCHANGED Count
    BY <2>2 DEF Count
  <2>4. UNCHANGED <<Waiting, Released>>
    BY <1>3, <2>1, WaitingSame, ReleasedSame
  <2> QED
    BY <1>2, <1>4, <2>1, <2>3, <2>4 DEF Service!serviceVars
<1>8. CASE remain[t] > 0 /\ queue[s] # <<>> /\ current[p]
  <2>1. p \in Threads /\ Queued(s, waits[p])
    BY <1>1, <1>8, HeadWaits
  <2>2. /\ Satisfy(p, s) /\ UNCHANGED lCount
        /\ lPending' = [lPending EXCEPT ![s] = @ - 1]
    BY <1>8 DEF SemPop, IsCurrent, SatisfyBy
  <2>3. lPending[s] > 0
    <3>1. IsFiniteSet(Threads \X (1..MaxCount))
      <4>0. MaxCount \in Int
        BY WaitAssumption
      <4>1. IsFiniteSet(1..MaxCount)
        BY <4>0, FS_Interval
      <4> QED
        BY <4>1, WaitAssumption, FS_Product
    <3>2. IsFiniteSet(Owed(s))
      BY <3>1, FS_Subset DEF Owed
    <3>3. remain[t] \in 0..MaxCount
      BY DEF IInv, CountsSound, TypeOK
    <3>4. <<t, 1>> \in Owed(s)
      BY <1>1, <1>8, <1>S, <3>3, WaitAssumption DEF Owed
    <3>5. lPending[s] = Cardinality(Owed(s))
      BY <1>1 DEF IInv, CountsSound, PendingExact
    <3>6. Cardinality(Owed(s)) # 0
      BY <3>2, <3>4, FS_EmptySet
    <3> QED
      BY <1>S, <1>1, <3>5, <3>6
  <2>4. Count[s] > 0 /\ Count' = [Count EXCEPT ![s] = @ - 1]
    <3>1. \A x \in Semaphores :
             lCount'[x] + lPending'[x] = IF x = s THEN (lCount[x] + lPending[x]) - 1
                                         ELSE lCount[x] + lPending[x]
      BY <1>S, <1>1, <2>2, <2>3
    <3>2. Count[s] > 0
      BY <1>S, <1>1, <2>3 DEF Count
    <3> QED
      BY <3>1, <3>2 DEF Count
  <2> HIDE DEF s, p
  <2>5. Service!Decide(p, s) /\ s \in Waiting[p]
    BY <1>1, <1>3, <1>8, <2>1, <2>2, ServedDecides DEF SameStubs
  <2>6. Service!Acquire(p, s)
    BY <1>2, <1>4, <2>4, <2>5 DEF Service!Acquire
  <2> QED
    BY <1>1, <2>1, <2>6 DEF Service!ServiceNext
<1> QED
  BY <1>5, <1>6, <1>7, <1>8, <1>S

\* A mutex given up goes to a waiter, or to nobody.
LEMMA LeaveSeen ==
    ASSUME IInv, ServiceInv, NEW t \in Threads, LeaveMutex(t)
    PROVE  Service!ServiceNext \/ UNCHANGED Service!serviceVars
<1> DEFINE m == obj[t]
           p == Head(queue[m])
<1>S. /\ pOwner \in [Mutexes -> ThreadOrNone] /\ LockCount \in [Mutexes -> Nat]
  BY ShapesHold DEF IInv, CountsSound, Shapes
<1>1. m \in Mutexes /\ m \in Objects /\ pc[t] = "leave"
  BY DEF LeaveMutex, At, IInv, CallOK, Objects
<1>2. UNCHANGED <<state, lCount, lPending, life, stub, obj>>
  BY DEF LeaveMutex, SatisfyBy, runVars
<1>3. SameStubs
  BY <1>2, StubsSame DEF SameStubs
<1>4. UNCHANGED <<Count, Exited>>
  BY <1>2 DEF Count, Exited
<1>5. t # None /\ pOwner[m] = t
  BY <1>1, WaitAssumption DEF IInv, MutexOK, Objects
<1>6. Depth[m] = LockCount[m] /\ (LockCount[m] = 1 \/ t \in Exited)
  BY <1>1, <1>5 DEF ServiceInv, LeaveOK, Depth, Exited
<1>7. CASE queue[m] = <<>>
  <2>1. /\ pOwner' = [pOwner EXCEPT ![m] = None]
        /\ UNCHANGED <<LockCount, current, waits, granted>>
    BY <1>7 DEF LeaveMutex, waitVars
  <2>2. Depth' = [Depth EXCEPT ![m] = 0]
    <3>1. \A x \in Mutexes :
             (IF pOwner'[x] = None THEN 0 ELSE LockCount'[x])
             = IF x = m THEN 0 ELSE IF pOwner[x] = None THEN 0 ELSE LockCount[x]
      BY <1>S, <1>1, <2>1
    <3> QED
      BY <3>1 DEF Depth
  <2>3. UNCHANGED <<Waiting, Released>>
    BY <1>3, <2>1, WaitingSame, ReleasedSame
  <2> HIDE DEF m
  <2>4. Service!Disown(t, m)
    BY <1>2, <1>4, <1>5, <1>6, <2>1, <2>2, <2>3 DEF Service!Disown
  <2> QED
    BY <1>1, <2>4 DEF Service!ServiceNext
<1>8. CASE queue[m] # <<>> /\ ~current[p]
  <2>1. UNCHANGED <<pOwner, LockCount, current, waits, granted>>
    BY <1>8 DEF LeaveMutex, IsCurrent, waitVars
  <2> QED
    BY <1>2, <1>3, <2>1, ObjectsSame, NothingSeen
<1>9. CASE queue[m] # <<>> /\ current[p]
  <2>1. p \in Threads /\ Queued(m, waits[p]) /\ p # None
    BY <1>1, <1>9, HeadWaits, WaitAssumption DEF Objects
  <2>2. /\ Satisfy(p, m)
        /\ pOwner' = [pOwner EXCEPT ![m] = p] /\ LockCount' = [LockCount EXCEPT ![m] = 1]
    BY <1>9 DEF LeaveMutex, IsCurrent, SatisfyBy
  <2>3. Depth' = [Depth EXCEPT ![m] = 1]
    <3> HIDE DEF p
    <3>1. \A x \in Mutexes :
             (IF pOwner'[x] = None THEN 0 ELSE LockCount'[x])
             = IF x = m THEN 1 ELSE IF pOwner[x] = None THEN 0 ELSE LockCount[x]
      BY <1>S, <1>1, <2>1, <2>2
    <3> QED
      BY <3>1 DEF Depth
  <2> HIDE DEF m, p
  <2>4. Service!Decide(p, m) /\ m \in Waiting[p]
    BY <1>1, <1>3, <1>9, <2>1, <2>2, ServedDecides DEF SameStubs
  <2>5. Service!HandOver(t, m, p)
    BY <1>2, <1>4, <1>5, <1>6, <2>2, <2>3, <2>4 DEF Service!HandOver
  <2> QED
    BY <1>1, <2>1, <2>5 DEF Service!ServiceNext
<1> QED
  BY <1>7, <1>8, <1>9

----------------------------------------------------------------------------
(* All steps *)

\* What the service sees of a kernel call is a step of the service, or nothing.
LEMMA ServiceStep ==
    ASSUME IInv, ServiceInv, PlainIntrWaits, [Next]_vars
    PROVE  [Service!ServiceNext]_Service!serviceVars
<1>1. ASSUME NEW t \in Threads, Release(t)
      PROVE  Service!ServiceNext \/ UNCHANGED Service!serviceVars
  BY <1>1, AutoSeen, FlatSeen, SemSeen, LeaveSeen, ExitSeen DEF Release
<1>2. CASE Next
  BY <1>1, <1>2, StepKinds, EndsSeen, KeepsSeen, ProxySeen, ManualSeen, InterruptSeen
<1>3. CASE UNCHANGED vars
  <2>1. UNCHANGED <<state, lCount, lPending, pOwner, LockCount, life, current, waits, granted,
                    stub, obj>>
    BY <1>3 DEF vars, objectVars, callVars, waitVars, runVars
  <2>2. SameStubs
    BY <2>1, StubsSame DEF SameStubs
  <2> QED
    BY <2>1, <2>2, ObjectsSame, NothingSeen
<1> QED
  BY <1>2, <1>3

\* The service starts where the kernel does.
LEMMA ServiceInitially == Init => Service!ServiceInit
<1> SUFFICES ASSUME Init PROVE Service!ServiceInit
  OBVIOUS
<1>1. \A t \in Threads : ~current[t] /\ life[t] = "alive"
  BY DEF Init, All
<1>2. Exited = {} /\ Released = {} /\ Waiting = [t \in Threads |-> {}]
  BY <1>1 DEF Exited, Released, Waiting
<1>3. state \in [(AutoEvents \cup IntrEvents) \cup ManualEvents -> BOOLEAN]
  <2>1. (AutoEvents \cup IntrEvents) \cup ManualEvents = Events
    BY DEF Events
  <2> QED
    BY <2>1 DEF Init
<1>4. Count \in [Semaphores -> 0..MaxCount]
  <2>1. \A s \in Semaphores : lCount[s] \in 0..MaxCount /\ lPending[s] = 0
    BY DEF Init
  <2>2. \A s \in Semaphores : lCount[s] + lPending[s] \in 0..MaxCount
    BY <2>1, WaitAssumption
  <2> QED
    BY <2>2 DEF Count
<1>5. pOwner = [m \in Mutexes |-> None] /\ Depth = [m \in Mutexes |-> 0]
  BY DEF Init, Depth
<1>6. granted = [t \in Threads |-> None]
  BY DEF Init, All
<1> QED
  BY <1>2, <1>3, <1>4, <1>5, <1>6 DEF Service!ServiceInit

\* The kernel calls implement the service: however they interleave, a wait ends with
\* one object and uses up one signal of it, or with none and uses up nothing
\* (WaitOneMore, EventModAuto, EventModMan, SemPop, LeaveMutex, NextThread).
THEOREM ServiceImplemented == ASSUME PlainIntrWaits PROVE Spec => ImplementsService
<1>1. Init => Service!ServiceInit
  BY ServiceInitially
<1>2. (IInv /\ ServiceInv) /\ [Next]_vars => [Service!ServiceNext]_Service!serviceVars
  BY ServiceStep
<1>3. Spec => [](IInv /\ ServiceInv)
  BY ServiceInvariance
<1> QED
  BY <1>1, <1>2, <1>3, PTL DEF Spec, Service!WaitServiceSpec, ImplementsService
=============================================================================
