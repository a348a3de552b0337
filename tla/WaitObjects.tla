---------------------------- MODULE WaitObjects -----------------------------
(***************************************************************************)
(* Events, semaphores, mutexes and threads as objects to wait for, and     *)
(* WaitForMultipleObjects, in NK/KERNEL (schedule.c, syncobj.c, kcalls.c,  *)
(* thread.c).  An action is one kernel call; any runnable thread may make  *)
(* the next one, and time runs as it likes.  A proxy, the entry of a       *)
(* thread in the queue of an object, is the thread itself: a thread waits  *)
(* once for an object.  Priorities are fixed: they order the queues.       *)
(***************************************************************************)
EXTENDS PrioSeq

CONSTANTS
    Threads, None,
    AutoEvents, ManualEvents, IntrEvents, Semaphores, Mutexes,
    Prio,           \* of each thread, 0 the best
    Waits,          \* the waits of each thread: lists of objects with a timeout
    Signals,        \* the events and semaphores each thread signals
    Mortal,         \* threads that exit or are terminated
    MaxCount,       \* lMaxCount of the semaphores
    MaxLockCount    \* MUTEX_MAXLOCKCNT

Events == AutoEvents \cup ManualEvents \cup IntrEvents
Objects == Events \cup Semaphores \cup Mutexes \cup Threads
Flat == ManualEvents \cup Threads    \* queued first come first served

Kinds == <<AutoEvents, ManualEvents, IntrEvents, Semaphores, Mutexes, Threads>>

ASSUME WaitAssumption ==
    /\ None \notin Objects /\ IsFiniteSet(Threads)
    \* an object is of one kind
    /\ \A i, j \in DOMAIN Kinds : i # j => Kinds[i] \cap Kinds[j] = {}
    /\ Prio \in [Threads -> Nat]
    /\ Waits \in [Threads -> SUBSET (Seq(Objects) \X {"zero", "finite", "infinite"})]
    /\ \A t \in Threads : \A w \in Waits[t] :
          /\ w[1] # <<>> /\ Distinct(w[1])
          /\ Len(w[1]) = 1 \/ \A i \in DOMAIN w[1] : w[1][i] \notin IntrEvents
    /\ Signals \in [Threads -> SUBSET (Events \cup Semaphores)]
    /\ MaxCount \in Nat \ {0} /\ MaxLockCount \in Nat \ {0}

VARIABLES
    \* objects
    state,          \* of an event
    lCount,         \* of a semaphore
    lPending,       \* released, but not yet given to a waiter or added to lCount
    pOwner, LockCount, \* of a mutex
    listed,         \* the thread on whose owned list a mutex is
    queue,          \* pProxList: the threads whose proxy is queued
    \* the call a thread is in
    pc,
    obj,            \* the object it is about
    type,           \* EVENT_SET or EVENT_PULSE
    stub,           \* the stub event with the waiters a manual event had
    remain,         \* lReleaseCount of SEMRelease
    toWake,         \* pThWake, pth: to be made runnable by the next kernel call
    \* its wait
    waits, timeout,
    bWaitState,
    current,        \* wCount has not moved on since the wait began
    lpPendProxy,    \* objects still to be processed
    lpProxy,        \* objects it is queued at
    base,           \* lpce->base: objects it was queued at when the wait ended
    dwPendReturn, retval,
    runstate, sleeping, needsleep,
    life,
    killed,         \* terminated threads that KillOneThread has still to wake
    \* history
    granted         \* what ended the wait

objectVars == <<state, lCount, lPending, pOwner, LockCount, listed>>
callVars == <<obj, type, stub, remain, toWake>>
waitVars == <<waits, timeout, bWaitState, current, lpPendProxy, lpProxy, base,
              dwPendReturn, retval, granted>>
runVars == <<runstate, sleeping, needsleep, life, killed>>
vars == <<objectVars, queue, pc, callVars, waitVars, runVars>>

All(x) == [t \in Threads |-> x]

Init ==
    /\ state \in [Events -> BOOLEAN]
    /\ lCount \in [Semaphores -> 0..MaxCount] /\ lPending = [s \in Semaphores |-> 0]
    /\ pOwner = [m \in Mutexes |-> None] /\ LockCount = [m \in Mutexes |-> 0]
    /\ listed = [m \in Mutexes |-> None]
    /\ queue = [o \in Objects |-> <<>>]
    /\ pc = All("idle") /\ obj = All(None) /\ type = All("SET")
    /\ stub = All(<<>>) /\ remain = All(0) /\ toWake = All(None)
    /\ waits = All(<<>>) /\ timeout = All("zero")
    /\ bWaitState = All("signalled") /\ current = All(FALSE)
    /\ lpPendProxy = All(<<>>) /\ lpProxy = All(<<>>) /\ base = All(<<>>)
    /\ dwPendReturn = All(None) /\ retval = All(None) /\ granted = All(None)
    /\ runstate = All("runnable") /\ sleeping = All(FALSE) /\ needsleep = All(FALSE)
    /\ life = All("alive") /\ killed = {}

\* t is at p and may run, and has nobody to wake first.
At(t, p) == pc[t] = p /\ runstate[t] = "runnable" /\ toWake[t] = None

\* Where a kernel call returns to: the program, or the end of the thread.
ReturnPC(t) == IF life[t] = "dead" THEN "release" ELSE "idle"

\* A wait for an interrupt event is cleaned up by whoever ends it, with no lpce.
IsIntr(w) == w # <<>> /\ w[1] \in IntrEvents
HasClean(t) == ~IsIntr(waits[t])

----------------------------------------------------------------------------
(* The end of a wait *)

\* lpce->base = lpProxy; lpProxy = 0; wCount++.
CloseWait(t, r) ==
    /\ current' = [current EXCEPT ![t] = FALSE]
    /\ base' = IF HasClean(t) THEN [base EXCEPT ![t] = lpProxy[t]] ELSE base
    /\ lpProxy' = [lpProxy EXCEPT ![t] = <<>>]
    /\ granted' = [granted EXCEPT ![t] = r]

\* Somebody gives o to the waiter p.
Satisfy(p, o) ==
    /\ CloseWait(p, o)
    /\ IF bWaitState[p] = "blocked"
       THEN /\ retval' = [retval EXCEPT ![p] = o]
            /\ runstate' = [runstate EXCEPT ![p] = "needsrun"]
            /\ UNCHANGED <<dwPendReturn, bWaitState>>
       ELSE /\ dwPendReturn' = [dwPendReturn EXCEPT ![p] = o]
            /\ bWaitState' = [bWaitState EXCEPT ![p] = "signalled"]
            /\ UNCHANGED <<retval, runstate>>
    /\ UNCHANGED <<waits, timeout, lpPendProxy>>

\* ... and is to make it runnable with its next kernel call.
SatisfyBy(t, p, o) ==
    /\ Satisfy(p, o)
    /\ toWake' = [toWake EXCEPT ![t] = IF bWaitState[p] = "blocked" THEN p ELSE None]
    /\ UNCHANGED <<sleeping, needsleep, life, killed>>

\* Mutant of MakeRunIfNeeded: a thread that is not in the sleep list (any more) is
\* taken for one that runs already.
MakeRunIfAsleep(p) ==
    IF runstate[p] = "needsrun" /\ sleeping[p]
    THEN /\ runstate' = [runstate EXCEPT ![p] = "runnable"]
         /\ sleeping' = [sleeping EXCEPT ![p] = FALSE]
    ELSE UNCHANGED <<runstate, sleeping>>

MakeRunIfNeeded(p) ==
    IF runstate[p] = "needsrun"
    THEN /\ runstate' = [runstate EXCEPT ![p] = "runnable"]
         /\ sleeping' = [sleeping EXCEPT ![p] = FALSE]
    ELSE UNCHANGED <<runstate, sleeping>>

Wake(t) ==
    /\ toWake[t] # None /\ runstate[t] = "runnable"
    /\ MakeRunIfNeeded(toWake[t])
    /\ toWake' = [toWake EXCEPT ![t] = None]
    /\ UNCHANGED <<objectVars, queue, pc, obj, type, stub, remain, waitVars,
                   needsleep, life, killed>>

----------------------------------------------------------------------------
(* WaitForMultipleObjects *)

WaitConfig(t, w) ==
    /\ At(t, "idle") /\ life[t] = "alive"
    /\ pc' = [pc EXCEPT ![t] = "wait"]
    /\ waits' = [waits EXCEPT ![t] = w[1]] /\ timeout' = [timeout EXCEPT ![t] = w[2]]
    /\ bWaitState' = [bWaitState EXCEPT ![t] = "processing"]
    /\ current' = [current EXCEPT ![t] = TRUE]
    /\ lpPendProxy' = [lpPendProxy EXCEPT ![t] = w[1]]
    /\ UNCHANGED <<objectVars, queue, callVars, lpProxy, base, dwPendReturn, retval,
                   granted, runVars>>

\* Mutant of NoEnqueue: a wait for an interrupt event is queued in any case.
NoEnqueueNever(t) == FALSE

NoEnqueue(t) == ~HasClean(t) /\ timeout[t] = "zero"

\* Every WaitOneMore starts with this.
WaitOneMore(t) ==
    /\ At(t, "wait")
    /\ needsleep' = [needsleep EXCEPT ![t] = FALSE]
    /\ UNCHANGED <<type, stub, remain, toWake, waits, timeout, dwPendReturn, life, killed>>

\* exitfunc, with the return value r.
ExitFunc(t, r) ==
    /\ CloseWait(t, r)
    /\ bWaitState' = [bWaitState EXCEPT ![t] = "signalled"]
    /\ retval' = [retval EXCEPT ![t] = r]
    /\ UNCHANGED <<lpPendProxy, runstate, sleeping>>

WaitSignalled(t) ==
    /\ WaitOneMore(t)
    /\ bWaitState[t] = "signalled"
    /\ retval' = [retval EXCEPT ![t] = dwPendReturn[t]]
    /\ pc' = [pc EXCEPT ![t] = "dequeue"]
    /\ UNCHANGED <<objectVars, queue, obj, bWaitState, current, lpPendProxy, lpProxy, base,
                   granted, runstate, sleeping>>

WaitTerminated(t) ==
    /\ WaitOneMore(t)
    /\ bWaitState[t] # "signalled" /\ life[t] = "dying"
    /\ ExitFunc(t, "failed")
    /\ pc' = [pc EXCEPT ![t] = "dequeue"]
    /\ UNCHANGED <<objectVars, queue, obj>>

\* The next object to look at is o.
Considers(t, o) ==
    /\ bWaitState[t] # "signalled" /\ life[t] # "dying"
    /\ lpPendProxy[t] # <<>> /\ o = Head(lpPendProxy[t])

\* Mutant of Signalled: what somebody is just releasing is left to those who wait.
SignalledLate(t, o) ==
    LET busy == \E u \in Threads :
                   obj[u] = o /\ pc[u] \in {"modify", "wakeflat", "sempop", "postunlink"}
    IN  CASE o \in Threads    -> life[o] = "gone"
          [] o \in Events     -> state[o] /\ ~busy
          [] o \in Semaphores -> lCount[o] > 0 /\ ~busy
          [] o \in Mutexes    -> \/ pOwner[o] = None /\ ~busy
                                 \/ pOwner[o] = t /\ LockCount[o] < MaxLockCount

Signalled(t, o) ==
    CASE o \in Threads    -> life[o] \in {"dead", "gone"}
      [] o \in Events     -> state[o]
      [] o \in Semaphores -> lCount[o] > 0
      [] o \in Mutexes    -> pOwner[o] = None \/ (pOwner[o] = t /\ LockCount[o] < MaxLockCount)

\* What a satisfied wait uses up.
Consume(t, o) ==
    /\ state' = IF o \in Events
                THEN [state EXCEPT ![o] = o \in ManualEvents] ELSE state
    /\ lCount' = IF o \in Semaphores THEN [lCount EXCEPT ![o] = @ - 1] ELSE lCount
    /\ pOwner' = IF o \in Mutexes THEN [pOwner EXCEPT ![o] = t] ELSE pOwner
    /\ LockCount' = IF o \in Mutexes
                    THEN [LockCount EXCEPT ![o] = IF pOwner[o] = None THEN 1 ELSE @ + 1]
                    ELSE LockCount
    /\ UNCHANGED <<lPending, listed>>

WaitOk(t, o) ==
    /\ WaitOneMore(t) /\ Considers(t, o)
    /\ Signalled(t, o)
    /\ Consume(t, o)
    /\ ExitFunc(t, o)
    /\ pc' = [pc EXCEPT ![t] = IF o \in Mutexes /\ pOwner[o] = None THEN "link" ELSE "dequeue"]
    /\ obj' = [obj EXCEPT ![t] = o]
    /\ UNCHANGED queue

\* Another thread waits for the same interrupt, or t has the mutex too often.
WaitBad(t, o) ==
    /\ WaitOneMore(t) /\ Considers(t, o)
    /\ ~Signalled(t, o)
    /\ \/ o \in Mutexes /\ pOwner[o] = t
       \/ o \in IntrEvents /\ ~NoEnqueue(t) /\ queue[o] # <<>>
    /\ ExitFunc(t, "failed")
    /\ pc' = [pc EXCEPT ![t] = "dequeue"]
    /\ UNCHANGED <<objectVars, queue, obj>>

EnqueueProxy(t, o) ==
    queue' = [queue EXCEPT ![o] = IF o \in Flat THEN Append(@, t)
                                  ELSE Enqueue(@, t, Prio[t], Prio)]

\* A new first waiter of a mutex goes on to boost its owner.
WaitEnqueue(t, o) ==
    /\ WaitOneMore(t) /\ Considers(t, o)
    /\ ~Signalled(t, o) /\ ~NoEnqueue(t)
    /\ o \in Mutexes => pOwner[o] # t
    /\ o \in IntrEvents => queue[o] = <<>>
    /\ EnqueueProxy(t, o)
    /\ lpPendProxy' = [lpPendProxy EXCEPT ![t] = Tail(@)]
    /\ lpProxy' = [lpProxy EXCEPT ![t] = <<o>> \o @]
    /\ pc' = [pc EXCEPT ![t] =
                IF o \in Mutexes /\ (queue[o] = <<>> \/ Prio[t] < Prio[Head(queue[o])])
                THEN "boost" ELSE "wait"]
    /\ obj' = [obj EXCEPT ![t] = o]
    /\ UNCHANGED <<objectVars, bWaitState, current, base, retval, granted, runstate, sleeping>>

\* All are processed: t waits until somebody wakes it ...
WaitBlock(t) ==
    /\ WaitOneMore(t)
    /\ bWaitState[t] # "signalled" /\ life[t] # "dying" /\ lpPendProxy[t] = <<>>
    /\ timeout[t] # "zero"
    /\ bWaitState' = [bWaitState EXCEPT ![t] = "blocked"]
    /\ runstate' = [runstate EXCEPT ![t] = "blocked"]
    /\ sleeping' = [sleeping EXCEPT ![t] = timeout[t] = "finite"]
    /\ retval' = [retval EXCEPT ![t] = IF timeout[t] = "finite" THEN "timeout" ELSE waits[t][1]]
    /\ pc' = [pc EXCEPT ![t] = "woken"]
    /\ UNCHANGED <<objectVars, queue, obj, current, lpPendProxy, lpProxy, base, granted>>

\* ... or its time is over already.
WaitTimeout(t) ==
    /\ WaitOneMore(t)
    /\ bWaitState[t] # "signalled" /\ life[t] # "dying"
    /\ \/ lpPendProxy[t] = <<>> /\ timeout[t] \in {"zero", "finite"}
       \/ NoEnqueue(t) /\ ~Signalled(t, Head(lpPendProxy[t]))
    /\ ExitFunc(t, "timeout")
    /\ pc' = [pc EXCEPT ![t] = "dequeue"]
    /\ UNCHANGED <<objectVars, queue, obj>>

\* Behind the kernel call that blocked: a thread woken because its priority changed
\* goes back to wait.
Resume(t) ==
    /\ At(t, "woken")
    /\ pc' = [pc EXCEPT ![t] = IF needsleep[t] THEN "wait" ELSE "dequeue"]
    /\ UNCHANGED <<objectVars, queue, callVars, waitVars, runVars>>

LaterLinkCritMut(t) ==
    /\ At(t, "link")
    /\ listed' = [listed EXCEPT ![obj[t]] = IF @ = None THEN t ELSE @]
    /\ pc' = [pc EXCEPT ![t] = "dequeue"]
    /\ UNCHANGED <<state, lCount, lPending, pOwner, LockCount, queue, callVars,
                   waitVars, runVars>>

\* Mutant of NoPrioCalc: the flag is not looked at.
NoPrioCalcNever(t) == FALSE

NoPrioCalc(t) ==
    \/ pc[t] \in {"leave", "postunlink"}
    \/ pc[t] = "wakeflat" /\ stub[t] # <<>>

\* PostBoostMut, as far as the owned list goes.
PostBoostMut(t) ==
    /\ At(t, "boost")
    /\ LET m == obj[t]
           w == pOwner[m]
       IN  listed' = IF bWaitState[t] = "processing" /\ w # None
                        /\ listed[m] = None /\ ~NoPrioCalc(w)
                     THEN [listed EXCEPT ![m] = w] ELSE listed
    /\ pc' = [pc EXCEPT ![t] = "wait"]
    /\ UNCHANGED <<state, lCount, lPending, pOwner, LockCount, queue, callVars,
                   waitVars, runVars>>

\* The stubs that hold the proxy of t at o.
Stubs(t, o) == {u \in Threads : obj[u] = o /\ Queued(t, stub[u])}

\* Mutant of StubsWithout: a proxy moved to a stub event is not found there.
StubsKept(t, o) == stub

StubsWithout(t, o) ==
    [u \in Threads |-> IF u \in Stubs(t, o) THEN Dequeue(stub[u], t) ELSE stub[u]]

DequeueProxy(t) ==
    /\ At(t, "dequeue") /\ base[t] # <<>>
    /\ LET o == Head(base[t])
       IN  /\ queue' = [queue EXCEPT ![o] = Dequeue(@, t)]
           /\ stub' = IF o \in ManualEvents THEN StubsWithout(t, o) ELSE stub
    /\ base' = [base EXCEPT ![t] = Tail(@)]
    /\ UNCHANGED <<objectVars, pc, obj, type, remain, toWake, waits, timeout, bWaitState,
                   current, lpPendProxy, lpProxy, dwPendReturn, retval, granted, runVars>>

WaitReturn(t) ==
    /\ At(t, "dequeue") /\ base[t] = <<>>
    /\ pc' = [pc EXCEPT ![t] = ReturnPC(t)]
    /\ waits' = [waits EXCEPT ![t] = <<>>] /\ timeout' = [timeout EXCEPT ![t] = "zero"]
    /\ lpPendProxy' = [lpPendProxy EXCEPT ![t] = <<>>]
    /\ dwPendReturn' = [dwPendReturn EXCEPT ![t] = None]
    /\ retval' = [retval EXCEPT ![t] = None] /\ granted' = [granted EXCEPT ![t] = None]
    /\ obj' = [obj EXCEPT ![t] = None]
    /\ UNCHANGED <<objectVars, queue, type, stub, remain, toWake, bWaitState, current,
                   lpProxy, base, runVars>>

----------------------------------------------------------------------------
(* EventModify *)

Call(t, p, o) ==
    /\ At(t, "idle") /\ life[t] = "alive"
    /\ pc' = [pc EXCEPT ![t] = p]
    /\ obj' = [obj EXCEPT ![t] = o]

Return(t) ==
    /\ pc' = [pc EXCEPT ![t] = ReturnPC(t)]
    /\ obj' = [obj EXCEPT ![t] = None]

EventModify(t, o, action) ==
    /\ Call(t, "modify", o)
    /\ type' = [type EXCEPT ![t] = action]
    /\ UNCHANGED <<objectVars, queue, stub, remain, toWake, waitVars, runVars>>

EventReset(t, o) ==
    /\ At(t, "idle") /\ life[t] = "alive"
    /\ state' = [state EXCEPT ![o] = FALSE]
    /\ UNCHANGED <<lCount, lPending, pOwner, LockCount, listed, queue, pc, callVars,
                   waitVars, runVars>>

SetState(o, b) ==
    /\ state' = [state EXCEPT ![o] = b]
    /\ UNCHANGED <<lCount, lPending, pOwner, LockCount, listed>>

\* Mutant of IsCurrent: a proxy whose wait is over is served all the same.
IsAnyProxy(p) == TRUE

IsCurrent(p) == current[p]

\* One call of EventModAuto: nobody waits, or the first proxy is taken off, and it
\* is repeated if the wait of that one is over.
EventModAuto(t) ==
    LET o == obj[t]
        p == Head(queue[o])
    IN  /\ At(t, "modify") /\ o \in AutoEvents
        /\ \/ /\ queue[o] = <<>>
              /\ SetState(o, type[t] = "SET")
              /\ Return(t)
              /\ UNCHANGED <<queue, toWake, waitVars, runVars>>
           \/ /\ queue[o] # <<>>
              /\ queue' = [queue EXCEPT ![o] = Tail(@)]
              /\ IF IsCurrent(p)
                 THEN SetState(o, FALSE) /\ SatisfyBy(t, p, o) /\ Return(t)
                 ELSE UNCHANGED <<objectVars, pc, obj, toWake, waitVars, runVars>>
        /\ UNCHANGED <<type, stub, remain>>

EventModIntr(t) ==
    LET o == obj[t]
        p == Head(queue[o])
    IN  /\ At(t, "modify") /\ o \in IntrEvents
        /\ Return(t)
        /\ \/ /\ queue[o] = <<>>
              /\ SetState(o, type[t] = "SET")
              /\ UNCHANGED <<queue, toWake, waitVars, runVars>>
           \/ /\ queue[o] # <<>>
              /\ queue' = [queue EXCEPT ![o] = <<>>]
              /\ SetState(o, FALSE) /\ SatisfyBy(t, p, o)
        /\ UNCHANGED <<type, stub, remain>>

\* A manual event hands its waiters to a stub event, to be woken one by one.
EventModMan(t) ==
    LET o == obj[t]
    IN  /\ At(t, "modify") /\ o \in ManualEvents
        /\ stub' = [stub EXCEPT ![t] = queue[o]]
        /\ queue' = [queue EXCEPT ![o] = <<>>]
        /\ SetState(o, type[t] = "SET")
        /\ pc' = [pc EXCEPT ![t] = "wakeflat"]
        /\ UNCHANGED <<obj, type, remain, toWake, waitVars, runVars>>

WakeOneThreadFlat(t) ==
    /\ At(t, "wakeflat")
    /\ \/ /\ stub[t] = <<>>
          /\ Return(t)
          /\ UNCHANGED <<stub, toWake, waitVars, runVars>>
       \/ /\ stub[t] # <<>>
          /\ stub' = [stub EXCEPT ![t] = Tail(@)]
          /\ IF IsCurrent(Head(stub[t])) THEN SatisfyBy(t, Head(stub[t]), obj[t])
             ELSE UNCHANGED <<toWake, waitVars, runVars>>
          /\ UNCHANGED <<pc, obj>>
    /\ UNCHANGED <<objectVars, queue, type, remain>>

\* NextThread on an interrupt: at any time.
Interrupt(o) ==
    LET p == Head(queue[o])
    IN  /\ \/ /\ queue[o] = <<>>
              /\ state' = [state EXCEPT ![o] = TRUE]
              /\ UNCHANGED <<queue, waitVars, runstate, sleeping>>
           \/ /\ queue[o] # <<>>
              /\ queue' = [queue EXCEPT ![o] = <<>>]
              /\ CloseWait(p, o)
              /\ IF bWaitState[p] = "blocked"
                 THEN /\ retval' = [retval EXCEPT ![p] = o]
                      /\ runstate' = [runstate EXCEPT ![p] = "runnable"]
                      /\ sleeping' = [sleeping EXCEPT ![p] = FALSE]
                      /\ UNCHANGED <<dwPendReturn, bWaitState>>
                 ELSE /\ dwPendReturn' = [dwPendReturn EXCEPT ![p] = o]
                      /\ bWaitState' = [bWaitState EXCEPT ![p] = "signalled"]
                      /\ UNCHANGED <<retval, runstate, sleeping>>
              /\ UNCHANGED <<state, waits, timeout, lpPendProxy>>
        /\ UNCHANGED <<lCount, lPending, pOwner, LockCount, listed, pc, callVars, needsleep,
                       life, killed>>

----------------------------------------------------------------------------
(* SEMRelease *)

HasRoom(s, n) == lCount[s] + lPending[s] + n <= MaxCount

SemAdd(t, s, n) ==
    /\ HasRoom(s, n)
    /\ Call(t, "sempop", s)
    /\ lPending' = [lPending EXCEPT ![s] = @ + n]
    /\ remain' = [remain EXCEPT ![t] = n]
    /\ UNCHANGED <<state, lCount, pOwner, LockCount, listed, queue, type, stub, toWake,
                   waitVars, runVars>>

\* Mutant of AddToCount: the count gets what other calls still owe, too.
AddAllToCount(t, s) ==
    /\ lCount' = [lCount EXCEPT ![s] = @ + lPending[s]]
    /\ lPending' = [lPending EXCEPT ![s] = 0]

AddToCount(t, s) ==
    /\ lCount' = [lCount EXCEPT ![s] = @ + remain[t]]
    /\ lPending' = [lPending EXCEPT ![s] = @ - remain[t]]

\* What is left goes to the count, or one unit to the first waiter.
SemPop(t) ==
    LET s == obj[t]
        p == Head(queue[s])
    IN  /\ At(t, "sempop")
        /\ \/ /\ remain[t] = 0
              /\ Return(t)
              /\ UNCHANGED <<lCount, lPending, queue, remain, toWake, waitVars, runVars>>
           \/ /\ remain[t] > 0 /\ queue[s] = <<>>
              /\ AddToCount(t, s)
              /\ remain' = [remain EXCEPT ![t] = 0]
              /\ Return(t)
              /\ UNCHANGED <<queue, toWake, waitVars, runVars>>
           \/ /\ remain[t] > 0 /\ queue[s] # <<>>
              /\ queue' = [queue EXCEPT ![s] = Tail(@)]
              /\ IF IsCurrent(p)
                 THEN /\ SatisfyBy(t, p, s)
                      /\ lPending' = [lPending EXCEPT ![s] = @ - 1]
                      /\ remain' = [remain EXCEPT ![t] = @ - 1]
                 ELSE UNCHANGED <<lPending, remain, toWake, waitVars, runVars>>
              /\ UNCHANGED <<lCount, pc, obj>>
        /\ UNCHANGED <<state, pOwner, LockCount, listed, type, stub>>

----------------------------------------------------------------------------
(* MUTXRelease *)

ReleaseNested(t, m) ==
    /\ At(t, "idle") /\ life[t] = "alive"
    /\ pOwner[m] = t /\ LockCount[m] > 1
    /\ LockCount' = [LockCount EXCEPT ![m] = @ - 1]
    /\ UNCHANGED <<state, lCount, lPending, pOwner, listed, queue, pc, callVars, waitVars,
                   runVars>>

\* PreUnlinkMutex: off the owned list, and no priority is computed until the end.
PreUnlinkMutex(t, m) ==
    /\ \/ /\ At(t, "idle") /\ life[t] = "alive"
          /\ pOwner[m] = t /\ LockCount[m] = 1
       \/ /\ At(t, "release") /\ listed[m] = t
    /\ listed' = [listed EXCEPT ![m] = IF @ = t THEN None ELSE @]
    /\ pc' = [pc EXCEPT ![t] = "leave"] /\ obj' = [obj EXCEPT ![t] = m]
    /\ UNCHANGED <<state, lCount, lPending, pOwner, LockCount, queue, type, stub, remain,
                   toWake, waitVars, runVars>>

LeaveMutex(t) ==
    LET m == obj[t]
        p == Head(queue[m])
    IN  /\ At(t, "leave")
        /\ \/ /\ queue[m] = <<>>
              /\ pOwner' = [pOwner EXCEPT ![m] = None]
              /\ pc' = [pc EXCEPT ![t] = "postunlink"]
              /\ UNCHANGED <<LockCount, listed, queue, toWake, waitVars, runVars>>
           \/ /\ queue[m] # <<>>
              /\ queue' = [queue EXCEPT ![m] = Tail(@)]
              /\ IF IsCurrent(p)
                 THEN /\ SatisfyBy(t, p, m)
                      /\ pOwner' = [pOwner EXCEPT ![m] = p]
                      /\ LockCount' = [LockCount EXCEPT ![m] = 1]
                      /\ listed' = [listed EXCEPT ![m] = p]
                      /\ pc' = [pc EXCEPT ![t] = "postunlink"]
                 ELSE UNCHANGED <<pOwner, LockCount, listed, pc, toWake, waitVars, runVars>>
        /\ UNCHANGED <<state, lCount, lPending, obj, type, stub, remain>>

PostUnlinkCritMut(t) ==
    /\ At(t, "postunlink")
    /\ Return(t)
    /\ UNCHANGED <<objectVars, queue, type, stub, remain, toWake, waitVars, runVars>>

----------------------------------------------------------------------------
(* The end of threads *)

InProgram(t) == At(t, "idle")

\* SetThreadToDie on a thread in its program, which is sent to NKExitThread ...
KillRunnable(t) ==
    /\ t \in Mortal /\ life[t] = "alive" /\ InProgram(t)
    /\ life' = [life EXCEPT ![t] = "dying"]
    /\ pc' = [pc EXCEPT ![t] = "idle"]
    /\ runstate' = [runstate EXCEPT ![t] = "needsrun"]
    /\ killed' = killed \cup {t}
    /\ UNCHANGED <<objectVars, queue, callVars, waitVars, sleeping, needsleep>>

\* ... on one that waits ...
KillBlocked(t) ==
    /\ t \in Mortal /\ life[t] = "alive" /\ runstate[t] = "blocked"
    /\ life' = [life EXCEPT ![t] = "dying"]
    /\ CloseWait(t, "killed")
    /\ queue' = IF HasClean(t) THEN queue ELSE [queue EXCEPT ![waits[t][1]] = <<>>]
    /\ bWaitState' = [bWaitState EXCEPT ![t] = "signalled"]
    /\ runstate' = [runstate EXCEPT ![t] = "needsrun"]
    /\ killed' = killed \cup {t}
    /\ UNCHANGED <<objectVars, pc, callVars, waits, timeout, lpPendProxy, dwPendReturn,
                   retval, sleeping, needsleep>>

\* ... and on one inside the kernel, which notices by itself.
KillLater(t) ==
    /\ t \in Mortal /\ life[t] = "alive" /\ t \notin killed
    /\ runstate[t] = "needsrun" \/ (runstate[t] = "runnable" /\ ~InProgram(t))
    /\ life' = [life EXCEPT ![t] = "dying"]
    /\ UNCHANGED <<objectVars, queue, pc, callVars, waitVars, runstate, sleeping, needsleep,
                   killed>>

\* The kernel call of KillOneThread behind SetThreadToDie.
MakeKilledRun(t) ==
    /\ t \in killed
    /\ MakeRunIfNeeded(t)
    /\ killed' = killed \ {t}
    /\ UNCHANGED <<objectVars, queue, pc, callVars, waitVars, needsleep, life>>

\* NKExitThread, first its waiters.
ExitThread(t) ==
    /\ At(t, "idle")
    /\ life[t] = "dying" \/ (life[t] = "alive" /\ t \in Mortal)
    /\ life' = [life EXCEPT ![t] = "dead"]
    /\ pc' = [pc EXCEPT ![t] = "exit"]
    /\ UNCHANGED <<objectVars, queue, callVars, waitVars, runstate, sleeping, needsleep,
                   killed>>

WakeExitWaiter(t) ==
    /\ At(t, "exit")
    /\ \/ /\ queue[t] = <<>>
          /\ pc' = [pc EXCEPT ![t] = "release"]
          /\ UNCHANGED <<queue, toWake, waitVars, runVars>>
       \/ /\ queue[t] # <<>>
          /\ queue' = [queue EXCEPT ![t] = Tail(@)]
          /\ IF IsCurrent(Head(queue[t])) THEN SatisfyBy(t, Head(queue[t]), t)
             ELSE UNCHANGED <<toWake, waitVars, runVars>>
          /\ UNCHANGED pc
    /\ UNCHANGED <<objectVars, obj, type, stub, remain>>

\* GetOwnedSyncObject finds nothing on the owned list: t is buried.
Bury(t) ==
    /\ At(t, "release") /\ \A m \in Mutexes : listed[m] # t
    /\ life' = [life EXCEPT ![t] = "gone"]
    /\ pc' = [pc EXCEPT ![t] = "gone"]
    /\ UNCHANGED <<objectVars, queue, callVars, waitVars, runstate, sleeping, needsleep,
                   killed>>

----------------------------------------------------------------------------
(* Time and priorities *)

\* NextThread, or RunqDequeue for threads of the same wake-up time.
TimerFires(t) ==
    /\ sleeping[t]
    /\ sleeping' = [sleeping EXCEPT ![t] = FALSE]
    /\ IF runstate[t] = "blocked"
       THEN /\ CloseWait(t, "timeout")
            /\ queue' = IF HasClean(t) THEN queue ELSE [queue EXCEPT ![waits[t][1]] = <<>>]
            /\ runstate' = [runstate EXCEPT ![t] = "runnable"]
            /\ UNCHANGED <<waits, timeout, bWaitState, lpPendProxy, dwPendReturn, retval>>
       ELSE UNCHANGED <<queue, waitVars, runstate>>
    /\ UNCHANGED <<objectVars, pc, callVars, needsleep, life, killed>>

\* Mutant of Reprocesses: only BoostCPrio has the wait processed again.
ReprocessesBoosted(t, boost) == boost

\* SetThreadBasePrio looks at lpce only, BoostCPrio at lpProxy as well.
Reprocesses(t, boost) == HasClean(t) \/ boost

\* The priority of a sleeping thread is raised, so that it has to find its place in
\* the sleep list again: BoostCPrio (boost) or SetThreadBasePrio.
Reprio(t, boost) ==
    /\ sleeping[t] /\ runstate[t] = "blocked"
    /\ sleeping' = [sleeping EXCEPT ![t] = FALSE]
    /\ needsleep' = [needsleep EXCEPT ![t] = TRUE]
    /\ runstate' = [runstate EXCEPT ![t] = "runnable"]
    /\ bWaitState' = IF Reprocesses(t, boost)
                     THEN [bWaitState EXCEPT ![t] = "processing"] ELSE bWaitState
    /\ UNCHANGED <<objectVars, queue, pc, callVars, waits, timeout, current, lpPendProxy,
                   lpProxy, base, dwPendReturn, retval, granted, life, killed>>

----------------------------------------------------------------------------
WaitStep(t) ==
    \/ WaitSignalled(t) \/ WaitTerminated(t) \/ WaitBlock(t) \/ WaitTimeout(t)
    \/ \E o \in Objects : WaitOk(t, o) \/ WaitBad(t, o) \/ WaitEnqueue(t, o)
    \/ Resume(t) \/ LaterLinkCritMut(t) \/ PostBoostMut(t)
    \/ DequeueProxy(t) \/ WaitReturn(t)

\* The rest of a call that t has begun, or its end.
Continue(t) ==
    \/ Wake(t) \/ WaitStep(t)
    \/ EventModAuto(t) \/ EventModIntr(t) \/ EventModMan(t) \/ WakeOneThreadFlat(t)
    \/ SemPop(t)
    \/ LeaveMutex(t) \/ PostUnlinkCritMut(t)
    \/ WakeExitWaiter(t) \/ Bury(t)

BeginCall(t) ==
    \/ \E w \in Waits[t] : WaitConfig(t, w)
    \/ \E o \in Events \cap Signals[t] :
          EventReset(t, o) \/ \E action \in {"SET", "PULSE"} : EventModify(t, o, action)
    \/ \E s \in Semaphores \cap Signals[t], n \in 1..MaxCount : SemAdd(t, s, n)
    \/ \E m \in Mutexes : ReleaseNested(t, m) \/ PreUnlinkMutex(t, m)
    \/ ExitThread(t)

Next ==
    \/ \E t \in Threads :
          \/ Continue(t) \/ BeginCall(t)
          \/ KillRunnable(t) \/ KillBlocked(t) \/ KillLater(t) \/ MakeKilledRun(t)
          \/ TimerFires(t)
          \/ \E boost \in BOOLEAN : Reprio(t, boost)
    \/ \E o \in IntrEvents : Interrupt(o)

Spec == Init /\ [][Next]_vars

\* Threads of one priority take turns, and the timeout of a wait counts from its
\* beginning, however often its thread is put back into the sleep list.
TimeIsUp(t) == TimerFires(t) \/ (timeout[t] = "finite" /\ WaitTimeout(t))
FairSpec ==
    /\ Spec
    /\ \A t \in Threads :
          /\ WF_vars(Continue(t)) /\ WF_vars(MakeKilledRun(t))
          /\ WF_vars(pc[t] = "release" /\ \E m \in Mutexes : PreUnlinkMutex(t, m))
          /\ SF_vars(TimeIsUp(t))

----------------------------------------------------------------------------
(* Properties *)

ThreadOrNone == Threads \cup {None}
Results == Objects \cup {"timeout", "failed", "killed", None}

\* Every variable keeps to its type, and no count leaves its range: lCount with
\* lPending stays within lMaxCount whatever calls of SEMRelease overlap.
TypeOK ==
    /\ state \in [Events -> BOOLEAN]
    /\ lCount \in [Semaphores -> Nat] /\ lPending \in [Semaphores -> Nat]
    /\ \A s \in Semaphores : lCount[s] + lPending[s] <= MaxCount
    /\ pOwner \in [Mutexes -> ThreadOrNone] /\ listed \in [Mutexes -> ThreadOrNone]
    /\ LockCount \in [Mutexes -> 0..MaxLockCount]
    /\ queue \in [Objects -> Seq(Threads)] /\ \A o \in Objects : Distinct(queue[o])
    /\ pc \in [Threads -> {"idle", "wait", "woken", "link", "boost", "dequeue", "modify",
                            "wakeflat", "sempop", "leave", "postunlink", "exit", "release",
                            "gone"}]
    /\ obj \in [Threads -> Objects \cup {None}] /\ type \in [Threads -> {"SET", "PULSE"}]
    /\ stub \in [Threads -> Seq(Threads)] /\ remain \in [Threads -> 0..MaxCount]
    /\ toWake \in [Threads -> ThreadOrNone]
    /\ waits \in [Threads -> {w[1] : w \in UNION {Waits[t] : t \in Threads}} \cup {<<>>}]
    /\ timeout \in [Threads -> {"zero", "finite", "infinite"}]
    /\ bWaitState \in [Threads -> {"signalled", "processing", "blocked"}]
    /\ current \in [Threads -> BOOLEAN]
    /\ lpPendProxy \in [Threads -> Seq(Objects)] /\ lpProxy \in [Threads -> Seq(Objects)]
    /\ base \in [Threads -> Seq(Objects)]
    /\ dwPendReturn \in [Threads -> Results] /\ retval \in [Threads -> Results]
    /\ runstate \in [Threads -> {"runnable", "needsrun", "blocked"}]
    /\ sleeping \in [Threads -> BOOLEAN] /\ needsleep \in [Threads -> BOOLEAN]
    /\ life \in [Threads -> {"alive", "dying", "dead", "gone"}] /\ killed \subseteq Threads
    /\ granted \in [Threads -> Results]

QueuedFor(t, o) == Queued(t, queue[o]) \/ (o \in ManualEvents /\ Stubs(t, o) # {})

\* What the service sees: what releases owe counts as released, and a wait is over as
\* soon as somebody has ended it.
Count == [s \in Semaphores |-> lCount[s] + lPending[s]]
Depth == [m \in Mutexes |-> IF pOwner[m] = None THEN 0 ELSE LockCount[m]]
Exited == {t \in Threads : life[t] \in {"dead", "gone"}}
Released == {r \in Threads \X ManualEvents : current[r[1]] /\ Stubs(r[1], r[2]) # {}}
Waiting == [t \in Threads |->
               IF current[t] THEN {waits[t][i] : i \in DOMAIN waits[t]} ELSE {}]

Service ==
    INSTANCE WaitService WITH
        AutoEvents <- AutoEvents \cup IntrEvents,
        signal <- state, count <- Count, holder <- pOwner, depth <- Depth,
        exited <- Exited, released <- Released, waiting <- Waiting, outcome <- granted

\* The kernel calls together implement the service: however they interleave, a wait
\* ends with one object and uses up one signal of it, or with none and uses up
\* nothing; no signal releases two waits and no mutex has two owners; a pulse
\* releases all who wait for a manual event, even if they run only later.
ImplementsService == Service!WaitServiceSpec

\* Nobody waits for what is there: where a wait still queues, the event is reset, the
\* semaphore empty, the mutex owned, the thread alive (WaitOneMore looks at the
\* object and queues the proxy in one kernel call, the releases empty the queue
\* before they leave a signal behind).
NoLostWaiter ==
    \A o \in Objects : (\E i \in DOMAIN queue[o] : current[queue[o][i]]) =>
        CASE o \in Events     -> ~state[o]
          [] o \in Semaphores -> lCount[o] = 0
          [] o \in Mutexes    -> pOwner[o] # None
          [] o \in Threads    -> life[o] \notin {"dead", "gone"} \/ pc[o] = "exit"

\* A blocked thread whose wait nobody has ended is in the queue, or in the stub, of
\* every object it waits for: each of them can still wake it.
BlockedIsQueued ==
    \A t \in Threads : bWaitState[t] = "blocked" /\ current[t] =>
        \A i \in DOMAIN waits[t] : QueuedFor(t, waits[t][i])

\* No proxy stays behind when DoWaitForObjects returns: they are on its stack.
NoProxyLeft ==
    \A t \in Threads : pc[t] \in {"idle", "gone"} => \A o \in Objects : ~QueuedFor(t, o)

\* The units of s that the calls of SEMRelease under way still have to give out.
Owed(s) == {u \in Threads \X (1..MaxCount) :
              pc[u[1]] = "sempop" /\ obj[u[1]] = s /\ u[2] <= remain[u[1]]}

\* lPending is what the calls of SEMRelease that are under way still owe: none of it
\* is forgotten, and none is given out twice (SemPop: DEBUGCHK(*pRemain <= lPending)).
PendingExact == \A s \in Semaphores : lPending[s] = Cardinality(Owed(s))

\* A mutex is on the owned list of its owner when that runs in its program, so that
\* NKExitThread will find it, and on no other: PostBoostMut of a waiter must not list
\* it again for a thread that is just giving it up (LinkCritMut: DEBUGCHK(bListed != 1)).
MutexListed ==
    \A m \in Mutexes :
        /\ pOwner[m] # None /\ pc[pOwner[m]] = "idle" => listed[m] = pOwner[m]
        /\ listed[m] # None => listed[m] = pOwner[m]
        /\ \A t \in Threads : pc[t] = "leave" /\ obj[t] = m => listed[m] = None

\* Nobody who is gone owns a mutex.
NoMutexBuried == \A m \in Mutexes : pOwner[m] # None => life[pOwner[m]] # "gone"

\* What WaitForMultipleObjects returns is what ended the wait, though waker, timeout
\* and the waiter itself write the result in different places (retValue,
\* dwPendReturn, the value of WaitOneMore).
ReturnsGranted ==
    \A t \in Threads : pc[t] \in {"link", "dequeue"} /\ granted[t] # "killed" =>
        retval[t] = granted[t]

\* PostBoostMut finds the mutex owned if the thread still waits (DEBUGCHK(pth)).
BoostFindsOwner ==
    \A t \in Threads : pc[t] = "boost" /\ bWaitState[t] = "processing" =>
        pOwner[obj[t]] # None

\* Nobody waits for a thread that is gone: FinalRemoveThread frees its queue.
NobodyWaitsForGone == \A t \in Threads : life[t] = "gone" => queue[t] = <<>>

\* What a waiter relies on: every object it waits for can still wake it, none of
\* them had what it wants when it queued, none goes away with its queue.
WaitersQueued == NoLostWaiter /\ BlockedIsQueued /\ NobodyWaitsForGone

\* What the end of a wait leaves: the right result, and no proxy.
EndsCleanly == ReturnsGranted /\ NoProxyLeft

\* A mutex and the owned lists agree while owners, waiters and exits race.
MutexSound == MutexListed /\ NoMutexBuried /\ BoostFindsOwner

\* The types, and what the releases of a semaphore under way still owe.
CountsSound == TypeOK /\ PendingExact

\* A proxy in the queue of an interrupt event is that of its thread's current wait
\* (NextThread: DEBUGCHK(pth->lpProxy == pprox)).
IntrProxyCurrent ==
    \A o \in IntrEvents : \A i \in DOMAIN queue[o] :
        LET t == queue[o][i] IN current[t] /\ lpProxy[t] = <<o>>

\* A thread that counts as blocked in a wait is not runnable at the same time, or it
\* would be made runnable twice (NextThread and all that wake a waiter:
\* DEBUGCHK(GET_RUNSTATE(pth) != RUNSTATE_RUNNABLE)).
BlockedNotRunnable ==
    \A t \in Threads : current[t] /\ bWaitState[t] = "blocked" => runstate[t] = "blocked"

\* A wait that has been ended returns to the program, or to the end of its thread:
\* the one who ended it makes the thread runnable, whatever timeouts and changes of
\* priority come in between.
EndedReturns == \A t \in Threads : granted[t] # None ~> granted[t] = None

\* A wait with a timeout returns.
TimeoutReturns == \A t \in Threads : timeout[t] = "finite" ~> timeout[t] # "finite"
=============================================================================
