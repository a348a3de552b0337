------------------------------ MODULE CritSect ------------------------------
(***************************************************************************)
(* Critical sections of the NK kernel: the user-mode fast path             *)
(* (CORE/DLL/cscode.c), the trap into the kernel (CRITEnter and CRITLeave  *)
(* in NK/KERNEL/syncobj.c) and the kernel calls they are made of           *)
(* (NK/KERNEL/kcalls.c), on a single processor scheduled by strict         *)
(* priority.  A KCall is not preemptible, so each one is one action; a     *)
(* thread may lose the processor between any two.                          *)
(*                                                                         *)
(* Each thread runs a program that enters and leaves critical sections     *)
(* (nested, recursively), blocks for reasons of its own, and may be        *)
(* terminated or have its priority changed by others.                      *)
(***************************************************************************)
EXTENDS PrioSeq

CONSTANTS
    Threads,        \* the threads that use the critical sections
    Crits,          \* the critical sections
    UserCS,         \* those that live in user memory (~IsKernelVa(lpcs))
    None,           \* the NULL of every pointer below
    BasePrio,       \* initial priority of each thread, 0 is the highest
    Prios,          \* the priorities SetThreadPriority may ask for
    LowestPrio,     \* MAX_CE_PRIORITY_LEVELS - 1
    Killable,       \* threads another thread may terminate, or that may exit
    Sleepers,       \* threads that also block outside of this component
    MaxDepth,       \* bound on recursive entries of one critical section
    CSIndex         \* position of each critical section in csarray

ASSUME ConstAssumption ==
    /\ UserCS \subseteq Crits
    /\ None \notin Threads /\ None \notin Crits
    /\ LowestPrio \in Nat
    /\ BasePrio \in [Threads -> 0..LowestPrio]
    /\ Prios \subseteq 0..LowestPrio
    /\ Killable \subseteq Threads /\ Sleepers \subseteq Threads
    /\ MaxDepth \in Nat \ {0}
    /\ CSIndex \in [Crits -> Nat]

VARIABLES
    \* CRITICAL_SECTION and CRIT
    owner,      \* OwnerThread without its low bit
    leaving,    \* the low bit of OwnerThread
    lockCount,  \* LockCount
    needtrap,   \* needtrap
    proxies,    \* pProxList: threads whose proxy is queued, best priority first
    bListed,    \* 0, 1: on a thread's owned list, 2: being released
    listedPrio, \* bListedPrio
    \* THREAD
    pc,         \* where the thread is
    crit,       \* the critical section of the call in progress
    depth,      \* entries the program has made and not left (program state)
    runstate,   \* RUNSTATE_xxx
    waitstate,  \* bWaitState
    bprio,      \* base priority
    cprio,      \* current priority
    lpProxy,    \* the thread's proxy is what a release must signal
    stale,      \* wCount has moved on since the proxy copied it
    proxPrio,   \* prio of the thread's proxy
    critMut,    \* the local pCritMut of CRITEnter
    bRetry,     \* the local bRetry of CRITEnter
    toWake,     \* the local pth of CRITLeave: the thread it owes a MakeRun
    pLastCrit,  \* critical section handed over since the thread last ran
    owned,      \* pOwnedList, as a set
    noPrioCalc, \* NOPRIOCALC flag
    life,       \* live, dying, dead (exiting), buried, gone
    killed,     \* threads NKTerminateThread still has to make runnable
    \* RunList
    cur,        \* RunList.pth
    runq,       \* RunList.pRunnable, best priority first
    resched     \* ReschedFlag

csVars   == <<owner, leaving, lockCount, needtrap, proxies, bListed, listedPrio>>
prioVars == <<bprio, cprio, owned, noPrioCalc>>
waitVars == <<waitstate, lpProxy, stale, proxPrio, pLastCrit>>
progVars == <<pc, crit, depth, critMut, bRetry, toWake>>
lifeVars == <<life, killed>>
schedVars == <<runstate, cur, runq, resched>>
vars == <<csVars, prioVars, waitVars, progVars, lifeVars, schedVars>>

Init ==
    /\ owner = [c \in Crits |-> None]
    /\ leaving = [c \in Crits |-> FALSE]
    /\ lockCount = [c \in Crits |-> 0]
    /\ needtrap = [c \in Crits |-> FALSE]
    /\ proxies = [c \in Crits |-> <<>>]
    /\ bListed = [c \in Crits |-> 0]
    /\ listedPrio = [c \in Crits |-> 0]
    /\ pc = [t \in Threads |-> "asleep"]
    /\ crit = [t \in Threads |-> None]
    /\ depth = [t \in Threads |-> [c \in Crits |-> 0]]
    /\ runstate = [t \in Threads |-> "BLOCKED"]  \* created suspended
    /\ waitstate = [t \in Threads |-> "SIGNALLED"]
    /\ bprio = BasePrio /\ cprio = BasePrio
    /\ lpProxy = [t \in Threads |-> FALSE]
    /\ stale = [t \in Threads |-> FALSE]
    /\ proxPrio = [t \in Threads |-> 0]
    /\ critMut = [t \in Threads |-> FALSE]
    /\ bRetry = [t \in Threads |-> FALSE]
    /\ toWake = [t \in Threads |-> None]
    /\ pLastCrit = [t \in Threads |-> None]
    /\ owned = [t \in Threads |-> {}]
    /\ noPrioCalc = [t \in Threads |-> FALSE]
    /\ life = [t \in Threads |-> "live"]
    /\ killed = {}
    /\ cur = None /\ runq = <<>> /\ resched = FALSE

----------------------------------------------------------------------------
(* Priorities.  Queues are those of module PrioSeq.                        *)

MinPrio(a, b) == IF a < b THEN a ELSE b

\* The priority of the head of pOwnedList, or p if that is better.
InheritedPrio(t, p) ==
    IF \E c \in owned[t] : listedPrio[c] < p
    THEN CHOOSE x \in {listedPrio[c] : c \in owned[t]} :
            \A c \in owned[t] : x <= listedPrio[c]
    ELSE p

\* The best priority queued, what bListedPrio is set to.
HeadPrio(c) == IF proxies[c] = <<>> THEN LowestPrio ELSE proxPrio[Head(proxies[c])]

IsValid(t) == t # None /\ life[t] # "gone"        \* KC_PthFromId finds it
Buried(t)  == t # None /\ life[t] \in {"buried", "gone"}

\* Program counters of a thread in user code, and of one inside Win32CRITEnter.
UserPCs  == {"user", "enterCount", "leaveTest", "leaveFast"}
EnterPCs == {"waitConfig", "part1", "laterLink", "boost1", "boost2", "part2",
             "dequeue", "reprio", "loopTest", "finalBoost"}

LeavePCs == {"preLeave", "leave", "wake", "postUnlink"}
CallPCs  == (UserPCs \ {"user"}) \cup EnterPCs \cup LeavePCs

InUserMode(t) ==
    /\ pc[t] \in UserPCs
    /\ pc[t] = "user" \/ crit[t] \in UserCS
    /\ \A c \in Crits \ UserCS : depth[t][c] = 0
InUserBlock(t) == pc[t] \in EnterPCs /\ crit[t] \in UserCS    \* GET_USERBLOCK
IsTerminated(t) == life[t] = "dying" /\ InUserBlock(t)

\* The owner a KCall looks up on behalf of a waiter is a thread that exists
\* (DEBUGCHK(pth) in PostBoostCrit2 and CSWaitPart2).  Nothing moves after a fault.
NoFault == \A t \in Threads : pc[t] # "fault"
Runs(t) == cur = t /\ ~resched /\ NoFault
At(t, l) == Runs(t) /\ pc[t] = l
Goto(t, l) == pc' = [pc EXCEPT ![t] = l]

\* Back in user code after a call about c: DelaySuspendOrTerminate lets a dying
\* thread go no further.
ReturnPC(t, c) ==
    IF life[t] = "dead" \/ (life[t] = "dying" /\ c \in UserCS) THEN "exit" ELSE "user"
NothingHeld == [c \in Crits |-> 0]

----------------------------------------------------------------------------
(* The scheduler                                                           *)

\* Mutant of Preempts: MakeRun asks for the processor only when it is idle.
PreemptsIdleOnly(p, q) == cur = None

Preempts(p, q) ==
    /\ q = <<>> \/ p < cprio[Head(q)]
    /\ cur = None \/ p < cprio[cur]

\* MakeRun of t at priority p, with q the run queue: the processor is asked
\* for when t becomes its head and beats the thread that runs.
MakeRun(t, p, q) ==
    /\ runstate' = [runstate EXCEPT ![t] = "RUNNABLE"]
    /\ runq' = Enqueue(q, t, p, cprio)
    /\ resched' = (resched \/ Preempts(p, q))

\* SET_CPRIO of t, moved within the run queue if it is there.
BoostCPrio(t, p) ==
    /\ cprio' = [cprio EXCEPT ![t] = p]
    /\ IF runstate[t] = "RUNNABLE"
       THEN MakeRun(t, p, Dequeue(runq, t))
       ELSE UNCHANGED <<runstate, runq, resched>>

\* The running thread gives up its place to the head of the run queue.
Preempted(expired) ==
    /\ cur # None /\ runq # <<>>
    /\ \/ cprio[cur] > cprio[Head(runq)]
       \/ (expired /\ cprio[cur] = cprio[Head(runq)])

RunqAfterPreemption(expired) ==
    IF ~Preempted(expired) THEN runq
    ELSE IF expired THEN Enqueue(runq, cur, cprio[cur], cprio)
    ELSE EnqueueFirst(runq, cur, cprio[cur], cprio)

\* The priority a thread is given when it is dispatched: never better than before.
DispatchPrio(t) ==
    LET p == InheritedPrio(t, bprio[t])
    IN  IF noPrioCalc[t] \/ p < cprio[t] THEN cprio[t] ELSE p

KCNextThread(expired) ==
    /\ NoFault
    /\ resched \/ Preempted(expired)
    /\ LET q == RunqAfterPreemption(expired)
           t == Head(q)
       IN  IF q # <<>> /\ (cur = None \/ Preempted(expired))
           THEN /\ cur' = t
                /\ runq' = Tail(q)
                /\ runstate' = [u \in Threads |-> IF u = t THEN "RUNNING"
                                   ELSE IF u = cur THEN "RUNNABLE" ELSE runstate[u]]
                /\ pLastCrit' = [pLastCrit EXCEPT ![t] = None]
                /\ cprio' = [cprio EXCEPT ![t] = DispatchPrio(t)]
                /\ resched' = (/\ DispatchPrio(t) > cprio[t]
                               /\ Tail(q) # <<>>
                               /\ DispatchPrio(t) > cprio[Head(Tail(q))])
           ELSE /\ resched' = FALSE
                /\ UNCHANGED <<cur, runq, runstate, pLastCrit, cprio>>
    /\ UNCHANGED <<csVars, bprio, owned, noPrioCalc, waitstate, lpProxy, stale,
                   proxPrio, progVars, lifeVars>>

\* The thread blocks (NKSleep(INFINITE)) and somebody resumes it.
SuspendSelf(t) ==
    /\ At(t, "user") /\ t \in Sleepers
    /\ Goto(t, "asleep")
    /\ runstate' = [runstate EXCEPT ![t] = "BLOCKED"]
    /\ cur' = None /\ resched' = TRUE
    /\ UNCHANGED <<csVars, prioVars, waitVars, crit, depth, critMut, bRetry, toWake,
                   lifeVars, runq>>

ThreadResume(t) ==
    /\ NoFault /\ ~resched
    /\ pc[t] = "asleep" /\ runstate[t] = "BLOCKED"
    /\ Goto(t, "user")
    /\ MakeRun(t, cprio[t], runq)
    /\ UNCHANGED <<csVars, prioVars, waitVars, crit, depth, critMut, bRetry, toWake,
                   lifeVars, cur>>

SetThreadBasePrio(t, p) ==
    /\ NoFault /\ ~resched
    /\ ~Buried(t) /\ p # bprio[t]
    /\ bprio' = [bprio EXCEPT ![t] = p]
    /\ IF t = cur
       THEN LET np == InheritedPrio(t, p)
            IN  /\ cprio' = [cprio EXCEPT ![t] = np]
                /\ resched' = (/\ np # cprio[t] /\ runq # <<>>
                               /\ np > cprio[Head(runq)])
                /\ UNCHANGED <<runstate, runq>>
       ELSE IF p < cprio[t] THEN BoostCPrio(t, p)
       ELSE UNCHANGED <<cprio, runstate, runq, resched>>
    /\ UNCHANGED <<csVars, owned, noPrioCalc, waitVars, progVars, lifeVars, cur>>

----------------------------------------------------------------------------
(* EnterCriticalSection and LeaveCriticalSection, the part in cscode.c     *)

\* t calls about c.  One in user memory is for code that runs in user mode, where
\* a thread is not inside the kernel's own and does not come back to die.
Calls(t, c) ==
    /\ At(t, "user")
    /\ c \in UserCS => life[t] = "live" /\ \A d \in Crits \ UserCS : depth[t][d] = 0

\* Mutant of CanTakeCS: the order of csarray is not checked.
CanTakeAnyCS(t, c) == TRUE

\* CanTakeCS: nothing owned comes before c in csarray.
CanTakeCS(t, c) ==
    depth[t][c] > 0 \/ \A d \in Crits : depth[t][d] > 0 => CSIndex[d] > CSIndex[c]

EnterOwned(t, c) ==
    /\ Calls(t, c) /\ owner[c] = t /\ ~leaving[c]
    /\ depth[t][c] < MaxDepth
    /\ lockCount' = [lockCount EXCEPT ![c] = @ + 1]
    /\ depth' = [depth EXCEPT ![t][c] = @ + 1]
    /\ UNCHANGED <<owner, leaving, needtrap, proxies, bListed, listedPrio, prioVars,
                   waitVars, pc, crit, critMut, bRetry, toWake, lifeVars, schedVars>>

\* InterlockedTestExchange(OwnerThread, 0, hTh) succeeds ...
EnterFree(t, c) ==
    /\ Calls(t, c) /\ CanTakeCS(t, c) /\ owner[c] = None
    /\ owner' = [owner EXCEPT ![c] = t]
    /\ crit' = [crit EXCEPT ![t] = c]
    /\ Goto(t, "enterCount")
    /\ UNCHANGED <<leaving, lockCount, needtrap, proxies, bListed, listedPrio, prioVars,
                   waitVars, depth, critMut, bRetry, toWake, lifeVars, schedVars>>

\* ... and LockCount is set by a later instruction.
EnterCount(t) ==
    /\ At(t, "enterCount")
    /\ lockCount' = [lockCount EXCEPT ![crit[t]] = 1]
    /\ depth' = [depth EXCEPT ![t][crit[t]] = 1]
    /\ Goto(t, "user")
    /\ UNCHANGED <<owner, leaving, needtrap, proxies, bListed, listedPrio, prioVars,
                   waitVars, crit, critMut, bRetry, toWake, lifeVars, schedVars>>

EnterTrap(t, c) ==
    /\ Calls(t, c) /\ CanTakeCS(t, c)
    /\ owner[c] # None /\ (owner[c] # t \/ leaving[c])
    /\ crit' = [crit EXCEPT ![t] = c]
    /\ bRetry' = [bRetry EXCEPT ![t] = TRUE]
    /\ Goto(t, "waitConfig")
    /\ UNCHANGED <<csVars, prioVars, waitVars, depth, critMut, toWake, lifeVars, schedVars>>

LeaveNested(t, c) ==
    /\ Calls(t, c) /\ depth[t][c] > 0
    /\ owner[c] = t /\ ~leaving[c] /\ lockCount[c] # 1
    /\ lockCount' = [lockCount EXCEPT ![c] = @ - 1]
    /\ depth' = [depth EXCEPT ![t][c] = @ - 1]
    /\ UNCHANGED <<owner, leaving, needtrap, proxies, bListed, listedPrio, prioVars,
                   waitVars, pc, crit, critMut, bRetry, toWake, lifeVars, schedVars>>

\* Mutant of MarkedBy: OwnerThread is cleared by a plain store.
MarkedByAnyone(t, c) == TRUE

\* OwnerThread == hTh | 1
MarkedBy(t, c) == owner[c] = t /\ leaving[c]

\* The last leave first marks the owner word, then looks at needtrap.
LeaveMark(t, c) ==
    /\ Calls(t, c) /\ depth[t][c] > 0
    /\ owner[c] = t /\ ~leaving[c] /\ lockCount[c] = 1
    /\ leaving' = [leaving EXCEPT ![c] = TRUE]
    /\ depth' = [depth EXCEPT ![t][c] = 0]
    /\ crit' = [crit EXCEPT ![t] = c]
    /\ Goto(t, "leaveTest")
    /\ UNCHANGED <<owner, lockCount, needtrap, proxies, bListed, listedPrio, prioVars,
                   waitVars, critMut, bRetry, toWake, lifeVars, schedVars>>

LeaveTest(t) ==
    /\ At(t, "leaveTest")
    /\ Goto(t, IF needtrap[crit[t]] THEN "preLeave" ELSE "leaveFast")
    /\ UNCHANGED <<csVars, prioVars, waitVars, crit, depth, critMut, bRetry, toWake,
                   lifeVars, schedVars>>

LeaveFast(t) ==
    /\ At(t, "leaveFast")
    /\ LET c == crit[t]
       IN  /\ owner' = [owner EXCEPT ![c] = IF MarkedBy(t, c) THEN None ELSE @]
           /\ leaving' = [leaving EXCEPT ![c] = @ /\ ~MarkedBy(t, c)]
    /\ Goto(t, "user")
    /\ UNCHANGED <<lockCount, needtrap, proxies, bListed, listedPrio, prioVars,
                   waitVars, crit, depth, critMut, bRetry, toWake, lifeVars, schedVars>>

----------------------------------------------------------------------------
(* CRITEnter                                                               *)

\* A fresh proxy, then the KCall WaitConfig (which only prepares t).
WaitConfig(t) ==
    /\ At(t, "waitConfig")
    /\ waitstate' = [waitstate EXCEPT ![t] = "PROCESSING"]
    /\ stale' = [stale EXCEPT ![t] = FALSE]
    /\ proxPrio' = [proxPrio EXCEPT ![t] = cprio[t]]
    /\ critMut' = [critMut EXCEPT ![t] = FALSE]
    /\ Goto(t, "part1")
    /\ UNCHANGED <<csVars, prioVars, lpProxy, pLastCrit, crit, depth, bRetry, toWake,
                   lifeVars, schedVars>>

\* The four conditions under which CSWaitPart1 takes c as if it were free.
UpForGrabs(c) ==
    \/ owner[c] = None
    \/ ~needtrap[c] /\ leaving[c]
    \/ ~IsValid(owner[c])
    \/ ~needtrap[c] /\ bListed[c] # 1 /\ Buried(owner[c]) /\ c \in UserCS

\* Mutant of CanSteal: it forgets to ask whether the owner has run since.
CanStealFromRunner(t, c) == cprio[owner[c]] > cprio[t]

\* c was handed to its owner, which has not run since and is less urgent than t.
CanSteal(t, c) == pLastCrit[owner[c]] = c /\ cprio[owner[c]] > cprio[t]

\* exitcs1: the wait is over without t ever being queued.
WaitDone(t) ==
    /\ stale' = [stale EXCEPT ![t] = TRUE]
    /\ waitstate' = [waitstate EXCEPT ![t] = "SIGNALLED"]
    /\ UNCHANGED <<lpProxy, proxPrio, pLastCrit>>

CSWaitAbort(t) ==
    /\ At(t, "part1") /\ IsTerminated(t)
    /\ WaitDone(t)
    /\ bRetry' = [bRetry EXCEPT ![t] = FALSE]
    /\ Goto(t, "dequeue")
    /\ UNCHANGED <<csVars, prioVars, crit, depth, critMut, toWake, lifeVars, schedVars>>

CSWaitTake(t) ==
    /\ At(t, "part1") /\ ~IsTerminated(t)
    /\ UpForGrabs(crit[t])
    /\ WaitDone(t)
    /\ owner' = [owner EXCEPT ![crit[t]] = t]
    /\ leaving' = [leaving EXCEPT ![crit[t]] = FALSE]
    /\ lockCount' = [lockCount EXCEPT ![crit[t]] = 1]
    /\ Goto(t, "dequeue")
    /\ UNCHANGED <<needtrap, proxies, bListed, listedPrio, prioVars, crit, depth, critMut,
                   bRetry, toWake, lifeVars, schedVars>>

CSWaitSteal(t) ==
    /\ At(t, "part1") /\ ~IsTerminated(t)
    /\ LET c == crit[t]
           waiters == proxies[c] # <<>>
       IN  /\ ~UpForGrabs(c) /\ CanSteal(t, c)
           /\ owner' = [owner EXCEPT ![c] = t]
           /\ leaving' = [leaving EXCEPT ![c] = FALSE]
           /\ needtrap' = [needtrap EXCEPT ![c] = @ \/ waiters]
           /\ critMut' = [critMut EXCEPT ![t] = waiters]
           /\ Goto(t, IF waiters THEN "laterLink" ELSE "dequeue")
    /\ WaitDone(t)
    /\ UNCHANGED <<lockCount, proxies, bListed, listedPrio, prioVars, crit, depth,
                   bRetry, toWake, lifeVars, schedVars>>

CSWaitPend(t) ==
    /\ At(t, "part1") /\ ~IsTerminated(t)
    /\ LET c == crit[t]
           first == proxPrio[t] < HeadPrio(c) \/ proxies[c] = <<>>
       IN  /\ ~UpForGrabs(c) /\ ~CanSteal(t, c)
           /\ proxies' = [proxies EXCEPT ![c] = Enqueue(@, t, proxPrio[t], proxPrio)]
           /\ needtrap' = [needtrap EXCEPT ![c] = TRUE]
           /\ critMut' = [critMut EXCEPT ![t] = first]
           /\ Goto(t, IF first THEN "boost1" ELSE "part2")
    /\ lpProxy' = [lpProxy EXCEPT ![t] = TRUE]
    /\ UNCHANGED <<owner, leaving, lockCount, bListed, listedPrio, prioVars, waitstate,
                   stale, proxPrio, pLastCrit, crit, depth, bRetry, toWake, lifeVars,
                   schedVars>>

\* LinkCritMut and LaterLinkCritMut: c goes on the owned list of t, unless t can
\* no longer release it.
Links(t, c) == bListed[c] = 0 /\ needtrap[c] /\ (c \notin UserCS \/ ~Buried(t))

Link(t, c, cond) ==
    IF cond /\ Links(t, c)
    THEN /\ bListed' = [bListed EXCEPT ![c] = 1]
         /\ listedPrio' = [listedPrio EXCEPT ![c] = HeadPrio(c)]
         /\ owned' = [owned EXCEPT ![t] = @ \cup {c}]
    ELSE UNCHANGED <<bListed, listedPrio, owned>>

\* ReprioCritMut: c is re-sorted on the owned list of t.
ReprioCritMut(t, c) ==
    IF bListed[c] = 1
    THEN /\ listedPrio' = [listedPrio EXCEPT ![c] = HeadPrio(c)]
         /\ owned' = [owned EXCEPT ![t] = @ \cup {c}]
    ELSE UNCHANGED <<listedPrio, owned>>

\* A KCall that would follow the pointer of a thread that is gone.
Faults(t) ==
    /\ ~IsValid(owner[crit[t]])
    /\ Goto(t, "fault")
    /\ UNCHANGED <<csVars, prioVars, waitVars, crit, depth, critMut, bRetry, toWake,
                   lifeVars, schedVars>>

LaterLinkCritMut(t) ==
    /\ At(t, "laterLink")
    /\ Link(t, crit[t], owner[crit[t]] = t)
    /\ Goto(t, "dequeue")
    /\ UNCHANGED <<owner, leaving, lockCount, needtrap, proxies, bprio, cprio, noPrioCalc,
                   waitVars, crit, depth, critMut, bRetry, toWake, lifeVars, schedVars>>

\* (An owner that is gone owns no list, so there is nothing to re-sort.)
PostBoostCrit1(t) ==
    /\ At(t, "boost1")
    /\ IF waitstate[t] = "PROCESSING" /\ IsValid(owner[crit[t]])
       THEN ReprioCritMut(owner[crit[t]], crit[t])
       ELSE UNCHANGED <<listedPrio, owned>>
    /\ Goto(t, "boost2")
    /\ UNCHANGED <<owner, leaving, lockCount, needtrap, proxies, bListed, bprio, cprio,
                   noPrioCalc, waitVars, crit, depth, critMut, bRetry, toWake, lifeVars,
                   schedVars>>

PostBoostCrit2(t) ==
    LET c == crit[t]
        o == owner[c]
    IN  /\ At(t, "boost2") /\ (waitstate[t] = "PROCESSING" => IsValid(o))
        /\ IF waitstate[t] = "PROCESSING" /\ proxies[c] # <<>> /\ HeadPrio(c) < cprio[o]
           THEN BoostCPrio(o, HeadPrio(c))
           ELSE UNCHANGED <<cprio, runstate, runq, resched>>
        /\ Goto(t, "part2")
        /\ UNCHANGED <<csVars, bprio, owned, noPrioCalc, waitVars, crit, depth, critMut,
                       bRetry, toWake, lifeVars, cur>>

CSWaitSignalled(t) ==
    /\ At(t, "part2") /\ waitstate[t] = "SIGNALLED"
    /\ Goto(t, "dequeue")
    /\ UNCHANGED <<csVars, prioVars, waitVars, crit, depth, critMut, bRetry, toWake,
                   lifeVars, schedVars>>

CSWaitTerminated(t) ==
    /\ At(t, "part2") /\ waitstate[t] # "SIGNALLED" /\ IsTerminated(t)
    /\ lpProxy' = [lpProxy EXCEPT ![t] = FALSE]
    /\ stale' = [stale EXCEPT ![t] = TRUE]
    /\ waitstate' = [waitstate EXCEPT ![t] = "SIGNALLED"]
    /\ Goto(t, "dequeue")
    /\ UNCHANGED <<csVars, prioVars, proxPrio, pLastCrit, crit, depth, critMut, bRetry,
                   toWake, lifeVars, schedVars>>

MustBlock(t) == waitstate[t] # "SIGNALLED" /\ ~IsTerminated(t)

\* Mutant of LinkedLastCrit: an owner with a linked section can still be robbed.
LinkedLastCritKept(o) == pLastCrit

LinkedLastCrit(o) == [pLastCrit EXCEPT ![o] = None]

\* The waiter links c to its owner, which can then no longer be stolen from.
CSWaitBlock(t) ==
    LET c == crit[t]
        o == owner[c]
    IN  /\ At(t, "part2") /\ MustBlock(t)
        /\ bListed[c] # 0 \/ IsValid(o)
        /\ pLastCrit' = IF bListed[c] = 0 THEN LinkedLastCrit(o) ELSE pLastCrit
        /\ Link(o, c, bListed[c] = 0)
        /\ waitstate' = [waitstate EXCEPT ![t] = "BLOCKED"]
        /\ runstate' = [runstate EXCEPT ![t] = "BLOCKED"]
        /\ cur' = None /\ resched' = TRUE
        /\ Goto(t, "dequeue")
        /\ UNCHANGED <<owner, leaving, lockCount, needtrap, proxies, bprio, cprio,
                       noPrioCalc, lpProxy, stale, proxPrio, crit, depth, critMut, bRetry,
                       toWake, lifeVars, runq>>

\* The two places where the kernel uses the owner of a critical section as a
\* thread without it being one.
OwnerGoneFault(t) ==
    /\ Runs(t)
    /\ \/ pc[t] = "boost2" /\ waitstate[t] = "PROCESSING"
       \/ pc[t] = "part2" /\ MustBlock(t) /\ bListed[crit[t]] = 0
    /\ Faults(t)

\* Mutant of FirstAlone: a proxy that leaves the queue never has it re-sorted.
FirstAloneNever(t, q) == FALSE

\* DequeuePrioProxy says that the queue's best priority has changed.
FirstAlone(t, q) == Queued(t, q) /\ HeadAlone(t, q, proxPrio)

\* A proxy still queued (its wait was cut short) comes off the queue.
DequeuePrioProxy(t) ==
    LET c == crit[t]
    IN  /\ At(t, "dequeue")
        /\ proxies' = [proxies EXCEPT ![c] = Dequeue(@, t)]
        /\ Goto(t, IF FirstAlone(t, proxies[c]) THEN "reprio" ELSE "loopTest")
        /\ UNCHANGED <<owner, leaving, lockCount, needtrap, bListed, listedPrio, prioVars,
                       waitVars, crit, depth, critMut, bRetry, toWake, lifeVars, schedVars>>

DoReprioCrit(t) ==
    /\ At(t, "reprio")
    /\ IF IsValid(owner[crit[t]])
       THEN ReprioCritMut(owner[crit[t]], crit[t])
       ELSE UNCHANGED <<listedPrio, owned>>
    /\ Goto(t, "loopTest")
    /\ UNCHANGED <<owner, leaving, lockCount, needtrap, proxies, bListed, bprio, cprio,
                   noPrioCalc, waitVars, crit, depth, critMut, bRetry, toWake, lifeVars,
                   schedVars>>

Owns(t, c) == owner[c] = t /\ ~leaving[c]

\* while (OwnerThread != me && bRetry)
LoopTest(t) ==
    /\ At(t, "loopTest")
    /\ Goto(t, IF Owns(t, crit[t]) THEN "finalBoost"
               ELSE IF bRetry[t] THEN "waitConfig" ELSE ReturnPC(t, crit[t]))
    /\ depth' = IF ~Owns(t, crit[t]) /\ ~bRetry[t] /\ ReturnPC(t, crit[t]) = "exit"
                THEN [depth EXCEPT ![t] = NothingHeld] ELSE depth
    /\ UNCHANGED <<csVars, prioVars, waitVars, crit, critMut, bRetry, toWake, lifeVars,
                   schedVars>>

CritFinalBoost(t) ==
    LET c == crit[t]
    IN  /\ At(t, "finalBoost")
        /\ Link(t, c, proxies[c] # <<>>)
        /\ cprio' = [cprio EXCEPT ![t] =
                        IF proxies[c] # <<>> THEN MinPrio(@, HeadPrio(c)) ELSE @]
        /\ Goto(t, ReturnPC(t, c))
        /\ depth' = [depth EXCEPT ![t] = IF ReturnPC(t, c) = "exit" THEN NothingHeld
                                         ELSE [@ EXCEPT ![c] = 1]]
        /\ UNCHANGED <<owner, leaving, lockCount, needtrap, proxies, bprio, noPrioCalc,
                       waitVars, crit, critMut, bRetry, toWake, lifeVars, schedVars>>

----------------------------------------------------------------------------
(* CRITLeave                                                               *)

\* Mutant of Unlink: the section stays on the owned list.
UnlinkNothing(t, c) == owned' = owned

\* UnlinkCritMut
Unlink(t, c) ==
    owned' = IF bListed[c] = 1 THEN [owned EXCEPT ![t] = @ \ {c}] ELSE owned

PreLeaveCrit(t) ==
    LET c == crit[t]
        mine == MarkedBy(t, c)
    IN  /\ At(t, "preLeave")
        /\ IF mine
           THEN /\ leaving' = [leaving EXCEPT ![c] = FALSE]
                /\ noPrioCalc' = [noPrioCalc EXCEPT ![t] = TRUE]
                /\ Unlink(t, c)
                /\ bListed' = [bListed EXCEPT ![c] = 2]
                /\ Goto(t, "leave")
           ELSE /\ Goto(t, ReturnPC(t, c))
                /\ UNCHANGED <<leaving, noPrioCalc, owned, bListed>>
        /\ depth' = IF ~mine /\ ReturnPC(t, c) = "exit"
                    THEN [depth EXCEPT ![t] = NothingHeld] ELSE depth
        /\ UNCHANGED <<owner, lockCount, needtrap, proxies, listedPrio, bprio, cprio,
                       waitVars, crit, critMut, bRetry, toWake, lifeVars, schedVars>>

\* Nobody waits: c is free.
LeaveCritFree(t) ==
    LET c == crit[t]
    IN  /\ At(t, "leave") /\ proxies[c] = <<>>
        /\ owner' = [owner EXCEPT ![c] = None]
        /\ needtrap' = [needtrap EXCEPT ![c] = FALSE]
        /\ bListed' = [bListed EXCEPT ![c] = 0]
        /\ Goto(t, "postUnlink")
        /\ UNCHANGED <<leaving, lockCount, proxies, listedPrio, prioVars, waitVars, crit,
                       depth, critMut, bRetry, toWake, lifeVars, schedVars>>

\* The first proxy belongs to a wait that is over: drop it and try again.
LeaveCritStale(t) ==
    LET c == crit[t]
    IN  /\ At(t, "leave") /\ proxies[c] # <<>> /\ stale[Head(proxies[c])]
        /\ proxies' = [proxies EXCEPT ![c] = Tail(@)]
        /\ UNCHANGED <<owner, leaving, lockCount, needtrap, bListed, listedPrio, prioVars,
                       waitVars, progVars, lifeVars, schedVars>>

\* c is handed to the first waiter, whether or not it blocks already.
LeaveCritHandOver(t) ==
    LET c == crit[t]
        w == Head(proxies[c])
    IN  /\ At(t, "leave") /\ proxies[c] # <<>> /\ ~stale[w]
        /\ proxies' = [proxies EXCEPT ![c] = Tail(@)]
        /\ stale' = [stale EXCEPT ![w] = TRUE]
        /\ lpProxy' = [lpProxy EXCEPT ![w] = FALSE]
        /\ IF waitstate[w] = "BLOCKED"
           THEN /\ runstate' = [runstate EXCEPT ![w] = "NEEDSRUN"]
                /\ toWake' = [toWake EXCEPT ![t] = w]
                /\ Goto(t, "wake")
                /\ UNCHANGED waitstate
           ELSE /\ waitstate' = [waitstate EXCEPT ![w] = "SIGNALLED"]
                /\ Goto(t, "postUnlink")
                /\ UNCHANGED <<runstate, toWake>>
        /\ needtrap' = [needtrap EXCEPT ![c] = @ /\ Tail(proxies[c]) # <<>>]
        /\ lockCount' = [lockCount EXCEPT ![c] = 1]
        /\ owner' = [owner EXCEPT ![c] = w]
        /\ pLastCrit' = [pLastCrit EXCEPT ![w] = c]
        /\ bListed' = [bListed EXCEPT ![c] = 0]
        /\ UNCHANGED <<leaving, listedPrio, prioVars, proxPrio, crit, depth, critMut,
                       bRetry, lifeVars, cur, runq, resched>>

\* MakeRunIfNeeded of w.
MakeRunIfNeeded(w) ==
    IF runstate[w] = "NEEDSRUN" THEN MakeRun(w, cprio[w], runq)
    ELSE UNCHANGED <<runstate, runq, resched>>

WakeNewOwner(t) ==
    /\ At(t, "wake")
    /\ MakeRunIfNeeded(toWake[t])
    /\ toWake' = [toWake EXCEPT ![t] = None]
    /\ Goto(t, "postUnlink")
    /\ UNCHANGED <<csVars, prioVars, waitVars, crit, depth, critMut, bRetry, lifeVars, cur>>

PostUnlinkCritMut(t) ==
    LET p == InheritedPrio(t, bprio[t])
    IN  /\ At(t, "postUnlink")
        /\ noPrioCalc' = [noPrioCalc EXCEPT ![t] = FALSE]
        /\ cprio' = [cprio EXCEPT ![t] = p]
        /\ resched' = (p # cprio[t] /\ runq # <<>> /\ p > cprio[Head(runq)])
        /\ Goto(t, ReturnPC(t, crit[t]))
        /\ depth' = IF ReturnPC(t, crit[t]) = "exit"
                    THEN [depth EXCEPT ![t] = NothingHeld] ELSE depth
        /\ UNCHANGED <<csVars, bprio, owned, waitVars, crit, critMut, bRetry, toWake,
                       lifeVars, runstate, cur, runq>>

----------------------------------------------------------------------------
(* The end of a thread                                                     *)

\* SetThreadToDie on a thread that is running in user code or blocked there: it
\* leaves for pExitThread, or gives up its wait.
DieNow(t) ==
    /\ life' = [life EXCEPT ![t] = "dying"]
    /\ killed' = killed \cup {t}
    /\ runstate' = [runstate EXCEPT ![t] = "NEEDSRUN"]

CanDie(t) ==
    /\ NoFault /\ ~resched
    /\ t \in Killable /\ t # cur /\ life[t] = "live"

DiesInUserCode(t) == runstate[t] = "RUNNABLE" /\ InUserMode(t)
DiesBlocked(t) ==
    /\ runstate[t] = "BLOCKED"
    /\ \/ InUserBlock(t)
       \/ pc[t] = "asleep" /\ \A c \in Crits \ UserCS : depth[t][c] = 0

KillRunnable(t) ==
    /\ CanDie(t) /\ DiesInUserCode(t)
    /\ DieNow(t)
    /\ runq' = Dequeue(runq, t)
    /\ Goto(t, "exit")
    /\ depth' = [depth EXCEPT ![t] = NothingHeld]
    /\ UNCHANGED <<csVars, prioVars, waitVars, crit, critMut, bRetry, toWake, cur, resched>>

KillBlocked(t) ==
    /\ CanDie(t) /\ DiesBlocked(t)
    /\ DieNow(t)
    /\ stale' = [stale EXCEPT ![t] = TRUE]
    /\ lpProxy' = [lpProxy EXCEPT ![t] = FALSE]
    /\ waitstate' = [waitstate EXCEPT ![t] = IF lpProxy[t] THEN "SIGNALLED" ELSE @]
    /\ pc' = [pc EXCEPT ![t] = IF @ = "asleep" THEN "exit" ELSE @]
    /\ depth' = [depth EXCEPT ![t] = IF pc[t] = "asleep" THEN NothingHeld ELSE @]
    /\ UNCHANGED <<csVars, prioVars, proxPrio, pLastCrit, crit, critMut, bRetry, toWake,
                   cur, runq, resched>>

\* ... and on any other it only leaves the mark that the kernel looks at later.
KillLater(t) ==
    /\ CanDie(t) /\ ~DiesInUserCode(t) /\ ~DiesBlocked(t)
    /\ life' = [life EXCEPT ![t] = "dying"]
    /\ UNCHANGED <<csVars, prioVars, waitVars, progVars, killed, schedVars>>

MakeKilledRun(t) ==
    /\ NoFault /\ ~resched /\ t \in killed
    /\ killed' = killed \ {t}
    /\ MakeRunIfNeeded(t)
    /\ UNCHANGED <<csVars, prioVars, waitVars, progVars, life, cur>>

\* A thread ends by itself, or finds that it is dying.
ExitThread(t) ==
    /\ At(t, "user") /\ t \in Killable /\ InUserMode(t)
    /\ life' = [life EXCEPT ![t] = "dead"]
    /\ depth' = [depth EXCEPT ![t] = NothingHeld]
    /\ Goto(t, "exit")
    /\ UNCHANGED <<csVars, prioVars, waitVars, crit, critMut, bRetry, toWake, killed,
                   schedVars>>

\* RemoveThreadFromProc releases what is on the owned list, best priority first.
ReleaseOwned(t, c) ==
    /\ At(t, "exit") /\ c \in owned[t]
    /\ \A d \in owned[t] : listedPrio[c] <= listedPrio[d]
    /\ life' = [life EXCEPT ![t] = "dead"]
    /\ lockCount' = [lockCount EXCEPT ![c] = 1]
    /\ leaving' = [leaving EXCEPT ![c] = TRUE]
    /\ crit' = [crit EXCEPT ![t] = c]
    /\ Goto(t, "preLeave")
    /\ UNCHANGED <<owner, needtrap, proxies, bListed, listedPrio, prioVars, waitVars, depth,
                   critMut, bRetry, toWake, killed, schedVars>>

\* GetOwnedSyncObject finds nothing: from here on c can no longer be linked to t.
Bury(t) ==
    /\ At(t, "exit") /\ owned[t] = {}
    /\ life' = [life EXCEPT ![t] = "buried"]
    /\ Goto(t, "final")
    /\ UNCHANGED <<csVars, prioVars, waitVars, crit, depth, critMut, bRetry, toWake, killed,
                   schedVars>>

FinalRemoveThread(t) ==
    /\ At(t, "final")
    /\ life' = [life EXCEPT ![t] = "gone"]
    /\ cur' = None /\ resched' = TRUE
    /\ runstate' = [runstate EXCEPT ![t] = "BLOCKED"]
    /\ Goto(t, "gone")
    /\ UNCHANGED <<csVars, prioVars, waitVars, crit, depth, critMut, bRetry, toWake, killed,
                   runq>>

----------------------------------------------------------------------------
UserStep(t) ==
    \/ \E c \in Crits : \/ EnterOwned(t, c) \/ EnterFree(t, c) \/ EnterTrap(t, c)
                       \/ LeaveNested(t, c) \/ LeaveMark(t, c)
    \/ EnterCount(t) \/ LeaveTest(t) \/ LeaveFast(t)

EnterStep(t) ==
    \/ WaitConfig(t)
    \/ CSWaitAbort(t) \/ CSWaitTake(t) \/ CSWaitSteal(t) \/ CSWaitPend(t)
    \/ LaterLinkCritMut(t) \/ PostBoostCrit1(t) \/ PostBoostCrit2(t)
    \/ CSWaitSignalled(t) \/ CSWaitTerminated(t) \/ CSWaitBlock(t)
    \/ OwnerGoneFault(t)
    \/ DequeuePrioProxy(t) \/ DoReprioCrit(t) \/ LoopTest(t) \/ CritFinalBoost(t)

LeaveStep(t) ==
    \/ PreLeaveCrit(t)
    \/ LeaveCritFree(t) \/ LeaveCritStale(t) \/ LeaveCritHandOver(t)
    \/ WakeNewOwner(t) \/ PostUnlinkCritMut(t)

ExitStep(t) ==
    \/ \E c \in Crits : ReleaseOwned(t, c)
    \/ Bury(t) \/ FinalRemoveThread(t)

KillStep(t) == KillRunnable(t) \/ KillBlocked(t) \/ KillLater(t)

Next ==
    \/ \E expired \in BOOLEAN : KCNextThread(expired)
    \/ \E t \in Threads :
          \/ UserStep(t) \/ EnterStep(t) \/ LeaveStep(t) \/ ExitStep(t)
          \/ SuspendSelf(t) \/ ThreadResume(t) \/ ExitThread(t)
          \/ KillStep(t) \/ MakeKilledRun(t)
          \/ \E p \in Prios : SetThreadBasePrio(t, p)

Spec == Init /\ [][Next]_vars

----------------------------------------------------------------------------
(* Properties                                                              *)

\* Every variable holds a value of its C type, and a call in progress has its
\* argument.
CSType ==
    /\ owner \in [Crits -> Threads \cup {None}]
    /\ leaving \in [Crits -> BOOLEAN]
    /\ lockCount \in [Crits -> Int]
    /\ needtrap \in [Crits -> BOOLEAN]
    /\ proxies \in [Crits -> Seq(Threads)]
    /\ bListed \in [Crits -> 0..2]
    /\ listedPrio \in [Crits -> 0..LowestPrio]
PrioType ==
    /\ bprio \in [Threads -> 0..LowestPrio]
    /\ cprio \in [Threads -> 0..LowestPrio]
    /\ owned \in [Threads -> SUBSET Crits]
    /\ noPrioCalc \in [Threads -> BOOLEAN]
WaitType ==
    /\ waitstate \in [Threads -> {"SIGNALLED", "PROCESSING", "BLOCKED"}]
    /\ lpProxy \in [Threads -> BOOLEAN]
    /\ stale \in [Threads -> BOOLEAN]
    /\ proxPrio \in [Threads -> 0..LowestPrio]
    /\ pLastCrit \in [Threads -> Crits \cup {None}]
ProgType ==
    /\ pc \in [Threads -> CallPCs \cup {"user", "asleep", "exit", "final", "gone", "fault"}]
    /\ crit \in [Threads -> Crits \cup {None}]
    /\ depth \in [Threads -> [Crits -> Nat]]
    /\ critMut \in [Threads -> BOOLEAN]
    /\ bRetry \in [Threads -> BOOLEAN]
    /\ toWake \in [Threads -> Threads \cup {None}]
    /\ \A t \in Threads : pc[t] \in CallPCs => crit[t] # None
    /\ \A t \in Threads : pc[t] = "wake" => toWake[t] # None
LifeType ==
    /\ life \in [Threads -> {"live", "dying", "dead", "buried", "gone"}]
    /\ killed \in SUBSET Threads
SchedType ==
    /\ runstate \in [Threads -> {"RUNNING", "RUNNABLE", "BLOCKED", "NEEDSRUN"}]
    /\ cur \in Threads \cup {None}
    /\ runq \in Seq(Threads)
    /\ resched \in BOOLEAN
TypeOK == CSType /\ PrioType /\ WaitType /\ ProgType /\ LifeType /\ SchedType

\* A critical section the program is inside is owned by it, and LockCount counts
\* its entries: no hand-over, steal or take-over of a marked section by another
\* thread ever reaches an owner that has come back from EnterCriticalSection.
MutualExclusion ==
    \A t \in Threads, c \in Crits :
        depth[t][c] > 0 => Owns(t, c) /\ lockCount[c] = depth[t][c]

\* The first waiter c would be handed to; stale proxies are skipped.
Waiting(t, c) == crit[t] = c /\ lpProxy[t] /\ Queued(t, proxies[c]) /\ ~stale[t]

\* A queued waiter is never forgotten: the section has an owner, and needtrap
\* sends that owner's release to the kernel (it cannot be on the way out along
\* the fast path, having looked at needtrap too early).
NoLostWaiter ==
    \A t \in Threads, c \in Crits : Waiting(t, c) =>
        /\ owner[c] # None /\ owner[c] # t
        /\ needtrap[c]
        /\ ~(pc[owner[c]] = "leaveFast" /\ crit[owner[c]] = c)

\* A thread blocked in CSWaitPart2 is one a release will find.
BlockedIsQueued ==
    \A t \in Threads :
        runstate[t] = "BLOCKED" /\ pc[t] \in EnterPCs => Waiting(t, crit[t])

\* What LeaveCrit asserts (OwnerThread is the caller, LockCount is 1) holds
\* between its iterations and through any preemption.
LeaveAssertions ==
    \A t \in Threads : pc[t] = "leave" =>
        Owns(t, crit[t]) /\ lockCount[crit[t]] = 1 /\ bListed[crit[t]] = 2

\* What CSWaitPart1 asserts when it steals c back: the owner has not run since it
\* was handed c, its wait is over, and nobody has linked c to it.
StealAssertions ==
    \A c \in Crits : owner[c] # None /\ pLastCrit[owner[c]] = c =>
        /\ owner[c] # cur
        /\ lockCount[c] = 1 /\ bListed[c] = 0 /\ ~leaving[c]
        /\ stale[owner[c]] /\ ~lpProxy[owner[c]]

\* pOwnedList: a section is on the list of the thread that owns it and on no
\* other, so that UnlinkCritMut takes it off the right list.
OwnedListExact ==
    \A t \in Threads, c \in Crits : c \in owned[t] <=> bListed[c] = 1 /\ owner[c] = t

\* A thread has at most one proxy queued, on the section it is entering, and the
\* queue stays in priority order.
QueuesSound ==
    \A c \in Crits :
        /\ Distinct(proxies[c])
        /\ \A i \in DOMAIN proxies[c] :
              /\ pc[proxies[c][i]] \in EnterPCs \cup {"fault"} /\ crit[proxies[c][i]] = c
              /\ needtrap[c]
              /\ \A j \in DOMAIN proxies[c] : i < j =>
                    proxPrio[proxies[c][i]] <= proxPrio[proxies[c][j]]

\* What a waiter relies on: it is queued, in its place, and somebody will find it.
WaitersFound == NoLostWaiter /\ BlockedIsQueued /\ QueuesSound

\* The run queue holds the runnable threads, each once, best priority first;
\* between kernel calls the running thread is at least as urgent as its head, and
\* the processor is idle only when nothing is runnable.
HighestPriorityRuns ==
    /\ \A t \in Threads : Queued(t, runq) <=> runstate[t] = "RUNNABLE"
    /\ Distinct(runq)
    /\ \A i, j \in DOMAIN runq : i < j => cprio[runq[i]] <= cprio[runq[j]]
    /\ \A t \in Threads : t = cur <=> runstate[t] = "RUNNING"
    /\ ~resched /\ runq # <<>> => cur # None /\ cprio[cur] <= cprio[Head(runq)]

\* bListedPrio of a listed section is the priority of its first proxy, except while
\* the thread that changed the queue still has to re-sort the owned list.
ListedPrioCurrent ==
    \A c \in Crits :
        bListed[c] = 1 /\ (\A t \in Threads : crit[t] = c => pc[t] \notin {"boost1", "reprio"})
            => listedPrio[c] = HeadPrio(c)

\* Priority inheritance: once the first waiter has blocked, the thread that holds
\* c is at least as urgent as that waiter.
PriorityInherited ==
    \A c \in Crits : proxies[c] # <<>> =>
        LET w == Head(proxies[c])
            o == owner[c]
        IN  Waiting(w, c) /\ runstate[w] = "BLOCKED" /\ o # None /\ depth[o][c] > 0
                => cprio[o] <= proxPrio[w]

\* A thread in its grave owns nothing that a thread is blocked on.
BuriedOwnsNothingWanted ==
    \A t \in Threads, c \in Crits :
        owner[c] # None /\ Buried(owner[c]) /\ Waiting(t, c) => runstate[t] # "BLOCKED"

\* Threads that keep to the csarray order never wait for each other in a circle.
NoCircularWait ==
    \A S \in SUBSET Threads : S # {} =>
        \E t \in S : \A c \in Crits : Waiting(t, c) => owner[c] \notin S

----------------------------------------------------------------------------
(* Why mutual exclusion holds: an inductive invariant, by the part of the  *)
(* code each conjunct is about.                                            *)

\* What t is doing when its proxy can be in a queue, when it has marked the owner
\* word, and when it will not run user code again.
QueuedPCs == {"boost1", "boost2", "part2", "dequeue"}
MarkPCs   == {"leaveTest", "leaveFast", "preLeave"}
Ended(t)  == pc[t] \in {"exit", "final", "gone"} \/ life[t] \in {"dead", "buried", "gone"}

QueueInv ==
    \A c \in Crits :
        /\ Distinct(proxies[c])
        /\ \A t \in Threads : Queued(t, proxies[c]) =>
              crit[t] = c /\ pc[t] \in QueuedPCs \cup {"fault"}

\* life and pc agree, and what has ended owns only what it can still release.
EndAt(t, c) ==
    /\ life[t] = "dead" => pc[t] \in {"exit"} \cup LeavePCs
    /\ life[t] = "buried" <=> pc[t] = "final"
    /\ life[t] = "gone" => pc[t] = "gone"
    /\ life[t] \in {"buried", "gone"} => c \notin owned[t]
    /\ Ended(t) => depth[t][c] = 0 /\ (owner[c] = t => c \in UserCS)
    /\ pc[t] \in CallPCs /\ crit[t] \in UserCS /\ c \notin UserCS => depth[t][c] = 0

\* The thread in the owner word is inside, on its way in, on its way out or ended.
OwnerAt(t, c) ==
    /\ depth[t][c] > 0 => Owns(t, c) /\ lockCount[c] = depth[t][c]
    /\ Owns(t, c) /\ depth[t][c] = 0 =>
          \/ Ended(t)
          \/ crit[t] = c /\ pc[t] \in EnterPCs \cup {"enterCount", "leave", "fault"}
    /\ MarkedBy(t, c) => Ended(t) \/ (crit[t] = c /\ pc[t] \in MarkPCs)
    /\ owner[c] = None => ~leaving[c]

\* Each point of a call about c may rely on this.
CallAt(t, c) ==
    crit[t] = c /\ pc[t] \in CallPCs =>
        /\ depth[t][c] = 0
        /\ pc[t] \in {"enterCount", "finalBoost", "leave"} => Owns(t, c)
        /\ pc[t] \in EnterPCs \cup {"leave"} /\ Owns(t, c) => lockCount[c] = 1
        /\ pc[t] \in MarkPCs /\ owner[c] = t => leaving[c] /\ lockCount[c] = 1
        /\ pc[t] = "leaveFast" /\ owner[c] = t => ~needtrap[c]
        /\ pc[t] = "leave" => bListed[c] = 2
        /\ pc[t] \in {"wake", "postUnlink"} => owner[c] # t

\* A thread that c was handed to has not run since, and c is not linked to it.
HandedAt(t, c) ==
    pLastCrit[t] = c =>
        /\ t # cur /\ crit[t] = c /\ pc[t] \in QueuedPCs
        /\ owner[c] = t => bListed[c] = 0

\* pOwnedList and bListed say the same.
ListAt(t, c) ==
    /\ c \in owned[t] => owner[c] = t /\ bListed[c] = 1 /\ needtrap[c]
    /\ bListed[c] = 1 => owner[c] # None /\ (owner[c] = t => c \in owned[t])

LocalInv(t, c) ==
    EndAt(t, c) /\ OwnerAt(t, c) /\ CallAt(t, c) /\ HandedAt(t, c) /\ ListAt(t, c)

\* The inductive invariant behind MutualExclusion, OwnedListExact and
\* LeaveAssertions.
IndInv == TypeOK /\ QueueInv /\ \A t \in Threads, c \in Crits : LocalInv(t, c)

----------------------------------------------------------------------------
(* Seen from the program, the critical sections are the locks of module    *)
(* Lock: the thread inside c is the one whose entries are not all left.    *)

Inside(c) == {t \in Threads : depth[t][c] > 0}
HolderOf(c) == IF Inside(c) = {} THEN None ELSE CHOOSE t \in Inside(c) : TRUE
CountOf(c) == IF Inside(c) = {} THEN 0 ELSE depth[HolderOf(c)][c]

L == INSTANCE Lock WITH holder <- [c \in Crits |-> HolderOf(c)],
                        count  <- [c \in Crits |-> CountOf(c)]
ImplementsLock == L!LockSpec

\* A thread that is dispatched again and again gets something done: each time it
\* has a quantum.  The program leaves what it has entered, a suspended thread is
\* resumed, the scheduler runs when it is asked to or when a quantum ends.
Progress(t) ==
    \/ EnterStep(t) \/ LeaveStep(t)
    \/ EnterCount(t) \/ LeaveTest(t) \/ LeaveFast(t)
    \/ \E c \in Crits : LeaveMark(t, c) \/ LeaveNested(t, c)

Fairness ==
    /\ WF_vars(\E expired \in BOOLEAN : KCNextThread(expired))
    /\ \A t \in Threads : SF_vars(Progress(t)) /\ WF_vars(ThreadResume(t))

FairSpec == Spec /\ Fairness

\* Whoever has trapped into the kernel to enter c comes back inside it.
EntersEventually ==
    \A t \in Threads, c \in Crits :
        (pc[t] = "waitConfig" /\ crit[t] = c) ~> (depth[t][c] > 0)

=============================================================================
