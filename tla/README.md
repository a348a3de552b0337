# Verification of the NK kernel of Windows Embedded CE 6

This directory holds TLA+ models of the synchronisation core of the repository and of the
lifetime of its objects, the TLC configurations that check them on small instances, and TLAPS proofs of the
properties that matter most for every instance. Paths below are relative to
`src/PRIVATE/WINCEOS/COREOS` unless they start with `src/`.

## 1. Inventory

The repository is the shared source of Windows Embedded CE 6 R3: the kernel and its
core libraries (`NK`, `CORE`), storage, device and network stacks, servers, shell,
DirectShow and test suites. The parts with the program's own concurrent logic, and the
part everything else stands on, are in `NK/KERNEL`. (Files named `*.KBnnnnnn` are older
versions of the files beside them and are not read.)

| Component | State | Operations | Interacts through |
|---|---|---|---|
| Critical sections: `CORE/DLL/cscode.c`, `NK/KERNEL/syncobj.c`, `kcalls.c` | user: `OwnerThread` (low bit: being left), `LockCount`, `needtrap`; kernel `CRIT`: queue of proxies, `bListed`, `bListedPrio`; thread: `pLastCrit`, `pOwnedList` | Enter, TryEnter, Leave; CRITEnter, CRITLeave and their kernel calls; CRITCreate, CRITDelete | scheduler (block, MakeRun, boost), thread exit (release) |
| Scheduler: `kcalls.c`, `schedule.c` | `RunList` (running thread, run queue with hash), reschedule flag, base and current priority, quantum | MakeRun, RunqDequeue, KCNextThread, SetThreadBasePrio, ThreadYield, ThreadSuspend/Resume | every blocking primitive |
| Sleep list and timers: `kcalls.c` | `SleepList` sorted by wake-up time, with threads of one wake-up time hanging below | ThreadSleep, SleepqDequeue, NextThread | scheduler, waits with timeout |
| Wait objects: `schedule.c`, `syncobj.c`, `kcalls.c` | events, semaphores, mutexes with 2-d proxy queues; per-thread proxies and clean event, `bWaitState`, `wCount` | WaitForMultipleObjects (WaitConfig, the crab of WaitOneMore calls), EventModify, semaphore add, mutex leave | scheduler, sleep list, priority inheritance |
| Interrupt events: `intrapi.c` | `PendEvents` words, table of interrupt events | InterruptInitialize, -Disable, -Done, NextThread | wait objects |
| Thread termination: `thread.c`, `kcalls.c`, `apicall.c` | dying, dead, buried flags; run state | SetThreadToDie, KillOneThread, DelaySuspendOrTerminate, RemoveThreadFromProc, FinalRemoveThread | critical sections, mutexes, waits |
| Handles: `handle.c` | per-process tables; `HDATA` with handle count and lock count, names | HNDLCreateHandle, -CreateNamedHandle, -Lock/UnlockHandleData, -CloseHandle, -Duplicate | every kernel object |
| Message queues: `NK/MSGQUEUE/msgqueue.c` | message and free lists, reader/writer events, reference counts | open, read, write, close | events, handles |
| Watchdogs: `watchdog.c` | list of timers by expiry | create, start, refresh, stop, the watchdog thread | events, processes |
| Page pools, physical memory: `pgpool.c`, `physmem.c` | free pages, pool sizes, trim thread | get, free, trim | virtual memory, loader |
| Virtual memory, mapped files, loader, heaps | page tables, views, modules | map, fault, flush | page pools, file systems |
| Byte-range locks: `STORAGE/LOCKMGR` | lock lists by file | lock, unlock, test | file systems |
| Everything else (file systems, device manager, servers, shell, DirectShow, tests) | | | through the primitives above |

What is hard here is interleaving. A kernel call (`KCall`) runs to its end without
preemption; a system service is several kernel calls with preemption between any two, so
that each must cope with what happened since the previous one. On top of that, critical
sections are entered and left by plain user instructions, threads are terminated in the
middle of a wait, a section can be stolen back from a waiter it was handed to, and
priorities are inherited through lists that other threads edit.

What makes each component correct:

- critical sections: exclusion and the recursion count; no waiter lost; exact owned
  lists; inherited priority; no thread blocked on a section nobody will release;
- scheduler: the most urgent runnable thread runs; queues sorted, with each runnable
  thread in them once; equals take turns;
- wait objects: a signal satisfies exactly the waits it should, once; a wait that times
  out consumes nothing; no entry of a finished wait stays in a queue (the code refuses
  to wait for all objects of a list, `schedule.c`, NKWaitForMultipleObjects);
- termination: everything owned is released once, nothing is released for a thread
  that is gone;
- handles: an object is destroyed exactly once, after its last handle and last lock;
- message queues: messages are neither lost nor duplicated, a reader is not left asleep
  with a message in the queue.

## 2. Plan

| Step | Modules | Status |
|---|---|---|
| 1 | `CritSect` over the abstract `Lock`: critical sections with the scheduler and termination | done |
| 2 | `CritMutexProofs` (types, exclusion, owned lists, assertions of the release, refinement of `Lock`), `CritWaitProofs` (waiters, steals, no circular wait, the run queue) | done |
| 3 | `PrioQueue`: the 2-d list with its hash (PrioEnqueue, DequeuePrioProxy, and the same code in the run queue and the owned list) refines the sequence of `PrioSeq` that `CritSect` uses | done |
| 4 | `WaitObjects` over the abstract `WaitService`: events, semaphores, mutexes and threads, DoWaitForObjects with timeouts and termination | done |
| 5 | `SleepList`: the list of sleepers, the search for a place in it, the timer, suspension and changes of priority | done |
| 6 | `Handles`: tables, names, both counts of an HDATA, and who frees it | done |
| 7 | `HandlesProofs`: the counts are exact, nothing held is freed, the pre-close method runs once, for any numbers of threads, processes and objects | done |
| 8 | `MsgQueue`: both ends, messages copied under the lock and outside of it, closing; `MsgQueueProofs`: every invariant of the run | done |
| 9 | `WaitProofs`: the safety properties of `WaitObjects` for any threads and objects | done |
| 10 | proof: `WaitObjects` implements `WaitService` | done |
| 11 | `SleepProofs`: every invariant of `SleepList`, the two about priorities while one thread's priority changes | done |
| 12 | `PrioQueueProofs`: the pointers of `PrioQueue` implement `PrioFifo`, and the hash is exact | done |
| 13 | `Watchdog`: the sorted list of timers and the thread that fires them; page pools and their trim threads | planned |

Each module keeps the shape of the first: parameters as CONSTANTS with a named
assumption, one action per kernel call, invariants as conjunctions of named parts, no
RECURSIVE operator, so that TLC and TLAPS read the same text. Instances stay at two or
three threads and one or two objects; time and counts are bounded by named constants.

## 3. Critical sections: modules `Lock`, `CritSect`

`Lock` says what a program may rely on: recursive locks, each held by one thread at a
time, ended only by the holder leaving or dying.

`CritSect` models the code that keeps the promise. Its state follows the structures of the
code, one variable per field that matters:

| Variable | Field |
|---|---|
| `owner`, `leaving` | `OwnerThread` and its low bit |
| `lockCount`, `needtrap` | the other words of `CRITICAL_SECTION` |
| `proxies`, `bListed`, `listedPrio` | `CRIT.pProxList`, `bListed`, `bListedPrio` |
| `bprio`, `cprio`, `noPrioCalc`, `owned`, `pLastCrit` | priorities, NOPRIOCALC, `pOwnedList`, `pLastCrit` of a thread |
| `waitstate`, `lpProxy`, `stale`, `proxPrio` | `bWaitState`, `lpProxy`, "`wCount` has moved on since the proxy copied it", the proxy's priority |
| `life`, `killed` | dying, dead, buried, gone; the wake-up KillOneThread still owes |
| `cur`, `runq`, `resched`, `runstate` | `RunList.pth`, the run queue, the reschedule flag, RUNSTATE |
| `pc`, `crit`, `critMut`, `bRetry`, `toWake` | where each thread is and its locals |
| `depth` | the program's own idea of how often it is inside |

An action is one kernel call, or one user instruction that touches shared words
(`cscode.c` reads `OwnerThread` and `needtrap` and compare-exchanges the owner in separate
instructions). Only the thread in `cur` acts, and only while no reschedule is pending:
that is the single processor of the code. `KCNextThread` then runs and may put any thread
aside between any two actions. The parameter `expired` is the outcome of the quantum
computation. Two-dimensional lists with hashes are sequences sorted by priority, and first
come first served within one.

How the actions follow the code:

- `EnterOwned`, `EnterFree`, `EnterCount`, `EnterTrap`: `EnterCriticalSection`; the guard
  `CanTakeCS` is the order of `csarray` that kernel code keeps. `Calls` keeps threads that
  hold a kernel section out of user code, and dying threads out of it too.
- `WaitConfig`, `CSWaitAbort/Take/Steal/Pend` (the outcomes of `CSWaitPart1`),
  `LaterLinkCritMut`, `PostBoostCrit1`, `PostBoostCrit2`, `CSWaitSignalled/Terminated/Block`
  (of `CSWaitPart2`), `DequeuePrioProxy`, `DoReprioCrit`, `LoopTest`, `CritFinalBoost`:
  `CRITEnter`.
- `LeaveNested`, `LeaveMark`, `LeaveTest`, `LeaveFast`: `LeaveCriticalSection`;
  `PreLeaveCrit`, `LeaveCritFree/Stale/HandOver`, `WakeNewOwner`, `PostUnlinkCritMut`:
  `CRITLeave`.
- `KillRunnable`, `KillBlocked`, `KillLater`: the cases of `SetThreadToDie`; `MakeKilledRun`
  is the separate kernel call after it. KillOneThread also gives the victim the killer's
  priority; that kernel call is `SetThreadBasePrio` with any priority of `Prios`.
- `ExitThread`, `ReleaseOwned`, `Bury`, `FinalRemoveThread`: the end of a thread.
- `OwnerGoneFault`: a kernel call that follows the pointer of a thread that no longer
  exists. After it nothing moves; what the other properties say is about executions
  without it, and `NoFault` says it should not happen.

Left out of this component: `TryEnterCriticalSection`, `CRITDelete` and deletion while
waiters exist; mutexes (they share the owned list; section 6);
suspension of one thread by another; the out-of-memory priority cap in `KCNextThread`;
threads inside a server call (PSL), which are never terminated on the spot.

### Runs

Two or three threads, one or two sections. Three threads are what a hand-over with a
queue behind it and a thief needs, two sections what nesting and ordering need; entries
nest to `MaxDepth` 1 or 2. Priorities are 0 to 2.

| Run | Instance | Properties | Shows |
|---|---|---|---|
| `contend` | three threads of three priorities and a user section; t1 suspends itself anywhere, t2 may exit or be terminated anywhere | `IndInv` (with it `TypeOK`, `MutualExclusion`, `LeaveAssertions`), `WaitersFound` (`NoLostWaiter`, `BlockedIsQueued`, `QueuesSound`), `StealAssertions`, `ListedPrioCurrent` | steal, hand-over, take-over, fast path, preemption and termination never share a section nor lose a wake-up; what a dead thread leaves behind is consistent; the DEBUGCHKs of `LeaveCrit` and of the steal hold; the inductive invariant of the proofs holds |
| `nested` | two threads, two kernel sections in `csarray` order, recursive entries, base priorities changed at any time | `MutualExclusion`, `OwnedListExact`, `NoCircularWait`, `HighestPriorityRuns`, `ImplementsLock` | owned lists are exact, kernel order excludes deadlock, the processor is where strict priority says between kernel calls, `CritSect` implements `Lock` |
| `live` | two equal threads, fairness | `EntersEventually` | a trapped entry ends inside the section |
| `owner_buried` | two equal threads, both may end anywhere | `BuriedOwnsNothingWanted` | a disagreement between the code and what it says of itself, below |

Runs with a thread that can end switch deadlock checking off: when every thread is gone or
waits for a thread that died in user code with a section (which the code allows for a
section without a trap pending only until somebody tries it), the system may stop. All
the others check deadlock.

Fairness in `live`: weak fairness of `KCNextThread` (the reschedule flag is polled on the
way out of every kernel call, and the tick ends each quantum), strong fairness of each
thread's progress (a thread dispatched again and again has a quantum each time and
executes instructions; it is not continuously running, so weak fairness would say
nothing), weak fairness of `ThreadResume` (whoever suspends a thread resumes it). Programs
leave what they have entered. Threads have equal priority: between unequal ones the code
promises nothing, as a runnable urgent thread starves the others.

### What the code does otherwise than it says

1. `NoFault`: a waiter is preempted between `CSWaitPart1` and `PostBoostCrit2` or
   `CSWaitPart2`; the owner has no listed section, so its exit does not release anything,
   and it is removed; the waiter then looks it up and gets NULL (`DEBUGCHK(pth)`,
   `kcalls.c:1752`, `2599`).
2. `BuriedOwnsNothingWanted` (run `owner_buried`): in the same window the owner is already
   buried when the waiter comes back. `LinkCritMut` refuses to link a user section to a
   buried thread, and the waiter blocks on a section that nobody releases, against the
   comment of `thread.c:232`.
3. `PriorityInherited`: the owner is boosted by `PostBoostCrit2` and dispatched before the waiter
   links the section in `CSWaitPart2`; dispatch recomputes its priority without the
   section and drops the boost, so a waiter blocks on a less urgent owner.

TLC finds `NoFault` violated with the constants of `owner_buried`, and
`PriorityInherited` with three threads of priorities 0, 1, 2 that may all suspend themselves
and one kernel section; the project keeps one run of the three.

One more: a terminated waiter leaves `needtrap` set on an empty
queue, so that a thread that then steals the section meets `DEBUGCHK(!lpcs->needtrap)`
(`kcalls.c:2534`). The model lets it happen; the next release finds the queue empty, and
the properties of `contend` hold all the same.

## 4. Proofs about critical sections

`PrioSeqProofs` has the lemmas on the operators of `PrioSeq` that the proofs about critical
sections, wait objects, sleepers and the priority lists rest on: where `Enqueue` puts an entry (`EnqueueAt`,
from `LeastElement` and `Insertion`), that it, `Append`, `Dequeue` and `Tail` keep the order
and that entries are distinct, and who is in the queue afterwards.

`CritMutexProofs` proves `TypeCorrect`, that every variable keeps its type: `HeadPrio` and
`InheritedPrio` are priorities, then one lemma per action.

It then proves `MutualExclusionHolds`, `OwnedListExactHolds` and
`LeaveAssertionsHold` for any set of threads, sections and priorities. `MutualExclusion`
alone is not inductive. That `depth[t][c] > 0` implies ownership survives a steal only
because a thread marked in `pLastCrit` has not run since the hand-over (`HandedAt`); it
survives a take-over by the four conditions of `CSWaitPart1` only because a thread that
has ended holds nothing it uses (`EndAt`), and a marked owner word always belongs to a
thread on its way out (`OwnerAt`, `CallAt`); the release finds the section on the right
list because of `ListAt`; and a hand-over goes to a thread that is still waiting because a
queued proxy belongs to a thread inside `CRITEnter` for that section (`QueueInv`). The
invariant `IndInv` is the types, `QueueInv`, and `LocalInv(t, c)` for every thread and
section. It speaks of one thread and one section at a time, so each action's lemma first
states what the action does to the pair `(t, c)` it is about, then to any other pair, and
then has one step for each of the five parts of `LocalInv` and one for `QueueInv`.
`Invariance` puts the lemmas together; the three theorems follow from the parts.

Assumed: `ConstAssumption` only (sections and threads are sets, `None` is neither, priorities
are bounded naturals, `MaxDepth` is positive); nothing is assumed finite.

The same module proves `LockImplemented`, that `CritSect` refines `Lock` under the mapping
of section 3. By `MutualExclusion` at most one thread is inside a section, so the mapped
holder is that thread (`HolderIs`). `StepEntries` says that a step changes the entries in one
of five ways: not at all, by a first entry into a section nobody is inside, by one entry more
or one less of the thread inside, or by a thread giving all of its sections up at once; the
first case of entry needs `OwnerAt`, that a thread owning a section it has not yet entered is
alone with it. Each of the five is a step of `Lock` or a stutter.

`CritWaitProofs` proves the remaining safety properties of the runs: `WaitersFound`
(`NoWaiterIsLost`), `StealAssertions`, `ListedPrioCurrent`, `NoCircularWait` and
`HighestPriorityRuns`. All five rest on a second invariant, `WaitInv`, kept by every step
that starts in `IndInv`:

- `RunQueue`, `HeadRuns`, `RunningAt`: the run queue is ordered and exact, and a step that
  changes a priority or a queue either keeps the running thread ahead of the head or sets
  the reschedule flag (`MadeRun`, `BoostDispatched`, `SameQueue`, `NextThreadStep`).
- `WaitsAt`: what the wait state of a thread may be at each point of `CRITEnter`. A hand-over
  may come between any two of its kernel calls; the kernel calls look at `bWaitState` again,
  so a thread blocks only while its proxy is queued and current.
- `NotMine`: a thread enters only sections it does not own, and while its proxy is queued and
  current somebody else owns the section. The release along the fast path clears the owner
  only if `needtrap` was clear after the owner word was marked (`CallAt`), and `ProxiesAt`
  says that a queue that is not empty has set it.
- `ProxiesAt`: queues are ordered. `EnqueueAt` says where an entry goes, and from it
  `EnqueueQueue`, `EnqueueHead` and `EnqueueOrder` that it is the only change, whether the
  head changes, and that the order is kept; `DequeueOrder` and `TailOrder` are their
  counterparts. That `WaitConfig` overwrites the priority of a proxy is harmless because the
  thread is in no queue then.
- `ListedAt`: `bListedPrio` is the priority of the head, unless a thread is at the kernel call
  that will sort the section anew (`Resorts`).
- `InOrder`: a thread enters in the order of `csarray`. A circle of waiters would have one
  whose section comes first in that order; the owner of that section would be waiting for an
  earlier one.
- `HandedOver`: the wait of a thread marked in `pLastCrit` is over.

Model-checked only: the liveness property `EntersEventually` (liveness under fairness is out of
the prover's reach). `PriorityInherited` and `BuriedOwnsNothingWanted` are what the code does
not keep: section 3 says how.

## 5. Priority lists: modules `PrioSeq`, `PrioFifo`, `PrioQueue`, `PrioQueueProofs`

Waiters of an object, runnable threads and the sections a thread owns hang in the same
structure, whose code is repeated with other field names: along the top one entry per
priority (`prev`, `next`), below each a ring of its equals (`up`, `down`), and a hash from
priority bucket to the first entry of the bucket. `PrioSeq` has what the structure means,
a sequence; `PrioFifo` is a queue in those terms; `PrioQueue` has the pointers, one operator
per splice and one action per function. `PrioEnqueue` searches with `>`, the other
insertions with `>=`; both are kept. `PutBack` and `PutBackEqual` are the two ways in which
`KCNextThread` puts the running thread back.

The fields of an entry that has left are cleared in the model. The code leaves most of them
as they are; `CRITEnter` zeroes those of a proxy before it is queued again
(`syncobj.c:953`), and the run queue and the owned list set all of them on insertion.

| Run | Properties | Shows |
|---|---|---|
| `queue` | `ImplementsFifo`, `SplicesMatch`, `LinksExact` (`HashExact`, `ReturnsHeadAlone`) | each insertion, put-back and removal is the abstract action of its name; what `DequeuePrioProxy` returns is "the best priority changed" |

One list takes the operations of all three kinds, `PrioEnqueue` of the proxies, `Insert` of
the run queue and the owned lists and the put-backs of the run queue: its states include
those of each kind. Four entries, six priorities in three buckets of two: enough for a full
ring beside other rings, two rings in one bucket, and an empty bucket between two full ones
(with two buckets only, a wrong hash entry of the first is never read).

The refinement mapping is `Entries`: what a reader meets who starts at `list` and goes on with
`Follow`, down the ring and from its bottom to the next along the top, as many steps as there
are entries with a ring.

`PrioQueueProofs` proves all three properties for any set of entries, any priorities and any
scale of the hash: `LinksAreExact`, `SplicesAreSteps`, `ListsAreQueues`. None of them is
inductive: what a splice does depends on the pointers of entries it does not touch and on the
hash having led the search to a top entry no worse than the place it looks for. The inductive
invariant `Linked` says of every entry's pointers what they are in the queue `q` that the
readers meet (`LinkedAs(q)`):

- `QueueOK`: `q` holds no entry twice and is in the order of the priorities; an entry that is
  out has `Lowest`;
- `RingsOK`: `up` and `down` are inverse to each other, and the entry below is the very next of
  `q`, or, from the last of a priority, its first;
- `TopsOK`: `next` and `prev` link the first of each priority with that of the next better and
  worse one, with no priority of the queue in between, and nothing else has them;
- `HashOK`: a bucket has its first entry, and is empty only if none falls in it.

The proof avoids positions in the queue. `Joins` and `Leaves` say who comes before whom after an
insertion and a removal (`InsertJoins`, `DequeueLeaves`); `EnterPlaces` and `LeavePlaces`, who
then is the first and the last of a priority and the neighbour of whom; and each splice
has a lemma on those terms: `HeadLinked`, `BeforeLinked`, `AfterLinked`, `BelowLinked`,
`OnTopLinked` for what enters, `TopLeaves`, `RingLeaves`, `RingCloses`, `TopBelow` and
`HashLeft` for what leaves. `StartsAtTop` shows that the hash never leads the search past its
place, `WalkExists` that the search ends (the tops get worse along `next`, which bounds it), and
`LastBetterArrives` and `LastNotWorseArrives` where. `EntriesAre` closes the circle: if
the pointers are those of `q`, a reader meets exactly `q`. Only `QueueAssumption` is assumed.

## 6. Wait objects: modules `WaitService`, `WaitObjects`

`WaitService` says what a program may rely on: a wait ends with one object of its list,
whose signal it has used up, or without effect; a pulse of a manual event releases all who
wait at that moment (`released`), even if they come to run only after a reset.

`WaitObjects` models the calls. `DoWaitForObjects` is `WaitConfig`, then one action per
`WaitOneMore` (`WaitSignalled`, `WaitTerminated`, `WaitOk`, `WaitBad`, `WaitEnqueue`,
`WaitBlock`, `WaitTimeout` are its outcomes), the link or boost of a mutex, `Resume` after
the blocking call, and `DequeueProxy` until `WaitReturn`. `ForceEventModify`, `SEMRelease`
and `MUTXRelease` are one action per kernel call, each followed by `Wake`, the
`MakeRunIfNeeded` of the thread it found. Any runnable thread may make the next kernel
call: which one has the processor is the subject of `CritSect`.

| Variable | Field |
|---|---|
| `state`, `lCount`, `lPending`, `pOwner`, `LockCount` | of EVENT, SEMAPHORE, MUTEX |
| `queue`, `stub` | `pProxList` of an object, and of the stub event a manual event's waiters move to |
| `listed` | the thread whose `pOwnedList` has the mutex (`bListed`) |
| `current` | the `wCount` of the thread is still the one its proxies have copied |
| `lpPendProxy`, `lpProxy`, `base` | the lists of proxies to process, processed, and to take off in the end |
| `bWaitState`, `dwPendReturn`, `retval`, `needsleep`, `sleeping`, `runstate` | of THREAD |
| `pc`, `obj`, `type`, `remain`, `toWake`, `waits`, `timeout` | where a thread is and its locals |
| `granted` | history: what ended the wait |

A wait for an interrupt event has no clean-up record (`lpce` is NULL, `HasClean`): whoever
ends it takes its proxy off. `Interrupt` is what `NextThread` does for a pending interrupt,
`TimerFires` what it, or `RunqDequeue`, does for a thread whose time has come. `Reprio` is
the part of `BoostCPrio` and `SetThreadBasePrio` that concerns a thread in the sleep list:
it is made runnable to find a new place there. Termination is as in `CritSect`.

In the refinement the count of a semaphore is `lCount + lPending`, since a release takes
effect with `SemAdd`; a thread waits while `current` holds; `released` are the current
waiters in stub events.

| Run | Instance | Shows |
|---|---|---|
| `wait_signals` | t1 waits for a manual event or a semaphore, t2 for the manual and an auto-reset event or for the semaphore, all with a timeout; t2 and t3 set, pulse, reset and release | each signal ends the waits it must, once, and none is missed; stub events and waiters that leave by themselves keep no proxy; overlapping releases; the result is what ended the wait |
| `wait_ends` | a mutex that t1 and t2 may take twice, t2 may end anywhere, t3 waits for t2 or the mutex; t1 waits for an interrupt event without timeout, t3 polls and sets it | one owner, the mutex on its list, the assertion of `PostBoostMut`; all are woken before a thread is gone; interrupts and SetEvent end a wait once |
| `wait_live` | two threads of one priority, an event and a mutex, one thread ends | ended waits and timed waits return |

`wait_signals` checks `CountsSound` (`TypeOK`, `PendingExact`), `WaitersQueued`
(`NoLostWaiter`, `BlockedIsQueued`, `NobodyWaitsForGone`), `EndsCleanly` (`ReturnsGranted`,
`NoProxyLeft`), `BlockedNotRunnable` and `ImplementsService`; `wait_ends` `WaitersQueued`,
`MutexSound` (`MutexListed`, `NoMutexBuried`, `BoostFindsOwner`), `IntrProxyCurrent` and
`ImplementsService`; `wait_live` `EndedReturns` and `TimeoutReturns`.

Three threads are a waiter, another that competes with it and a signaller; a second
signaller is needed for overlapping releases, which also take a semaphore of 2. One object
beside another is what lets a wait end for a reason that leaves proxies elsewhere. Two
concurrent setters of one manual event (two stub events at once) are left out of the runs:
they multiply the states of `wait_signals` past what is practical. The runs with mutexes, or
with threads that end, switch deadlock checking off: two threads may each own the mutex the
other waits for, nobody releases what a program keeps, and all threads may be gone.

Fairness in `wait_live`: weak fairness of a call's next step (the threads have equal
priority and take turns), of the wake-up KillOneThread still owes, and of releasing what
a dead thread owned; strong fairness of the end of a timeout, since `dwPendWakeup` is fixed when
the wait begins and time passes however often the thread is put back to sleep. Nobody
is assumed to signal anything.

What the code does otherwise than it says:

4. `IntrProxyCurrent`: a timed wait for an interrupt event whose time is over before it blocks (it
   was preempted between two kernel calls for that long), or which finds itself
   terminated, leaves by `exitfunc` of `WaitOneMore`. That clears `lpProxy` and, without
   an `lpce`, records nothing to take off: the proxy, on the stack of a frame that
   has been left, stays in the event's queue (`DEBUGCHK(pth->lpProxy == pprox)`,
   `kcalls.c:1116`).
5. `BlockedNotRunnable`: `SetThreadBasePrio` does not set `bWaitState` back for a wait without
   `lpce`, as `BoostCPrio` does. An interrupt before the thread has run again makes it
   runnable twice (`DEBUGCHK(GET_RUNSTATE(pth) != RUNSTATE_RUNNABLE)`, `kcalls.c:1120`), and
   the thread sleeps on.

TLC finds both with two threads of one priority, an interrupt event, a timed wait of one and a
`SetEvent` of the other. Because of them
the waits of `wait_ends` for the interrupt event have no timeout other than zero, and the
threads that make them are not terminated. Left out of the module: priority inheritance
through mutexes (the boost and the sorting of the owned list; `CritSect` has the same code
for critical sections), creation, naming and deletion of objects (section 8 has them for any
object), process events, `EventModify` failing for lack of memory for the stub event, and
`wCount` wrapping around.

`WaitProofs` proves for any threads and objects what the runs check of the safety of waits:
`NobodyWaitsInVain` (`WaitersQueued`), `WaitsEndCleanly` (`EndsCleanly`), `CountsAreSound`,
`MutexesAreSound`, `BlockedDoesNotRun` and `IntrProxyIsCurrent`. Each has the hypothesis
`PlainIntrWaits`: a wait for an interrupt event polls, or it has no timeout and its thread is
not terminated. Findings 4 and 5 are what happens otherwise; waits for anything else are
not restricted. Beyond that only `WaitAssumption` is assumed: objects are of one kind each,
threads finite in number (for `PendingExact`, a sum over them), waits not empty and
without repetition, and an interrupt event is waited for alone (`DoWaitForObjects` refuses
any other wait for one before it has changed anything).

The inductive invariant `IInv` has a part per actor. Of a thread: where it is in its life and
in a call (`LifeOK`, `CallOK`), what its wait is (`WaitOK`), how `lpPendProxy` and `lpProxy`
divide up the objects it waits for (`ListsOK`), when it does not run (`RunOK`), and where the
result is (`StateOK`). Of a thread and an object: a proxy in the queue or in a stub event is
listed by its thread, in `lpProxy` while the wait is current or in `base` when it has ended,
and while it is current the converse holds (`PlaceOK`); from this follow both `NoProxyLeft`
and `BlockedIsQueued`. Of an object: nobody waits for what is there (`EventOK`,
`SemaphoreOK`, `ThreadOK`), one thread at most waits for an interrupt (`IntrOK`), and a mutex
is listed by its owner unless that is about to list it or to give it up (`MutexOK`).

Most steps disturb few of these. `ReleaseEffect` and `InterruptEffect` say that the six kernel
calls that take a waiter off an object, and an interrupt, either end one wait, of a thread that
is in it, or none; `EndsEffect` that a thread whose wait ends otherwise lists its proxies in
`base`; `EnqueueEffect`, `DequeueEffect` and `StubTakes` say where proxies move. The lemmas
named `...Step` then keep one part each. That an object gets a signal only when its queue is
empty is `EventFilled`, `CountFilled` and `MutexFreed`; `QueuedBefore` and `WaiterBefore` say
that only `WaitEnqueue` puts a thread into a queue, which has just looked at the object.
`PendingMoves` is the arithmetic of `PendingExact`.

`ServiceImplemented` proves that `WaitObjects` implements `WaitService` (`ImplementsService`).
The mapping reads the objects as they are, except that units of a semaphore that a release
still owes count as released (`Count`), and that a wait is over when `wCount` moves on,
whatever its thread still has to do (`Waiting`). Then every kernel call is one step of the
service or none (`ServiceStep`): the end of a wait is `Decide` with the result in `granted`
(`Decides`), whether the thread finds the object itself (`WaitOkSeen`), gives up (`EndsSeen`)
or is served by a release (`AutoSeen`, `FlatSeen`, `SemSeen`, `LeaveSeen`, `ExitSeen`) or an
interrupt (`InterruptSeen`). The service needs two facts more (`ServiceInv`): a thread outside
a wait has no result left over, and whoever gives up a mutex holds it once or has exited.
That a hand-over never uses a signal that is there as well is `EventOK`.

Model-checked only: `EndedReturns` and `TimeoutReturns` (liveness).

## 7. Sleeping: modules `SleepList`, `SleepProofs`

`WaitObjects` says of a timed wait that its time may come at any moment. `SleepList` has the
structure behind it: `SleepList` of the code is a list of columns by wake-up time, a column
holds the sleepers of one time by priority, and a thread searches its place one step per
kernel call, while others leave, arrive and change priority. When the time of a column has
come the timer makes its top runnable and nothing else; the rest hangs below it in the run
queue, and `RunqDequeue` lets the next one go when the one above leaves.

| Variable | Field |
|---|---|
| `top`, `tail` | `SleepList` along `pNextSleepRun`; the rest of each column along `pDownSleep` |
| `runq`, `runth`, `resched`, `state` | `RunList.pRunnable`, `RunList.pth`, the reschedule flag, RUNSTATE |
| `CurMSec`, `dwReschedTime` | the clock, and the time for which the timer is programmed |
| `cprio`, `bprio`, `needSleep`, `suspended` | priorities, NEEDSLEEP, `bSuspendCnt` |
| `crab` | the `sleeper_t` of a search: `pth`, whether its `wCount2` is still the same, `wDirection`, `dwWakeupTime` |
| `pc`, `target` | in a search, asleep, or about to make runnable a thread it has marked |

`SleepSearch` and `SleepPlace` are what one call of `SleepOneMore` may do; `SleepNot` is a call
that ends without it, because it is time already, or because the thread is to die or has been
signalled while it was in no list: still searching, suspended, or about to go back
(`kcalls.c:2177`, `2226`). A signal to such a thread only sets its wait state, so it has no
action of its own, and any call may end so.
`SleepqDequeue` and the operators around `Released` are the functions of those names, and
every action that takes a thread out of the run queue includes them. `NextThread` is one
interrupt: with the clock moved on (`Tick`) or not. `KCNextThread` is dispatch. Clock values
have `2 * Half` values and are compared by the sign of their difference, so the instance,
with a clock of eight values, wraps around many times.

Run `sleep`: t1, the most urgent, sleeps, wakes the others, and suspends t3 or changes its
priority; t2 and t3, of equal priority, sleep. Sleeps last one or two ticks and the timer is
at most one tick late, so that two columns, a column of two, one that is due behind one that
is not taken off yet, and a search in each of them all occur. Two states that differ only by
where the clock stands count as one (`VIEW`): nothing in the module looks at a clock value
but through `Diff` with another.

| Property | What it says |
|---|---|
| `ListsSound` | no thread is lost between the lists or in two of them, and what hangs below a thread will be let go (with `TypeOK`) |
| `SleepOrdered` | columns in order of time, threads of a column in order of priority (the DEBUGCHKs of `kcalls.c:232` and `:414`) |
| `MostUrgentRuns` | no runnable thread is more urgent than the running one, nor is one whose time has come and that hangs below a runnable one |
| `OnTime` | the timer is never programmed too late for the first sleeper, and no thread comes off with a column before its time |
| `DueLeaves` | a column whose time has come leaves the list |

Fairness: weak fairness of `Interrupt` alone. The system tick is programmed at every
dispatch, and whatever threads do, an interrupt comes.

What the code does otherwise than it says:

6. `BoostCPrio` and `SetThreadBasePrio` raise the priority of a sleeper below the top of a
   column and leave it where it is if a waker has marked it NEEDSRUN. Until the waker's next
   kernel call the column is out of order, and `RunqDequeue` meets its DEBUGCHK
   (`kcalls.c:233`) if the column's time comes in between. `SleepOrdered` leaves the marked
   ones out. That is enough as long as one thread's priority changes. With two it is not:
   sleepers a and b, both of priority 1, share a column; b is marked, and its waker preempted; a
   search of s stands on b when b is raised to 0 and s to 0 as well. `SleepOneMore` compares s
   with b only (`kcalls.c:418`), s is not more urgent and goes below it, and when the waker
   takes b out, s hangs below a, which is less urgent. The same DEBUGCHK is the one that
   complains, and s, once its time has come, waits for a to be dispatched. `SleepOrdered` and
   `MostUrgentRuns` are therefore claimed, and proved, while one thread's priority changes, as
   in the run's instance; that the times are in order (`InOrderOfTime`) holds whoever changes.

Two consequences of the code that are not errors, but worth knowing: the timer takes off one
column per interrupt, so that after a late interrupt a second column waits for the next; and
when the top of a column is marked NEEDSRUN at the moment its time comes, the timer takes the
column off without making anything runnable, and all below wait for the waker to get the
processor. Left out: the out-of-memory priority cap of `KCNextThread`, suspension of a thread
inside the kernel (which happens later), and `wCount2` wrapping around (16 bits).

`SleepProofs` proves for any finite set of threads, any priorities, times, clock width and
lateness of the timer (the first two results whoever changes priorities):

- `ListsAreSound`: `ListsSound`. The inductive invariant `ListsInv` adds what a thread's place
  is in each run state (`PlaceOK`), that a thread in a column is in one place only and has
  nothing below itself (`ColumnsOK`), and that a search nobody has disturbed stands on a sleeper
  of the kind it looks for (`SearchOK`): without that `SleepPlace` would have no place to put the
  thread. `SleeperOut`, `TailsParted`, `PutBelow`, `PutOnTop` and `PutBetween` are what the
  splices of the lists do, `FirstOff` what the timer does.
- `SleepersOnTime`: `OnTime`; `ListInOrderOfTime`: `InOrderOfTime`, the first half of
  `SleepOrdered`. Clock values only tell the order of times that are less than half the clock
  apart, so the invariant `TimesInv` speaks of ages, how long ago a thread was to wake up:
  those of sleepers and searches lie between `MaxLate + 1 - Half` and `MaxLate` (`AgesOK`;
  `AgeDiff` and `LeftDiff` give the differences of the code from them). A search has passed only earlier
  times (`SearchTimeOK`), the timer goes off no later than the first column is due (`TimerOK`,
  in terms of ages while no reschedule is pending, of the difference while one is), and what
  hangs below a thread off the list has come of age (`OffOK`).
- `ListInOrder`: `SleepOrdered`; `UrgentRuns`: `MostUrgentRuns`; both under the hypothesis
  `OneChanges`, that the priority of one thread at most changes, without which note 6 shows
  them false. (That hypothesis leaves any number of threads, of any priorities, and the one
  that changes may do so at any time, asleep, marked or searching.) The inductive invariant is
  `OrderInv`. `ColumnsInOrder` is more than the property: nobody hangs above a more urgent
  thread even if one of the two is marked NEEDSRUN, but for the thread that changes while it is
  marked (`Loose`); the property alone is not kept, as a search compares itself with the marked
  threads too, and knows only through them who is above. `SearchPrioOK` says that a search that goes down a column has nobody less urgent
  behind it, nor at the thread it stands on, unless the searching thread's own priority
  changes, and then `SleepOneMore` compares it with the one it stands on, whose column is in
  order because nobody else changes: this is where `OneChanges` is used (`PlaceOrder`).
  `RunqOK` orders the run queue and has the running thread lead it while no reschedule is
  pending. `OrderKept` carries the whole through every step that puts nobody above more threads
  than before; what is left are the steps that hang a thread in a column (`PlacedBelow`,
  `PlacedOnTop`), those of the search (`SearchOrder`), and dispatch (`KCNextThreadOrder`),
  where those that come in the place of the thread dispatched are no more urgent than it
  (`WokenBehind`).

For the rest only `SleepListAssumption` is assumed: a time slept and the lateness together stay below half
the clock, as does the lateness plus one; comparing by sign is wrong otherwise. The bound on the
lateness, in `Tick`, counts for sleepers and for threads on their way to a place alike.

Model-checked only: `DueLeaves` (liveness).

## 8. Handles: modules `Handles`, `HandlesProofs`

Every kernel object is known by an `HDATA` with two counts in one word: handles, and locks,
which calls in progress and the handles of an API set's objects hold. The object goes with
the last of both, by whichever thread drops it; its name goes with the last handle; its
pre-close method is called when the last handle goes before the last lock.

| Variable | Field |
|---|---|
| `table`, `tstate` | the handle table of each process; open, `fClosing`, deleted |
| `handles`, `locks` | the upper and the lower half of `dwRefCnt` |
| `life`, `nameList` | whether the HDATA is made, freed; `g_NameList` |
| `pc`, `phd`, `api`, `created` | where a call is, its `phd` and `phdAPISet`, whether it has made `phd` |
| `phds`, `prc`, `page` | what HNDLCloseAllHandles has taken, and where it is |
| `preClosed`, `tornDown`, `revived`, `leaked` | history |

An action is a stretch of code with one access to a count or a table: a region under `csHndl`
or `NameCS`, or one interlocked operation. `Lock`/`EndUse` stand for any call that takes a
handle; `Create` is HNDLCreateHandle and APISCreateAPIHandle; `OpenNamed`, `CreateNamed`,
`NamedEntry`, `NamedFail` and `Undo` are HNDLCreateNamedHandle and the cleaning up of its
caller; `Duplicate`, `DupRead`, `DupEntry`, `DupRefused`, `DupNoEntry` are HNDLDuplicate, which reads the
count before it locks the table and may refuse what has a handle again by then; `CheckCount`,
`MapView`, `DupWithHDATA` are the two ways of adding a handle to an HDATA one has locked; `Zap`
is HNDLZapHandle; `CloseAll`, `CloseNext`, `NextPage`, `DeleteTable` are HNDLCloseAllHandles and
HNDLDeleteHandleTable; `DropHandle`, `DropLock`, `PreClose`, `Free` are DoUnlockHDATA.

Run `handles`: two threads, a process with a table of two pages of one entry, an API set with
an object of it and a named object, or two objects of one name. One revival and one leaked
lock are allowed for each object (below). Two threads suffice for each race here: between
the one that drops a count and the one that takes one.

| Property | What it says |
|---|---|
| `CountsExact` | both counts are exactly the places that hold the object |
| `NoUseAfterFree` | what a table or a call holds is not freed; one thread frees |
| `NamesExact` | the name list holds exactly what can be opened, one of each name |
| `PreClosedOnce` | the pre-close method runs once, unless a handle was made after the last |
| `ClosedTableEmpty` | the table of an exiting process stays empty behind the page it has reached |
| `Reclaimed` | what nobody wants any more is freed |

Fairness, for `Reclaimed`: weak fairness of each step of a call that has begun. Threads in the
kernel are not terminated on the spot, and every thread gets the processor. Nobody is
assumed to close a handle.

### Proofs

`HandlesProofs` proves `TypesCorrect`, `CountsAreExact`, `NothingUsedIsFreed`, `NamesAreExact`,
`ExitedHoldsNothing` and `PreCloseRunsOnce` for any finite sets of threads and processes, any objects, table and
page sizes, and any classes and names, from `HandlesAssumption` alone: API sets, like all named
objects, are of a class of the kernel, as are objects that get handles by their HDATA, and so
have no API set of their own.

None of `CountsExact`, `NoUseAfterFree` and `TypeOK` is inductive alone. That a count does not
fall below zero, and that the thread that takes the last one may free, follows from the counts
being exact; and they are exact for an object that is made because nobody held it before,
which is `NoUseAfterFree` (only what is alive is held). What a call holds at each place of its
code is `CallsOK`; that a name in the list leads to an object with a handle is `NamedHeld`. `Core`
is the conjunction of the five. Counts are cardinalities: `CardinalityStep` says how the size
of a set changes with one member, `CountsByCall`, `CountsByEntry` and `CountsByTaken` apply it to a
step of a call, with or without an entry; `TakePageCounts` does the same for a page, whose
entries move from the table to the call. `NamesExact` and `Closing` (`ClosedTableEmpty`, and
that only one thread closes a table) are kept by steps that start in `Core`.

`PreClosedOnce` is not inductive either: between the last handle and the call of the pre-close
method lie several steps. `PreCloseCounted` says that the calls made and the calls some thread
is on its way to make (`Pending`) are together no more than what is due: one for an object
whose handles have gone, and one for each revival. Taking the last handle raises what is due
with the pending call; a revival is the only way to lower it again.

Model-checked only: the liveness property `Reclaimed`.

### What the code does otherwise than it says

7. `TornDownOnce`: if HNDLCreateNamedHandle makes an HDATA and finds no entry, dropping its
   only handle closes the object and frees it; the caller, `OpenOrCreateSyncObject`, then
   takes the object apart and frees it and its name again (`syncobj.c:384`).
8. HNDLDupWithHDATA, and DoLockHDATA for the view of a map, do not look whether the last handle
   has gone. A handle made then is closed in turn, and the pre-close method runs a second
   time: what HNDLDuplicate is careful to avoid (`handle.c:790`). `PreClosedOnce` counts such
   revivals (`revived`, at most `MaxRevived`).
9. HNDLDuplicate, refused by the count it has read, zaps the entry it has made and drops the
   locked HDATA that HNDLZapHandle returns: its lock, and the entry's count of the API set, are
   never released. The model counts them in `leaked` (at most `MaxLeaked`).

TLC finds `TornDownOnce` violated with the constants of `handles`. Two more places rest on
callers: when HNDLCreateNamedHandle fails on an existing object and drops what became the last
handle, the pre-close method runs with no lock held (`handle.c:319`), so the HDATA may be freed
meanwhile ("precloseU"; `NoUseAfterFree` says nothing of it); and the API set of a handle is
kept by the count of the handle's entry, released after the object's last lock only in
HNDLCloseHandle (`handle.c:678`), while a call that drops the last lock later closes its object
through an API set that may have gone.

## 9. Message queues: module `MsgQueue`

A queue has a reader end and a writer end, each an HDATA of an event; what happens to their
counts follows `Handles`. csLock is not kept as a variable: what runs under it is one action.
But a message above COPY_THRESHOLD is copied with the lock released, and `SetQEvent` for the
reader is called after the release.

| Variable | Field |
|---|---|
| `queue`, `pAlert`, `freeNodes`, `dwCurNumMsg` | `pHead` to `pTail`, the alert message, `pFreeList`, the count |
| `flags`, `invalid` | `dwFlags`: broken queues allowed, nodes not pre-committed; MSGQUEUE_INVALID |
| `link` | `phdReader`, `phdWriter` |
| `life`, `handles`, `locks`, `event` | of an end: its HDATA and the state of its event |
| `pc`, `own`, `node`, `target` | where a call is, the end it is about, the node it has taken out, the end it waits at or will signal |
| `writes`, `taken`, `unsignalled`, `crossed`, `undefined` | history |

`Read…`, `Write…`, `Wait`, `WaitEnds`, `Signal`, `UnlockReader` are MSGQRead, MSGQWrite and what
they call; `OpenNamed` and `CreateNamed` are CreateNamedMsgQ; `OpenEx…` is NKOpenMsgQueueEx,
which may be asked for either end, the caller's own included; `Close`, `DropHandle`, `PreClose`, `CloseEnd` and `CloseReader` are a handle's way out, MSGQPreClose
and MSGQClose.

Run `msgqueue`: two readers, one of which also writes, and a thread that closes and opens ends;
a queue of one message, two writes, with two reader ends that may exist one after the other.
The queue has a name and allows no broken end, or has none, allows it, and allocates its
nodes as it goes. Deadlock checking is off: readers and writers may all wait.

| Property | What it says |
|---|---|
| `QueueSound` | no node is lost or counted twice until an end of an unbreakable queue is closed |
| `EachMessageOnce` | each message is in one place: queued, being copied, read, or thrown away |
| `NoSleeper` | nobody sleeps at an end beside a message, or beside room for one |
| `EndKept` | the end a call is about is not freed under it |
| `NobodyStranded` | once an end's last handle is closed nobody sleeps on |

`msgq_close` shows what `NobodyStranded` has to leave out. There is no fairness and no liveness
property: a program may leave messages unread for ever.

What the code does otherwise than it says:

10. `CloseWakesAll` (run `msgq_close`): the end of a copy that was under way finds the queue empty
    and resets the event that MSGQPreClose has just set; a reader that was about to wait
    then waits at a closed end (`msgqueue.c:717`, against the comment at `447`).
11. MSGQClose clears `phdReader` or `phdWriter` whichever end it names. The successor of a named
    end whose last handle went while a call had it locked is unlinked when the old one is
    closed at last, and the queue may be destroyed under it (`msgqueue.c:397`; `Orphan`).
12. CreateNamedMsgQ links a new end to a queue that has become invalid; only NKOpenMsgQueueEx
    refuses to (`msgqueue.c:280`, against `36-37`). `QueueSound` speaks of a queue until then, as
    a copy in flight at that moment takes `dwCurNumMsg` below zero later, where,
    unsigned, it is no longer less than `dwMaxNumMsg` (`HasNode`).

Where these lead to the use of freed memory, `undefined` is set and nothing more is modelled.
So it is where a call counts a reference on an end whose last one has just gone: LockHDATA of
the reader in MSGQWrite (`msgqueue.c:849`) and HNDLDupWithHDATA in NKOpenMsgQueueEx (`515`), both
under csLock, which the thread that dropped it has not reached yet. Smaller ones that the
properties allow for by name: a fault in a big copy of a writer gives the node back without
telling other writers (`875`, `unsignalled`); a writer's late `SetQEvent` may leave the reader's
event set on a queue that has been emptied (`892`), so that a wait on the handle returns for
nothing; and a node kept although nodes are not pre-committed lets `dwCurNumMsg` exceed
`dwMaxNumMsg`, past the `==` of `859`: every reader that comes back from a copy outside the
lock may keep one, so the excess is bounded only by the number of other threads. Left out:
sizes, tokens, MSGQGetInfo.

### Proofs

`MsgQueueProofs` proves all five properties of the run, for any finite set of threads with any
roles, any ends, any `dwMaxNumMsg`, any number of writes and any combination of flags, from
`MsgQueueAssumption` alone. One inductive invariant, `IInv`, carries them:

- `CallsOK` says what a call holds at each place of its code, and `EndsOK` that what is linked or
  has handles is alive;
- `CountsOK` makes the locks of an end equal to the calls about it and the writers that are to
  signal it, so that `OneCloser` follows: the call that frees an end finds nobody else about it.
  `EndKept` is read off these; without the exact count it is not inductive;
- `Places` gives each message number one place. `EachMessageOnce` only counts, which a step
  that moved one message onto another would not disturb;
- `NodesExact` is `QueueSound` with the copies in flight as cardinalities;
- `Woken`, `ReaderTold`, `RoomTold` and `CloseTold` extend `NoSleeper` and `NobodyStranded` from
  the threads that sleep to those that are about to (`rwait`, `wwait`): an event that is clear
  means for both that nothing has been missed, or that the thread that sets it is on its way.

`CallStep` says for each step what it does to the places of calls, `CountsByCall` what that does
to the counts, and `NodesByMove` does the same for nodes; each of the eleven parts has its own
lemma with one step per action.

The attempt showed two of the properties to be false outside of the bounds of the run, and TLC
confirmed both with more threads or flags than `msgqueue` has. `NodesExact` bounded the excess of
a queue that is not pre-committed by one message, where three readers coming back from their
copies make it two; it now has the bound the code keeps. `NoSleeper` did not allow for divergence
10 in a named queue whose reader is closed and replaced: the new reader's writer may sleep beside
room because the end of an old copy reset the event.

## 10. Not modelled

Parts of the components above: TryEnterCriticalSection, CRITDelete, priority inheritance through
mutexes, process events, InterruptInitialize and its race with InterruptDisable, late
suspension, threads inside a server call, the out-of-memory priority cap, and the wrapping
around of 16-bit counts. Not modelled at all: watchdogs and page pools (planned), virtual
memory, the loader, fibers, byte-range locks, file systems, drivers, servers, shell and
DirectShow. The last are separate programs of many hundred thousand lines; their state is mostly
data, and what is concurrent in them goes through the primitives modelled here. Test code is
not modelled.
