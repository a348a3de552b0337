--------------------------- MODULE CritWaitProofs ---------------------------
(***************************************************************************)
(* Who waits and who runs in CritSect, for any threads, sections and       *)
(* priorities: no waiter is forgotten, the assertions of CSWaitPart1 hold  *)
(* when a section is stolen back, bListedPrio is kept current, threads     *)
(* that keep to csarray never wait in a circle, and the most urgent        *)
(* runnable thread has the processor.                                      *)
(*                                                                         *)
(* All rest on WaitInv, kept by every step that starts in IndInv.          *)
(***************************************************************************)
EXTENDS CritMutexProofs

-----------------------------------------------------------------------------
(* The inductive invariant *)

\* The running thread is the one that is marked as running, the run queue holds the
\* runnable ones, each once and best priority first.
RunningAt(t) == runstate[t] = "RUNNING" <=> t = cur
RunQueue ==
    /\ Distinct(runq) /\ Ordered(runq, cprio)
    /\ \A t \in Threads : Queued(t, runq) <=> runstate[t] = "RUNNABLE"
HeadRuns == ~resched /\ runq # <<>> => cur # None /\ cprio[cur] <= cprio[Head(runq)]

\* The wait of a thread that has been handed a section is over.
HandedOver(t) == pLastCrit[t] # None => stale[t] /\ ~lpProxy[t]

\* What the state of a wait says at each point of CRITEnter.
WaitsAt(t) ==
    /\ pc[t] = "part1" => ~stale[t] /\ waitstate[t] = "PROCESSING"
    /\ pc[t] = "laterLink" => stale[t]
    /\ pc[t] \in {"boost1", "boost2", "part2"} =>
          \/ waitstate[t] = "SIGNALLED"
          \/ waitstate[t] = "PROCESSING" /\ Waiting(t, crit[t])
    /\ runstate[t] = "BLOCKED" /\ pc[t] \in EnterPCs =>
          pc[t] = "dequeue" /\ waitstate[t] = "BLOCKED" /\ Waiting(t, crit[t])
    /\ waitstate[t] = "BLOCKED" /\ pc[t] = "dequeue" /\ ~stale[t] => runstate[t] = "BLOCKED"

\* A thread that enters c, or waits for it, does not own it, and somebody does whom
\* it waits for.
NotMine(t, c) ==
    /\ crit[t] = c /\ pc[t] \in {"waitConfig", "part1"} => owner[c] # t
    /\ Waiting(t, c) => owner[c] # None /\ owner[c] # t

\* The proxies of c are in order, and needtrap is set while there are any.
ProxiesAt(c) ==
    /\ proxies[c] # <<>> => needtrap[c]
    /\ Ordered(proxies[c], proxPrio)

\* bListedPrio is current, or somebody is about to make it so.
Resorts(t, c) ==
    /\ crit[t] = c
    /\ pc[t] = "reprio" \/ (pc[t] = "boost1" /\ waitstate[t] = "PROCESSING")
ListedAt(c) ==
    bListed[c] = 1 => listedPrio[c] = HeadPrio(c) \/ \E t \in Threads : Resorts(t, c)

\* A thread enters in the order of csarray.
InOrder(t) ==
    pc[t] \in EnterPCs \cup {"fault"} =>
        \A d \in Crits : depth[t][d] > 0 => CSIndex[d] > CSIndex[crit[t]]

WaitInv ==
    /\ RunQueue /\ HeadRuns
    /\ \A t \in Threads : RunningAt(t) /\ HandedOver(t) /\ WaitsAt(t) /\ InOrder(t)
    /\ \A t \in Threads, c \in Crits : NotMine(t, c)
    /\ \A c \in Crits : ProxiesAt(c) /\ ListedAt(c)

-----------------------------------------------------------------------------
(* What the invariants say of a step's thread *)

\* The types of the variables that WaitInv is about.
Typed ==
    /\ runstate \in [Threads -> {"RUNNING", "RUNNABLE", "BLOCKED", "NEEDSRUN"}]
    /\ waitstate \in [Threads -> {"SIGNALLED", "PROCESSING", "BLOCKED"}]
    /\ stale \in [Threads -> BOOLEAN] /\ lpProxy \in [Threads -> BOOLEAN]
    /\ proxPrio \in [Threads -> Int] /\ cprio \in [Threads -> Int]
    /\ bprio \in [Threads -> Int]
    /\ listedPrio \in [Crits -> Int]
    /\ cur \in Threads \cup {None} /\ runq \in Seq(Threads) /\ resched \in BOOLEAN
    /\ toWake \in [Threads -> Threads \cup {None}]
    /\ \A t \in Threads : pc[t] = "wake" => toWake[t] # None
    /\ CSIndex \in [Crits -> Int]

\* They hold with the invariant.
LEMMA TypedHolds == IndInv => Typed
BY ConstAssumption DEF IndInv, Typed, TypeOK, CSType, PrioType, WaitType, ProgType, SchedType

\* What is known of t, wherever it is.
Known(t) ==
    /\ t = cur => runstate[t] = "RUNNING" /\ pLastCrit[t] = None
    /\ pc[t] \in EnterPCs \cup LeavePCs \cup MarkPCs \cup {"enterCount"} => crit[t] \in Crits
    /\ pc[t] \in EnterPCs => depth[t][crit[t]] = 0 /\ (owner[crit[t]] = t => ~leaving[crit[t]])
    /\ pc[t] = "user" => \A c \in Crits : owner[c] = t => ~leaving[c]
    /\ pc[t] = "leaveFast" /\ owner[crit[t]] = t => proxies[crit[t]] = <<>>
    /\ pc[t] = "leave" => owner[crit[t]] = t /\ bListed[crit[t]] = 2
    /\ \A c \in Crits : Queued(t, proxies[c]) =>
          crit[t] = c /\ pc[t] \in QueuedPCs \cup {"fault"}
    /\ \A c \in Crits : depth[t][c] > 0 => owner[c] = t /\ ~leaving[c]

\* It holds of every thread.
LEMMA Knows ==
    ASSUME IndInv, WaitInv
    PROVE  \A t \in Threads : Known(t)
<1> SUFFICES ASSUME NEW t \in Threads PROVE Known(t)
  OBVIOUS
<1>1. \A c \in Crits : LocalInv(t, c)
  BY DEF IndInv
<1>2. pc[t] \in EnterPCs \cup LeavePCs \cup MarkPCs \cup {"enterCount"} => crit[t] \in Crits
  BY ShapesHold DEF Shapes, CallPCs, UserPCs, EnterPCs, LeavePCs, MarkPCs
<1>3. pLastCrit[t] \in Crits \cup {None}
  BY ShapesHold DEF Shapes
<1>4. t = cur => runstate[t] = "RUNNING" /\ pLastCrit[t] = None
  BY <1>1, <1>3 DEF LocalInv, HandedAt, WaitInv, RunningAt
<1>5. \A c \in Crits : pc[t] \in EnterPCs \cup {"user"} => ~Ended(t)
  BY <1>1, ShapesHold DEF LocalInv, EndAt, Ended, Shapes, EnterPCs, LeavePCs
<1>6. pc[t] \in EnterPCs => depth[t][crit[t]] = 0 /\ (owner[crit[t]] = t => ~leaving[crit[t]])
  BY <1>1, <1>2, <1>5 DEF LocalInv, OwnerAt, CallAt, MarkedBy, MarkPCs, CallPCs, EnterPCs
<1>7. pc[t] = "user" => \A c \in Crits : owner[c] = t => ~leaving[c]
  BY <1>1, <1>5 DEF LocalInv, OwnerAt, MarkedBy, MarkPCs
<1>8. pc[t] = "leaveFast" /\ owner[crit[t]] = t => proxies[crit[t]] = <<>>
  BY <1>1, <1>2 DEF LocalInv, CallAt, MarkPCs, CallPCs, UserPCs, WaitInv, ProxiesAt
<1>9. pc[t] = "leave" => owner[crit[t]] = t /\ bListed[crit[t]] = 2
  BY <1>1, <1>2 DEF LocalInv, CallAt, Owns, CallPCs, LeavePCs
<1>10. \A c \in Crits : Queued(t, proxies[c]) =>
          crit[t] = c /\ pc[t] \in QueuedPCs \cup {"fault"}
  BY DEF IndInv, QueueInv
<1>11. \A c \in Crits : depth[t][c] > 0 => owner[c] = t /\ ~leaving[c]
  BY <1>1 DEF LocalInv, OwnerAt, Owns
<1> QED
  BY <1>11, <1>2, <1>4, <1>6, <1>7, <1>8, <1>9, <1>10 DEF Known

\* A section that is linked has an owner, who is not gone.
LEMMA ListedOwner ==
    ASSUME IndInv, NEW t \in Threads, NEW c \in Crits, bListed[c] = 1
    PROVE  owner[c] \in Threads /\ IsValid(owner[c])
<1>1. owner[c] \in Threads \cup {None} /\ \A u \in Threads : LocalInv(u, c)
  BY ShapesHold DEF IndInv, Shapes
<1>2. owner[c] # None
  BY <1>1 DEF LocalInv, ListAt
<1> QED
  BY <1>1, <1>2, NoneIsNothing DEF LocalInv, ListAt, EndAt, IsValid

-----------------------------------------------------------------------------
(* The threads *)

\* A step of a thread, which may be any but the dispatch of the next one.
Acts(t) ==
    \/ UserStep(t) \/ EnterStep(t) \/ LeaveStep(t) \/ ExitStep(t)
    \/ SuspendSelf(t) \/ ThreadResume(t) \/ ExitThread(t)
    \/ KillStep(t) \/ MakeKilledRun(t)
    \/ \E p \in Prios : SetThreadBasePrio(t, p)

\* The wait of a thread to which a section is handed over is over.
LEMMA HandedOverStep ==
    ASSUME IndInv, WaitInv, NEW t \in Threads, Acts(t), NEW u \in Threads
    PROVE  HandedOver(u)'
<1>a. Shapes /\ Typed
  BY ShapesHold, TypedHolds
<1>b. Known(t) /\ Known(u)
  BY Knows
<1>c. HandedOver(u)
  BY DEF WaitInv
<1>1. ASSUME WaitConfig(t) PROVE HandedOver(u)'
  BY <1>a, <1>b, <1>c, NoneIsNothing, <1>1 DEF WaitConfig, At, Runs, Goto, csVars, prioVars,
     waitVars, progVars, lifeVars, schedVars, Shapes, Typed, Known, HandedOver
<1>2. ASSUME CSWaitAbort(t) PROVE HandedOver(u)'
  BY <1>a, <1>b, <1>c, NoneIsNothing, <1>2 DEF CSWaitAbort, At, Runs, Goto, WaitDone, csVars,
     prioVars, waitVars, progVars, lifeVars, schedVars, Shapes, Typed, Known, HandedOver
<1>3. ASSUME CSWaitTake(t) PROVE HandedOver(u)'
  BY <1>a, <1>b, <1>c, NoneIsNothing, <1>3 DEF CSWaitTake, At, Runs, Goto, WaitDone, csVars,
     prioVars, waitVars, progVars, lifeVars, schedVars, Shapes, Typed, Known, HandedOver
<1>4. ASSUME CSWaitSteal(t) PROVE HandedOver(u)'
  BY <1>a, <1>b, <1>c, NoneIsNothing, <1>4 DEF CSWaitSteal, At, Runs, Goto, WaitDone, csVars,
     prioVars, waitVars, progVars, lifeVars, schedVars, Shapes, Typed, Known, HandedOver
<1>5. ASSUME CSWaitPend(t) PROVE HandedOver(u)'
  BY <1>a, <1>b, <1>c, NoneIsNothing, <1>5 DEF CSWaitPend, At, Runs, Goto, UpForGrabs, csVars,
     prioVars, waitVars, progVars, lifeVars, schedVars, Shapes, Typed, Known, HandedOver
<1>6. ASSUME CSWaitTerminated(t) PROVE HandedOver(u)'
  BY <1>a, <1>b, <1>c, NoneIsNothing, <1>6 DEF CSWaitTerminated, At, Runs, Goto, csVars,
     prioVars, waitVars, progVars, lifeVars, schedVars, Shapes, Typed, Known, HandedOver
<1>7. ASSUME CSWaitBlock(t) PROVE HandedOver(u)'
  BY <1>a, <1>b, <1>c, NoneIsNothing, <1>7 DEF CSWaitBlock, At, Runs, Goto, MustBlock, csVars,
     prioVars, waitVars, progVars, lifeVars, schedVars, Shapes, Typed, Known, HandedOver,
     LinkedLastCrit
<1>8. ASSUME LeaveCritHandOver(t) PROVE HandedOver(u)'
  BY <1>a, <1>b, <1>c, NoneIsNothing, <1>8, HeadTailProperties DEF LeaveCritHandOver, At,
     Runs, Goto, csVars, prioVars, waitVars, progVars, lifeVars, schedVars, Shapes, Typed,
     Known, HandedOver
<1>9. ASSUME KillBlocked(t) PROVE HandedOver(u)'
  BY <1>a, <1>b, <1>c, NoneIsNothing, <1>9 DEF KillBlocked, At, Runs, Goto, CanDie,
     DiesBlocked, InUserBlock, DieNow, csVars, prioVars, waitVars, progVars, lifeVars,
     schedVars, Shapes, Typed, Known, HandedOver
<1>10. ASSUME
          \/ EnterCount(t) \/ LeaveTest(t) \/ LeaveFast(t)
          \/ LaterLinkCritMut(t) \/ PostBoostCrit1(t) \/ PostBoostCrit2(t)
          \/ CSWaitSignalled(t) \/ OwnerGoneFault(t) \/ DequeuePrioProxy(t)
          \/ DoReprioCrit(t) \/ LoopTest(t) \/ CritFinalBoost(t)
          \/ PreLeaveCrit(t) \/ LeaveCritFree(t) \/ LeaveCritStale(t)
          \/ WakeNewOwner(t) \/ PostUnlinkCritMut(t) \/ Bury(t)
          \/ FinalRemoveThread(t) \/ SuspendSelf(t) \/ ThreadResume(t)
          \/ ExitThread(t) \/ KillRunnable(t) \/ KillLater(t)
          \/ MakeKilledRun(t) \/ (\E c \in Crits : EnterOwned(t, c)) \/ (\E c \in Crits :
             EnterFree(t, c))
          \/ (\E c \in Crits : EnterTrap(t, c)) \/ (\E c \in Crits : LeaveNested(t, c)) \/ (\E
             c \in Crits : LeaveMark(t, c))
          \/ (\E c \in Crits : ReleaseOwned(t, c))
      PROVE  HandedOver(u)'
  <2>1. UNCHANGED <<pLastCrit, stale, lpProxy>>
    BY <1>10 DEF EnterOwned, EnterFree, EnterTrap, LeaveNested, LeaveMark, EnterCount,
       LeaveTest, LeaveFast, LaterLinkCritMut, PostBoostCrit1, PostBoostCrit2,
       CSWaitSignalled, OwnerGoneFault, DequeuePrioProxy, DoReprioCrit, LoopTest,
       CritFinalBoost, PreLeaveCrit, LeaveCritFree, LeaveCritStale, WakeNewOwner,
       PostUnlinkCritMut, ReleaseOwned, Bury, FinalRemoveThread, SuspendSelf, ThreadResume,
       ExitThread, KillRunnable, KillLater, MakeKilledRun, Faults, Goto, csVars, prioVars,
       waitVars, progVars, lifeVars, schedVars
  <2> QED
    BY <2>1, <1>a, <1>b, <1>c, NoneIsNothing DEF Shapes, Typed, Known, HandedOver
<1>11. ASSUME NEW p \in Prios, SetThreadBasePrio(t, p) PROVE HandedOver(u)'
  <2>1. UNCHANGED <<pLastCrit, stale, lpProxy>>
    BY <1>11 DEF SetThreadBasePrio, csVars, prioVars, waitVars, progVars, lifeVars, schedVars
  <2> QED
    BY <2>1, <1>a, <1>b, <1>c, NoneIsNothing DEF Shapes, Typed, Known, HandedOver
<1> QED
  BY <1>1, <1>2, <1>3, <1>4, <1>5, <1>6, <1>7, <1>8, <1>9, <1>10, <1>11 DEF Acts, UserStep,
     EnterStep, LeaveStep, ExitStep, KillStep

\* What the steps that move proxies do to the queues: one proxy is added,
LEMMA PendMoves ==
    ASSUME IndInv, WaitInv, NEW t \in Threads, CSWaitPend(t)
    PROVE  /\ crit[t] \in Crits /\ UNCHANGED proxPrio
           /\ \A d \in Crits : d # crit[t] => proxies'[d] = proxies[d]
           /\ \A u : Queued(u, proxies'[crit[t]]) <=> u = t \/ Queued(u, proxies[crit[t]])
           /\ Ordered(proxies'[crit[t]], proxPrio)
           /\ HeadPrio(crit[t])' = HeadPrio(crit[t]) \/ pc'[t] = "boost1"
<1> DEFINE c == crit[t]
<1>1. Shapes /\ Typed /\ Known(t)
  BY ShapesHold, TypedHolds, Knows
<1>2. pc[t] = "part1" /\ c \in Crits
  BY <1>1 DEF CSWaitPend, At, Known, EnterPCs
<1>3. /\ proxies' = [proxies EXCEPT ![c] = Enqueue(@, t, proxPrio[t], proxPrio)]
      /\ UNCHANGED <<proxPrio, crit>>
      /\ pc' = [pc EXCEPT ![t] = IF proxPrio[t] < HeadPrio(c) \/ proxies[c] = <<>>
                                 THEN "boost1" ELSE "part2"]
  BY DEF CSWaitPend, Goto
<1>c. c' = c
  BY <1>3 DEF c
<1> HIDE DEF c
<1>4. /\ proxies[c] \in Seq(Threads) /\ Distinct(proxies[c]) /\ ~Queued(t, proxies[c])
      /\ Ordered(proxies[c], proxPrio) /\ proxPrio \in [Threads -> Int] /\ proxPrio[t] \in Int
  BY <1>1, <1>2 DEF IndInv, QueueInv, WaitInv, ProxiesAt, Shapes, Typed, Known, QueuedPCs
<1> DEFINE r == Enqueue(proxies[c], t, proxPrio[t], proxPrio)
<1>5. /\ r \in Seq(Threads) /\ r # <<>>
      /\ \A u : Queued(u, r) <=> u = t \/ Queued(u, proxies[c])
      /\ proxies[c] # <<>> /\ ~(proxPrio[t] < proxPrio[Head(proxies[c])])
            => Head(r) = Head(proxies[c])
      /\ Ordered(r, proxPrio)
  <2> HIDE DEF r
  <2>2. Ordered(r, proxPrio)
    BY <1>4, EnqueueOrder DEF r
  <2>3. r \in Seq(Threads) /\ r # <<>>
    BY <1>4, EnqueueQueue DEF r
  <2>4. \A u : Queued(u, r) <=> u = t \/ Queued(u, proxies[c])
    BY <1>4, EnqueueQueue DEF r
  <2>5. proxies[c] # <<>> /\ ~(proxPrio[t] < proxPrio[Head(proxies[c])])
              => Head(r) = Head(proxies[c])
    BY <1>4, EnqueueHead DEF r
  <2> QED
    BY <2>2, <2>3, <2>4, <2>5
<1>6. proxies'[c] = r /\ \A d \in Crits : d # c => proxies'[d] = proxies[d]
  BY <1>1, <1>2, <1>3 DEF Shapes
<1> HIDE DEF r
<1>7. HeadPrio(c)' = HeadPrio(c) \/ pc'[t] = "boost1"
  <2>1. CASE proxPrio[t] < HeadPrio(c) \/ proxies[c] = <<>>
    BY <1>1, <1>3, <2>1 DEF Shapes
  <2>2. CASE ~(proxPrio[t] < HeadPrio(c) \/ proxies[c] = <<>>)
    <3>1. proxies[c] # <<>> /\ HeadPrio(c) = proxPrio[Head(proxies[c])]
      BY <2>2 DEF HeadPrio
    <3>2. Head(r) = Head(proxies[c])
      BY <1>5, <2>2, <3>1
    <3>3. HeadPrio(c)' = proxPrio'[Head(proxies'[c])]
      BY <1>5, <1>6, <1>c DEF HeadPrio
    <3> QED
      BY <1>3, <1>6, <3>1, <3>2, <3>3
  <2> QED
    BY <2>1, <2>2
<1> QED
  BY <1>2, <1>3, <1>5, <1>6, <1>7 DEF c

\* one taken out,
LEMMA DequeueMoves ==
    ASSUME IndInv, WaitInv, NEW t \in Threads, DequeuePrioProxy(t)
    PROVE  /\ crit[t] \in Crits /\ UNCHANGED proxPrio
           /\ \A d \in Crits : d # crit[t] => proxies'[d] = proxies[d]
           /\ \A u : Queued(u, proxies'[crit[t]]) <=> u # t /\ Queued(u, proxies[crit[t]])
           /\ Ordered(proxies'[crit[t]], proxPrio)
           /\ proxies'[crit[t]] # <<>> => proxies[crit[t]] # <<>>
           /\ HeadPrio(crit[t])' = HeadPrio(crit[t]) \/ pc'[t] = "reprio"
<1> DEFINE c == crit[t]
<1>1. Shapes /\ Typed /\ Known(t)
  BY ShapesHold, TypedHolds, Knows
<1>2. pc[t] = "dequeue" /\ c \in Crits
  BY <1>1 DEF DequeuePrioProxy, At, Known, EnterPCs
<1>3. /\ proxies' = [proxies EXCEPT ![c] = Dequeue(@, t)]
      /\ UNCHANGED <<proxPrio, crit>>
      /\ pc' = [pc EXCEPT ![t] = IF FirstAlone(t, proxies[c]) THEN "reprio" ELSE "loopTest"]
  BY DEF DequeuePrioProxy, Goto, waitVars
<1>c. c' = c
  BY <1>3 DEF c
<1> HIDE DEF c
<1>4. /\ proxies[c] \in Seq(Threads) /\ Distinct(proxies[c])
      /\ Ordered(proxies[c], proxPrio) /\ proxPrio \in [Threads -> Int]
  BY <1>1, <1>2 DEF IndInv, QueueInv, WaitInv, ProxiesAt, Shapes, Typed
<1> DEFINE q == proxies[c]
           r == Dequeue(q, t)
<1>5. /\ r \in Seq(Threads) /\ Ordered(r, proxPrio)
      /\ \A u : Queued(u, r) <=> u # t /\ Queued(u, q)
      /\ r # <<>> => q # <<>>
      /\ q # <<>> /\ Head(q) # t => r # <<>> /\ Head(r) = Head(q)
      /\ Queued(t, q) /\ ~HeadAlone(t, q, proxPrio) =>
            r # <<>> /\ proxPrio[Head(r)] = proxPrio[Head(q)]
  BY <1>4, DequeueOrder
<1>6. proxies'[c] = r /\ \A d \in Crits : d # c => proxies'[d] = proxies[d]
  BY <1>1, <1>2, <1>3 DEF Shapes
<1>7. ~Queued(t, q) => r = q
  BY DEF Dequeue
<1>8. Queued(t, q) => q # <<>>
  BY DEF Queued
<1> HIDE DEF r
<1>9. HeadPrio(c)' = HeadPrio(c) \/ pc'[t] = "reprio"
  <2>0. /\ HeadPrio(c)' = (IF r = <<>> THEN LowestPrio ELSE proxPrio[Head(r)])
        /\ HeadPrio(c) = (IF q = <<>> THEN LowestPrio ELSE proxPrio[Head(q)])
    BY <1>3, <1>6, <1>c DEF HeadPrio
  <2>1. CASE FirstAlone(t, q)
    BY <1>1, <1>3, <2>1 DEF Shapes
  <2>2. CASE ~Queued(t, q)
    BY <1>7, <2>0, <2>2
  <2>3. CASE Queued(t, q) /\ ~HeadAlone(t, q, proxPrio)
    BY <1>5, <1>8, <2>0, <2>3
  <2> QED
    BY <2>1, <2>2, <2>3 DEF FirstAlone
<1> QED
  BY <1>2, <1>3, <1>5, <1>6, <1>9 DEF c

\* or the first of them.
LEMMA HeadMoves ==
    ASSUME IndInv, WaitInv, NEW t \in Threads, LeaveCritStale(t) \/ LeaveCritHandOver(t)
    PROVE  /\ crit[t] \in Crits /\ pc[t] = "leave" /\ proxies[crit[t]] # <<>>
           /\ proxies' = [proxies EXCEPT ![crit[t]] = Tail(@)] /\ UNCHANGED proxPrio
           /\ Head(proxies[crit[t]]) \in Threads
           /\ Queued(Head(proxies[crit[t]]), proxies[crit[t]])
           /\ Head(proxies[crit[t]]) # t
           /\ \A d \in Crits : d # crit[t] => proxies'[d] = proxies[d]
           /\ \A u : Queued(u, proxies'[crit[t]]) <=>
                        u # Head(proxies[crit[t]]) /\ Queued(u, proxies[crit[t]])
           /\ Ordered(proxies'[crit[t]], proxPrio)
<1> DEFINE c == crit[t]
<1>1. Shapes /\ Typed /\ Known(t)
  BY ShapesHold, TypedHolds, Knows
<1>2. pc[t] = "leave" /\ c \in Crits
  BY <1>1 DEF LeaveCritStale, LeaveCritHandOver, At, Known, LeavePCs
<1>3. /\ proxies' = [proxies EXCEPT ![c] = Tail(@)] /\ proxies[c] # <<>>
      /\ UNCHANGED proxPrio
  BY DEF LeaveCritStale, LeaveCritHandOver, waitVars
<1> HIDE DEF c
<1>4. /\ proxies[c] \in Seq(Threads) /\ Distinct(proxies[c])
      /\ Ordered(proxies[c], proxPrio) /\ proxPrio \in [Threads -> Int]
  BY <1>1, <1>2 DEF IndInv, QueueInv, WaitInv, ProxiesAt, Shapes, Typed
<1>5. /\ Tail(proxies[c]) \in Seq(Threads) /\ Ordered(Tail(proxies[c]), proxPrio)
      /\ Head(proxies[c]) \in Threads /\ Queued(Head(proxies[c]), proxies[c])
      /\ \A u : Queued(u, Tail(proxies[c])) <=> u # Head(proxies[c]) /\ Queued(u, proxies[c])
  BY <1>3, <1>4, TailOrder
<1>6. proxies'[c] = Tail(proxies[c]) /\ \A d \in Crits : d # c => proxies'[d] = proxies[d]
  BY <1>1, <1>2, <1>3 DEF Shapes
<1>7. Head(proxies[c]) # t
  BY <1>1, <1>2, <1>5 DEF Known, QueuedPCs
<1> QED
  BY <1>2, <1>3, <1>5, <1>6, <1>7 DEF c
\* A better priority leaves the states of the threads alone,
LEMMA BoostKeeps ==
    ASSUME Typed, NEW o, NEW p, BoostCPrio(o, p)
    PROVE  runstate' = runstate
BY DEF Typed, BoostCPrio, MakeRun

\* and only a thread that is about to be made runnable changes its own.
LEMMA WokenStates ==
    ASSUME Typed, NEW w, MakeRunIfNeeded(w), NEW u \in Threads
    PROVE  runstate'[u] = IF u = w /\ runstate[u] = "NEEDSRUN" THEN "RUNNABLE" ELSE runstate[u]
BY DEF Typed, MakeRunIfNeeded, MakeRun


\* The state of a wait is what its place in CRITEnter says.
LEMMA WaitsAtStep ==
    ASSUME IndInv, WaitInv, NEW t \in Threads, Acts(t), NEW u \in Threads
    PROVE  WaitsAt(u)'
<1>a. Shapes /\ Typed
  BY ShapesHold, TypedHolds
<1>b. Known(t) /\ Known(u)
  BY Knows
<1>c. WaitsAt(u) /\ WaitsAt(t)
  BY DEF WaitInv
<1>1. ASSUME NEW c \in Crits, EnterFree(t, c) PROVE WaitsAt(u)'
  BY <1>a, <1>b, <1>c, NoneIsNothing, <1>1 DEF EnterFree, At, Runs, Goto, Calls, CanTakeCS,
     csVars, prioVars, waitVars, progVars, lifeVars, schedVars, Shapes, Typed, Known, WaitsAt,
     Waiting, EnterPCs, LeavePCs, QueuedPCs
<1>2. ASSUME NEW c \in Crits, EnterTrap(t, c) PROVE WaitsAt(u)'
  BY <1>a, <1>b, <1>c, NoneIsNothing, <1>2, SMTT(20) DEF EnterTrap, At, Runs, Goto, Calls,
     CanTakeCS, csVars, prioVars, waitVars, progVars, lifeVars, schedVars, Shapes, Typed,
     Known, WaitsAt, Waiting, EnterPCs, LeavePCs, QueuedPCs
<1>3. ASSUME NEW c \in Crits, LeaveMark(t, c) PROVE WaitsAt(u)'
  BY <1>a, <1>b, <1>c, NoneIsNothing, <1>3 DEF LeaveMark, At, Runs, Goto, Calls, CanTakeCS,
     csVars, prioVars, waitVars, progVars, lifeVars, schedVars, Shapes, Typed, Known, WaitsAt,
     Waiting, EnterPCs, LeavePCs, QueuedPCs
<1>4. ASSUME EnterCount(t) PROVE WaitsAt(u)'
  BY <1>a, <1>b, <1>c, NoneIsNothing, <1>4 DEF EnterCount, At, Runs, Goto, csVars, prioVars,
     waitVars, progVars, lifeVars, schedVars, Shapes, Typed, Known, WaitsAt, Waiting,
     EnterPCs, LeavePCs, QueuedPCs
<1>5. ASSUME LeaveTest(t) PROVE WaitsAt(u)'
  BY <1>a, <1>b, <1>c, NoneIsNothing, <1>5 DEF LeaveTest, At, Runs, Goto, csVars, prioVars,
     waitVars, progVars, lifeVars, schedVars, Shapes, Typed, Known, WaitsAt, Waiting,
     EnterPCs, LeavePCs, QueuedPCs
<1>6. ASSUME LeaveFast(t) PROVE WaitsAt(u)'
  BY <1>a, <1>b, <1>c, NoneIsNothing, <1>6 DEF LeaveFast, At, Runs, Goto, MarkedBy, csVars,
     prioVars, waitVars, progVars, lifeVars, schedVars, Shapes, Typed, Known, WaitsAt,
     Waiting, EnterPCs, LeavePCs, QueuedPCs
<1>7. ASSUME WaitConfig(t) PROVE WaitsAt(u)'
  BY ZenonT(60), <1>a, <1>b, <1>c, NoneIsNothing, <1>7 DEF WaitConfig, At, Runs, Goto, csVars, prioVars,
     waitVars, progVars, lifeVars, schedVars, Shapes, Typed, Known, WaitsAt, Waiting,
     EnterPCs, LeavePCs, QueuedPCs
<1>8. ASSUME CSWaitAbort(t) PROVE WaitsAt(u)'
  BY ZenonT(60), <1>a, <1>b, <1>c, NoneIsNothing, <1>8 DEF CSWaitAbort, At, Runs, Goto, WaitDone, csVars,
     prioVars, waitVars, progVars, lifeVars, schedVars, Shapes, Typed, Known, WaitsAt,
     Waiting, EnterPCs, LeavePCs, QueuedPCs
<1>9. ASSUME CSWaitTake(t) PROVE WaitsAt(u)'
  BY <1>a, <1>b, <1>c, NoneIsNothing, <1>9, ZenonT(60) DEF CSWaitTake, At, Runs, Goto,
     WaitDone, csVars, prioVars, waitVars, progVars, lifeVars, schedVars, Shapes, Typed,
     Known, WaitsAt, Waiting, EnterPCs, LeavePCs, QueuedPCs
<1>10. ASSUME CSWaitSteal(t) PROVE WaitsAt(u)'
  BY <1>a, <1>b, <1>c, NoneIsNothing, <1>10, ZenonT(60) DEF CSWaitSteal, At, Runs, Goto,
     WaitDone, csVars, prioVars, waitVars, progVars, lifeVars, schedVars, Shapes, Typed,
     Known, WaitsAt, Waiting, EnterPCs, LeavePCs, QueuedPCs
<1>11. ASSUME CSWaitPend(t) PROVE WaitsAt(u)'
  <2>1. /\ At(t, "part1") /\ UNCHANGED <<crit, stale, waitstate, runstate>>
        /\ \A v \in Threads : lpProxy'[v] = (v = t \/ lpProxy[v])
        /\ pc'[t] \in {"boost1", "part2"}
        /\ \A v \in Threads \ {t} : pc'[v] = pc[v]
    BY <1>a, <1>11 DEF CSWaitPend, At, Runs, Goto, csVars, prioVars, waitVars, progVars,
       lifeVars,
       schedVars, Shapes, Typed
  <2>2. /\ \A d \in Crits : d # crit[t] => proxies'[d] = proxies[d]
        /\ \A v : Queued(v, proxies'[crit[t]]) <=> v = t \/ Queued(v, proxies[crit[t]])
    BY <1>11, PendMoves
  <2> QED
    BY <1>a, <1>b, <1>c, <2>1, <2>2, ZenonT(60) DEF At, Runs, Typed, Shapes, Known, WaitsAt,
       Waiting, EnterPCs, LeavePCs, QueuedPCs
<1>12. ASSUME LaterLinkCritMut(t) PROVE WaitsAt(u)'
  BY <1>a, <1>b, <1>c, NoneIsNothing, <1>12 DEF LaterLinkCritMut, At, Runs, Goto, csVars,
     prioVars, waitVars, progVars, lifeVars, schedVars, Shapes, Typed, Known, WaitsAt,
     Waiting, EnterPCs, LeavePCs, QueuedPCs
<1>13. ASSUME PostBoostCrit1(t) PROVE WaitsAt(u)'
  BY ZenonT(60), <1>a, <1>b, <1>c, NoneIsNothing, <1>13 DEF PostBoostCrit1, At, Runs, Goto, csVars,
     prioVars, waitVars, progVars, lifeVars, schedVars, Shapes, Typed, Known, WaitsAt,
     Waiting, EnterPCs, LeavePCs, QueuedPCs
<1>14. ASSUME PostBoostCrit2(t) PROVE WaitsAt(u)'
  <2>1. /\ pc[t] = "boost2" /\ UNCHANGED <<crit, stale, waitstate, lpProxy, proxies>>
        /\ pc' = [pc EXCEPT ![t] = "part2"]
        /\ runstate' = runstate \/ BoostCPrio(owner[crit[t]], HeadPrio(crit[t]))
    BY <1>14 DEF PostBoostCrit2, At, Goto, csVars, waitVars
  <2>2. runstate' = runstate
    BY <1>a, <2>1, BoostKeeps
  <2> QED
    BY <1>a, <1>b, <1>c, <2>1, <2>2, <1>14 DEF Shapes, Typed, WaitsAt, Waiting, EnterPCs, Known,
       PostBoostCrit2, At, Runs
<1>15. ASSUME CSWaitSignalled(t) PROVE WaitsAt(u)'
  BY <1>a, <1>b, <1>c, NoneIsNothing, <1>15 DEF CSWaitSignalled, At, Runs, Goto, csVars,
     prioVars, waitVars, progVars, lifeVars, schedVars, Shapes, Typed, Known, WaitsAt,
     Waiting, EnterPCs, LeavePCs, QueuedPCs
<1>16. ASSUME CSWaitTerminated(t) PROVE WaitsAt(u)'
  BY <1>a, <1>b, <1>c, NoneIsNothing, <1>16, ZenonT(60) DEF CSWaitTerminated, At, Runs, Goto,
     csVars, prioVars, waitVars, progVars, lifeVars, schedVars, Shapes, Typed, Known, WaitsAt,
     Waiting, EnterPCs, LeavePCs, QueuedPCs
<1>17. ASSUME CSWaitBlock(t) PROVE WaitsAt(u)'
  BY <1>a, <1>b, <1>c, NoneIsNothing, <1>17 DEF CSWaitBlock, At, Runs, Goto, MustBlock,
     csVars, prioVars, waitVars, progVars, lifeVars, schedVars, Shapes, Typed, Known, WaitsAt,
     Waiting, EnterPCs, LeavePCs, QueuedPCs
<1>18. ASSUME OwnerGoneFault(t) PROVE WaitsAt(u)'
  BY <1>a, <1>b, <1>c, NoneIsNothing, <1>18 DEF OwnerGoneFault, At, Runs, Goto, Faults,
     csVars, prioVars, waitVars, progVars, lifeVars, schedVars, Shapes, Typed, Known, WaitsAt,
     Waiting, EnterPCs, LeavePCs, QueuedPCs
<1>19. ASSUME DequeuePrioProxy(t) PROVE WaitsAt(u)'
  <2>1. /\ At(t, "dequeue") /\ UNCHANGED <<crit, stale, waitstate, runstate, lpProxy>>
        /\ pc'[t] \in {"reprio", "loopTest"}
        /\ \A v \in Threads \ {t} : pc'[v] = pc[v]
    BY <1>a, <1>19 DEF DequeuePrioProxy, At, Runs, Goto, csVars, prioVars, waitVars, progVars,
       lifeVars,
       schedVars, Shapes, Typed
  <2>2. /\ \A d \in Crits : d # crit[t] => proxies'[d] = proxies[d]
        /\ \A v : Queued(v, proxies'[crit[t]]) <=> v # t /\ Queued(v, proxies[crit[t]])
    BY <1>19, DequeueMoves
  <2> QED
    BY <1>a, <1>b, <1>c, <2>1, <2>2, ZenonT(60) DEF At, Runs, Typed, Shapes, Known, WaitsAt,
       Waiting, EnterPCs, LeavePCs, QueuedPCs
<1>20. ASSUME DoReprioCrit(t) PROVE WaitsAt(u)'
  BY <1>a, <1>b, <1>c, NoneIsNothing, <1>20 DEF DoReprioCrit, At, Runs, Goto, csVars,
     prioVars, waitVars, progVars, lifeVars, schedVars, Shapes, Typed, Known, WaitsAt,
     Waiting, EnterPCs, LeavePCs, QueuedPCs
<1>21. ASSUME LoopTest(t) PROVE WaitsAt(u)'
  BY SMTT(40), <1>a, <1>b, <1>c, NoneIsNothing, <1>21 DEF LoopTest, At, Runs, Goto, Owns, ReturnPC,
     csVars, prioVars, waitVars, progVars, lifeVars, schedVars, Shapes, Typed, Known, WaitsAt,
     Waiting, EnterPCs, LeavePCs, QueuedPCs
<1>22. ASSUME CritFinalBoost(t) PROVE WaitsAt(u)'
  BY <1>a, <1>b, <1>c, NoneIsNothing, <1>22 DEF CritFinalBoost, At, Runs, Goto, ReturnPC,
     csVars, prioVars, waitVars, progVars, lifeVars, schedVars, Shapes, Typed, Known, WaitsAt,
     Waiting, EnterPCs, LeavePCs, QueuedPCs
<1>23. ASSUME PreLeaveCrit(t) PROVE WaitsAt(u)'
  <2>1. /\ pc[t] = "preLeave" /\ UNCHANGED <<crit, stale, waitstate, runstate, lpProxy, proxies>>
        /\ \E l \in {"leave", "exit", "user"} : pc' = [pc EXCEPT ![t] = l]
    BY <1>23 DEF PreLeaveCrit, At, Goto, ReturnPC, waitVars, schedVars
  <2> QED
    BY <1>a, <1>c, <2>1 DEF Shapes, WaitsAt, Waiting, EnterPCs
<1>24. ASSUME LeaveCritFree(t) PROVE WaitsAt(u)'
  BY <1>a, <1>b, <1>c, NoneIsNothing, <1>24 DEF LeaveCritFree, At, Runs, Goto, csVars,
     prioVars, waitVars, progVars, lifeVars, schedVars, Shapes, Typed, Known, WaitsAt,
     Waiting, EnterPCs, LeavePCs, QueuedPCs
<1>25. ASSUME LeaveCritStale(t) PROVE WaitsAt(u)'
  <2>1. /\ At(t, "leave") /\ UNCHANGED <<crit, stale, waitstate, runstate, lpProxy, pc>>
        /\ stale[Head(proxies[crit[t]])]
    BY <1>a, <1>25 DEF LeaveCritStale, At, Runs, Goto, csVars, prioVars, waitVars, progVars,
       lifeVars,
       schedVars, Shapes, Typed
  <2>2. /\ \A d \in Crits : d # crit[t] => proxies'[d] = proxies[d]
        /\ \A v : Queued(v, proxies'[crit[t]]) <=> 
              v # Head(proxies[crit[t]]) /\ Queued(v, proxies[crit[t]])
    BY <1>25, HeadMoves
  <2> QED
    BY <1>a, <1>b, <1>c, <2>1, <2>2 DEF At, Runs, Typed, Shapes, Known, WaitsAt, Waiting,
       EnterPCs, LeavePCs, QueuedPCs
<1>26. ASSUME LeaveCritHandOver(t) PROVE WaitsAt(u)'
  <2> DEFINE w == Head(proxies[crit[t]])
  <2>0. /\ w \in Threads /\ w # t /\ pc[t] = "leave" /\ Queued(w, proxies[crit[t]])
        /\ \A d \in Crits : d # crit[t] => proxies'[d] = proxies[d]
        /\ \A v : Queued(v, proxies'[crit[t]]) <=> v # w /\ Queued(v, proxies[crit[t]])
        /\ crit[t] \in Crits
    BY <1>26, HeadMoves
  <2>1. /\ UNCHANGED crit
        /\ stale' = [stale EXCEPT ![w] = TRUE] /\ lpProxy' = [lpProxy EXCEPT ![w] = FALSE]
        /\ IF waitstate[w] = "BLOCKED"
           THEN waitstate' = waitstate /\ runstate' = [runstate EXCEPT ![w] = "NEEDSRUN"]
           ELSE waitstate' = [waitstate EXCEPT ![w] = "SIGNALLED"] /\ UNCHANGED runstate
        /\ \E l \in {"wake", "postUnlink"} : pc' = [pc EXCEPT ![t] = l]
    BY <1>26 DEF LeaveCritHandOver, Goto
  <2> HIDE DEF w
  <2>2. Known(w)
    BY <2>0, Knows
  <2>3. CASE u = w
    BY <1>a, <1>c, <2>0, <2>1, <2>2, <2>3, ZenonT(60) DEF Typed, Shapes, Known, WaitsAt,
       QueuedPCs
  <2>4. CASE u # w
    <3>1. /\ stale'[u] = stale[u] /\ lpProxy'[u] = lpProxy[u] /\ crit'[u] = crit[u]
          /\ waitstate'[u] = waitstate[u] /\ runstate'[u] = runstate[u]
          /\ pc'[u] = pc[u] \/ pc'[u] \in {"wake", "postUnlink"}
      BY <1>a, <2>0, <2>1, <2>4, SMTT(20) DEF Typed, Shapes
    <3>2. \A d \in Crits : Waiting(u, d) => Waiting(u, d)'
      BY <2>0, <2>4, <3>1 DEF Waiting
    <3> QED
      BY <1>b, <1>c, <3>1, <3>2 DEF WaitsAt, Known, EnterPCs
  <2> QED
    BY <2>3, <2>4
<1>27. ASSUME WakeNewOwner(t) PROVE WaitsAt(u)'
  BY <1>a, <1>b, <1>c, NoneIsNothing, <1>27, ZenonT(60) DEF WakeNewOwner, At, Runs, Goto,
     csVars, prioVars, waitVars, progVars, lifeVars, schedVars, Shapes, Typed, Known, WaitsAt,
     Waiting, EnterPCs, LeavePCs, QueuedPCs, MakeRunIfNeeded, MakeRun
<1>28. ASSUME PostUnlinkCritMut(t) PROVE WaitsAt(u)'
  BY SMTT(40), <1>a, <1>b, <1>c, NoneIsNothing, <1>28 DEF PostUnlinkCritMut, At, Runs, Goto, ReturnPC,
     csVars, prioVars, waitVars, progVars, lifeVars, schedVars, Shapes, Typed, Known, WaitsAt,
     Waiting, EnterPCs, LeavePCs, QueuedPCs
<1>29. ASSUME NEW c \in Crits, ReleaseOwned(t, c) PROVE WaitsAt(u)'
  BY <1>a, <1>b, <1>c, NoneIsNothing, <1>29 DEF ReleaseOwned, At, Runs, Goto, csVars,
     prioVars, waitVars, progVars, lifeVars, schedVars, Shapes, Typed, Known, WaitsAt,
     Waiting, EnterPCs, LeavePCs, QueuedPCs
<1>30. ASSUME Bury(t) PROVE WaitsAt(u)'
  BY <1>a, <1>b, <1>c, NoneIsNothing, <1>30 DEF Bury, At, Runs, Goto, csVars, prioVars,
     waitVars, progVars, lifeVars, schedVars, Shapes, Typed, Known, WaitsAt, Waiting,
     EnterPCs, LeavePCs, QueuedPCs
<1>31. ASSUME FinalRemoveThread(t) PROVE WaitsAt(u)'
  BY <1>a, <1>b, <1>c, NoneIsNothing, <1>31 DEF FinalRemoveThread, At, Runs, Goto, csVars,
     prioVars, waitVars, progVars, lifeVars, schedVars, Shapes, Typed, Known, WaitsAt,
     Waiting, EnterPCs, LeavePCs, QueuedPCs
<1>32. ASSUME SuspendSelf(t) PROVE WaitsAt(u)'
  BY <1>a, <1>b, <1>c, NoneIsNothing, <1>32 DEF SuspendSelf, At, Runs, Goto, csVars, prioVars,
     waitVars, progVars, lifeVars, schedVars, Shapes, Typed, Known, WaitsAt, Waiting,
     EnterPCs, LeavePCs, QueuedPCs
<1>33. ASSUME ThreadResume(t) PROVE WaitsAt(u)'
  BY <1>a, <1>b, <1>c, NoneIsNothing, <1>33 DEF ThreadResume, At, Runs, Goto, csVars,
     prioVars, waitVars, progVars, lifeVars, schedVars, Shapes, Typed, Known, WaitsAt,
     Waiting, EnterPCs, LeavePCs, QueuedPCs, MakeRun
<1>34. ASSUME ExitThread(t) PROVE WaitsAt(u)'
  BY <1>a, <1>b, <1>c, NoneIsNothing, <1>34 DEF ExitThread, At, Runs, Goto, csVars, prioVars,
     waitVars, progVars, lifeVars, schedVars, Shapes, Typed, Known, WaitsAt, Waiting,
     EnterPCs, LeavePCs, QueuedPCs
<1>35. ASSUME KillRunnable(t) PROVE WaitsAt(u)'
  BY <1>a, <1>b, <1>c, NoneIsNothing, <1>35 DEF KillRunnable, At, Runs, Goto, CanDie,
     DiesInUserCode, InUserMode, DieNow, csVars, prioVars, waitVars, progVars, lifeVars,
     schedVars, Shapes, Typed, Known, WaitsAt, Waiting, EnterPCs, LeavePCs, QueuedPCs
<1>36. ASSUME KillBlocked(t) PROVE WaitsAt(u)'
  BY <1>a, <1>b, <1>c, NoneIsNothing, <1>36, ZenonT(60) DEF KillBlocked, At, Runs, Goto,
     CanDie, DiesBlocked, InUserBlock, DieNow, csVars, prioVars, waitVars, progVars, lifeVars,
     schedVars, Shapes, Typed, Known, WaitsAt, Waiting, EnterPCs, LeavePCs, QueuedPCs
<1>37. ASSUME MakeKilledRun(t) PROVE WaitsAt(u)'
  <2>1. MakeRunIfNeeded(t) /\ UNCHANGED <<pc, crit, stale, waitstate, lpProxy, proxies>>
    BY <1>37 DEF MakeKilledRun, csVars, waitVars, progVars
  <2>2. runstate'[u] = "BLOCKED" <=> runstate[u] = "BLOCKED"
    BY <1>a, <2>1, WokenStates
  <2> QED
    BY <1>c, <2>1, <2>2 DEF WaitsAt, Waiting
<1>38. ASSUME
          \/ KillLater(t) \/ (\E c \in Crits : EnterOwned(t, c)) \/ (\E c \in Crits :
             LeaveNested(t, c))
      PROVE  WaitsAt(u)'
  <2>1. UNCHANGED <<pc, crit, stale, waitstate, runstate, lpProxy, proxies>>
    BY <1>38 DEF EnterOwned, LeaveNested, KillLater, Goto, csVars, prioVars, waitVars,
       progVars, lifeVars, schedVars
  <2> QED
    BY <2>1, <1>a, <1>b, <1>c, NoneIsNothing DEF Shapes, Typed, Known, WaitsAt, Waiting,
       EnterPCs, LeavePCs, QueuedPCs
<1>39. ASSUME NEW p \in Prios, SetThreadBasePrio(t, p) PROVE WaitsAt(u)'
  <2>1. UNCHANGED <<pc, crit, stale, waitstate, lpProxy, proxies>>
    BY <1>39 DEF SetThreadBasePrio, csVars, waitVars, progVars
  <2>2. runstate' = runstate \/ BoostCPrio(t, p)
    BY <1>39 DEF SetThreadBasePrio
  <2>3. runstate' = runstate
    BY <1>a, <2>2, BoostKeeps
  <2> QED
    BY <1>c, <2>1, <2>3 DEF WaitsAt, Waiting
<1> QED
  BY <1>1, <1>2, <1>3, <1>4, <1>5, <1>6, <1>7, <1>8, <1>9, <1>10, <1>11, <1>12, <1>13, <1>14,
     <1>15, <1>16, <1>17, <1>18, <1>19, <1>20, <1>21, <1>22, <1>23, <1>24, <1>25, <1>26,
     <1>27, <1>28, <1>29, <1>30, <1>31, <1>32, <1>33, <1>34, <1>35, <1>36, <1>37, <1>38, <1>39
     DEF Acts, UserStep, EnterStep, LeaveStep, ExitStep, KillStep

\* A thread goes by the order of csarray.
LEMMA InOrderStep ==
    ASSUME IndInv, WaitInv, NEW t \in Threads, Acts(t), NEW u \in Threads
    PROVE  InOrder(u)'
<1>a. Shapes /\ Typed
  BY ShapesHold, TypedHolds
<1>b. Known(t) /\ Known(u)
  BY Knows
<1>c. InOrder(u)
  BY DEF WaitInv
<1>1. ASSUME NEW c \in Crits, EnterOwned(t, c) PROVE InOrder(u)'
  BY <1>a, <1>b, <1>c, NoneIsNothing, <1>1 DEF EnterOwned, At, Runs, Goto, Calls, CanTakeCS,
     csVars, prioVars, waitVars, progVars, lifeVars, schedVars, Shapes, Known, InOrder,
     EnterPCs, LeavePCs, NothingHeld
<1>2. ASSUME NEW c \in Crits, EnterFree(t, c) PROVE InOrder(u)'
  BY <1>a, <1>b, <1>c, NoneIsNothing, <1>2 DEF EnterFree, At, Runs, Goto, Calls, CanTakeCS,
     csVars, prioVars, waitVars, progVars, lifeVars, schedVars, Shapes, Known, InOrder,
     EnterPCs, LeavePCs, NothingHeld
<1>3. ASSUME NEW c \in Crits, EnterTrap(t, c) PROVE InOrder(u)'
  BY <1>a, <1>b, <1>c, NoneIsNothing, <1>3, SMTT(20) DEF EnterTrap, At, Runs, Goto, Calls,
     CanTakeCS, csVars, prioVars, waitVars, progVars, lifeVars, schedVars, Shapes, Known,
     InOrder, EnterPCs, LeavePCs, NothingHeld
<1>4. ASSUME NEW c \in Crits, LeaveNested(t, c) PROVE InOrder(u)'
  BY <1>a, <1>b, <1>c, NoneIsNothing, <1>4 DEF LeaveNested, At, Runs, Goto, Calls, CanTakeCS,
     csVars, prioVars, waitVars, progVars, lifeVars, schedVars, Shapes, Known, InOrder,
     EnterPCs, LeavePCs, NothingHeld
<1>5. ASSUME NEW c \in Crits, LeaveMark(t, c) PROVE InOrder(u)'
  BY <1>a, <1>b, <1>c, NoneIsNothing, <1>5 DEF LeaveMark, At, Runs, Goto, Calls, CanTakeCS,
     csVars, prioVars, waitVars, progVars, lifeVars, schedVars, Shapes, Known, InOrder,
     EnterPCs, LeavePCs, NothingHeld
<1>6. ASSUME EnterCount(t) PROVE InOrder(u)'
  BY <1>a, <1>b, <1>c, NoneIsNothing, <1>6 DEF EnterCount, At, Runs, Goto, csVars, prioVars,
     waitVars, progVars, lifeVars, schedVars, Shapes, Known, InOrder, EnterPCs, LeavePCs,
     NothingHeld
<1>7. ASSUME LeaveTest(t) PROVE InOrder(u)'
  BY <1>a, <1>b, <1>c, NoneIsNothing, <1>7 DEF LeaveTest, At, Runs, Goto, csVars, prioVars,
     waitVars, progVars, lifeVars, schedVars, Shapes, Known, InOrder, EnterPCs, LeavePCs,
     NothingHeld
<1>8. ASSUME LeaveFast(t) PROVE InOrder(u)'
  BY <1>a, <1>b, <1>c, NoneIsNothing, <1>8 DEF LeaveFast, At, Runs, Goto, MarkedBy, csVars,
     prioVars, waitVars, progVars, lifeVars, schedVars, Shapes, Known, InOrder, EnterPCs,
     LeavePCs, NothingHeld
<1>9. ASSUME WaitConfig(t) PROVE InOrder(u)'
  BY <1>a, <1>b, <1>c, NoneIsNothing, <1>9 DEF WaitConfig, At, Runs, Goto, csVars, prioVars,
     waitVars, progVars, lifeVars, schedVars, Shapes, Known, InOrder, EnterPCs, LeavePCs,
     NothingHeld
<1>10. ASSUME CSWaitAbort(t) PROVE InOrder(u)'
  BY <1>a, <1>b, <1>c, NoneIsNothing, <1>10 DEF CSWaitAbort, At, Runs, Goto, WaitDone, csVars,
     prioVars, waitVars, progVars, lifeVars, schedVars, Shapes, Known, InOrder, EnterPCs,
     LeavePCs, NothingHeld
<1>11. ASSUME CSWaitTake(t) PROVE InOrder(u)'
  BY <1>a, <1>b, <1>c, NoneIsNothing, <1>11 DEF CSWaitTake, At, Runs, Goto, WaitDone, csVars,
     prioVars, waitVars, progVars, lifeVars, schedVars, Shapes, Known, InOrder, EnterPCs,
     LeavePCs, NothingHeld
<1>12. ASSUME CSWaitSteal(t) PROVE InOrder(u)'
  BY <1>a, <1>b, <1>c, NoneIsNothing, <1>12 DEF CSWaitSteal, At, Runs, Goto, WaitDone, csVars,
     prioVars, waitVars, progVars, lifeVars, schedVars, Shapes, Known, InOrder, EnterPCs,
     LeavePCs, NothingHeld
<1>13. ASSUME CSWaitPend(t) PROVE InOrder(u)'
  BY <1>a, <1>b, <1>c, NoneIsNothing, <1>13 DEF CSWaitPend, At, Runs, Goto, UpForGrabs,
     csVars, prioVars, waitVars, progVars, lifeVars, schedVars, Shapes, Known, InOrder,
     EnterPCs, LeavePCs, NothingHeld
<1>14. ASSUME LaterLinkCritMut(t) PROVE InOrder(u)'
  BY <1>a, <1>b, <1>c, NoneIsNothing, <1>14 DEF LaterLinkCritMut, At, Runs, Goto, csVars,
     prioVars, waitVars, progVars, lifeVars, schedVars, Shapes, Known, InOrder, EnterPCs,
     LeavePCs, NothingHeld
<1>15. ASSUME PostBoostCrit1(t) PROVE InOrder(u)'
  BY <1>a, <1>b, <1>c, NoneIsNothing, <1>15 DEF PostBoostCrit1, At, Runs, Goto, csVars,
     prioVars, waitVars, progVars, lifeVars, schedVars, Shapes, Known, InOrder, EnterPCs,
     LeavePCs, NothingHeld
<1>16. ASSUME PostBoostCrit2(t) PROVE InOrder(u)'
  BY <1>a, <1>b, <1>c, NoneIsNothing, <1>16 DEF PostBoostCrit2, At, Runs, Goto, csVars,
     prioVars, waitVars, progVars, lifeVars, schedVars, Shapes, Known, InOrder, EnterPCs,
     LeavePCs, NothingHeld
<1>17. ASSUME CSWaitSignalled(t) PROVE InOrder(u)'
  BY <1>a, <1>b, <1>c, NoneIsNothing, <1>17 DEF CSWaitSignalled, At, Runs, Goto, csVars,
     prioVars, waitVars, progVars, lifeVars, schedVars, Shapes, Known, InOrder, EnterPCs,
     LeavePCs, NothingHeld
<1>18. ASSUME CSWaitTerminated(t) PROVE InOrder(u)'
  BY <1>a, <1>b, <1>c, NoneIsNothing, <1>18 DEF CSWaitTerminated, At, Runs, Goto, csVars,
     prioVars, waitVars, progVars, lifeVars, schedVars, Shapes, Known, InOrder, EnterPCs,
     LeavePCs, NothingHeld
<1>19. ASSUME CSWaitBlock(t) PROVE InOrder(u)'
  BY <1>a, <1>b, <1>c, NoneIsNothing, <1>19 DEF CSWaitBlock, At, Runs, Goto, MustBlock,
     csVars, prioVars, waitVars, progVars, lifeVars, schedVars, Shapes, Known, InOrder,
     EnterPCs, LeavePCs, NothingHeld
<1>20. ASSUME OwnerGoneFault(t) PROVE InOrder(u)'
  BY <1>a, <1>b, <1>c, NoneIsNothing, <1>20 DEF OwnerGoneFault, At, Runs, Goto, Faults,
     csVars, prioVars, waitVars, progVars, lifeVars, schedVars, Shapes, Known, InOrder,
     EnterPCs, LeavePCs, NothingHeld
<1>21. ASSUME DequeuePrioProxy(t) PROVE InOrder(u)'
  BY <1>a, <1>b, <1>c, NoneIsNothing, <1>21 DEF DequeuePrioProxy, At, Runs, Goto, csVars,
     prioVars, waitVars, progVars, lifeVars, schedVars, Shapes, Known, InOrder, EnterPCs,
     LeavePCs, NothingHeld
<1>22. ASSUME DoReprioCrit(t) PROVE InOrder(u)'
  BY <1>a, <1>b, <1>c, NoneIsNothing, <1>22 DEF DoReprioCrit, At, Runs, Goto, csVars,
     prioVars, waitVars, progVars, lifeVars, schedVars, Shapes, Known, InOrder, EnterPCs,
     LeavePCs, NothingHeld
<1>23. ASSUME LoopTest(t) PROVE InOrder(u)'
  BY <1>a, <1>b, <1>c, NoneIsNothing, <1>23 DEF LoopTest, At, Runs, Goto, Owns, ReturnPC,
     csVars, prioVars, waitVars, progVars, lifeVars, schedVars, Shapes, Known, InOrder,
     EnterPCs, LeavePCs, NothingHeld
<1>24. ASSUME CritFinalBoost(t) PROVE InOrder(u)'
  BY <1>a, <1>b, <1>c, NoneIsNothing, <1>24 DEF CritFinalBoost, At, Runs, Goto, ReturnPC,
     csVars, prioVars, waitVars, progVars, lifeVars, schedVars, Shapes, Known, InOrder,
     EnterPCs, LeavePCs, NothingHeld
<1>25. ASSUME PreLeaveCrit(t) PROVE InOrder(u)'
  BY <1>a, <1>b, <1>c, NoneIsNothing, <1>25 DEF PreLeaveCrit, At, Runs, Goto, ReturnPC,
     csVars, prioVars, waitVars, progVars, lifeVars, schedVars, Shapes, Known, InOrder,
     EnterPCs, LeavePCs, NothingHeld
<1>26. ASSUME LeaveCritFree(t) PROVE InOrder(u)'
  BY <1>a, <1>b, <1>c, NoneIsNothing, <1>26 DEF LeaveCritFree, At, Runs, Goto, csVars,
     prioVars, waitVars, progVars, lifeVars, schedVars, Shapes, Known, InOrder, EnterPCs,
     LeavePCs, NothingHeld
<1>27. ASSUME LeaveCritHandOver(t) PROVE InOrder(u)'
  BY SMTT(30), <1>a, <1>b, <1>c, NoneIsNothing, <1>27 DEF LeaveCritHandOver, At, Runs, Goto, csVars,
     prioVars, waitVars, progVars, lifeVars, schedVars, Shapes, Known, InOrder, EnterPCs,
     LeavePCs, NothingHeld
<1>28. ASSUME WakeNewOwner(t) PROVE InOrder(u)'
  BY <1>a, <1>b, <1>c, NoneIsNothing, <1>28 DEF WakeNewOwner, At, Runs, Goto, csVars,
     prioVars, waitVars, progVars, lifeVars, schedVars, Shapes, Known, InOrder, EnterPCs,
     LeavePCs, NothingHeld
<1>29. ASSUME PostUnlinkCritMut(t) PROVE InOrder(u)'
  BY <1>a, <1>b, <1>c, NoneIsNothing, <1>29 DEF PostUnlinkCritMut, At, Runs, Goto, ReturnPC,
     csVars, prioVars, waitVars, progVars, lifeVars, schedVars, Shapes, Known, InOrder,
     EnterPCs, LeavePCs, NothingHeld
<1>30. ASSUME NEW c \in Crits, ReleaseOwned(t, c) PROVE InOrder(u)'
  BY <1>a, <1>b, <1>c, NoneIsNothing, <1>30 DEF ReleaseOwned, At, Runs, Goto, csVars,
     prioVars, waitVars, progVars, lifeVars, schedVars, Shapes, Known, InOrder, EnterPCs,
     LeavePCs, NothingHeld
<1>31. ASSUME Bury(t) PROVE InOrder(u)'
  BY <1>a, <1>b, <1>c, NoneIsNothing, <1>31 DEF Bury, At, Runs, Goto, csVars, prioVars,
     waitVars, progVars, lifeVars, schedVars, Shapes, Known, InOrder, EnterPCs, LeavePCs,
     NothingHeld
<1>32. ASSUME FinalRemoveThread(t) PROVE InOrder(u)'
  BY <1>a, <1>b, <1>c, NoneIsNothing, <1>32 DEF FinalRemoveThread, At, Runs, Goto, csVars,
     prioVars, waitVars, progVars, lifeVars, schedVars, Shapes, Known, InOrder, EnterPCs,
     LeavePCs, NothingHeld
<1>33. ASSUME SuspendSelf(t) PROVE InOrder(u)'
  BY <1>a, <1>b, <1>c, NoneIsNothing, <1>33 DEF SuspendSelf, At, Runs, Goto, csVars, prioVars,
     waitVars, progVars, lifeVars, schedVars, Shapes, Known, InOrder, EnterPCs, LeavePCs,
     NothingHeld
<1>34. ASSUME ThreadResume(t) PROVE InOrder(u)'
  BY <1>a, <1>b, <1>c, NoneIsNothing, <1>34 DEF ThreadResume, At, Runs, Goto, csVars,
     prioVars, waitVars, progVars, lifeVars, schedVars, Shapes, Known, InOrder, EnterPCs,
     LeavePCs, NothingHeld
<1>35. ASSUME ExitThread(t) PROVE InOrder(u)'
  BY <1>a, <1>b, <1>c, NoneIsNothing, <1>35 DEF ExitThread, At, Runs, Goto, csVars, prioVars,
     waitVars, progVars, lifeVars, schedVars, Shapes, Known, InOrder, EnterPCs, LeavePCs,
     NothingHeld
<1>36. ASSUME KillRunnable(t) PROVE InOrder(u)'
  BY <1>a, <1>b, <1>c, NoneIsNothing, <1>36 DEF KillRunnable, At, Runs, Goto, CanDie,
     DiesInUserCode, InUserMode, DieNow, csVars, prioVars, waitVars, progVars, lifeVars,
     schedVars, Shapes, Known, InOrder, EnterPCs, LeavePCs, NothingHeld
<1>37. ASSUME KillBlocked(t) PROVE InOrder(u)'
  BY <1>a, <1>b, <1>c, NoneIsNothing, <1>37 DEF KillBlocked, At, Runs, Goto, CanDie,
     DiesBlocked, InUserBlock, DieNow, csVars, prioVars, waitVars, progVars, lifeVars,
     schedVars, Shapes, Known, InOrder, EnterPCs, LeavePCs, NothingHeld
<1>38. ASSUME
          \/ LeaveCritStale(t) \/ KillLater(t) \/ MakeKilledRun(t)
      PROVE  InOrder(u)'
  <2>1. UNCHANGED <<pc, crit, depth>>
    BY <1>38 DEF LeaveCritStale, KillLater, MakeKilledRun, Goto, csVars, prioVars, waitVars,
       progVars, lifeVars, schedVars
  <2> QED
    BY <2>1, <1>a, <1>b, <1>c, NoneIsNothing DEF Shapes, Known, InOrder, EnterPCs, LeavePCs,
       NothingHeld
<1>39. ASSUME NEW p \in Prios, SetThreadBasePrio(t, p) PROVE InOrder(u)'
  <2>1. UNCHANGED <<pc, crit, depth>>
    BY <1>39 DEF SetThreadBasePrio, csVars, prioVars, waitVars, progVars, lifeVars, schedVars
  <2> QED
    BY <2>1, <1>a, <1>b, <1>c, NoneIsNothing DEF Shapes, Known, InOrder, EnterPCs, LeavePCs,
       NothingHeld
<1> QED
  BY <1>1, <1>2, <1>3, <1>4, <1>5, <1>6, <1>7, <1>8, <1>9, <1>10, <1>11, <1>12, <1>13, <1>14,
     <1>15, <1>16, <1>17, <1>18, <1>19, <1>20, <1>21, <1>22, <1>23, <1>24, <1>25, <1>26,
     <1>27, <1>28, <1>29, <1>30, <1>31, <1>32, <1>33, <1>34, <1>35, <1>36, <1>37, <1>38, <1>39
     DEF Acts, UserStep, EnterStep, LeaveStep, ExitStep, KillStep

\* Nobody waits for himself, or for nobody.
LEMMA NotMineStep ==
    ASSUME IndInv, WaitInv, NEW t \in Threads, Acts(t), NEW u \in Threads, NEW d \in Crits
    PROVE  NotMine(u, d)'
<1>a. Shapes /\ Typed
  BY ShapesHold, TypedHolds
<1>b. Known(t) /\ Known(u)
  BY Knows
<1>c. NotMine(u, d) /\ NotMine(t, d)
  BY DEF WaitInv
<1>1. ASSUME NEW c \in Crits, EnterFree(t, c) PROVE NotMine(u, d)'
  BY <1>a, <1>b, <1>c, NoneIsNothing, <1>1, ZenonT(60) DEF EnterFree, At, Runs, Goto, Calls,
     CanTakeCS, csVars, prioVars, waitVars, progVars, lifeVars, schedVars, Shapes, Typed,
     Known, NotMine, Waiting, EnterPCs, LeavePCs, QueuedPCs
<1>2. ASSUME NEW c \in Crits, EnterTrap(t, c) PROVE NotMine(u, d)'
  BY <1>a, <1>b, <1>c, NoneIsNothing, <1>2, ZenonT(60) DEF EnterTrap, At, Runs, Goto, Calls,
     CanTakeCS, csVars, prioVars, waitVars, progVars, lifeVars, schedVars, Shapes, Typed,
     Known, NotMine, Waiting, EnterPCs, LeavePCs, QueuedPCs
<1>3. ASSUME NEW c \in Crits, LeaveMark(t, c) PROVE NotMine(u, d)'
  BY <1>a, <1>b, <1>c, NoneIsNothing, <1>3 DEF LeaveMark, At, Runs, Goto, Calls, CanTakeCS,
     csVars, prioVars, waitVars, progVars, lifeVars, schedVars, Shapes, Typed, Known, NotMine,
     Waiting, EnterPCs, LeavePCs, QueuedPCs
<1>4. ASSUME EnterCount(t) PROVE NotMine(u, d)'
  BY <1>a, <1>b, <1>c, NoneIsNothing, <1>4 DEF EnterCount, At, Runs, Goto, csVars, prioVars,
     waitVars, progVars, lifeVars, schedVars, Shapes, Typed, Known, NotMine, Waiting,
     EnterPCs, LeavePCs, QueuedPCs
<1>5. ASSUME LeaveTest(t) PROVE NotMine(u, d)'
  BY <1>a, <1>b, <1>c, NoneIsNothing, <1>5 DEF LeaveTest, At, Runs, Goto, csVars, prioVars,
     waitVars, progVars, lifeVars, schedVars, Shapes, Typed, Known, NotMine, Waiting,
     EnterPCs, LeavePCs, QueuedPCs
<1>6. ASSUME LeaveFast(t) PROVE NotMine(u, d)'
  <2>1. /\ UNCHANGED <<crit, stale, lpProxy, proxies>> /\ pc[t] = "leaveFast"
        /\ owner' = [owner EXCEPT ![crit[t]] = IF MarkedBy(t, crit[t]) THEN None ELSE @]
        /\ pc' = [pc EXCEPT ![t] = "user"]
    BY <1>6 DEF LeaveFast, At, Goto, waitVars
  <2>2. owner' = owner \/ (owner' = [owner EXCEPT ![crit[t]] = None] /\ proxies[crit[t]] = <<>>)
    BY <1>a, <1>b, <2>1 DEF MarkedBy, Shapes, Known, LeavePCs, MarkPCs
  <2> QED
    BY <1>a, <1>c, <2>1, <2>2, EmptyQueue, NoneIsNothing DEF Shapes, NotMine, Waiting
<1>7. ASSUME WaitConfig(t) PROVE NotMine(u, d)'
  BY <1>a, <1>b, <1>c, NoneIsNothing, <1>7, ZenonT(60) DEF WaitConfig, At, Runs, Goto, csVars,
     prioVars, waitVars, progVars, lifeVars, schedVars, Shapes, Typed, Known, NotMine,
     Waiting, EnterPCs, LeavePCs, QueuedPCs
<1>8. ASSUME CSWaitAbort(t) PROVE NotMine(u, d)'
  BY <1>a, <1>b, <1>c, NoneIsNothing, <1>8, ZenonT(60) DEF CSWaitAbort, At, Runs, Goto,
     WaitDone, csVars, prioVars, waitVars, progVars, lifeVars, schedVars, Shapes, Typed,
     Known, NotMine, Waiting, EnterPCs, LeavePCs, QueuedPCs
<1>9. ASSUME CSWaitTake(t) PROVE NotMine(u, d)'
  BY <1>a, <1>b, <1>c, NoneIsNothing, <1>9, ZenonT(60) DEF CSWaitTake, At, Runs, Goto,
     WaitDone, csVars, prioVars, waitVars, progVars, lifeVars, schedVars, Shapes, Typed,
     Known, NotMine, Waiting, EnterPCs, LeavePCs, QueuedPCs
<1>10. ASSUME CSWaitSteal(t) PROVE NotMine(u, d)'
  BY <1>a, <1>b, <1>c, NoneIsNothing, <1>10, ZenonT(60) DEF CSWaitSteal, At, Runs, Goto,
     WaitDone, csVars, prioVars, waitVars, progVars, lifeVars, schedVars, Shapes, Typed,
     Known, NotMine, Waiting, EnterPCs, LeavePCs, QueuedPCs
<1>11. ASSUME CSWaitPend(t) PROVE NotMine(u, d)'
  <2>1. /\ pc[t] = "part1" /\ crit[t] \in Crits /\ UNCHANGED <<owner, crit, stale>>
        /\ \A e \in Crits : e # crit[t] => proxies'[e] = proxies[e]
        /\ \A v : Queued(v, proxies'[crit[t]]) <=> v = t \/ Queued(v, proxies[crit[t]])
        /\ owner[crit[t]] # None /\ lpProxy' = [lpProxy EXCEPT ![t] = TRUE]
        /\ \E l \in {"boost1", "part2"} : pc' = [pc EXCEPT ![t] = l]
    BY <1>11, PendMoves DEF CSWaitPend, At, Goto, csVars, waitVars, progVars, Shapes, Typed,
       UpForGrabs
  <2>2. /\ owner'[d] = owner[d] /\ crit'[u] = crit[u] /\ stale'[u] = stale[u]
        /\ u # t => pc'[u] = pc[u] /\ lpProxy'[u] = lpProxy[u]
    BY <1>a, <2>1 DEF Shapes, Typed
  <2>3. Queued(u, proxies'[d]) => Queued(u, proxies[d]) \/ (u = t /\ d = crit[t])
    BY <2>1
  <2>4. CASE u = t
    BY <1>a, <1>b, <1>c, <2>1, <2>2, <2>3, <2>4 DEF Shapes, Typed, Known, NotMine, Waiting,
       QueuedPCs
  <2>5. CASE u # t
    BY <1>c, <2>2, <2>3, <2>5 DEF NotMine, Waiting
  <2> QED
    BY <2>4, <2>5
<1>12. ASSUME LaterLinkCritMut(t) PROVE NotMine(u, d)'
  BY <1>a, <1>b, <1>c, NoneIsNothing, <1>12 DEF LaterLinkCritMut, At, Runs, Goto, csVars,
     prioVars, waitVars, progVars, lifeVars, schedVars, Shapes, Typed, Known, NotMine,
     Waiting, EnterPCs, LeavePCs, QueuedPCs
<1>13. ASSUME PostBoostCrit1(t) PROVE NotMine(u, d)'
  BY <1>a, <1>b, <1>c, NoneIsNothing, <1>13 DEF PostBoostCrit1, At, Runs, Goto, csVars,
     prioVars, waitVars, progVars, lifeVars, schedVars, Shapes, Typed, Known, NotMine,
     Waiting, EnterPCs, LeavePCs, QueuedPCs
<1>14. ASSUME PostBoostCrit2(t) PROVE NotMine(u, d)'
  BY <1>a, <1>b, <1>c, NoneIsNothing, <1>14 DEF PostBoostCrit2, At, Runs, Goto, csVars,
     prioVars, waitVars, progVars, lifeVars, schedVars, Shapes, Typed, Known, NotMine,
     Waiting, EnterPCs, LeavePCs, QueuedPCs
<1>15. ASSUME CSWaitSignalled(t) PROVE NotMine(u, d)'
  BY <1>a, <1>b, <1>c, NoneIsNothing, <1>15 DEF CSWaitSignalled, At, Runs, Goto, csVars,
     prioVars, waitVars, progVars, lifeVars, schedVars, Shapes, Typed, Known, NotMine,
     Waiting, EnterPCs, LeavePCs, QueuedPCs
<1>16. ASSUME CSWaitTerminated(t) PROVE NotMine(u, d)'
  BY <1>a, <1>b, <1>c, NoneIsNothing, <1>16, ZenonT(60) DEF CSWaitTerminated, At, Runs, Goto,
     csVars, prioVars, waitVars, progVars, lifeVars, schedVars, Shapes, Typed, Known, NotMine,
     Waiting, EnterPCs, LeavePCs, QueuedPCs
<1>17. ASSUME CSWaitBlock(t) PROVE NotMine(u, d)'
  BY <1>a, <1>b, <1>c, NoneIsNothing, <1>17 DEF CSWaitBlock, At, Runs, Goto, MustBlock,
     csVars, prioVars, waitVars, progVars, lifeVars, schedVars, Shapes, Typed, Known, NotMine,
     Waiting, EnterPCs, LeavePCs, QueuedPCs
<1>18. ASSUME OwnerGoneFault(t) PROVE NotMine(u, d)'
  BY <1>a, <1>b, <1>c, NoneIsNothing, <1>18 DEF OwnerGoneFault, At, Runs, Goto, Faults,
     csVars, prioVars, waitVars, progVars, lifeVars, schedVars, Shapes, Typed, Known, NotMine,
     Waiting, EnterPCs, LeavePCs, QueuedPCs
<1>19. ASSUME DequeuePrioProxy(t) PROVE NotMine(u, d)'
  <2>1. /\ pc[t] = "dequeue" /\ crit[t] \in Crits /\ UNCHANGED <<owner, crit, stale, lpProxy>>
        /\ \A e \in Crits : e # crit[t] => proxies'[e] = proxies[e]
        /\ \A v : Queued(v, proxies'[crit[t]]) <=> v # t /\ Queued(v, proxies[crit[t]])
        /\ \E l \in {"reprio", "loopTest"} : pc' = [pc EXCEPT ![t] = l]
    BY <1>19, DequeueMoves DEF DequeuePrioProxy, At, Goto, csVars, waitVars, progVars, Shapes,
       Typed
  <2>2. /\ owner'[d] = owner[d] /\ crit'[u] = crit[u] /\ stale'[u] = stale[u]
        /\ u # t => pc'[u] = pc[u] /\ lpProxy'[u] = lpProxy[u]
    BY <1>a, <2>1 DEF Shapes, Typed
  <2>3. Queued(u, proxies'[d]) => Queued(u, proxies[d]) \/ (u = t /\ d = crit[t])
    BY <2>1
  <2>4. CASE u = t
    BY <1>a, <1>b, <1>c, <2>1, <2>2, <2>3, <2>4, SMTT(20) DEF Shapes, Typed, Known, NotMine,
       Waiting, QueuedPCs
  <2>5. CASE u # t
    BY <1>c, <2>2, <2>3, <2>5 DEF NotMine, Waiting
  <2> QED
    BY <2>4, <2>5
<1>20. ASSUME DoReprioCrit(t) PROVE NotMine(u, d)'
  BY <1>a, <1>b, <1>c, NoneIsNothing, <1>20 DEF DoReprioCrit, At, Runs, Goto, csVars,
     prioVars, waitVars, progVars, lifeVars, schedVars, Shapes, Typed, Known, NotMine,
     Waiting, EnterPCs, LeavePCs, QueuedPCs
<1>21. ASSUME LoopTest(t) PROVE NotMine(u, d)'
  BY <1>a, <1>b, <1>c, NoneIsNothing, <1>21 DEF LoopTest, At, Runs, Goto, Owns, ReturnPC,
     csVars, prioVars, waitVars, progVars, lifeVars, schedVars, Shapes, Typed, Known, NotMine,
     Waiting, EnterPCs, LeavePCs, QueuedPCs
<1>22. ASSUME CritFinalBoost(t) PROVE NotMine(u, d)'
  BY <1>a, <1>b, <1>c, NoneIsNothing, <1>22 DEF CritFinalBoost, At, Runs, Goto, ReturnPC,
     csVars, prioVars, waitVars, progVars, lifeVars, schedVars, Shapes, Typed, Known, NotMine,
     Waiting, EnterPCs, LeavePCs, QueuedPCs
<1>23. ASSUME PreLeaveCrit(t) PROVE NotMine(u, d)'
  <2>1. /\ UNCHANGED <<crit, owner, stale, lpProxy, proxies>>
        /\ \E l \in {"leave", "exit", "user"} : pc' = [pc EXCEPT ![t] = l]
    BY <1>23 DEF PreLeaveCrit, Goto, ReturnPC, waitVars
  <2> QED
    BY <1>a, <1>c, <2>1 DEF Shapes, NotMine, Waiting
<1>24. ASSUME LeaveCritFree(t) PROVE NotMine(u, d)'
  <2>1. /\ UNCHANGED <<crit, stale, lpProxy, proxies>> /\ proxies[crit[t]] = <<>>
        /\ owner' = [owner EXCEPT ![crit[t]] = None]
        /\ pc' = [pc EXCEPT ![t] = "postUnlink"]
    BY <1>24 DEF LeaveCritFree, Goto, waitVars
  <2> QED
    BY <1>a, <1>c, <2>1, EmptyQueue, NoneIsNothing DEF Shapes, NotMine, Waiting
<1>25. ASSUME LeaveCritStale(t) PROVE NotMine(u, d)'
  <2>1. /\ pc[t] = "leave" /\ crit[t] \in Crits /\ UNCHANGED <<owner, crit, stale, lpProxy, pc>>
        /\ \A e \in Crits : e # crit[t] => proxies'[e] = proxies[e]
        /\ \A v : Queued(v, proxies'[crit[t]]) <=> 
              v # Head(proxies[crit[t]]) /\ Queued(v, proxies[crit[t]])
        /\ TRUE
    BY <1>25, HeadMoves DEF LeaveCritStale, At, Goto, csVars, waitVars, progVars, Shapes, Typed
  <2>2. /\ owner'[d] = owner[d] /\ crit'[u] = crit[u] /\ stale'[u] = stale[u]
        /\ u # t => pc'[u] = pc[u] /\ lpProxy'[u] = lpProxy[u]
    BY <1>a, <2>1 DEF Shapes, Typed
  <2>3. Queued(u, proxies'[d]) => Queued(u, proxies[d]) \/ (u = t /\ d = crit[t])
    BY <2>1
  <2>4. CASE u = t
    BY <1>a, <1>b, <1>c, <2>1, <2>2, <2>3, <2>4 DEF Shapes, Typed, Known, NotMine, Waiting,
       QueuedPCs
  <2>5. CASE u # t
    BY <1>c, <2>2, <2>3, <2>5 DEF NotMine, Waiting
  <2> QED
    BY <2>4, <2>5
<1>26. ASSUME LeaveCritHandOver(t) PROVE NotMine(u, d)'
  <2> DEFINE w == Head(proxies[crit[t]])
  <2>0. /\ w \in Threads /\ pc[t] = "leave" /\ Queued(w, proxies[crit[t]])
        /\ \A e \in Crits : e # crit[t] => proxies'[e] = proxies[e]
        /\ \A v : Queued(v, proxies'[crit[t]]) <=> v # w /\ Queued(v, proxies[crit[t]])
        /\ crit[t] \in Crits
    BY <1>26, HeadMoves
  <2>1. /\ UNCHANGED crit /\ owner' = [owner EXCEPT ![crit[t]] = w]
        /\ stale' = [stale EXCEPT ![w] = TRUE] /\ lpProxy' = [lpProxy EXCEPT ![w] = FALSE]
        /\ \E l \in {"wake", "postUnlink"} : pc' = [pc EXCEPT ![t] = l]
    BY <1>26 DEF LeaveCritHandOver, Goto
  <2> HIDE DEF w
  <2>2. Known(w)
    BY <2>0, Knows
  <2>3. CASE u = w
    BY <1>a, <1>c, <2>0, <2>1, <2>2, <2>3, ZenonT(60) DEF Typed, Shapes, Known, NotMine,
       Waiting, QueuedPCs
  <2>4. CASE u # w
    <3>1. /\ stale'[u] = stale[u] /\ lpProxy'[u] = lpProxy[u] /\ crit'[u] = crit[u]
          /\ pc'[u] = pc[u] \/ pc'[u] \in {"wake", "postUnlink"}
          /\ owner'[d] = owner[d] \/ owner'[d] = w
      BY <1>a, <2>0, <2>1, <2>4 DEF Typed, Shapes
    <3>2. Waiting(u, d)' => Waiting(u, d)
      BY <2>0, <2>4, <3>1 DEF Waiting
    <3>3. w # None
      BY <2>0, NoneIsNothing
    <3> QED
      BY <1>c, <2>4, <3>1, <3>2, <3>3 DEF NotMine
  <2> QED
    BY <2>3, <2>4
<1>27. ASSUME WakeNewOwner(t) PROVE NotMine(u, d)'
  BY <1>a, <1>b, <1>c, NoneIsNothing, <1>27 DEF WakeNewOwner, At, Runs, Goto, csVars,
     prioVars, waitVars, progVars, lifeVars, schedVars, Shapes, Typed, Known, NotMine,
     Waiting, EnterPCs, LeavePCs, QueuedPCs
<1>28. ASSUME PostUnlinkCritMut(t) PROVE NotMine(u, d)'
  BY <1>a, <1>b, <1>c, NoneIsNothing, <1>28 DEF PostUnlinkCritMut, At, Runs, Goto, ReturnPC,
     csVars, prioVars, waitVars, progVars, lifeVars, schedVars, Shapes, Typed, Known, NotMine,
     Waiting, EnterPCs, LeavePCs, QueuedPCs
<1>29. ASSUME NEW c \in Crits, ReleaseOwned(t, c) PROVE NotMine(u, d)'
  BY <1>a, <1>b, <1>c, NoneIsNothing, <1>29 DEF ReleaseOwned, At, Runs, Goto, csVars,
     prioVars, waitVars, progVars, lifeVars, schedVars, Shapes, Typed, Known, NotMine,
     Waiting, EnterPCs, LeavePCs, QueuedPCs
<1>30. ASSUME Bury(t) PROVE NotMine(u, d)'
  BY <1>a, <1>b, <1>c, NoneIsNothing, <1>30 DEF Bury, At, Runs, Goto, csVars, prioVars,
     waitVars, progVars, lifeVars, schedVars, Shapes, Typed, Known, NotMine, Waiting,
     EnterPCs, LeavePCs, QueuedPCs
<1>31. ASSUME FinalRemoveThread(t) PROVE NotMine(u, d)'
  BY <1>a, <1>b, <1>c, NoneIsNothing, <1>31 DEF FinalRemoveThread, At, Runs, Goto, csVars,
     prioVars, waitVars, progVars, lifeVars, schedVars, Shapes, Typed, Known, NotMine,
     Waiting, EnterPCs, LeavePCs, QueuedPCs
<1>32. ASSUME SuspendSelf(t) PROVE NotMine(u, d)'
  BY <1>a, <1>b, <1>c, NoneIsNothing, <1>32 DEF SuspendSelf, At, Runs, Goto, csVars, prioVars,
     waitVars, progVars, lifeVars, schedVars, Shapes, Typed, Known, NotMine, Waiting,
     EnterPCs, LeavePCs, QueuedPCs
<1>33. ASSUME ThreadResume(t) PROVE NotMine(u, d)'
  BY <1>a, <1>b, <1>c, NoneIsNothing, <1>33 DEF ThreadResume, At, Runs, Goto, csVars,
     prioVars, waitVars, progVars, lifeVars, schedVars, Shapes, Typed, Known, NotMine,
     Waiting, EnterPCs, LeavePCs, QueuedPCs
<1>34. ASSUME ExitThread(t) PROVE NotMine(u, d)'
  BY <1>a, <1>b, <1>c, NoneIsNothing, <1>34 DEF ExitThread, At, Runs, Goto, csVars, prioVars,
     waitVars, progVars, lifeVars, schedVars, Shapes, Typed, Known, NotMine, Waiting,
     EnterPCs, LeavePCs, QueuedPCs
<1>35. ASSUME KillRunnable(t) PROVE NotMine(u, d)'
  BY <1>a, <1>b, <1>c, NoneIsNothing, <1>35 DEF KillRunnable, At, Runs, Goto, CanDie,
     DiesInUserCode, InUserMode, DieNow, csVars, prioVars, waitVars, progVars, lifeVars,
     schedVars, Shapes, Typed, Known, NotMine, Waiting, EnterPCs, LeavePCs, QueuedPCs
<1>36. ASSUME KillBlocked(t) PROVE NotMine(u, d)'
  BY <1>a, <1>b, <1>c, NoneIsNothing, <1>36, SMTT(20) DEF KillBlocked, At, Runs, Goto, CanDie,
     DiesBlocked, InUserBlock, DieNow, csVars, prioVars, waitVars, progVars, lifeVars,
     schedVars, Shapes, Typed, Known, NotMine, Waiting, EnterPCs, LeavePCs, QueuedPCs
<1>37. ASSUME
          \/ KillLater(t) \/ MakeKilledRun(t) \/ (\E c \in Crits : EnterOwned(t, c))
          \/ (\E c \in Crits : LeaveNested(t, c))
      PROVE  NotMine(u, d)'
  <2>1. UNCHANGED <<pc, crit, owner, lpProxy, stale, proxies>>
    BY <1>37 DEF EnterOwned, LeaveNested, KillLater, MakeKilledRun, Goto, csVars, prioVars,
       waitVars, progVars, lifeVars, schedVars
  <2> QED
    BY <2>1, <1>a, <1>b, <1>c, NoneIsNothing DEF Shapes, Typed, Known, NotMine, Waiting,
       EnterPCs, LeavePCs, QueuedPCs
<1>38. ASSUME NEW p \in Prios, SetThreadBasePrio(t, p) PROVE NotMine(u, d)'
  <2>1. UNCHANGED <<pc, crit, owner, lpProxy, stale, proxies>>
    BY <1>38 DEF SetThreadBasePrio, csVars, prioVars, waitVars, progVars, lifeVars, schedVars
  <2> QED
    BY <2>1, <1>a, <1>b, <1>c, NoneIsNothing DEF Shapes, Typed, Known, NotMine, Waiting,
       EnterPCs, LeavePCs, QueuedPCs
<1> QED
  BY <1>1, <1>2, <1>3, <1>4, <1>5, <1>6, <1>7, <1>8, <1>9, <1>10, <1>11, <1>12, <1>13, <1>14,
     <1>15, <1>16, <1>17, <1>18, <1>19, <1>20, <1>21, <1>22, <1>23, <1>24, <1>25, <1>26,
     <1>27, <1>28, <1>29, <1>30, <1>31, <1>32, <1>33, <1>34, <1>35, <1>36, <1>37, <1>38 DEF
     Acts, UserStep, EnterStep, LeaveStep, ExitStep, KillStep

\* Proxies are queued in order, and the release of their section goes to the kernel.
LEMMA ProxiesAtStep ==
    ASSUME IndInv, WaitInv, NEW t \in Threads, Acts(t), NEW d \in Crits
    PROVE  ProxiesAt(d)'
<1>a. Shapes /\ Typed
  BY ShapesHold, TypedHolds
<1>b. Known(t)
  BY Knows
<1>c. ProxiesAt(d)
  BY DEF WaitInv
<1>1. ASSUME WaitConfig(t) PROVE ProxiesAt(d)'
  <2>1. /\ UNCHANGED <<proxies, needtrap>>
        /\ proxPrio' = [proxPrio EXCEPT ![t] = cprio[t]]
    BY <1>1 DEF WaitConfig, At, csVars
  <2>2. \A i \in DOMAIN proxies[d] : proxPrio'[proxies[d][i]] = proxPrio[proxies[d][i]]
    <3> SUFFICES ASSUME NEW i \in DOMAIN proxies[d]
                 PROVE  proxPrio'[proxies[d][i]] = proxPrio[proxies[d][i]]
      OBVIOUS
    <3>1. Queued(proxies[d][i], proxies[d])
      BY DEF Queued
    <3>2. proxies[d][i] \in Threads
      BY <1>a, LenProperties, ElementOfSeq DEF Shapes
    <3>3. proxies[d][i] # t
      BY <1>b, <2>1, <3>1, <1>1 DEF WaitConfig, At, Known, QueuedPCs
    <3> QED
      BY <1>a, <2>1, <3>2, <3>3 DEF Typed
  <2> QED
    BY <1>c, <2>1, <2>2, <1>1 DEF WaitConfig, csVars, ProxiesAt, Ordered
<1>2. ASSUME CSWaitAbort(t) PROVE ProxiesAt(d)'
  BY <1>a, <1>b, <1>c, <1>2 DEF CSWaitAbort, At, Runs, Goto, WaitDone, csVars, prioVars,
     waitVars, progVars, lifeVars, schedVars, Shapes, Typed, Known, ProxiesAt, EnterPCs,
     LeavePCs, QueuedPCs
<1>3. ASSUME CSWaitTake(t) PROVE ProxiesAt(d)'
  BY <1>a, <1>b, <1>c, <1>3 DEF CSWaitTake, At, Runs, Goto, WaitDone, csVars, prioVars,
     waitVars, progVars, lifeVars, schedVars, Shapes, Typed, Known, ProxiesAt, EnterPCs,
     LeavePCs, QueuedPCs
<1>4. ASSUME CSWaitSteal(t) PROVE ProxiesAt(d)'
  <2>1. /\ UNCHANGED <<proxies, proxPrio>> /\ crit[t] \in Crits
        /\ \E x : needtrap' = [needtrap EXCEPT ![crit[t]] = @ \/ x]
    BY <1>b, <1>4 DEF CSWaitSteal, At, WaitDone, Known, EnterPCs
  <2> QED
    BY <1>a, <1>c, <2>1 DEF Shapes, ProxiesAt
<1>5. ASSUME CSWaitPend(t) PROVE ProxiesAt(d)'
  <2>1. /\ UNCHANGED proxPrio /\ crit[t] \in Crits
        /\ \A e \in Crits : e # crit[t] => proxies'[e] = proxies[e]
        /\ Ordered(proxies'[crit[t]], proxPrio)
    BY <1>5, PendMoves
  <2>2. /\ \A e \in Crits : e # crit[t] => needtrap'[e] = needtrap[e]
        /\ proxies'[crit[t]] # <<>> => needtrap'[crit[t]]
    BY <1>a, <2>1, <1>5 DEF CSWaitPend, Shapes
  <2> QED
    BY <1>c, <2>1, <2>2 DEF ProxiesAt
<1>6. ASSUME DequeuePrioProxy(t) PROVE ProxiesAt(d)'
  <2>1. /\ UNCHANGED proxPrio /\ crit[t] \in Crits
        /\ \A e \in Crits : e # crit[t] => proxies'[e] = proxies[e]
        /\ Ordered(proxies'[crit[t]], proxPrio)
    BY <1>6, DequeueMoves
  <2>2. /\ \A e \in Crits : e # crit[t] => needtrap'[e] = needtrap[e]
        /\ proxies'[crit[t]] # <<>> => needtrap'[crit[t]]
    BY <1>a, <1>6, DequeueMoves DEF DequeuePrioProxy, WaitInv, ProxiesAt
  <2> QED
    BY <1>c, <2>1, <2>2 DEF ProxiesAt
<1>7. ASSUME LeaveCritFree(t) PROVE ProxiesAt(d)'
  BY <1>a, <1>b, <1>c, <1>7 DEF LeaveCritFree, At, Runs, Goto, csVars, prioVars, waitVars,
     progVars, lifeVars, schedVars, Shapes, Typed, Known, ProxiesAt, EnterPCs, LeavePCs,
     QueuedPCs
<1>8. ASSUME LeaveCritStale(t) PROVE ProxiesAt(d)'
  <2>1. /\ UNCHANGED proxPrio /\ crit[t] \in Crits
        /\ \A e \in Crits : e # crit[t] => proxies'[e] = proxies[e]
        /\ Ordered(proxies'[crit[t]], proxPrio)
    BY <1>8, HeadMoves
  <2>2. /\ \A e \in Crits : e # crit[t] => needtrap'[e] = needtrap[e]
        /\ proxies'[crit[t]] # <<>> => needtrap'[crit[t]]
    BY <1>a, <1>8, HeadMoves DEF LeaveCritStale, WaitInv, ProxiesAt
  <2> QED
    BY <1>c, <2>1, <2>2 DEF ProxiesAt
<1>9. ASSUME LeaveCritHandOver(t) PROVE ProxiesAt(d)'
  <2>1. /\ UNCHANGED proxPrio /\ crit[t] \in Crits
        /\ \A e \in Crits : e # crit[t] => proxies'[e] = proxies[e]
        /\ Ordered(proxies'[crit[t]], proxPrio)
        /\ proxies' = [proxies EXCEPT ![crit[t]] = Tail(@)] /\ proxies[crit[t]] # <<>>
    BY <1>9, HeadMoves
  <2>2. /\ \A e \in Crits : e # crit[t] => needtrap'[e] = needtrap[e]
        /\ needtrap'[crit[t]] = (needtrap[crit[t]] /\ Tail(proxies[crit[t]]) # <<>>)
    BY <1>a, <2>1, <1>9 DEF LeaveCritHandOver, Shapes
  <2>3. needtrap[crit[t]] /\ proxies'[crit[t]] = Tail(proxies[crit[t]])
    BY <1>a, <2>1 DEF WaitInv, ProxiesAt, Shapes
  <2> QED
    BY <1>c, <2>1, <2>2, <2>3 DEF ProxiesAt
<1>10. ASSUME
          \/ EnterCount(t) \/ LeaveTest(t) \/ LeaveFast(t)
          \/ LaterLinkCritMut(t) \/ PostBoostCrit1(t) \/ PostBoostCrit2(t)
          \/ CSWaitSignalled(t) \/ CSWaitTerminated(t) \/ CSWaitBlock(t)
          \/ OwnerGoneFault(t) \/ DoReprioCrit(t) \/ LoopTest(t)
          \/ CritFinalBoost(t) \/ PreLeaveCrit(t) \/ WakeNewOwner(t)
          \/ PostUnlinkCritMut(t) \/ Bury(t) \/ FinalRemoveThread(t)
          \/ SuspendSelf(t) \/ ThreadResume(t) \/ ExitThread(t)
          \/ KillRunnable(t) \/ KillBlocked(t) \/ KillLater(t)
          \/ MakeKilledRun(t) \/ (\E c \in Crits : EnterOwned(t, c)) \/ (\E c \in Crits :
             EnterFree(t, c))
          \/ (\E c \in Crits : EnterTrap(t, c)) \/ (\E c \in Crits : LeaveNested(t, c)) \/ (\E
             c \in Crits : LeaveMark(t, c))
          \/ (\E c \in Crits : ReleaseOwned(t, c))
      PROVE  ProxiesAt(d)'
  <2>1. UNCHANGED <<proxies, needtrap, proxPrio>>
    BY <1>10 DEF EnterOwned, EnterFree, EnterTrap, LeaveNested, LeaveMark, EnterCount,
       LeaveTest, LeaveFast, LaterLinkCritMut, PostBoostCrit1, PostBoostCrit2,
       CSWaitSignalled, CSWaitTerminated, CSWaitBlock, OwnerGoneFault, DoReprioCrit, LoopTest,
       CritFinalBoost, PreLeaveCrit, WakeNewOwner, PostUnlinkCritMut, ReleaseOwned, Bury,
       FinalRemoveThread, SuspendSelf, ThreadResume, ExitThread, KillRunnable, KillBlocked,
       KillLater, MakeKilledRun, Faults, Goto, csVars, prioVars, waitVars, progVars, lifeVars,
       schedVars
  <2> QED
    BY <2>1, <1>a, <1>b, <1>c DEF Shapes, Typed, Known, ProxiesAt, EnterPCs, LeavePCs, QueuedPCs
<1>11. ASSUME NEW p \in Prios, SetThreadBasePrio(t, p) PROVE ProxiesAt(d)'
  <2>1. UNCHANGED <<proxies, needtrap, proxPrio>>
    BY <1>11 DEF SetThreadBasePrio, csVars, prioVars, waitVars, progVars, lifeVars, schedVars
  <2> QED
    BY <2>1, <1>a, <1>b, <1>c DEF Shapes, Typed, Known, ProxiesAt, EnterPCs, LeavePCs, QueuedPCs
<1> QED
  BY <1>1, <1>2, <1>3, <1>4, <1>5, <1>6, <1>7, <1>8, <1>9, <1>10, <1>11 DEF Acts, UserStep,
     EnterStep, LeaveStep, ExitStep, KillStep

LEMMA HeadQueued ==
    ASSUME NEW T, NEW q \in Seq(T), q # <<>>
    PROVE  Head(q) \in T /\ Queued(Head(q), q)
BY HeadTailProperties, LenProperties, EmptySeq DEF Queued

\* Link sets bListedPrio to what it should be.
LEMMA LinkKeeps ==
    ASSUME Shapes, Typed, NEW o, NEW c \in Crits, NEW cond, Link(o, c, cond),
           UNCHANGED <<proxies, proxPrio>>, NEW d \in Crits
    PROVE  \/ bListed'[d] = bListed[d] /\ listedPrio'[d] = listedPrio[d]
           \/ listedPrio'[d] = HeadPrio(d)'
<1>1. HeadPrio(c)' = HeadPrio(c)
  BY DEF HeadPrio
<1>2. CASE cond /\ Links(o, c)
  <2>1. listedPrio' = [listedPrio EXCEPT ![c] = HeadPrio(c)] /\ bListed' = [bListed EXCEPT ![c] = 1]
    BY <1>2 DEF Link
  <2> QED
    BY <1>1, <2>1 DEF Shapes, Typed
<1>3. CASE ~(cond /\ Links(o, c))
  BY <1>3 DEF Link
<1> QED
  BY <1>2, <1>3

\* bListedPrio is current unless somebody is about to make it so.
LEMMA ListedAtStep ==
    ASSUME IndInv, WaitInv, NEW t \in Threads, Acts(t), NEW d \in Crits
    PROVE  ListedAt(d)'
<1>a. Shapes /\ Typed
  BY ShapesHold, TypedHolds
<1>b. Known(t)
  BY Knows
<1>c. ListedAt(d) /\ WaitsAt(t)
  BY DEF WaitInv
<1>1. ASSUME WaitConfig(t) PROVE ListedAt(d)'
  <2>1. /\ UNCHANGED <<bListed, listedPrio, proxies, crit>>
        /\ pc[t] = "waitConfig" /\ proxPrio' = [proxPrio EXCEPT ![t] = cprio[t]]
        /\ \A u \in Threads \ {t} : pc'[u] = pc[u] /\ waitstate'[u] = waitstate[u]
    BY <1>a, <1>1 DEF WaitConfig, At, Goto, csVars, Shapes, Typed
  <2>2. HeadPrio(d)' = HeadPrio(d)
    <3>1. CASE proxies[d] = <<>>
      BY <2>1, <3>1 DEF HeadPrio
    <3>2. CASE proxies[d] # <<>>
      <4>1. Head(proxies[d]) \in Threads /\ Queued(Head(proxies[d]), proxies[d])
        BY <1>a, <3>2, HeadQueued DEF Shapes
      <4>2. Head(proxies[d]) # t
        BY <1>b, <2>1, <4>1 DEF Known, QueuedPCs
      <4> QED
        BY <1>a, <2>1, <3>2, <4>1, <4>2 DEF HeadPrio, Typed
    <3> QED
      BY <3>1, <3>2
  <2> QED
    BY <1>a, <1>c, <2>1, <2>2 DEF ListedAt, Resorts, Shapes, Typed
<1>2. ASSUME CSWaitAbort(t) PROVE ListedAt(d)'
  <2>1. /\ UNCHANGED <<bListed, listedPrio, proxies, proxPrio, crit>>
        /\ pc[t] = "part1"
        /\ \A u \in Threads \ {t} : pc'[u] = pc[u] /\ waitstate'[u] = waitstate[u]
    BY <1>a, <1>2 DEF CSWaitAbort, At, Goto, csVars, waitVars, Shapes, Typed, WaitDone
  <2> QED
    BY <1>a, <1>c, <2>1 DEF ListedAt, Resorts, HeadPrio, Shapes, Typed
<1>3. ASSUME CSWaitTake(t) PROVE ListedAt(d)'
  <2>1. /\ UNCHANGED <<bListed, listedPrio, proxies, proxPrio, crit>>
        /\ pc[t] = "part1"
        /\ \A u \in Threads \ {t} : pc'[u] = pc[u] /\ waitstate'[u] = waitstate[u]
    BY <1>a, <1>3 DEF CSWaitTake, At, Goto, csVars, waitVars, Shapes, Typed, WaitDone
  <2> QED
    BY <1>a, <1>c, <2>1 DEF ListedAt, Resorts, HeadPrio, Shapes, Typed
<1>4. ASSUME CSWaitSteal(t) PROVE ListedAt(d)'
  <2>1. /\ UNCHANGED <<bListed, listedPrio, proxies, proxPrio, crit>>
        /\ pc[t] = "part1"
        /\ \A u \in Threads \ {t} : pc'[u] = pc[u] /\ waitstate'[u] = waitstate[u]
    BY <1>a, <1>4 DEF CSWaitSteal, At, Goto, csVars, waitVars, Shapes, Typed, WaitDone
  <2> QED
    BY <1>a, <1>c, <2>1 DEF ListedAt, Resorts, HeadPrio, Shapes, Typed
<1>5. ASSUME CSWaitPend(t) PROVE ListedAt(d)'
  <2>1. /\ UNCHANGED <<bListed, listedPrio, proxPrio, crit, waitstate>> /\ crit[t] \in Crits
        /\ pc[t] = "part1"
        /\ \A u \in Threads \ {t} : pc'[u] = pc[u]
    BY <1>a, <1>b, <1>5 DEF CSWaitPend, At, Goto, waitVars, Shapes, Known, EnterPCs
  <2>4. /\ \A e \in Crits : e # crit[t] => proxies'[e] = proxies[e]
        /\ HeadPrio(crit[t])' = HeadPrio(crit[t]) \/ pc'[t] = "boost1"
    BY <1>5, PendMoves
  <2>2. CASE d = crit[t]
    <3>1. HeadPrio(d)' = HeadPrio(d) \/ pc'[t] = "boost1"
      BY <2>1, <2>2, <2>4
    <3> QED
      BY <1>c, <2>1, <2>2, <3>1 DEF ListedAt, Resorts, WaitsAt
  <2>3. CASE d # crit[t]
    <3>1. HeadPrio(d)' = HeadPrio(d)
      BY <2>1, <2>3, <2>4 DEF HeadPrio
    <3> QED
      BY <1>c, <2>1, <2>3, <3>1 DEF ListedAt, Resorts
  <2> QED
    BY <2>2, <2>3
<1>6. ASSUME LaterLinkCritMut(t) PROVE ListedAt(d)'
  <2>1. /\ UNCHANGED <<proxies, proxPrio, crit>> /\ pc[t] = "laterLink" /\ crit[t] \in Crits
        /\ \A u \in Threads \ {t} : pc'[u] = pc[u] /\ waitstate'[u] = waitstate[u]
    BY <1>a, <1>b, <1>6 DEF LaterLinkCritMut, At, Goto, waitVars, Shapes, Typed, Known, EnterPCs
  <2>2. Link(t, crit[t], owner[crit[t]] = t)
    BY <1>6 DEF LaterLinkCritMut
  <2>3. \/ bListed'[d] = bListed[d] /\ listedPrio'[d] = listedPrio[d]
        \/ listedPrio'[d] = HeadPrio(d)'
    BY <1>a, <2>1, <2>2, LinkKeeps
  <2>4. HeadPrio(d)' = HeadPrio(d)
    BY <2>1 DEF HeadPrio
  <2> QED
    BY <1>a, <1>c, <2>1, <2>3, <2>4 DEF ListedAt, Resorts
<1>7. ASSUME PostBoostCrit1(t) PROVE ListedAt(d)'
  <2>1. /\ UNCHANGED <<proxies, proxPrio, crit, bListed, waitstate>> /\ crit[t] \in Crits
        /\ \A u \in Threads \ {t} : pc'[u] = pc[u]
        /\ pc[t] = "boost1"
    BY <1>a, <1>b, <1>7 DEF PostBoostCrit1, At, Goto, waitVars, Shapes, Typed, Known, EnterPCs
  <2>2. HeadPrio(d)' = HeadPrio(d) /\ HeadPrio(crit[t]) \in Int
    BY <1>a, <2>1, HeadQueued, ConstAssumption, SMTT(20) DEF HeadPrio, Shapes, Typed
  <2>3. CASE bListed[crit[t]] = 1 /\ waitstate[t] = "PROCESSING"
    <3>1. listedPrio' = [listedPrio EXCEPT ![crit[t]] = HeadPrio(crit[t])]
      BY <2>1, <2>3, <1>7, ListedOwner DEF PostBoostCrit1, ReprioCritMut
    <3>2. CASE d = crit[t]
      BY <1>a, <2>2, <3>1, <3>2 DEF ListedAt, Typed
    <3>3. CASE d # crit[t]
      <4>1. listedPrio'[d] = listedPrio[d]
        BY <1>a, <2>1, <3>1, <3>3 DEF Typed
      <4> QED
        BY <1>c, <2>1, <2>2, <3>3, <4>1 DEF ListedAt, Resorts
    <3> QED
      BY <3>2, <3>3
  <2>4. CASE ~(bListed[crit[t]] = 1 /\ waitstate[t] = "PROCESSING")
    <3>1. listedPrio' = listedPrio
      BY <2>4, <1>7 DEF PostBoostCrit1, ReprioCritMut
    <3> QED
      BY <1>c, <2>1, <2>2, <2>4, <3>1 DEF ListedAt, Resorts
  <2> QED
    BY <2>3, <2>4
<1>8. ASSUME CSWaitTerminated(t) PROVE ListedAt(d)'
  <2>1. /\ UNCHANGED <<bListed, listedPrio, proxies, proxPrio, crit>>
        /\ pc[t] = "part2"
        /\ \A u \in Threads \ {t} : pc'[u] = pc[u] /\ waitstate'[u] = waitstate[u]
    BY <1>a, <1>8 DEF CSWaitTerminated, At, Goto, csVars, waitVars, Shapes, Typed
  <2> QED
    BY <1>a, <1>c, <2>1 DEF ListedAt, Resorts, HeadPrio, Shapes, Typed
<1>9. ASSUME CSWaitBlock(t) PROVE ListedAt(d)'
  <2>1. /\ UNCHANGED <<proxies, proxPrio, crit>> /\ pc[t] = "part2" /\ crit[t] \in Crits
        /\ \A u \in Threads \ {t} : pc'[u] = pc[u] /\ waitstate'[u] = waitstate[u]
    BY <1>a, <1>b, <1>9 DEF CSWaitBlock, At, Goto, waitVars, Shapes, Typed, Known, EnterPCs
  <2>2. Link(owner[crit[t]], crit[t], bListed[crit[t]] = 0)
    BY <1>9 DEF CSWaitBlock
  <2>3. \/ bListed'[d] = bListed[d] /\ listedPrio'[d] = listedPrio[d]
        \/ listedPrio'[d] = HeadPrio(d)'
    BY <1>a, <2>1, <2>2, LinkKeeps
  <2>4. HeadPrio(d)' = HeadPrio(d)
    BY <2>1 DEF HeadPrio
  <2> QED
    BY <1>a, <1>c, <2>1, <2>3, <2>4 DEF ListedAt, Resorts
<1>10. ASSUME DequeuePrioProxy(t) PROVE ListedAt(d)'
  <2>1. /\ UNCHANGED <<bListed, listedPrio, proxPrio, crit, waitstate>> /\ crit[t] \in Crits
        /\ pc[t] = "dequeue"
        /\ \A u \in Threads \ {t} : pc'[u] = pc[u]
    BY <1>a, <1>b, <1>10 DEF DequeuePrioProxy, At, Goto, waitVars, Shapes, Known, EnterPCs
  <2>4. /\ \A e \in Crits : e # crit[t] => proxies'[e] = proxies[e]
        /\ HeadPrio(crit[t])' = HeadPrio(crit[t]) \/ pc'[t] = "reprio"
    BY <1>10, DequeueMoves
  <2>2. CASE d = crit[t]
    <3>1. HeadPrio(d)' = HeadPrio(d) \/ pc'[t] = "reprio"
      BY <2>1, <2>2, <2>4
    <3> QED
      BY <1>c, <2>1, <2>2, <3>1 DEF ListedAt, Resorts, WaitsAt
  <2>3. CASE d # crit[t]
    <3>1. HeadPrio(d)' = HeadPrio(d)
      BY <2>1, <2>3, <2>4 DEF HeadPrio
    <3> QED
      BY <1>c, <2>1, <2>3, <3>1 DEF ListedAt, Resorts
  <2> QED
    BY <2>2, <2>3
<1>11. ASSUME DoReprioCrit(t) PROVE ListedAt(d)'
  <2>1. /\ UNCHANGED <<proxies, proxPrio, crit, bListed, waitstate>> /\ crit[t] \in Crits
        /\ \A u \in Threads \ {t} : pc'[u] = pc[u]
        /\ pc[t] = "reprio"
    BY <1>a, <1>b, <1>11 DEF DoReprioCrit, At, Goto, waitVars, Shapes, Typed, Known, EnterPCs
  <2>2. HeadPrio(d)' = HeadPrio(d) /\ HeadPrio(crit[t]) \in Int
    BY <1>a, <2>1, HeadQueued, ConstAssumption, SMTT(20) DEF HeadPrio, Shapes, Typed
  <2>3. CASE bListed[crit[t]] = 1
    <3>1. listedPrio' = [listedPrio EXCEPT ![crit[t]] = HeadPrio(crit[t])]
      BY <2>1, <2>3, <1>11, ListedOwner DEF DoReprioCrit, ReprioCritMut
    <3>2. CASE d = crit[t]
      BY <1>a, <2>2, <3>1, <3>2 DEF ListedAt, Typed
    <3>3. CASE d # crit[t]
      <4>1. listedPrio'[d] = listedPrio[d]
        BY <1>a, <2>1, <3>1, <3>3 DEF Typed
      <4> QED
        BY <1>c, <2>1, <2>2, <3>3, <4>1 DEF ListedAt, Resorts
    <3> QED
      BY <3>2, <3>3
  <2>4. CASE ~(bListed[crit[t]] = 1)
    <3>1. listedPrio' = listedPrio
      BY <2>4, <1>11 DEF DoReprioCrit, ReprioCritMut
    <3> QED
      BY <1>c, <2>1, <2>2, <2>4, <3>1 DEF ListedAt, Resorts
  <2> QED
    BY <2>3, <2>4
<1>12. ASSUME CritFinalBoost(t) PROVE ListedAt(d)'
  <2>1. /\ UNCHANGED <<proxies, proxPrio, crit>> /\ pc[t] = "finalBoost" /\ crit[t] \in Crits
        /\ \A u \in Threads \ {t} : pc'[u] = pc[u] /\ waitstate'[u] = waitstate[u]
    BY <1>a, <1>b, <1>12 DEF CritFinalBoost, At, Goto, waitVars, Shapes, Typed, Known, EnterPCs
  <2>2. Link(t, crit[t], proxies[crit[t]] # <<>>)
    BY <1>12 DEF CritFinalBoost
  <2>3. \/ bListed'[d] = bListed[d] /\ listedPrio'[d] = listedPrio[d]
        \/ listedPrio'[d] = HeadPrio(d)'
    BY <1>a, <2>1, <2>2, LinkKeeps
  <2>4. HeadPrio(d)' = HeadPrio(d)
    BY <2>1 DEF HeadPrio
  <2> QED
    BY <1>a, <1>c, <2>1, <2>3, <2>4 DEF ListedAt, Resorts
<1>13. ASSUME PreLeaveCrit(t) PROVE ListedAt(d)'
  <2>1. /\ UNCHANGED <<listedPrio, proxies, proxPrio, crit, waitstate>> /\ pc[t] = "preLeave"
        /\ \A u \in Threads \ {t} : pc'[u] = pc[u]
        /\ bListed' = bListed \/ bListed' = [bListed EXCEPT ![crit[t]] = 2]
    BY <1>a, <1>13 DEF PreLeaveCrit, At, Goto, waitVars, Shapes, Typed
  <2>2. bListed'[d] = 1 => bListed[d] = 1
    BY <1>a, <2>1 DEF Shapes
  <2>3. HeadPrio(d)' = HeadPrio(d)
    BY <2>1 DEF HeadPrio
  <2> QED
    BY <1>c, <2>1, <2>2, <2>3 DEF ListedAt, Resorts
<1>14. ASSUME LeaveCritFree(t) PROVE ListedAt(d)'
  <2>1. /\ UNCHANGED <<listedPrio, proxies, proxPrio, crit, waitstate>> /\ pc[t] = "leave"
        /\ \A u \in Threads \ {t} : pc'[u] = pc[u]
        /\ bListed' = [bListed EXCEPT ![crit[t]] = 0]
    BY <1>a, <1>14 DEF LeaveCritFree, At, Goto, waitVars, Shapes, Typed
  <2>2. bListed'[d] = 1 => bListed[d] = 1
    BY <1>a, <2>1 DEF Shapes
  <2>3. HeadPrio(d)' = HeadPrio(d)
    BY <2>1 DEF HeadPrio
  <2> QED
    BY <1>c, <2>1, <2>2, <2>3 DEF ListedAt, Resorts
<1>15. ASSUME LeaveCritStale(t) PROVE ListedAt(d)'
  <2>1. /\ UNCHANGED <<bListed, listedPrio, proxPrio, crit, waitstate, pc>> /\ crit[t] \in Crits
        /\ bListed[crit[t]] = 2
        /\ \A e \in Crits : e # crit[t] => proxies'[e] = proxies[e]
    BY <1>b, <1>15, HeadMoves DEF LeaveCritStale, waitVars, progVars, Known
  <2>2. d # crit[t] => HeadPrio(d)' = HeadPrio(d)
    BY <2>1 DEF HeadPrio
  <2> QED
    BY <1>c, <2>1, <2>2 DEF ListedAt, Resorts
<1>16. ASSUME LeaveCritHandOver(t) PROVE ListedAt(d)'
  <2> DEFINE w == Head(proxies[crit[t]])
  <2>1. /\ UNCHANGED <<listedPrio, proxPrio, crit>> /\ crit[t] \in Crits /\ pc[t] = "leave"
        /\ bListed' = [bListed EXCEPT ![crit[t]] = 0]
        /\ waitstate' = waitstate \/ waitstate' = [waitstate EXCEPT ![w] = "SIGNALLED"]
    BY <1>16, HeadMoves DEF LeaveCritHandOver
  <2>7. \A u \in Threads \ {t} : pc'[u] = pc[u]
    BY <1>a, <1>16 DEF LeaveCritHandOver, Goto, Shapes
  <2>2. /\ \A e \in Crits : e # crit[t] => proxies'[e] = proxies[e]
        /\ w \in Threads /\ Queued(w, proxies[crit[t]])
    BY <1>16, HeadMoves
  <2>3. crit[w] = crit[t]
    BY <2>1, <2>2, Knows DEF Known
  <2> HIDE DEF w
  <2>4. d # crit[t] => HeadPrio(d)' = HeadPrio(d)
    BY <2>1, <2>2 DEF HeadPrio
  <2>5. bListed'[d] = IF d = crit[t] THEN 0 ELSE bListed[d]
    BY <1>a, <2>1 DEF Shapes
  <2>6. \A u \in Threads : waitstate'[u] = waitstate[u] \/ u = w
    BY <1>a, <2>1 DEF Typed
  <2> QED
    BY <1>c, <2>1, <2>3, <2>4, <2>5, <2>6, <2>7 DEF ListedAt, Resorts
<1>17. ASSUME KillBlocked(t) PROVE ListedAt(d)'
  <2>1. /\ UNCHANGED <<bListed, listedPrio, proxies, proxPrio, crit>>
        /\ pc[t] \in {"asleep", "dequeue"}
        /\ \A u \in Threads \ {t} : pc'[u] = pc[u] /\ waitstate'[u] = waitstate[u]
    BY <1>a, <1>c, <1>17 DEF KillBlocked, At, Goto, csVars, waitVars, Shapes, Typed,
       DiesBlocked, InUserBlock, WaitsAt
  <2> QED
    BY <1>a, <1>c, <2>1 DEF ListedAt, Resorts, HeadPrio, Shapes, Typed
<1>18. ASSUME
          \/ EnterCount(t) \/ LeaveTest(t) \/ LeaveFast(t)
          \/ PostBoostCrit2(t) \/ CSWaitSignalled(t) \/ OwnerGoneFault(t)
          \/ LoopTest(t) \/ WakeNewOwner(t) \/ PostUnlinkCritMut(t)
          \/ Bury(t) \/ FinalRemoveThread(t) \/ SuspendSelf(t)
          \/ ThreadResume(t) \/ ExitThread(t) \/ KillRunnable(t)
          \/ KillLater(t) \/ MakeKilledRun(t) \/ (\E c \in Crits : EnterOwned(t, c))
          \/ (\E c \in Crits : EnterFree(t, c)) \/ (\E c \in Crits : EnterTrap(t, c)) \/ (\E c
             \in Crits : LeaveNested(t, c))
          \/ (\E c \in Crits : LeaveMark(t, c)) \/ (\E c \in Crits : ReleaseOwned(t, c))
      PROVE  ListedAt(d)'
  <2>1. UNCHANGED <<bListed, listedPrio, proxies, proxPrio, waitstate>>
    BY <1>18 DEF EnterOwned, EnterFree, EnterTrap, LeaveNested, LeaveMark, EnterCount,
       LeaveTest, LeaveFast, PostBoostCrit2, CSWaitSignalled, OwnerGoneFault, LoopTest,
       WakeNewOwner, PostUnlinkCritMut, ReleaseOwned, Bury, FinalRemoveThread, SuspendSelf,
       ThreadResume, ExitThread, KillRunnable, KillLater, MakeKilledRun, Faults, Goto, csVars,
       prioVars, waitVars, progVars, lifeVars, schedVars
  <2>2. \/ pc' = pc /\ UNCHANGED crit
        \/ /\ pc[t] \notin {"boost1", "reprio"}
           /\ \A u \in Threads \ {t} : pc'[u] = pc[u] /\ crit'[u] = crit[u]
    <3>1. CASE \/ (\E c \in Crits : EnterOwned(t, c))
               \/ (\E c \in Crits : EnterFree(t, c))
               \/ (\E c \in Crits : EnterTrap(t, c))
               \/ (\E c \in Crits : LeaveNested(t, c))
      BY <1>a, <3>1 DEF EnterOwned, EnterFree, EnterTrap, LeaveNested, Calls, At, Goto,
         progVars, Shapes
    <3>2. CASE \/ (\E c \in Crits : LeaveMark(t, c))
               \/ EnterCount(t)
               \/ LeaveTest(t)
               \/ LeaveFast(t)
      BY <1>a, <3>2 DEF LeaveMark, EnterCount, LeaveTest, LeaveFast, Calls, At, Goto,
         progVars, Shapes
    <3>3. CASE \/ PostBoostCrit2(t)
               \/ CSWaitSignalled(t)
               \/ OwnerGoneFault(t)
               \/ LoopTest(t)
      BY <1>a, <3>3 DEF PostBoostCrit2, CSWaitSignalled, OwnerGoneFault, LoopTest, Faults, At,
         Goto, progVars, Shapes
    <3>4. CASE \/ WakeNewOwner(t)
               \/ PostUnlinkCritMut(t)
               \/ (\E c \in Crits : ReleaseOwned(t, c))
               \/ Bury(t)
      BY <1>a, <3>4 DEF WakeNewOwner, PostUnlinkCritMut, ReleaseOwned, Bury, At, Goto,
         progVars, Shapes
    <3>5. CASE \/ FinalRemoveThread(t)
               \/ SuspendSelf(t)
               \/ ThreadResume(t)
               \/ ExitThread(t)
      BY <1>a, <3>5 DEF FinalRemoveThread, SuspendSelf, ThreadResume, ExitThread, At, Goto,
         progVars, Shapes
    <3>6. CASE \/ KillRunnable(t)
               \/ KillLater(t)
               \/ MakeKilledRun(t)
      BY <1>a, <3>6 DEF KillRunnable, KillLater, MakeKilledRun, DiesInUserCode, InUserMode,
         UserPCs, At, Goto, progVars, Shapes
    <3> QED
      BY <1>18, <3>1, <3>2, <3>3, <3>4, <3>5, <3>6
  <2> QED
    BY <1>c, <2>1, <2>2 DEF ListedAt, Resorts, HeadPrio
<1>19. ASSUME NEW p \in Prios, SetThreadBasePrio(t, p) PROVE ListedAt(d)'
  <2>1. UNCHANGED <<bListed, listedPrio, proxies, proxPrio, waitstate, pc, crit>>
    BY <1>19 DEF SetThreadBasePrio, csVars, waitVars, progVars
  <2> QED
    BY <1>c, <2>1 DEF ListedAt, Resorts, HeadPrio
<1> QED
  BY <1>1, <1>2, <1>3, <1>4, <1>5, <1>6, <1>7, <1>8, <1>9, <1>10, <1>11, <1>12, <1>13, <1>14,
     <1>15, <1>16, <1>17, <1>18, <1>19 DEF Acts, UserStep, EnterStep, LeaveStep, ExitStep,
     KillStep

-----------------------------------------------------------------------------
(* The scheduler *)

Dispatched == RunQueue /\ HeadRuns /\ \A t \in Threads : RunningAt(t)

\* MakeRun of a thread that is not in the queue, at the priority that it gets.
LEMMA MadeRun ==
    ASSUME Typed, NEW w \in Threads, NEW p \in Int, NEW q \in Seq(Threads), MakeRun(w, p, q),
           Distinct(q), ~Queued(w, q), Ordered(q, cprio),
           \A u \in Threads \ {w} : Queued(u, q) <=> runstate[u] = "RUNNABLE",
           ~resched /\ q # <<>> => cur # None /\ cprio[cur] <= cprio[Head(q)],
           \A u \in Threads : RunningAt(u), w # cur, cur' = cur,
           cprio' \in [Threads -> Int], cprio'[w] = p,
           \A u \in Threads \ {w} : cprio'[u] = cprio[u]
    PROVE  Dispatched'
<1>1. /\ runstate' = [runstate EXCEPT ![w] = "RUNNABLE"]
      /\ runq' = Enqueue(q, w, p, cprio)
      /\ ~resched' => ~resched /\ ~Preempts(p, q)
  BY DEF MakeRun, Typed
<1> DEFINE r == Enqueue(q, w, p, cprio)
<1>0. cprio \in [Threads -> Int]
  BY DEF Typed
<1>2. /\ r \in Seq(Threads) /\ r # <<>> /\ Distinct(r)
      /\ \A u : Queued(u, r) <=> u = w \/ Queued(u, q)
  BY <1>0, EnqueueQueue
<1>7. IF q = <<>> \/ p < cprio[Head(q)] THEN Head(r) = w ELSE Head(r) = Head(q)
  BY <1>0, EnqueueHead
<1>8. Ordered(r, cprio')
  BY <1>0, EnqueueOrder
<1>9. runq' = r
  BY <1>1
<1> HIDE DEF r
<1>4. RunQueue'
  <2>1. \A u \in Threads : Queued(u, runq') <=> runstate'[u] = "RUNNABLE"
    BY <1>1, <1>2, <1>9, ZenonT(60) DEF Typed
  <2> QED
    BY <1>2, <1>8, <1>9, <2>1 DEF RunQueue
<1>5. ASSUME NEW u \in Threads PROVE RunningAt(u)'
  BY <1>1 DEF RunningAt, Typed
<1>6. HeadRuns'
  <2> SUFFICES ASSUME ~resched' PROVE cur' # None /\ cprio'[cur'] <= cprio'[Head(runq')]
    BY DEF HeadRuns
  <2>1. ~resched /\ ~Preempts(p, q)
    BY <1>1
  <2>2. CASE q = <<>> \/ p < cprio[Head(q)]
    <3>1. Head(runq') = w
      BY <1>7, <1>9, <2>2
    <3>2. cur # None /\ ~(p < cprio[cur])
      BY <2>1, <2>2 DEF Preempts
    <3>3. cur \in Threads /\ cprio[cur] \in Int
      BY <3>2 DEF Typed
    <3> QED
      BY <3>1, <3>2, <3>3
  <2>3. CASE ~(q = <<>> \/ p < cprio[Head(q)])
    <3>1. Head(runq') = Head(q)
      BY <1>7, <1>9, <2>3
    <3>2. cur # None /\ cprio[cur] <= cprio[Head(q)]
      BY <2>1, <2>3
    <3>3. Head(q) \in Threads /\ Queued(Head(q), q)
      BY <2>3, HeadQueued
    <3>4. cprio'[cur] = cprio[cur] /\ cprio'[Head(q)] = cprio[Head(q)]
      BY <3>2, <3>3 DEF Typed
    <3> QED
      BY <3>1, <3>2, <3>4
  <2> QED
    BY <2>2, <2>3
<1> QED
  BY <1>4, <1>5, <1>6 DEF Dispatched

\* Wakers,
LEMMA WokenDispatched ==
    ASSUME Typed, Dispatched, NEW w \in Threads, UNCHANGED <<cur, cprio>>,
           MakeRunIfNeeded(w) \/ (runstate[w] = "BLOCKED" /\ MakeRun(w, cprio[w], runq))
    PROVE  Dispatched'
<1>1. CASE UNCHANGED <<runstate, runq, resched>>
  BY <1>1 DEF Dispatched, RunQueue, HeadRuns, RunningAt, Ordered
<1>2. CASE runstate[w] \in {"NEEDSRUN", "BLOCKED"} /\ MakeRun(w, cprio[w], runq)
  <2>1. ~Queued(w, runq) /\ w # cur
    BY <1>2 DEF Dispatched, RunQueue, RunningAt
  <2>2. cprio \in [Threads -> Int] /\ cprio[w] \in Int /\ runq \in Seq(Threads)
    BY DEF Typed
  <2>3. /\ Distinct(runq) /\ Ordered(runq, cprio) /\ \A u \in Threads : RunningAt(u)
        /\ \A u \in Threads : Queued(u, runq) <=> runstate[u] = "RUNNABLE"
        /\ ~resched /\ runq # <<>> => cur # None /\ cprio[cur] <= cprio[Head(runq)]
    BY DEF Dispatched, RunQueue, HeadRuns
  <2> QED
    BY <1>2, <2>1, <2>2, <2>3, MadeRun
<1> QED
  BY <1>1, <1>2 DEF MakeRunIfNeeded

\* a queue whose threads keep their priorities, with a thread that runs and is no
\* less urgent than before.
LEMMA SameQueue ==
    ASSUME Typed, Dispatched, UNCHANGED <<runstate, runq, cur>>, cprio' \in [Threads -> Int],
           \A u \in Threads : Queued(u, runq) => cprio'[u] = cprio[u],
           ~resched' /\ runq # <<>> /\ cur # None => cprio'[cur] <= cprio[Head(runq)],
           ~resched' => ~resched
    PROVE  Dispatched'
<1>1. runq \in Seq(Threads) /\ \A i \in DOMAIN runq : runq[i] \in Threads /\ Queued(runq[i], runq)
  BY LenProperties, ElementOfSeq DEF Typed, Queued
<1>2. RunQueue'
  <2>1. Ordered(runq, cprio')
    BY <1>1 DEF Dispatched, RunQueue, Ordered
  <2> QED
    BY <2>1 DEF Dispatched, RunQueue
<1>3. HeadRuns'
  <2> SUFFICES ASSUME ~resched', runq # <<>> PROVE cur # None /\ cprio'[cur] <= cprio'[Head(runq)]
    BY DEF HeadRuns
  <2>1. cur # None
    BY DEF Dispatched, HeadRuns
  <2>2. Head(runq) \in Threads /\ Queued(Head(runq), runq)
    BY <1>1, HeadQueued
  <2> QED
    BY <2>1, <2>2
<1>4. \A u \in Threads : RunningAt(u)'
  BY DEF Dispatched, RunningAt
<1> QED
  BY <1>2, <1>3, <1>4 DEF Dispatched

\* a thread that is given a better priority,
LEMMA BoostDispatched ==
    ASSUME Typed, Dispatched, NEW o \in Threads, NEW p \in Int, p <= cprio[o], cur' = cur,
           BoostCPrio(o, p)
    PROVE  Dispatched'
<1>1. /\ Distinct(runq) /\ Ordered(runq, cprio) /\ \A u \in Threads : RunningAt(u)
      /\ \A u \in Threads : Queued(u, runq) <=> runstate[u] = "RUNNABLE"
      /\ ~resched /\ runq # <<>> => cur # None /\ cprio[cur] <= cprio[Head(runq)]
  BY DEF Dispatched, RunQueue, HeadRuns
<1>2. /\ cprio' \in [Threads -> Int] /\ cprio'[o] = p
      /\ \A u \in Threads \ {o} : cprio'[u] = cprio[u]
      /\ runq \in Seq(Threads) /\ cprio \in [Threads -> Int]
  BY DEF BoostCPrio, Typed
<1>3. CASE runstate[o] = "RUNNABLE"
  <2> DEFINE q == Dequeue(runq, o)
  <2>1. MakeRun(o, p, q)
    BY <1>3 DEF BoostCPrio
  <2>2. /\ q \in Seq(Threads) /\ Distinct(q) /\ Ordered(q, cprio)
        /\ \A u : Queued(u, q) <=> u # o /\ Queued(u, runq)
        /\ q # <<>> => runq # <<>> /\ cprio[Head(runq)] <= cprio[Head(q)]
    BY <1>1, <1>2, DequeueOrder
  <2> HIDE DEF q
  <2>3. o # cur
    BY <1>1, <1>3 DEF RunningAt
  <2>4. ~resched /\ q # <<>> => cur # None /\ cprio[cur] <= cprio[Head(q)]
    <3> SUFFICES ASSUME ~resched, q # <<>> PROVE cur # None /\ cprio[cur] <= cprio[Head(q)]
      OBVIOUS
    <3>1. cur \in Threads /\ cprio[cur] <= cprio[Head(runq)] /\ cprio[Head(runq)] <= cprio[Head(q)]
      BY <1>1, <2>2 DEF Typed
    <3>2. Head(runq) \in Threads /\ Head(q) \in Threads
      BY <1>2, <2>2, HeadQueued
    <3>3. cprio[cur] \in Int /\ cprio[Head(runq)] \in Int /\ cprio[Head(q)] \in Int
      BY <1>2, <3>1, <3>2
    <3> HIDE DEF q
    <3> QED
      BY <3>1, <3>3, NoneIsNothing
  <2> QED
    BY <1>1, <1>2, <2>1, <2>2, <2>3, <2>4, MadeRun
<1>4. CASE runstate[o] # "RUNNABLE"
  <2>1. UNCHANGED <<runstate, runq, resched, cur>>
    BY <1>4 DEF BoostCPrio
  <2>2. \A u \in Threads : Queued(u, runq) => cprio'[u] = cprio[u]
    BY <1>1, <1>2, <1>4
  <2>3. ~resched /\ runq # <<>> /\ cur # None => cprio'[cur] <= cprio[Head(runq)]
    <3> SUFFICES ASSUME ~resched, runq # <<>>, cur # None PROVE cprio'[cur] <= cprio[Head(runq)]
      OBVIOUS
    <3>1. cur \in Threads /\ Head(runq) \in Threads
      BY <1>2, HeadQueued DEF Typed
    <3> QED
      BY <1>1, <1>2, <3>1, SMTT(20)
  <2> QED
    BY <1>1, <1>2, <2>1, <2>2, <2>3, SameQueue
<1> QED
  BY <1>3, <1>4


\* A thread that neither runs nor is runnable can be given another such state.
LEMMA AnotherState ==
    ASSUME Typed, Dispatched, UNCHANGED <<cur, runq, resched, cprio>>, NEW w \in Threads,
           runstate[w] = "BLOCKED", runstate' = [runstate EXCEPT ![w] = "NEEDSRUN"]
    PROVE  Dispatched'
<1>1. \A u \in Threads : /\ runstate'[u] = "RUNNABLE" <=> runstate[u] = "RUNNABLE"
                         /\ runstate'[u] = "RUNNING" <=> runstate[u] = "RUNNING"
  BY DEF Typed
<1> QED
  BY <1>1 DEF Dispatched, RunQueue, HeadRuns, RunningAt, Ordered

\* A step of a thread leaves the scheduler's lists in order.
LEMMA DispatchedStep ==
    ASSUME IndInv, WaitInv, NEW t \in Threads, Acts(t)
    PROVE  Dispatched'
<1>a. Shapes /\ Typed
  BY ShapesHold, TypedHolds
<1>b. Known(t)
  BY Knows
<1>c. Dispatched /\ WaitsAt(t)
  BY DEF WaitInv, Dispatched
<1>d. TypeOK /\ bprio[t] \in 0..LowestPrio /\ LowestPrio \in Nat
  BY ConstAssumption DEF IndInv, TypeOK, PrioType
<1>1. ASSUME PostBoostCrit2(t) PROVE Dispatched'
  <2> DEFINE o == owner[crit[t]]
             h == HeadPrio(crit[t])
  <2>1. /\ waitstate[t] = "PROCESSING" => IsValid(o)
        /\ IF waitstate[t] = "PROCESSING" /\ proxies[crit[t]] # <<>> /\ h < cprio[o]
           THEN BoostCPrio(o, h) ELSE UNCHANGED <<cprio, runstate, runq, resched>>
        /\ cur' = cur /\ pc[t] = "boost2"
    BY <1>1 DEF PostBoostCrit2, At
  <2>2. crit[t] \in Crits
    BY <1>b, <2>1 DEF Known, EnterPCs
  <2>3. h \in Int /\ (IsValid(o) => o \in Threads /\ cprio[o] \in Int)
    BY <1>a, <1>d, <2>2, HeadPrioType DEF IsValid, Shapes, Typed
  <2> HIDE DEF o, h
  <2>4. CASE waitstate[t] = "PROCESSING" /\ proxies[crit[t]] # <<>> /\ h < cprio[o]
    <3>1. o \in Threads /\ h \in Int /\ h <= cprio[o] /\ BoostCPrio(o, h)
      BY <2>1, <2>3, <2>4
    <3> QED
      BY <1>a, <1>c, <2>1, <3>1, BoostDispatched
  <2>5. CASE ~(waitstate[t] = "PROCESSING" /\ proxies[crit[t]] # <<>> /\ h < cprio[o])
    BY <1>c, <2>1, <2>5 DEF Dispatched, RunQueue, HeadRuns, RunningAt, Ordered
  <2> QED
    BY <2>4, <2>5
<1>2. ASSUME CSWaitBlock(t) PROVE Dispatched'
  <2>1. /\ t = cur /\ cur' = None /\ resched' = TRUE /\ UNCHANGED <<runq, cprio>>
        /\ runstate' = [runstate EXCEPT ![t] = "BLOCKED"]
    BY <1>2 DEF CSWaitBlock, At, Runs, prioVars
  <2>2. runstate[t] = "RUNNING"
    BY <1>c, <2>1 DEF Dispatched, RunningAt
  <2>3. RunQueue'
    <3>1. \A u \in Threads : runstate'[u] = "RUNNABLE" <=> runstate[u] = "RUNNABLE"
      BY <1>a, <2>1, <2>2 DEF Typed
    <3> QED
      BY <1>c, <2>1, <3>1 DEF Dispatched, RunQueue, Ordered
  <2>4. \A u \in Threads : RunningAt(u)'
    BY <1>a, <1>c, <2>1, NoneIsNothing DEF Dispatched, RunningAt, Typed
  <2> QED
    BY <2>1, <2>3, <2>4 DEF Dispatched, HeadRuns
<1>3. ASSUME CritFinalBoost(t) PROVE Dispatched'
  <2> DEFINE p == IF proxies[crit[t]] # <<>> THEN MinPrio(cprio[t], HeadPrio(crit[t])) ELSE cprio[t]
  <2>1. /\ t = cur /\ ~resched /\ UNCHANGED <<runstate, runq, cur, resched>>
        /\ cprio' = [cprio EXCEPT ![t] = p] /\ pc[t] = "finalBoost"
    BY <1>a, <1>3 DEF CritFinalBoost, At, Runs, schedVars, Typed
  <2>2. /\ cur \in Threads /\ cprio[t] \in Int /\ runq \in Seq(Threads)
        /\ runq # <<>> => cprio[t] <= cprio[Head(runq)] /\ cprio[Head(runq)] \in Int
    BY <1>a, <1>c, <2>1, HeadQueued DEF Typed, Dispatched, HeadRuns
  <2>3. \A u \in Threads : Queued(u, runq) => u # t
    BY <1>c, <2>1 DEF Dispatched, RunQueue, RunningAt
  <2>4. p \in Int /\ p <= cprio[t]
    <3>1. crit[t] \in Crits
      BY <1>b, <2>1 DEF Known, EnterPCs
    <3>2. HeadPrio(crit[t]) \in Int
      BY <1>a, <3>1, HeadQueued, ConstAssumption DEF HeadPrio, Shapes, Typed
    <3> QED
      BY <2>2, <3>2 DEF MinPrio
  <2> HIDE DEF p
  <2>5. /\ cprio' \in [Threads -> Int] /\ cprio'[t] = p
        /\ \A u \in Threads \ {t} : cprio'[u] = cprio[u]
    BY <1>a, <2>1, <2>4 DEF Typed
  <2>6. runq # <<>> => p <= cprio[Head(runq)]
    BY <2>2, <2>4
  <2> QED
    BY <1>a, <1>c, <2>1, <2>3, <2>5, <2>6, SameQueue
<1>4. ASSUME LeaveCritHandOver(t) PROVE Dispatched'
  <2> DEFINE w == Head(proxies[crit[t]])
  <2>1. /\ UNCHANGED <<cur, runq, resched, cprio>> /\ NoFault
        /\ runstate' = runstate \/ (waitstate[w] = "BLOCKED" /\ ~stale[w]
                                     /\ runstate' = [runstate EXCEPT ![w] = "NEEDSRUN"])
    BY <1>4 DEF LeaveCritHandOver, prioVars, At, Runs
  <2>2. crit[t] \in Crits /\ w \in Threads /\ Queued(w, proxies[crit[t]])
    BY <1>4, HeadMoves
  <2> HIDE DEF w
  <2>3. WaitsAt(w) /\ Known(w) /\ pc[w] # "fault"
    BY <2>1, <2>2, Knows DEF WaitInv, NoFault
  <2>4. CASE waitstate[w] = "BLOCKED" /\ ~stale[w]
    <3>1. runstate[w] = "BLOCKED"
      BY <2>2, <2>3, <2>4 DEF WaitsAt, Known, QueuedPCs
    <3>2. runstate' = runstate \/ runstate' = [runstate EXCEPT ![w] = "NEEDSRUN"]
      BY <2>1
    <3>3. CASE runstate' = runstate
      BY <1>c, <2>1, <3>3 DEF Dispatched, RunQueue, HeadRuns, RunningAt, Ordered
    <3>4. CASE runstate' = [runstate EXCEPT ![w] = "NEEDSRUN"]
      BY <1>a, <1>c, <2>1, <2>2, <3>1, <3>4, AnotherState
    <3> QED
      BY <3>2, <3>3, <3>4
  <2>5. CASE ~(waitstate[w] = "BLOCKED" /\ ~stale[w])
    BY <1>c, <2>1, <2>5 DEF Dispatched, RunQueue, HeadRuns, RunningAt, Ordered
  <2> QED
    BY <2>4, <2>5
<1>5. ASSUME WakeNewOwner(t) PROVE Dispatched'
  <2>1. MakeRunIfNeeded(toWake[t]) /\ UNCHANGED <<cur, cprio>> /\ pc[t] = "wake"
    BY <1>5 DEF WakeNewOwner, At, prioVars
  <2>2. toWake[t] \in Threads
    BY <1>a, <2>1 DEF Typed
  <2> QED
    BY <1>a, <1>c, <2>1, <2>2, WokenDispatched
<1>6. ASSUME PostUnlinkCritMut(t) PROVE Dispatched'
  <2> DEFINE p == InheritedPrio(t, bprio[t])
  <2>1. /\ t = cur /\ ~resched /\ UNCHANGED <<runstate, runq, cur>>
        /\ cprio' = [cprio EXCEPT ![t] = p]
        /\ resched' = (p # cprio[t] /\ runq # <<>> /\ p > cprio[Head(runq)])
    BY <1>6 DEF PostUnlinkCritMut, At, Runs
  <2>2. /\ cur \in Threads /\ cprio[t] \in Int /\ runq \in Seq(Threads)
        /\ runq # <<>> => cprio[t] <= cprio[Head(runq)] /\ cprio[Head(runq)] \in Int
    BY <1>a, <1>c, <2>1, HeadQueued DEF Typed, Dispatched, HeadRuns
  <2>3. \A u \in Threads : Queued(u, runq) => u # t
    BY <1>c, <2>1 DEF Dispatched, RunQueue, RunningAt
  <2>4. p \in Int
    BY <1>d, InheritedPrioType
  <2> HIDE DEF p
  <2>5. /\ cprio' \in [Threads -> Int] /\ cprio'[t] = p
        /\ \A u \in Threads \ {t} : cprio'[u] = cprio[u]
    BY <1>a, <2>1, <2>4 DEF Typed
  <2>6. ~resched' /\ runq # <<>> => p <= cprio[Head(runq)]
    <3>1. ~resched' => ~(p # cprio[t] /\ runq # <<>> /\ p > cprio[Head(runq)])
      BY <2>1
    <3> QED
      BY <2>2, <2>4, <3>1
  <2> QED
    BY <1>a, <1>c, <2>1, <2>3, <2>5, <2>6, SameQueue
<1>7. ASSUME FinalRemoveThread(t) PROVE Dispatched'
  <2>1. /\ t = cur /\ cur' = None /\ resched' = TRUE /\ UNCHANGED <<runq, cprio>>
        /\ runstate' = [runstate EXCEPT ![t] = "BLOCKED"]
    BY <1>7 DEF FinalRemoveThread, At, Runs, prioVars
  <2>2. runstate[t] = "RUNNING"
    BY <1>c, <2>1 DEF Dispatched, RunningAt
  <2>3. RunQueue'
    <3>1. \A u \in Threads : runstate'[u] = "RUNNABLE" <=> runstate[u] = "RUNNABLE"
      BY <1>a, <2>1, <2>2 DEF Typed
    <3> QED
      BY <1>c, <2>1, <3>1 DEF Dispatched, RunQueue, Ordered
  <2>4. \A u \in Threads : RunningAt(u)'
    BY <1>a, <1>c, <2>1, NoneIsNothing DEF Dispatched, RunningAt, Typed
  <2> QED
    BY <2>1, <2>3, <2>4 DEF Dispatched, HeadRuns
<1>8. ASSUME SuspendSelf(t) PROVE Dispatched'
  <2>1. /\ t = cur /\ cur' = None /\ resched' = TRUE /\ UNCHANGED <<runq, cprio>>
        /\ runstate' = [runstate EXCEPT ![t] = "BLOCKED"]
    BY <1>8 DEF SuspendSelf, At, Runs, prioVars
  <2>2. runstate[t] = "RUNNING"
    BY <1>c, <2>1 DEF Dispatched, RunningAt
  <2>3. RunQueue'
    <3>1. \A u \in Threads : runstate'[u] = "RUNNABLE" <=> runstate[u] = "RUNNABLE"
      BY <1>a, <2>1, <2>2 DEF Typed
    <3> QED
      BY <1>c, <2>1, <3>1 DEF Dispatched, RunQueue, Ordered
  <2>4. \A u \in Threads : RunningAt(u)'
    BY <1>a, <1>c, <2>1, NoneIsNothing DEF Dispatched, RunningAt, Typed
  <2> QED
    BY <2>1, <2>3, <2>4 DEF Dispatched, HeadRuns
<1>9. ASSUME ThreadResume(t) PROVE Dispatched'
  <2>1. runstate[t] = "BLOCKED" /\ MakeRun(t, cprio[t], runq) /\ UNCHANGED <<cur, cprio>>
    BY <1>9 DEF ThreadResume, prioVars
  <2> QED
    BY <1>a, <1>c, <2>1, WokenDispatched
<1>10. ASSUME KillRunnable(t) PROVE Dispatched'
  <2>1. /\ UNCHANGED <<cur, resched, cprio>> /\ runstate[t] = "RUNNABLE" /\ t # cur
        /\ runstate' = [runstate EXCEPT ![t] = "NEEDSRUN"] /\ runq' = Dequeue(runq, t)
    BY <1>10 DEF KillRunnable, CanDie, DieNow, DiesInUserCode, prioVars
  <2>2. /\ runq \in Seq(Threads) /\ Distinct(runq)
        /\ cprio \in [Threads -> Int] /\ Ordered(runq, cprio)
    BY <1>a, <1>c DEF Typed, Dispatched, RunQueue
  <2> DEFINE r == Dequeue(runq, t)
  <2>3. /\ r \in Seq(Threads) /\ Distinct(r) /\ Ordered(r, cprio)
        /\ \A u : Queued(u, r) <=> u # t /\ Queued(u, runq)
        /\ r # <<>> => runq # <<>> /\ cprio[Head(runq)] <= cprio[Head(r)]
    BY <2>2, DequeueOrder
  <2>4. runq' = r
    BY <2>1
  <2> HIDE DEF r
  <2>5. RunQueue'
    <3>1. \A u \in Threads : Queued(u, r) <=> runstate'[u] = "RUNNABLE"
      BY <1>a, <1>c, <2>1, <2>3 DEF Typed, Dispatched, RunQueue
    <3> QED
      BY <2>1, <2>3, <2>4, <3>1 DEF RunQueue
  <2>6. HeadRuns'
    <3> SUFFICES ASSUME ~resched, r # <<>> PROVE cur # None /\ cprio[cur] <= cprio[Head(r)]
      BY <2>1, <2>4 DEF HeadRuns
    <3>1. cur \in Threads /\ cprio[cur] <= cprio[Head(runq)] /\ cprio[Head(runq)] <= cprio[Head(r)]
      BY <1>a, <1>c, <2>3 DEF Typed, Dispatched, HeadRuns
    <3>2. Head(runq) \in Threads /\ Head(r) \in Threads
      BY <2>2, <2>3, HeadQueued
    <3>3. cprio[cur] \in Int /\ cprio[Head(runq)] \in Int /\ cprio[Head(r)] \in Int
      BY <2>2, <3>1, <3>2
    <3> QED
      BY <3>1, <3>3, NoneIsNothing
  <2>7. \A u \in Threads : RunningAt(u)'
    BY <1>a, <1>c, <2>1 DEF Typed, Dispatched, RunningAt
  <2> QED
    BY <2>5, <2>6, <2>7 DEF Dispatched
<1>11. ASSUME KillBlocked(t) PROVE Dispatched'
  <2>1. /\ UNCHANGED <<cur, runq, resched, cprio>> /\ runstate[t] = "BLOCKED"
        /\ runstate' = [runstate EXCEPT ![t] = "NEEDSRUN"]
    BY <1>11 DEF KillBlocked, DieNow, DiesBlocked, prioVars
  <2> QED
    BY <1>a, <1>c, <2>1, AnotherState
<1>12. ASSUME MakeKilledRun(t) PROVE Dispatched'
  <2>1. MakeRunIfNeeded(t) /\ UNCHANGED <<cur, cprio>>
    BY <1>12 DEF MakeKilledRun, prioVars
  <2> QED
    BY <1>a, <1>c, <2>1, WokenDispatched
<1>13. ASSUME
          \/ EnterCount(t) \/ LeaveTest(t) \/ LeaveFast(t)
          \/ WaitConfig(t) \/ CSWaitAbort(t) \/ CSWaitTake(t)
          \/ CSWaitSteal(t) \/ CSWaitPend(t) \/ LaterLinkCritMut(t)
          \/ PostBoostCrit1(t) \/ CSWaitSignalled(t) \/ CSWaitTerminated(t)
          \/ OwnerGoneFault(t) \/ DequeuePrioProxy(t) \/ DoReprioCrit(t)
          \/ LoopTest(t) \/ PreLeaveCrit(t) \/ LeaveCritFree(t)
          \/ LeaveCritStale(t) \/ Bury(t) \/ ExitThread(t)
          \/ KillLater(t) \/ (\E c \in Crits : EnterOwned(t, c)) \/ (\E c \in Crits :
             EnterFree(t, c))
          \/ (\E c \in Crits : EnterTrap(t, c)) \/ (\E c \in Crits : LeaveNested(t, c)) \/ (\E
             c \in Crits : LeaveMark(t, c))
          \/ (\E c \in Crits : ReleaseOwned(t, c))
      PROVE  Dispatched'
  <2>1. UNCHANGED <<runstate, cur, runq, resched, cprio>>
    BY <1>13 DEF EnterOwned, EnterFree, EnterTrap, LeaveNested, LeaveMark, EnterCount,
       LeaveTest, LeaveFast, WaitConfig, CSWaitAbort, CSWaitTake, CSWaitSteal, CSWaitPend,
       LaterLinkCritMut, PostBoostCrit1, CSWaitSignalled, CSWaitTerminated, OwnerGoneFault,
       DequeuePrioProxy, DoReprioCrit, LoopTest, PreLeaveCrit, LeaveCritFree, LeaveCritStale,
       ReleaseOwned, Bury, ExitThread, KillLater, Faults, Goto, csVars, prioVars, waitVars,
       progVars, lifeVars, schedVars
  <2> QED
    BY <2>1, <1>a, <1>b, <1>c DEF Dispatched, RunQueue, HeadRuns, RunningAt, Ordered
<1>14. ASSUME NEW p \in Prios, SetThreadBasePrio(t, p) PROVE Dispatched'
  <2>1. p \in 0..LowestPrio /\ p \in Int
    BY ConstAssumption
  <2>2. CASE t = cur
    <3> DEFINE np == InheritedPrio(t, p)
    <3>1. /\ t = cur /\ ~resched /\ UNCHANGED <<runstate, runq, cur>>
          /\ cprio' = [cprio EXCEPT ![t] = np]
          /\ resched' = (np # cprio[t] /\ runq # <<>> /\ np > cprio[Head(runq)])
      BY <2>2, <1>14 DEF SetThreadBasePrio, At, Runs
    <3>2. /\ cur \in Threads /\ cprio[t] \in Int /\ runq \in Seq(Threads)
          /\ runq # <<>> => cprio[t] <= cprio[Head(runq)] /\ cprio[Head(runq)] \in Int
      BY <1>a, <1>c, <3>1, HeadQueued DEF Typed, Dispatched, HeadRuns
    <3>3. \A u \in Threads : Queued(u, runq) => u # t
      BY <1>c, <3>1 DEF Dispatched, RunQueue, RunningAt
    <3>4. np \in Int
      BY <1>d, <2>1, InheritedPrioType
    <3> HIDE DEF np
    <3>5. /\ cprio' \in [Threads -> Int] /\ cprio'[t] = np
          /\ \A u \in Threads \ {t} : cprio'[u] = cprio[u]
      BY <1>a, <3>1, <3>4 DEF Typed
    <3>6. ~resched' /\ runq # <<>> => np <= cprio[Head(runq)]
      <4>1. ~resched' => ~(np # cprio[t] /\ runq # <<>> /\ np > cprio[Head(runq)])
        BY <3>1
      <4> QED
        BY <3>2, <3>4, <4>1
    <3> QED
      BY <1>a, <1>c, <3>1, <3>3, <3>5, <3>6, SameQueue
  <2>3. CASE t # cur
    <3>1. cprio[t] \in Int /\ cur' = cur
      BY <1>a, <1>14 DEF SetThreadBasePrio, Typed
    <3>2. CASE p < cprio[t]
      <4>1. BoostCPrio(t, p) /\ p <= cprio[t]
        BY <2>1, <2>3, <3>1, <3>2, <1>14 DEF SetThreadBasePrio
      <4> QED
        BY <1>a, <1>c, <2>1, <3>1, <4>1, BoostDispatched
    <3>3. CASE ~(p < cprio[t])
      <4>1. UNCHANGED <<cprio, runstate, runq, resched, cur>>
        BY <2>3, <3>1, <3>3, <1>14 DEF SetThreadBasePrio
      <4> QED
        BY <1>c, <4>1 DEF Dispatched, RunQueue, HeadRuns, RunningAt, Ordered
    <3> QED
      BY <3>2, <3>3
  <2> QED
    BY <2>2, <2>3
<1> QED
  BY <1>1, <1>2, <1>3, <1>4, <1>5, <1>6, <1>7, <1>8, <1>9, <1>10, <1>11, <1>12, <1>13, <1>14
     DEF Acts, UserStep, EnterStep, LeaveStep, ExitStep, KillStep

-----------------------------------------------------------------------------
(* The dispatch of the next thread *)

\* The thread that gives up the processor takes its place in the queue.
LEMMA AfterPreemption ==
    ASSUME Typed, Dispatched, NEW expired \in BOOLEAN
    PROVE  LET q == RunqAfterPreemption(expired)
           IN  /\ q \in Seq(Threads) /\ Distinct(q) /\ Ordered(q, cprio)
               /\ \A u : Queued(u, q) <=> Queued(u, runq) \/ (Preempted(expired) /\ u = cur)
<1>1. /\ runq \in Seq(Threads) /\ Distinct(runq) /\ cprio \in [Threads -> Int]
      /\ Ordered(runq, cprio)
  BY DEF Typed, Dispatched, RunQueue
<1>2. CASE ~Preempted(expired)
  BY <1>1, <1>2 DEF RunqAfterPreemption
<1>3. CASE Preempted(expired)
  <2>1. cur \in Threads /\ cprio[cur] \in Int
    BY <1>1, <1>3 DEF Preempted, Typed
  <2>2. ~Queued(cur, runq)
    BY <2>1 DEF Dispatched, RunQueue, RunningAt
  <2>3. CASE expired
    <3> DEFINE r == Enqueue(runq, cur, cprio[cur], cprio)
    <3>1. /\ r \in Seq(Threads) /\ Distinct(r)
          /\ \A u : Queued(u, r) <=> u = cur \/ Queued(u, runq)
      BY <1>1, <2>1, <2>2, EnqueueQueue
    <3>2. Ordered(r, cprio)
      BY <1>1, <2>1, <2>2, EnqueueOrder
    <3>3. RunqAfterPreemption(expired) = r
      BY <1>3, <2>3 DEF RunqAfterPreemption
    <3> HIDE DEF r
    <3> QED
      BY <1>3, <3>1, <3>2, <3>3
  <2>4. CASE ~expired
    <3> DEFINE r == EnqueueFirst(runq, cur, cprio[cur], cprio)
    <3>1. /\ r \in Seq(Threads) /\ Distinct(r) /\ Ordered(r, cprio)
          /\ \A u : Queued(u, r) <=> u = cur \/ Queued(u, runq)
      BY <1>1, <2>1, <2>2, EnqueueFirstOrder
    <3>2. RunqAfterPreemption(expired) = r
      BY <1>3, <2>4 DEF RunqAfterPreemption
    <3> HIDE DEF r
    <3> QED
      BY <1>3, <3>1, <3>2
  <2> QED
    BY <2>3, <2>4
<1> QED
  BY <1>2, <1>3

\* The dispatch takes the first of the run queue, or finds that nothing has changed.
LEMMA NextThreadStep ==
    ASSUME IndInv, WaitInv, NEW expired \in BOOLEAN, KCNextThread(expired)
    PROVE  /\ Dispatched'
           /\ \A u \in Threads : runstate'[u] = "BLOCKED" <=> runstate[u] = "BLOCKED"
           /\ \A u \in Threads : pLastCrit'[u] \in {pLastCrit[u], None}
<1> DEFINE q == RunqAfterPreemption(expired)
           t == Head(q)
           p == DispatchPrio(t)
<1>1. Typed /\ Shapes /\ Dispatched /\ TypeOK
  BY TypedHolds, ShapesHold DEF WaitInv, Dispatched, IndInv
<1>2. /\ q \in Seq(Threads) /\ Distinct(q) /\ Ordered(q, cprio)
      /\ \A u : Queued(u, q) <=> Queued(u, runq) \/ (Preempted(expired) /\ u = cur)
  BY <1>1, AfterPreemption
<1>3. IF q # <<>> /\ (cur = None \/ Preempted(expired))
      THEN /\ cur' = t
           /\ runq' = Tail(q)
           /\ runstate' = [u \in Threads |-> IF u = t THEN "RUNNING"
                              ELSE IF u = cur THEN "RUNNABLE" ELSE runstate[u]]
           /\ pLastCrit' = [pLastCrit EXCEPT ![t] = None]
           /\ cprio' = [cprio EXCEPT ![t] = p]
           /\ resched' = (/\ p > cprio[t]
                          /\ Tail(q) # <<>>
                          /\ p > cprio[Head(Tail(q))])
      ELSE resched' = FALSE /\ UNCHANGED <<cur, runq, runstate, pLastCrit, cprio>>
  BY DEF KCNextThread
<1>4. runq \in Seq(Threads) /\ cprio \in [Threads -> Int]
  BY <1>1 DEF Typed
<1>5. CASE q # <<>> /\ (cur = None \/ Preempted(expired))
  <2>1. /\ Tail(q) \in Seq(Threads) /\ Distinct(Tail(q)) /\ Ordered(Tail(q), cprio)
        /\ t \in Threads /\ Queued(t, q)
        /\ \A u : Queued(u, Tail(q)) <=> u # t /\ Queued(u, q)
        /\ Tail(q) # <<>> => cprio[t] <= cprio[Head(Tail(q))]
    BY <1>2, <1>4, <1>5, TailOrder
  <2>2. p \in Int /\ cprio[t] <= p
    <3>1. InheritedPrio(t, bprio[t]) \in 0..LowestPrio
      BY <1>1, <2>1, InheritedPrioType DEF TypeOK, PrioType
    <3>2. cprio[t] \in Int
      BY <1>4, <2>1
    <3> HIDE DEF t
    <3> QED
      BY <3>1, <3>2 DEF DispatchPrio
  <2> HIDE DEF p, q, t
  <2>3. \A u \in Threads : Queued(u, q) <=> runstate[u] = "RUNNABLE" \/ u = cur
    BY <1>1, <1>2, <1>5, NoneIsNothing DEF Dispatched, RunQueue
  <2>4. \A u \in Threads :
           runstate'[u] = IF u = t THEN "RUNNING" ELSE IF u = cur THEN "RUNNABLE" ELSE runstate[u]
    BY <1>3, <1>5
  <2>5. \A u \in Threads : u # t => cprio'[u] = cprio[u]
    BY <1>3, <1>4, <1>5
  <2>6. RunQueue'
    <3>1. \A i, j \in DOMAIN Tail(q) : i < j => cprio'[Tail(q)[i]] <= cprio'[Tail(q)[j]]
      <4> SUFFICES ASSUME NEW i \in DOMAIN Tail(q)
                   PROVE  cprio'[Tail(q)[i]] = cprio[Tail(q)[i]]
        BY <2>1 DEF Ordered
      <4>1. Tail(q)[i] \in Threads /\ Queued(Tail(q)[i], Tail(q))
        BY <2>1, LenProperties, ElementOfSeq DEF Queued
      <4> QED
        BY <2>1, <2>5, <4>1
    <3>2. \A u \in Threads : Queued(u, Tail(q)) <=> runstate'[u] = "RUNNABLE"
      <4> TAKE u \in Threads
      <4>1. Queued(u, Tail(q)) <=> u # t /\ (runstate[u] = "RUNNABLE" \/ u = cur)
        BY <2>1, <2>3
      <4> QED
        BY <2>4, <4>1
    <3> QED
      BY <1>3, <1>5, <2>1, <3>1, <3>2 DEF RunQueue, Ordered
  <2>7. \A u \in Threads : RunningAt(u)'
    <3> TAKE u \in Threads
    <3>1. runstate[u] = "RUNNING" <=> u = cur
      BY <1>1 DEF Dispatched, RunningAt
    <3> QED
      BY <1>3, <1>5, <2>4, <3>1 DEF RunningAt
  <2>8. HeadRuns'
    <3> SUFFICES ASSUME ~resched', Tail(q) # <<>>
                 PROVE  t # None /\ cprio'[t] <= cprio'[Head(Tail(q))]
      BY <1>3, <1>5 DEF HeadRuns
    <3>1. Head(Tail(q)) \in Threads /\ Queued(Head(Tail(q)), Tail(q))
      BY <2>1, HeadQueued
    <3>2. cprio'[t] = p /\ cprio'[Head(Tail(q))] = cprio[Head(Tail(q))]
      BY <1>3, <1>4, <1>5, <2>1, <2>5, <3>1
    <3>3. ~(p > cprio[t] /\ p > cprio[Head(Tail(q))])
      BY <1>3, <1>5
    <3>4. cprio[t] \in Int /\ cprio[Head(Tail(q))] \in Int
      BY <1>4, <2>1, <3>1
    <3> QED
      BY <2>1, <2>2, <3>2, <3>3, <3>4, NoneIsNothing
  <2>9. ASSUME NEW u \in Threads PROVE runstate'[u] = "BLOCKED" <=> runstate[u] = "BLOCKED"
    <3>1. runstate[t] = "RUNNABLE" \/ t = cur
      BY <2>1, <2>3
    <3>2. \A v \in Threads : v = cur => runstate[v] = "RUNNING"
      BY <1>1 DEF Dispatched, RunningAt
    <3> QED
      BY <2>1, <2>4, <3>1, <3>2
  <2>10. \A u \in Threads : pLastCrit'[u] \in {pLastCrit[u], None}
    BY <1>1, <1>3, <1>5 DEF Shapes
  <2> QED
    BY <2>6, <2>7, <2>8, <2>9, <2>10 DEF Dispatched
<1>6. CASE ~(q # <<>> /\ (cur = None \/ Preempted(expired)))
  <2>1. resched' = FALSE /\ UNCHANGED <<cur, runq, runstate, pLastCrit, cprio>>
    BY <1>3, <1>6
  <2>2. ASSUME runq # <<>> PROVE cur # None /\ cprio[cur] <= cprio[Head(runq)]
    <3>1. Head(runq) \in Threads /\ Queued(Head(runq), runq)
      BY <1>4, <2>2, HeadQueued
    <3>2. q # <<>>
      BY <1>2, <3>1, EmptyQueue
    <3> HIDE DEF q
    <3>3. cur # None /\ ~Preempted(expired)
      BY <1>6, <3>2
    <3>4. cur \in Threads /\ cprio[cur] \in Int /\ cprio[Head(runq)] \in Int
      BY <1>1, <1>4, <3>1, <3>3 DEF Typed
    <3> QED
      BY <2>2, <3>3, <3>4 DEF Preempted
  <2> QED
    BY <1>1, <2>1, <2>2 DEF Dispatched, RunQueue, HeadRuns, RunningAt, Ordered
<1> QED
  BY <1>5, <1>6

-----------------------------------------------------------------------------
(* The invariant *)

\* Init
LEMMA WaitInvInit == Init => WaitInv
<1> SUFFICES ASSUME Init PROVE WaitInv
  OBVIOUS
<1>1. RunQueue /\ HeadRuns /\ \A t \in Threads : RunningAt(t)
  BY NoneIsNothing, EmptyQueue DEF Init, RunQueue, HeadRuns, RunningAt, Distinct, Ordered
<1>2. \A t \in Threads : HandedOver(t) /\ WaitsAt(t) /\ InOrder(t)
  BY DEF Init, HandedOver, WaitsAt, InOrder, EnterPCs
<1>3. \A t \in Threads, c \in Crits : NotMine(t, c)
  BY DEF Init, NotMine, Waiting
<1>4. \A c \in Crits : ProxiesAt(c) /\ ListedAt(c)
  BY DEF Init, ProxiesAt, ListedAt, Ordered
<1> QED
  BY <1>1, <1>2, <1>3, <1>4 DEF WaitInv

\* Every step
LEMMA WaitInvNext == IndInv /\ WaitInv /\ [Next]_vars => WaitInv'
<1> SUFFICES ASSUME IndInv, WaitInv, [Next]_vars PROVE WaitInv'
  OBVIOUS
<1>1. ASSUME NEW t \in Threads, Acts(t) PROVE WaitInv'
  <2>1. Dispatched'
    BY <1>1, DispatchedStep
  <2>2. \A u \in Threads : HandedOver(u)' /\ WaitsAt(u)' /\ InOrder(u)'
    BY <1>1, HandedOverStep, WaitsAtStep, InOrderStep
  <2>3. \A u \in Threads, d \in Crits : NotMine(u, d)'
    BY <1>1, NotMineStep
  <2>4. \A d \in Crits : ProxiesAt(d)' /\ ListedAt(d)'
    BY <1>1, ProxiesAtStep, ListedAtStep
  <2> QED
    BY <2>1, <2>2, <2>3, <2>4 DEF WaitInv, Dispatched
<1>2. ASSUME NEW expired \in BOOLEAN, KCNextThread(expired) PROVE WaitInv'
  <2>1. UNCHANGED <<csVars, waitstate, lpProxy, stale, proxPrio, progVars>>
    BY <1>2 DEF KCNextThread
  <2>2. /\ Dispatched'
        /\ \A u \in Threads : runstate'[u] = "BLOCKED" <=> runstate[u] = "BLOCKED"
        /\ \A u \in Threads : pLastCrit'[u] \in {pLastCrit[u], None}
    BY <1>2, NextThreadStep
  <2>3. \A u \in Threads : HandedOver(u)' /\ WaitsAt(u)' /\ InOrder(u)'
    BY <2>1, <2>2 DEF WaitInv, HandedOver, WaitsAt, InOrder, Waiting, csVars, progVars
  <2>4. \A u \in Threads, d \in Crits : NotMine(u, d)'
    BY <2>1 DEF WaitInv, NotMine, Waiting, csVars, progVars
  <2>5. \A d \in Crits : ProxiesAt(d)' /\ ListedAt(d)'
    BY <2>1 DEF WaitInv, ProxiesAt, ListedAt, Resorts, HeadPrio, Ordered, csVars, progVars
  <2> QED
    BY <2>2, <2>3, <2>4, <2>5 DEF WaitInv, Dispatched
<1>3. CASE UNCHANGED vars
  BY <1>3 DEF vars, csVars, prioVars, waitVars, progVars, lifeVars, schedVars, WaitInv,
     RunQueue, HeadRuns, RunningAt, HandedOver, WaitsAt, InOrder, NotMine, ProxiesAt,
     ListedAt, Resorts, HeadPrio, Ordered, Waiting
<1> QED
  BY <1>1, <1>2, <1>3 DEF Next, Acts

\* WaitInv holds throughout.
THEOREM WaitInvariance == Spec => []WaitInv
<1> QED
  BY WaitInvInit, WaitInvNext, Invariance, PTL DEF Spec

-----------------------------------------------------------------------------
(* What a waiter relies on *)

\* A thread that has queued itself for a section is never forgotten: the section has
\* an owner, whose release goes to the kernel (CRITLeave) and finds the queue in order.
THEOREM NoWaiterIsLost == Spec => []WaitersFound
<1>1. IndInv /\ WaitInv => WaitersFound
  <2> SUFFICES ASSUME IndInv, WaitInv PROVE WaitersFound
    OBVIOUS
  <2>a. Shapes /\ \A t \in Threads : Known(t)
    BY ShapesHold, Knows
  <2>1. NoLostWaiter
    <3> SUFFICES ASSUME NEW t \in Threads, NEW c \in Crits, Waiting(t, c)
                 PROVE  /\ owner[c] # None /\ owner[c] # t
                        /\ needtrap[c]
                        /\ ~(pc[owner[c]] = "leaveFast" /\ crit[owner[c]] = c)
      BY DEF NoLostWaiter
    <3>1. owner[c] # None /\ owner[c] # t
      BY DEF WaitInv, NotMine
    <3>2. needtrap[c]
      BY EmptyQueue DEF Waiting, WaitInv, ProxiesAt
    <3>3. owner[c] \in Threads /\ LocalInv(owner[c], c)
      BY <2>a, <3>1 DEF Shapes, IndInv
    <3> QED
      BY <3>1, <3>2, <3>3 DEF LocalInv, CallAt, MarkPCs, CallPCs, UserPCs
  <2>2. BlockedIsQueued
    BY DEF BlockedIsQueued, WaitInv, WaitsAt
  <2>3. QueuesSound
    <3> SUFFICES ASSUME NEW c \in Crits, NEW i \in DOMAIN proxies[c]
                 PROVE  /\ pc[proxies[c][i]] \in EnterPCs \cup {"fault"} /\ crit[proxies[c][i]] = c
                        /\ needtrap[c]
      BY DEF QueuesSound, IndInv, QueueInv, WaitInv, ProxiesAt, Ordered
    <3>1. proxies[c][i] \in Threads /\ Queued(proxies[c][i], proxies[c])
      BY <2>a, LenProperties, ElementOfSeq DEF Shapes, Queued
    <3>2. needtrap[c]
      BY <3>1, EmptyQueue DEF WaitInv, ProxiesAt
    <3> QED
      BY <2>a, <3>1, <3>2 DEF Known, QueuedPCs, EnterPCs
  <2> QED
    BY <2>1, <2>2, <2>3 DEF WaitersFound
<1> QED
  BY <1>1, Invariance, WaitInvariance, PTL

\* What CSWaitPart1 asserts when it steals a section back from a thread that has not
\* run since it was handed over.
THEOREM StealAssertionsHold == Spec => []StealAssertions
<1>1. IndInv /\ WaitInv => StealAssertions
  <2> SUFFICES ASSUME IndInv, WaitInv PROVE StealAssertions
    OBVIOUS
  <2> SUFFICES ASSUME NEW c \in Crits, owner[c] # None, pLastCrit[owner[c]] = c
               PROVE  /\ owner[c] # cur
                      /\ lockCount[c] = 1 /\ bListed[c] = 0 /\ ~leaving[c]
                      /\ stale[owner[c]] /\ ~lpProxy[owner[c]]
    BY DEF StealAssertions
  <2> DEFINE o == owner[c]
  <2>1. o \in Threads /\ LocalInv(o, c) /\ Known(o) /\ HandedOver(o)
    BY ShapesHold, Knows DEF Shapes, IndInv, WaitInv
  <2>2. o # cur /\ crit[o] = c /\ pc[o] \in QueuedPCs /\ bListed[c] = 0
    BY <2>1 DEF LocalInv, HandedAt
  <2>3. ~leaving[c]
    BY <2>1, <2>2 DEF Known, QueuedPCs, EnterPCs
  <2>4. lockCount[c] = 1
    BY <2>1, <2>2, <2>3 DEF LocalInv, CallAt, Owns, CallPCs, EnterPCs, QueuedPCs
  <2> QED
    BY <2>1, <2>2, <2>3, <2>4, NoneIsNothing DEF HandedOver
<1> QED
  BY <1>1, Invariance, WaitInvariance, PTL

\* bListedPrio of a linked section is the priority of its first proxy, except between
\* a change of the queue and the KCall that sorts the section anew.
THEOREM ListedPrioIsCurrent == Spec => []ListedPrioCurrent
<1>1. WaitInv => ListedPrioCurrent
  <2> SUFFICES ASSUME WaitInv PROVE ListedPrioCurrent
    OBVIOUS
  <2> QED
    BY DEF WaitInv, ListedAt, Resorts, ListedPrioCurrent
<1> QED
  BY <1>1, WaitInvariance, PTL

\* Threads that enter sections in the order of csarray never wait for each other in a
\* circle: whoever waits for the section that comes first there waits for a thread
\* outside.
THEOREM NobodyWaitsInACircle == Spec => []NoCircularWait
<1>1. IndInv /\ WaitInv => NoCircularWait
  <2> SUFFICES ASSUME IndInv, WaitInv PROVE NoCircularWait
    OBVIOUS
  <2> SUFFICES ASSUME NEW S \in SUBSET Threads, S # {},
                      \A t \in S : \E c \in Crits : Waiting(t, c) /\ owner[c] \in S
               PROVE  FALSE
    BY DEF NoCircularWait
  <2>a. Shapes /\ Typed /\ \A t \in Threads : Known(t)
    BY ShapesHold, TypedHolds, Knows
  <2>1. \A t \in S : /\ crit[t] \in Crits /\ Waiting(t, crit[t]) /\ owner[crit[t]] \in S
                     /\ pc[t] \in QueuedPCs \cup {"fault"}
    BY <2>a DEF Waiting, Known
  <2>2. PICK t \in S : \A u \in S : CSIndex[crit[t]] <= CSIndex[crit[u]]
    <3> DEFINE I == {CSIndex[crit[u]] : u \in S}
    <3>1. I \in SUBSET Nat /\ I # {}
      BY <2>1, ConstAssumption
    <3> HIDE DEF I
    <3>2. PICK x \in I : \A y \in I : x <= y
      BY <3>1, LeastElement
    <3> QED
      BY <3>2 DEF I
  <2> DEFINE c == crit[t]
             o == owner[c]
             d == crit[o]
  <2>3. c \in Crits /\ o \in S /\ d \in Crits /\ Waiting(o, d) /\ owner[d] # o
    BY <2>1 DEF WaitInv, NotMine
  <2>4. c # d
    BY <2>3
  <2>5. LocalInv(o, c) /\ pc[o] \in QueuedPCs \cup {"fault"} /\ InOrder(o)
    BY <2>1, <2>3 DEF IndInv, WaitInv
  <2>6. ~Ended(o)
    BY <2>5 DEF LocalInv, EndAt, Ended, QueuedPCs, LeavePCs
  <2>7. depth[o][c] > 0
    <3>1. depth[o][c] \in Nat
      BY <2>a, <2>3 DEF Shapes
    <3> QED
      BY <2>4, <2>5, <2>6, <3>1 DEF LocalInv, OwnerAt, Owns, MarkedBy
  <2>8. CSIndex[c] > CSIndex[d]
    BY <2>3, <2>5, <2>7 DEF InOrder, QueuedPCs, EnterPCs
  <2>9. CSIndex[c] <= CSIndex[d] /\ CSIndex[c] \in Int /\ CSIndex[d] \in Int
    BY <2>a, <2>2, <2>3 DEF Typed
  <2> QED
    BY <2>8, <2>9
<1> QED
  BY <1>1, Invariance, WaitInvariance, PTL

\* Between kernel calls the most urgent runnable thread has the processor, and the run
\* queue holds the others in order.
THEOREM MostUrgentRuns == Spec => []HighestPriorityRuns
<1>1. WaitInv => HighestPriorityRuns
  <2> SUFFICES ASSUME WaitInv PROVE HighestPriorityRuns
    OBVIOUS
  <2> QED
    BY DEF WaitInv, RunQueue, HeadRuns, RunningAt, Ordered, HighestPriorityRuns
<1> QED
  BY <1>1, WaitInvariance, PTL

=============================================================================
