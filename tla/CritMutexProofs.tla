--------------------------- MODULE CritMutexProofs ---------------------------
(* Type correctness and mutual exclusion of CritSect, for any threads,      *)
(* sections and priorities, and that its sections are the locks of module   *)
(* Lock.                                                                     *)
EXTENDS CritSect, PrioSeqProofs

----------------------------------------------------------------------------
(* The operators the model is built from *)

LEMMA InheritedPrioType ==
    ASSUME TypeOK, NEW t \in Threads, NEW p \in 0..LowestPrio
    PROVE  InheritedPrio(t, p) \in 0..LowestPrio
<1>1. CASE \E c \in owned[t] : listedPrio[c] < p
  <2> DEFINE S == {listedPrio[c] : c \in owned[t]}
  <2>1. S \in SUBSET (0..LowestPrio) /\ S # {}
    BY <1>1, ConstAssumption DEF TypeOK, CSType, PrioType
  <2>2. \E x \in S : \A y \in S : x <= y
    <3>1. S \in SUBSET Nat /\ S # {}
      BY <2>1, ConstAssumption
    <3> HIDE DEF S
    <3> QED
      BY <3>1, LeastElement
  <2>3. \E x \in S : \A c \in owned[t] : x <= listedPrio[c]
    BY <2>2
  <2> QED
    BY <1>1, <2>1, <2>3 DEF InheritedPrio
<1>2. CASE ~\E c \in owned[t] : listedPrio[c] < p
  BY <1>2 DEF InheritedPrio
<1> QED
  BY <1>1, <1>2

LEMMA HeadPrioType ==
    ASSUME TypeOK, NEW c \in Crits
    PROVE  HeadPrio(c) \in 0..LowestPrio
<1>1. CASE proxies[c] = <<>>
  BY <1>1, ConstAssumption DEF HeadPrio
<1>2. CASE proxies[c] # <<>>
  <2>1. Head(proxies[c]) \in Threads
    BY <1>2, HeadTailProperties DEF TypeOK, CSType, PrioType
  <2> QED
    BY <1>2, <2>1 DEF HeadPrio, TypeOK, WaitType
<1> QED
  BY <1>1, <1>2

----------------------------------------------------------------------------
(* Types *)

LEMMA MakeRunType ==
    ASSUME TypeOK, NEW t \in Threads, NEW p, NEW q \in Seq(Threads), MakeRun(t, p, q)
    PROVE  /\ runstate' \in [Threads -> {"RUNNING", "RUNNABLE", "BLOCKED", "NEEDSRUN"}]
           /\ runq' \in Seq(Threads)
           /\ resched' \in BOOLEAN
<1>1. runq' \in Seq(Threads)
  BY EnqueueType DEF MakeRun
<1>2. resched' \in BOOLEAN
  BY DEF MakeRun, Preempts, TypeOK, SchedType
<1> QED
  BY <1>1, <1>2 DEF MakeRun, TypeOK, SchedType

LEMMA BoostType ==
    ASSUME TypeOK, NEW t \in Threads, NEW p \in 0..LowestPrio, BoostCPrio(t, p)
    PROVE  /\ cprio' \in [Threads -> 0..LowestPrio]
           /\ runstate' \in [Threads -> {"RUNNING", "RUNNABLE", "BLOCKED", "NEEDSRUN"}]
           /\ runq' \in Seq(Threads)
           /\ resched' \in BOOLEAN
<1>1. cprio' \in [Threads -> 0..LowestPrio]
  BY DEF BoostCPrio, TypeOK, PrioType
<1>2. CASE runstate[t] = "RUNNABLE"
  BY <1>1, <1>2, MakeRunType, DequeueType DEF BoostCPrio, TypeOK, SchedType
<1>3. CASE runstate[t] # "RUNNABLE"
  BY <1>1, <1>3 DEF BoostCPrio, TypeOK, SchedType
<1> QED
  BY <1>2, <1>3

LEMMA WakeType ==
    ASSUME TypeOK, NEW w \in Threads, MakeRunIfNeeded(w)
    PROVE  /\ runstate' \in [Threads -> {"RUNNING", "RUNNABLE", "BLOCKED", "NEEDSRUN"}]
           /\ runq' \in Seq(Threads)
           /\ resched' \in BOOLEAN
<1>1. CASE runstate[w] = "NEEDSRUN"
  BY <1>1, MakeRunType DEF MakeRunIfNeeded, TypeOK, SchedType
<1>2. CASE runstate[w] # "NEEDSRUN"
  BY <1>2 DEF MakeRunIfNeeded, TypeOK, SchedType
<1> QED
  BY <1>1, <1>2

LEMMA LinkType ==
    ASSUME TypeOK, NEW t, NEW c \in Crits, NEW cond, Link(t, c, cond)
    PROVE  /\ bListed' \in [Crits -> 0..2]
           /\ listedPrio' \in [Crits -> 0..LowestPrio]
           /\ owned' \in [Threads -> SUBSET Crits]
<1>1. CASE cond /\ Links(t, c)
  <2>1. HeadPrio(c) \in 0..LowestPrio
    BY HeadPrioType
  <2>2. /\ bListed' = [bListed EXCEPT ![c] = 1]
        /\ listedPrio' = [listedPrio EXCEPT ![c] = HeadPrio(c)]
        /\ owned' = [owned EXCEPT ![t] = @ \cup {c}]
    BY <1>1 DEF Link
  <2>3. bListed' \in [Crits -> 0..2]
    BY <2>2 DEF TypeOK, CSType
  <2>4. listedPrio' \in [Crits -> 0..LowestPrio]
    BY <2>1, <2>2 DEF TypeOK, CSType
  <2>5. owned' \in [Threads -> SUBSET Crits]
    BY <2>2 DEF TypeOK, PrioType
  <2> QED
    BY <2>3, <2>4, <2>5
<1>2. CASE ~(cond /\ Links(t, c))
  BY <1>2 DEF Link, TypeOK, CSType, PrioType
<1> QED
  BY <1>1, <1>2

LEMMA ReprioType ==
    ASSUME TypeOK, NEW t, NEW c \in Crits, ReprioCritMut(t, c)
    PROVE  /\ listedPrio' \in [Crits -> 0..LowestPrio]
           /\ owned' \in [Threads -> SUBSET Crits]
<1>1. CASE bListed[c] = 1
  <2>1. HeadPrio(c) \in 0..LowestPrio
    BY HeadPrioType
  <2>2. listedPrio' \in [Crits -> 0..LowestPrio]
    BY <1>1, <2>1 DEF ReprioCritMut, TypeOK, CSType
  <2>3. owned' = [owned EXCEPT ![t] = @ \cup {c}]
    BY <1>1 DEF ReprioCritMut
  <2>4. owned' \in [Threads -> SUBSET Crits]
    BY <2>3 DEF TypeOK, PrioType
  <2> QED
    BY <2>2, <2>4
<1>2. CASE bListed[c] # 1
  BY <1>2 DEF ReprioCritMut, TypeOK, CSType, PrioType
<1> QED
  BY <1>1, <1>2

LEMMA InitType == Init => TypeOK
<1> SUFFICES ASSUME Init PROVE TypeOK
  OBVIOUS
<1> USE ConstAssumption DEF Init
<1>1. CSType
  BY EmptySeq DEF CSType
<1>2. PrioType
  BY DEF PrioType
<1>3. WaitType
  BY DEF WaitType
<1>4. LifeType
  BY DEF LifeType
<1>5. SchedType
  BY EmptySeq DEF SchedType
<1>6. ProgType
  BY DEF ProgType, CallPCs, UserPCs, EnterPCs, LeavePCs
<1> QED
  BY <1>1, <1>2, <1>3, <1>4, <1>5, <1>6 DEF TypeOK

LEMMA EnterOwnedType ==
    ASSUME TypeOK, NEW t \in Threads, NEW c \in Crits, EnterOwned(t, c)
    PROVE  TypeOK'
<1> USE ConstAssumption DEF TypeOK
<1>1. (PrioType /\ WaitType /\ LifeType /\ SchedType)'
  BY DEF EnterOwned, prioVars, PrioType, waitVars, WaitType, lifeVars, LifeType,
     schedVars, SchedType
<1>2. CSType'
  BY DEF EnterOwned, CSType, csVars
<1>3. ProgType'
  BY DEF EnterOwned, At, Runs, CallPCs, UserPCs, EnterPCs, LeavePCs, ProgType, progVars
<1> QED
  BY <1>1, <1>2, <1>3

LEMMA EnterFreeType ==
    ASSUME TypeOK, NEW t \in Threads, NEW c \in Crits, EnterFree(t, c)
    PROVE  TypeOK'
<1> USE ConstAssumption DEF TypeOK
<1>1. (PrioType /\ WaitType /\ LifeType /\ SchedType)'
  BY DEF EnterFree, prioVars, PrioType, waitVars, WaitType, lifeVars, LifeType,
     schedVars, SchedType
<1>2. CSType'
  BY DEF EnterFree, CSType, csVars
<1>3. ProgType'
  BY DEF EnterFree, Goto, At, Runs, CallPCs, UserPCs, EnterPCs, LeavePCs, ProgType,
     progVars
<1> QED
  BY <1>1, <1>2, <1>3

LEMMA EnterTrapType ==
    ASSUME TypeOK, NEW t \in Threads, NEW c \in Crits, EnterTrap(t, c)
    PROVE  TypeOK'
<1> USE ConstAssumption DEF TypeOK
<1>1. (CSType /\ PrioType /\ WaitType /\ LifeType /\ SchedType)'
  BY DEF EnterTrap, csVars, CSType, prioVars, PrioType, waitVars, WaitType, lifeVars,
     LifeType, schedVars, SchedType
<1>2. ProgType'
  BY DEF EnterTrap, Goto, At, Runs, CallPCs, UserPCs, EnterPCs, LeavePCs, ProgType,
     progVars
<1> QED
  BY <1>1, <1>2

LEMMA LeaveNestedType ==
    ASSUME TypeOK, NEW t \in Threads, NEW c \in Crits, LeaveNested(t, c)
    PROVE  TypeOK'
<1> USE ConstAssumption DEF TypeOK
<1>1. (PrioType /\ WaitType /\ LifeType /\ SchedType)'
  BY DEF LeaveNested, prioVars, PrioType, waitVars, WaitType, lifeVars, LifeType,
     schedVars, SchedType
<1>2. CSType'
  BY DEF LeaveNested, CSType, csVars
<1>3. ProgType'
  BY DEF LeaveNested, At, Runs, CallPCs, UserPCs, EnterPCs, LeavePCs, ProgType, progVars
<1> QED
  BY <1>1, <1>2, <1>3

LEMMA LeaveMarkType ==
    ASSUME TypeOK, NEW t \in Threads, NEW c \in Crits, LeaveMark(t, c)
    PROVE  TypeOK'
<1> USE ConstAssumption DEF TypeOK
<1>1. (PrioType /\ WaitType /\ LifeType /\ SchedType)'
  BY DEF LeaveMark, prioVars, PrioType, waitVars, WaitType, lifeVars, LifeType,
     schedVars, SchedType
<1>2. CSType'
  BY DEF LeaveMark, CSType, csVars
<1>3. ProgType'
  BY DEF LeaveMark, Goto, At, Runs, CallPCs, UserPCs, EnterPCs, LeavePCs, ProgType,
     progVars
<1> QED
  BY <1>1, <1>2, <1>3

LEMMA EnterCountType ==
    ASSUME TypeOK, NEW t \in Threads, EnterCount(t)
    PROVE  TypeOK'
<1> USE ConstAssumption DEF TypeOK
<1>1. crit[t] \in Crits
  BY DEF EnterCount, At, Runs, ProgType, CallPCs, UserPCs, EnterPCs, LeavePCs
<1>2. (PrioType /\ WaitType /\ LifeType /\ SchedType)'
  BY DEF EnterCount, prioVars, PrioType, waitVars, WaitType, lifeVars, LifeType,
     schedVars, SchedType
<1>3. CSType'
  BY <1>1 DEF EnterCount, CSType, csVars
<1>4. ProgType'
  BY <1>1 DEF EnterCount, Goto, At, Runs, CallPCs, UserPCs, EnterPCs, LeavePCs,
     ProgType, progVars
<1> QED
  BY <1>2, <1>3, <1>4

LEMMA LeaveTestType ==
    ASSUME TypeOK, NEW t \in Threads, LeaveTest(t)
    PROVE  TypeOK'
<1> USE ConstAssumption DEF TypeOK
<1>1. crit[t] \in Crits
  BY DEF LeaveTest, At, Runs, ProgType, CallPCs, UserPCs, EnterPCs, LeavePCs
<1>2. (CSType /\ PrioType /\ WaitType /\ LifeType /\ SchedType)'
  BY DEF LeaveTest, csVars, CSType, prioVars, PrioType, waitVars, WaitType, lifeVars,
     LifeType, schedVars, SchedType
<1>3. ProgType'
  BY <1>1 DEF LeaveTest, Goto, At, Runs, CallPCs, UserPCs, EnterPCs, LeavePCs, ProgType,
     progVars
<1> QED
  BY <1>2, <1>3

LEMMA LeaveFastType ==
    ASSUME TypeOK, NEW t \in Threads, LeaveFast(t)
    PROVE  TypeOK'
<1> USE ConstAssumption DEF TypeOK
<1>1. crit[t] \in Crits
  BY DEF LeaveFast, At, Runs, ProgType, CallPCs, UserPCs, EnterPCs, LeavePCs
<1>2. (PrioType /\ WaitType /\ LifeType /\ SchedType)'
  BY DEF LeaveFast, prioVars, PrioType, waitVars, WaitType, lifeVars, LifeType,
     schedVars, SchedType
<1>3. CSType'
  BY <1>1 DEF LeaveFast, CSType, csVars
<1>4. ProgType'
  BY <1>1 DEF LeaveFast, Goto, At, Runs, CallPCs, UserPCs, EnterPCs, LeavePCs, ProgType,
     progVars
<1> QED
  BY <1>2, <1>3, <1>4

LEMMA WaitConfigType ==
    ASSUME TypeOK, NEW t \in Threads, WaitConfig(t)
    PROVE  TypeOK'
<1> USE ConstAssumption DEF TypeOK
<1>1. (CSType /\ PrioType /\ LifeType /\ SchedType)'
  BY DEF WaitConfig, csVars, CSType, prioVars, PrioType, lifeVars, LifeType, schedVars,
     SchedType
<1>2. WaitType'
  BY DEF WaitConfig, WaitType, PrioType
<1>3. ProgType'
  BY DEF WaitConfig, Goto, At, Runs, CallPCs, UserPCs, EnterPCs, LeavePCs, ProgType,
     progVars
<1> QED
  BY <1>1, <1>2, <1>3

LEMMA CSWaitAbortType ==
    ASSUME TypeOK, NEW t \in Threads, CSWaitAbort(t)
    PROVE  TypeOK'
<1> USE ConstAssumption DEF TypeOK
<1>1. (CSType /\ PrioType /\ LifeType /\ SchedType)'
  BY DEF CSWaitAbort, csVars, CSType, prioVars, PrioType, lifeVars, LifeType, schedVars,
     SchedType
<1>2. WaitType'
  BY DEF CSWaitAbort, WaitDone, WaitType, waitVars
<1>3. ProgType'
  BY DEF CSWaitAbort, Goto, At, Runs, CallPCs, UserPCs, EnterPCs, LeavePCs, ProgType,
     progVars
<1> QED
  BY <1>1, <1>2, <1>3

LEMMA CSWaitTakeType ==
    ASSUME TypeOK, NEW t \in Threads, CSWaitTake(t)
    PROVE  TypeOK'
<1> USE ConstAssumption DEF TypeOK
<1>1. crit[t] \in Crits
  BY DEF CSWaitTake, At, Runs, ProgType, CallPCs, UserPCs, EnterPCs, LeavePCs
<1>2. (PrioType /\ LifeType /\ SchedType)'
  BY DEF CSWaitTake, prioVars, PrioType, lifeVars, LifeType, schedVars, SchedType
<1>3. CSType'
  BY <1>1 DEF CSWaitTake, CSType, csVars
<1>4. WaitType'
  BY <1>1 DEF CSWaitTake, WaitDone, WaitType, waitVars
<1>5. ProgType'
  BY <1>1 DEF CSWaitTake, Goto, At, Runs, CallPCs, UserPCs, EnterPCs, LeavePCs,
     ProgType, progVars
<1> QED
  BY <1>2, <1>3, <1>4, <1>5

LEMMA CSWaitStealType ==
    ASSUME TypeOK, NEW t \in Threads, CSWaitSteal(t)
    PROVE  TypeOK'
<1> USE ConstAssumption DEF TypeOK
<1>1. crit[t] \in Crits
  BY DEF CSWaitSteal, At, Runs, ProgType, CallPCs, UserPCs, EnterPCs, LeavePCs
<1>2. (PrioType /\ LifeType /\ SchedType)'
  BY DEF CSWaitSteal, prioVars, PrioType, lifeVars, LifeType, schedVars, SchedType
<1>3. CSType'
  BY <1>1 DEF CSWaitSteal, CSType, csVars
<1>4. WaitType'
  BY <1>1 DEF CSWaitSteal, WaitDone, WaitType, waitVars
<1>5. ProgType'
  BY <1>1 DEF CSWaitSteal, Goto, At, Runs, CallPCs, UserPCs, EnterPCs, LeavePCs,
     ProgType, progVars
<1> QED
  BY <1>2, <1>3, <1>4, <1>5

LEMMA CSWaitPendType ==
    ASSUME TypeOK, NEW t \in Threads, CSWaitPend(t)
    PROVE  TypeOK'
<1> USE ConstAssumption DEF TypeOK
<1>1. crit[t] \in Crits
  BY DEF CSWaitPend, At, Runs, ProgType, CallPCs, UserPCs, EnterPCs, LeavePCs
<1>2. (PrioType /\ LifeType /\ SchedType)'
  BY DEF CSWaitPend, prioVars, PrioType, lifeVars, LifeType, schedVars, SchedType
<1>3. CSType'
  BY <1>1, EnqueueType DEF CSWaitPend, CSType, csVars
<1>4. WaitType'
  BY <1>1 DEF CSWaitPend, WaitType, waitVars
<1>5. ProgType'
  BY <1>1 DEF CSWaitPend, Goto, At, Runs, CallPCs, UserPCs, EnterPCs, LeavePCs,
     ProgType, progVars
<1> QED
  BY <1>2, <1>3, <1>4, <1>5

LEMMA LaterLinkCritMutType ==
    ASSUME TypeOK, NEW t \in Threads, LaterLinkCritMut(t)
    PROVE  TypeOK'
<1> USE ConstAssumption DEF TypeOK
<1>1. crit[t] \in Crits
  BY DEF LaterLinkCritMut, At, Runs, ProgType, CallPCs, UserPCs, EnterPCs, LeavePCs
<1>2. (WaitType /\ LifeType /\ SchedType)'
  BY DEF LaterLinkCritMut, waitVars, WaitType, lifeVars, LifeType, schedVars, SchedType
<1>3. CSType'
  BY <1>1, LinkType DEF LaterLinkCritMut, CSType, csVars
<1>4. PrioType'
  BY <1>1, LinkType DEF LaterLinkCritMut, PrioType, prioVars
<1>5. ProgType'
  BY <1>1 DEF LaterLinkCritMut, Goto, At, Runs, CallPCs, UserPCs, EnterPCs, LeavePCs,
     ProgType, progVars
<1> QED
  BY <1>2, <1>3, <1>4, <1>5

LEMMA PostBoostCrit1Type ==
    ASSUME TypeOK, NEW t \in Threads, PostBoostCrit1(t)
    PROVE  TypeOK'
<1> USE ConstAssumption DEF TypeOK
<1>1. crit[t] \in Crits
  BY DEF PostBoostCrit1, At, Runs, ProgType, CallPCs, UserPCs, EnterPCs, LeavePCs
<1>2. (WaitType /\ LifeType /\ SchedType)'
  BY DEF PostBoostCrit1, waitVars, WaitType, lifeVars, LifeType, schedVars, SchedType
<1>3. CSType'
  BY <1>1, ReprioType DEF PostBoostCrit1, CSType, csVars
<1>4. PrioType'
  BY <1>1, ReprioType DEF PostBoostCrit1, PrioType, prioVars
<1>5. ProgType'
  BY <1>1 DEF PostBoostCrit1, Goto, At, Runs, CallPCs, UserPCs, EnterPCs, LeavePCs,
     ProgType, progVars
<1> QED
  BY <1>2, <1>3, <1>4, <1>5

LEMMA PostBoostCrit2Type ==
    ASSUME TypeOK, NEW t \in Threads, PostBoostCrit2(t)
    PROVE  TypeOK'
<1> USE ConstAssumption DEF TypeOK
<1> DEFINE o == owner[crit[t]]
<1>1. crit[t] \in Crits
  BY DEF PostBoostCrit2, At, Runs, ProgType, CallPCs, UserPCs, EnterPCs, LeavePCs
<1>2. (CSType /\ WaitType /\ LifeType)'
  BY DEF PostBoostCrit2, csVars, CSType, waitVars, WaitType, lifeVars, LifeType
<1>3. ProgType'
  BY <1>1 DEF PostBoostCrit2, Goto, At, Runs, CallPCs, UserPCs, EnterPCs, LeavePCs,
     ProgType
<1>4. CASE waitstate[t] = "PROCESSING" /\ proxies[crit[t]] # <<>> /\ HeadPrio(crit[t]) < cprio[o]
  <2>1. o \in Threads /\ HeadPrio(crit[t]) \in 0..LowestPrio
    BY <1>1, <1>4, HeadPrioType DEF PostBoostCrit2, IsValid, CSType
  <2>2. BoostCPrio(o, HeadPrio(crit[t]))
    BY <1>4 DEF PostBoostCrit2
  <2>3. PrioType'
    BY <2>1, <2>2, BoostType DEF PostBoostCrit2, PrioType
  <2>4. SchedType'
    BY <2>1, <2>2, BoostType DEF PostBoostCrit2, SchedType
  <2> QED
    BY <1>2, <1>3, <2>3, <2>4
<1>5. CASE ~(waitstate[t] = "PROCESSING" /\ proxies[crit[t]] # <<>> /\ HeadPrio(crit[t]) < cprio[o])
  <2>1. PrioType'
    BY <1>5 DEF PostBoostCrit2, PrioType
  <2>2. SchedType'
    BY <1>5 DEF PostBoostCrit2, SchedType
  <2> QED
    BY <1>2, <1>3, <2>1, <2>2
<1> QED
  BY <1>4, <1>5

LEMMA CSWaitSignalledType ==
    ASSUME TypeOK, NEW t \in Threads, CSWaitSignalled(t)
    PROVE  TypeOK'
<1> USE ConstAssumption DEF TypeOK
<1>1. (CSType /\ PrioType /\ WaitType /\ LifeType /\ SchedType)'
  BY DEF CSWaitSignalled, csVars, CSType, prioVars, PrioType, waitVars, WaitType,
     lifeVars, LifeType, schedVars, SchedType
<1>2. ProgType'
  BY DEF CSWaitSignalled, Goto, At, Runs, CallPCs, UserPCs, EnterPCs, LeavePCs,
     ProgType, progVars
<1> QED
  BY <1>1, <1>2

LEMMA CSWaitTerminatedType ==
    ASSUME TypeOK, NEW t \in Threads, CSWaitTerminated(t)
    PROVE  TypeOK'
<1> USE ConstAssumption DEF TypeOK
<1>1. (CSType /\ PrioType /\ LifeType /\ SchedType)'
  BY DEF CSWaitTerminated, csVars, CSType, prioVars, PrioType, lifeVars, LifeType,
     schedVars, SchedType
<1>2. WaitType'
  BY DEF CSWaitTerminated, WaitType, waitVars
<1>3. ProgType'
  BY DEF CSWaitTerminated, Goto, At, Runs, CallPCs, UserPCs, EnterPCs, LeavePCs,
     ProgType, progVars
<1> QED
  BY <1>1, <1>2, <1>3

LEMMA CSWaitBlockType ==
    ASSUME TypeOK, NEW t \in Threads, CSWaitBlock(t)
    PROVE  TypeOK'
<1> USE ConstAssumption DEF TypeOK
<1>1. crit[t] \in Crits
  BY DEF CSWaitBlock, At, Runs, ProgType, CallPCs, UserPCs, EnterPCs, LeavePCs
<1>2. (LifeType)'
  BY DEF CSWaitBlock, lifeVars, LifeType
<1>3. CSType'
  BY <1>1, LinkType DEF CSWaitBlock, CSType, csVars
<1>4. PrioType'
  BY <1>1, LinkType DEF CSWaitBlock, PrioType, prioVars
<1>5. WaitType'
  BY <1>1 DEF CSWaitBlock, LinkedLastCrit, WaitType
<1>6. ProgType'
  BY <1>1 DEF CSWaitBlock, Goto, At, Runs, CallPCs, UserPCs, EnterPCs, LeavePCs,
     ProgType, progVars
<1>7. SchedType'
  BY <1>1 DEF CSWaitBlock, SchedType, schedVars
<1> QED
  BY <1>2, <1>3, <1>4, <1>5, <1>6, <1>7

LEMMA OwnerGoneFaultType ==
    ASSUME TypeOK, NEW t \in Threads, OwnerGoneFault(t)
    PROVE  TypeOK'
<1> USE ConstAssumption DEF TypeOK
<1>1. crit[t] \in Crits
  BY DEF OwnerGoneFault, At, Runs, ProgType, CallPCs, UserPCs, EnterPCs, LeavePCs
<1>2. (CSType /\ PrioType /\ WaitType /\ LifeType /\ SchedType)'
  BY DEF OwnerGoneFault, csVars, CSType, prioVars, PrioType, waitVars, WaitType,
     lifeVars, LifeType, schedVars, SchedType, Faults
<1>3. ProgType'
  BY <1>1 DEF OwnerGoneFault, Faults, Goto, At, Runs, CallPCs, UserPCs, EnterPCs,
     LeavePCs, ProgType, progVars
<1> QED
  BY <1>2, <1>3

LEMMA DequeuePrioProxyType ==
    ASSUME TypeOK, NEW t \in Threads, DequeuePrioProxy(t)
    PROVE  TypeOK'
<1> USE ConstAssumption DEF TypeOK
<1>1. crit[t] \in Crits
  BY DEF DequeuePrioProxy, At, Runs, ProgType, CallPCs, UserPCs, EnterPCs, LeavePCs
<1>2. (PrioType /\ WaitType /\ LifeType /\ SchedType)'
  BY DEF DequeuePrioProxy, prioVars, PrioType, waitVars, WaitType, lifeVars, LifeType,
     schedVars, SchedType
<1>3. CSType'
  BY <1>1, DequeueType DEF DequeuePrioProxy, CSType, csVars
<1>4. ProgType'
  BY <1>1 DEF DequeuePrioProxy, Goto, At, Runs, CallPCs, UserPCs, EnterPCs, LeavePCs,
     ProgType, progVars
<1> QED
  BY <1>2, <1>3, <1>4

LEMMA DoReprioCritType ==
    ASSUME TypeOK, NEW t \in Threads, DoReprioCrit(t)
    PROVE  TypeOK'
<1> USE ConstAssumption DEF TypeOK
<1>1. crit[t] \in Crits
  BY DEF DoReprioCrit, At, Runs, ProgType, CallPCs, UserPCs, EnterPCs, LeavePCs
<1>2. (WaitType /\ LifeType /\ SchedType)'
  BY DEF DoReprioCrit, waitVars, WaitType, lifeVars, LifeType, schedVars, SchedType
<1>3. CSType'
  BY <1>1, ReprioType DEF DoReprioCrit, CSType, csVars
<1>4. PrioType'
  BY <1>1, ReprioType DEF DoReprioCrit, PrioType, prioVars
<1>5. ProgType'
  BY <1>1 DEF DoReprioCrit, Goto, At, Runs, CallPCs, UserPCs, EnterPCs, LeavePCs,
     ProgType, progVars
<1> QED
  BY <1>2, <1>3, <1>4, <1>5

LEMMA LoopTestType ==
    ASSUME TypeOK, NEW t \in Threads, LoopTest(t)
    PROVE  TypeOK'
<1> USE ConstAssumption DEF TypeOK
<1>1. crit[t] \in Crits
  BY DEF LoopTest, At, Runs, ProgType, CallPCs, UserPCs, EnterPCs, LeavePCs
<1>2. (CSType /\ PrioType /\ WaitType /\ LifeType /\ SchedType)'
  BY DEF LoopTest, csVars, CSType, prioVars, PrioType, waitVars, WaitType, lifeVars,
     LifeType, schedVars, SchedType
<1>3. ProgType'
  BY <1>1 DEF LoopTest, Goto, At, Runs, CallPCs, UserPCs, EnterPCs, LeavePCs, ReturnPC,
     NothingHeld, ProgType, progVars
<1> QED
  BY <1>2, <1>3

LEMMA CritFinalBoostType ==
    ASSUME TypeOK, NEW t \in Threads, CritFinalBoost(t)
    PROVE  TypeOK'
<1> USE ConstAssumption DEF TypeOK
<1>1. crit[t] \in Crits
  BY DEF CritFinalBoost, At, Runs, ProgType, CallPCs, UserPCs, EnterPCs, LeavePCs
<1>2. (WaitType /\ LifeType /\ SchedType)'
  BY DEF CritFinalBoost, waitVars, WaitType, lifeVars, LifeType, schedVars, SchedType
<1>3. CSType'
  BY <1>1, LinkType DEF CritFinalBoost, CSType, csVars
<1>4. PrioType'
  BY <1>1, LinkType, HeadPrioType DEF CritFinalBoost, MinPrio, PrioType, prioVars
<1>5. ProgType'
  BY <1>1 DEF CritFinalBoost, Goto, At, Runs, CallPCs, UserPCs, EnterPCs, LeavePCs,
     ReturnPC, NothingHeld, ProgType, progVars
<1> QED
  BY <1>2, <1>3, <1>4, <1>5

LEMMA PreLeaveCritType ==
    ASSUME TypeOK, NEW t \in Threads, PreLeaveCrit(t)
    PROVE  TypeOK'
<1> USE ConstAssumption DEF TypeOK
<1>1. crit[t] \in Crits
  BY DEF PreLeaveCrit, At, Runs, ProgType, CallPCs, UserPCs, EnterPCs, LeavePCs
<1>2. (WaitType /\ LifeType /\ SchedType)'
  BY DEF PreLeaveCrit, waitVars, WaitType, lifeVars, LifeType, schedVars, SchedType
<1>3. CSType'
  <2>1. CASE MarkedBy(t, crit[t])
    <3>1. /\ leaving' = [leaving EXCEPT ![crit[t]] = FALSE]
          /\ bListed' = [bListed EXCEPT ![crit[t]] = 2]
          /\ UNCHANGED <<owner, lockCount, needtrap, proxies, listedPrio>>
      BY <2>1 DEF PreLeaveCrit
    <3>2. leaving' \in [Crits -> BOOLEAN]
      BY <1>1, <3>1 DEF CSType
    <3>3. bListed' \in [Crits -> 0..2]
      BY <1>1, <3>1 DEF CSType
    <3> QED
      BY <3>1, <3>2, <3>3 DEF CSType
  <2>2. CASE ~MarkedBy(t, crit[t])
    BY <2>2 DEF PreLeaveCrit, CSType
  <2> QED
    BY <2>1, <2>2
<1>4. PrioType'
  <2>1. CASE MarkedBy(t, crit[t])
    <3>1. /\ noPrioCalc' = [noPrioCalc EXCEPT ![t] = TRUE]
          /\ UNCHANGED <<bprio, cprio>>
          /\ owned' = IF bListed[crit[t]] = 1 THEN [owned EXCEPT ![t] = @ \ {crit[t]}]
                      ELSE owned
      BY <2>1 DEF PreLeaveCrit, Unlink
    <3>2. [owned EXCEPT ![t] = @ \ {crit[t]}] \in [Threads -> SUBSET Crits]
      BY DEF PrioType
    <3>3. owned' \in [Threads -> SUBSET Crits]
      BY <3>1, <3>2 DEF PrioType
    <3> QED
      BY <3>1, <3>3 DEF PrioType
  <2>2. CASE ~MarkedBy(t, crit[t])
    BY <2>2 DEF PreLeaveCrit, PrioType
  <2> QED
    BY <2>1, <2>2
<1>5. ProgType'
  BY <1>1, ZenonT(60) DEF PreLeaveCrit, Goto, At, Runs, CallPCs, UserPCs, EnterPCs, LeavePCs,
     ReturnPC, NothingHeld, ProgType, progVars
<1> QED
  BY <1>2, <1>3, <1>4, <1>5

LEMMA LeaveCritFreeType ==
    ASSUME TypeOK, NEW t \in Threads, LeaveCritFree(t)
    PROVE  TypeOK'
<1> USE ConstAssumption DEF TypeOK
<1>1. crit[t] \in Crits
  BY DEF LeaveCritFree, At, Runs, ProgType, CallPCs, UserPCs, EnterPCs, LeavePCs
<1>2. (PrioType /\ WaitType /\ LifeType /\ SchedType)'
  BY DEF LeaveCritFree, prioVars, PrioType, waitVars, WaitType, lifeVars, LifeType,
     schedVars, SchedType
<1>3. CSType'
  BY <1>1 DEF LeaveCritFree, CSType, csVars
<1>4. ProgType'
  BY <1>1 DEF LeaveCritFree, Goto, At, Runs, CallPCs, UserPCs, EnterPCs, LeavePCs,
     ProgType, progVars
<1> QED
  BY <1>2, <1>3, <1>4

LEMMA LeaveCritStaleType ==
    ASSUME TypeOK, NEW t \in Threads, LeaveCritStale(t)
    PROVE  TypeOK'
<1> USE ConstAssumption DEF TypeOK
<1>1. crit[t] \in Crits
  BY DEF LeaveCritStale, At, Runs, ProgType, CallPCs, UserPCs, EnterPCs, LeavePCs
<1>2. (PrioType /\ WaitType /\ ProgType /\ LifeType /\ SchedType)'
  BY DEF LeaveCritStale, prioVars, PrioType, waitVars, WaitType, progVars, ProgType,
     lifeVars, LifeType, schedVars, SchedType
<1>3. CSType'
  BY <1>1, HeadTailProperties DEF LeaveCritStale, CSType, csVars
<1> QED
  BY <1>2, <1>3

LEMMA LeaveCritHandOverType ==
    ASSUME TypeOK, NEW t \in Threads, LeaveCritHandOver(t)
    PROVE  TypeOK'
<1> USE ConstAssumption DEF TypeOK
<1>1. crit[t] \in Crits
  BY DEF LeaveCritHandOver, At, Runs, ProgType, CallPCs, UserPCs, EnterPCs, LeavePCs
<1>2. Head(proxies[crit[t]]) \in Threads /\ Tail(proxies[crit[t]]) \in Seq(Threads)
  BY <1>1, HeadTailProperties DEF LeaveCritHandOver, CSType
<1>3. (PrioType /\ LifeType)'
  BY DEF LeaveCritHandOver, prioVars, PrioType, lifeVars, LifeType
<1>4. CSType'
  <2> DEFINE c == crit[t]
  <2>1. /\ proxies' = [proxies EXCEPT ![c] = Tail(@)]
        /\ needtrap' = [needtrap EXCEPT ![c] = @ /\ Tail(proxies[c]) # <<>>]
        /\ lockCount' = [lockCount EXCEPT ![c] = 1]
        /\ owner' = [owner EXCEPT ![c] = Head(proxies[c])]
        /\ bListed' = [bListed EXCEPT ![c] = 0]
        /\ UNCHANGED <<leaving, listedPrio>>
    BY DEF LeaveCritHandOver
  <2> HIDE DEF c
  <2>2. owner' \in [Crits -> Threads \cup {None}]
    BY <1>2, <2>1 DEF CSType, c
  <2>3. proxies' \in [Crits -> Seq(Threads)]
    BY <1>2, <2>1 DEF CSType, c
  <2> QED
    BY <2>1, <2>2, <2>3, SMTT(20) DEF CSType
<1>5. WaitType'
  BY <1>1 DEF LeaveCritHandOver, WaitType, waitVars
<1>6. ProgType'
  <2> USE DEF ProgType, CallPCs, UserPCs, EnterPCs, LeavePCs
  <2>1. CASE waitstate[Head(proxies[crit[t]])] = "BLOCKED"
    <3>1. /\ toWake' = [toWake EXCEPT ![t] = Head(proxies[crit[t]])]
          /\ pc' = [pc EXCEPT ![t] = "wake"]
          /\ UNCHANGED <<crit, depth, critMut, bRetry>>
      BY <2>1 DEF LeaveCritHandOver, Goto
    <3> QED
      BY <1>1, <1>2, <3>1
  <2>2. CASE waitstate[Head(proxies[crit[t]])] # "BLOCKED"
    <3>1. /\ pc' = [pc EXCEPT ![t] = "postUnlink"]
          /\ UNCHANGED <<crit, depth, critMut, bRetry, toWake>>
      BY <2>2 DEF LeaveCritHandOver, Goto
    <3> QED
      BY <1>1, <3>1
  <2> QED
    BY <2>1, <2>2
<1>7. SchedType'
  BY <1>1 DEF LeaveCritHandOver, SchedType, schedVars
<1> QED
  BY <1>3, <1>4, <1>5, <1>6, <1>7

LEMMA WakeNewOwnerType ==
    ASSUME TypeOK, NEW t \in Threads, WakeNewOwner(t)
    PROVE  TypeOK'
<1> USE ConstAssumption DEF TypeOK
<1>1. (CSType /\ PrioType /\ WaitType /\ LifeType)'
  BY DEF WakeNewOwner, csVars, CSType, prioVars, PrioType, waitVars, WaitType, lifeVars,
     LifeType
<1>2. ProgType'
  BY DEF WakeNewOwner, Goto, At, Runs, CallPCs, UserPCs, EnterPCs, LeavePCs, ProgType,
     progVars
<1>3. SchedType'
  <2>1. toWake[t] \in Threads
    BY DEF WakeNewOwner, At, Runs, ProgType
  <2> QED
    BY <2>1, WakeType DEF WakeNewOwner, SchedType
<1> QED
  BY <1>1, <1>2, <1>3

LEMMA PostUnlinkCritMutType ==
    ASSUME TypeOK, NEW t \in Threads, PostUnlinkCritMut(t)
    PROVE  TypeOK'
<1> USE ConstAssumption DEF TypeOK
<1>1. crit[t] \in Crits
  BY DEF PostUnlinkCritMut, At, Runs, ProgType, CallPCs, UserPCs, EnterPCs, LeavePCs
<1>2. (CSType /\ WaitType /\ LifeType)'
  BY DEF PostUnlinkCritMut, csVars, CSType, waitVars, WaitType, lifeVars, LifeType
<1>3. PrioType'
  BY <1>1, InheritedPrioType DEF PostUnlinkCritMut, PrioType, prioVars
<1>4. ProgType'
  BY <1>1 DEF PostUnlinkCritMut, Goto, At, Runs, CallPCs, UserPCs, EnterPCs, LeavePCs,
     ReturnPC, NothingHeld, ProgType, progVars
<1>5. SchedType'
  BY <1>1 DEF PostUnlinkCritMut, SchedType, schedVars
<1> QED
  BY <1>2, <1>3, <1>4, <1>5

LEMMA ReleaseOwnedType ==
    ASSUME TypeOK, NEW t \in Threads, NEW c \in Crits, ReleaseOwned(t, c)
    PROVE  TypeOK'
<1> USE ConstAssumption DEF TypeOK
<1>1. (PrioType /\ WaitType /\ SchedType)'
  BY DEF ReleaseOwned, prioVars, PrioType, waitVars, WaitType, schedVars, SchedType
<1>2. CSType'
  BY DEF ReleaseOwned, CSType, csVars
<1>3. ProgType'
  BY DEF ReleaseOwned, Goto, At, Runs, CallPCs, UserPCs, EnterPCs, LeavePCs, ProgType,
     progVars
<1>4. LifeType'
  BY DEF ReleaseOwned, LifeType, lifeVars
<1> QED
  BY <1>1, <1>2, <1>3, <1>4

LEMMA BuryType ==
    ASSUME TypeOK, NEW t \in Threads, Bury(t)
    PROVE  TypeOK'
<1> USE ConstAssumption DEF TypeOK
<1>1. (CSType /\ PrioType /\ WaitType /\ SchedType)'
  BY DEF Bury, csVars, CSType, prioVars, PrioType, waitVars, WaitType, schedVars,
     SchedType
<1>2. ProgType'
  BY DEF Bury, Goto, At, Runs, CallPCs, UserPCs, EnterPCs, LeavePCs, ProgType, progVars
<1>3. LifeType'
  BY DEF Bury, LifeType, lifeVars
<1> QED
  BY <1>1, <1>2, <1>3

LEMMA FinalRemoveThreadType ==
    ASSUME TypeOK, NEW t \in Threads, FinalRemoveThread(t)
    PROVE  TypeOK'
<1> USE ConstAssumption DEF TypeOK
<1>1. (CSType /\ PrioType /\ WaitType)'
  BY DEF FinalRemoveThread, csVars, CSType, prioVars, PrioType, waitVars, WaitType
<1>2. ProgType'
  BY DEF FinalRemoveThread, Goto, At, Runs, CallPCs, UserPCs, EnterPCs, LeavePCs,
     ProgType, progVars
<1>3. LifeType'
  BY DEF FinalRemoveThread, LifeType, lifeVars
<1>4. SchedType'
  BY DEF FinalRemoveThread, SchedType, schedVars
<1> QED
  BY <1>1, <1>2, <1>3, <1>4

LEMMA SuspendSelfType ==
    ASSUME TypeOK, NEW t \in Threads, SuspendSelf(t)
    PROVE  TypeOK'
<1> USE ConstAssumption DEF TypeOK
<1>1. (CSType /\ PrioType /\ WaitType /\ LifeType)'
  BY DEF SuspendSelf, csVars, CSType, prioVars, PrioType, waitVars, WaitType, lifeVars,
     LifeType
<1>2. ProgType'
  BY DEF SuspendSelf, Goto, At, Runs, CallPCs, UserPCs, EnterPCs, LeavePCs, ProgType,
     progVars
<1>3. SchedType'
  BY DEF SuspendSelf, SchedType, schedVars
<1> QED
  BY <1>1, <1>2, <1>3

LEMMA ThreadResumeType ==
    ASSUME TypeOK, NEW t \in Threads, ThreadResume(t)
    PROVE  TypeOK'
<1> USE ConstAssumption DEF TypeOK
<1>1. (CSType /\ PrioType /\ WaitType /\ LifeType)'
  BY DEF ThreadResume, csVars, CSType, prioVars, PrioType, waitVars, WaitType, lifeVars,
     LifeType
<1>2. ProgType'
  BY DEF ThreadResume, Goto, At, Runs, CallPCs, UserPCs, EnterPCs, LeavePCs, ProgType,
     progVars
<1>3. SchedType'
  BY MakeRunType DEF ThreadResume, SchedType, schedVars
<1> QED
  BY <1>1, <1>2, <1>3

LEMMA ExitThreadType ==
    ASSUME TypeOK, NEW t \in Threads, ExitThread(t)
    PROVE  TypeOK'
<1> USE ConstAssumption DEF TypeOK
<1>1. (CSType /\ PrioType /\ WaitType /\ SchedType)'
  BY DEF ExitThread, csVars, CSType, prioVars, PrioType, waitVars, WaitType, schedVars,
     SchedType
<1>2. ProgType'
  BY DEF ExitThread, Goto, At, Runs, CallPCs, UserPCs, EnterPCs, LeavePCs, NothingHeld,
     ProgType, progVars
<1>3. LifeType'
  BY DEF ExitThread, LifeType, lifeVars
<1> QED
  BY <1>1, <1>2, <1>3

LEMMA KillRunnableType ==
    ASSUME TypeOK, NEW t \in Threads, KillRunnable(t)
    PROVE  TypeOK'
<1> USE ConstAssumption DEF TypeOK
<1>1. (CSType /\ PrioType /\ WaitType)'
  BY DEF KillRunnable, csVars, CSType, prioVars, PrioType, waitVars, WaitType
<1>2. ProgType'
  BY DEF KillRunnable, Goto, At, Runs, CallPCs, UserPCs, EnterPCs, LeavePCs,
     NothingHeld, ProgType, progVars
<1>3. LifeType'
  BY DEF KillRunnable, DieNow, LifeType, lifeVars
<1>4. SchedType'
  BY DequeueType DEF KillRunnable, DieNow, SchedType, schedVars
<1> QED
  BY <1>1, <1>2, <1>3, <1>4

LEMMA KillBlockedType ==
    ASSUME TypeOK, NEW t \in Threads, KillBlocked(t)
    PROVE  TypeOK'
<1> USE ConstAssumption DEF TypeOK
<1>1. (CSType /\ PrioType)'
  BY DEF KillBlocked, csVars, CSType, prioVars, PrioType
<1>2. WaitType'
  BY DEF KillBlocked, WaitType, waitVars
<1>3. ProgType'
  BY DEF KillBlocked, At, Runs, CallPCs, UserPCs, EnterPCs, LeavePCs, NothingHeld,
     ProgType, progVars
<1>4. LifeType'
  BY DEF KillBlocked, DieNow, LifeType, lifeVars
<1>5. SchedType'
  BY DEF KillBlocked, DieNow, SchedType, schedVars
<1> QED
  BY <1>1, <1>2, <1>3, <1>4, <1>5

LEMMA KillLaterType ==
    ASSUME TypeOK, NEW t \in Threads, KillLater(t)
    PROVE  TypeOK'
<1> USE ConstAssumption DEF TypeOK
<1>1. (CSType /\ PrioType /\ WaitType /\ ProgType /\ SchedType)'
  BY DEF KillLater, csVars, CSType, prioVars, PrioType, waitVars, WaitType, progVars,
     ProgType, schedVars, SchedType
<1>2. LifeType'
  BY DEF KillLater, LifeType, lifeVars
<1> QED
  BY <1>1, <1>2

LEMMA MakeKilledRunType ==
    ASSUME TypeOK, NEW t \in Threads, MakeKilledRun(t)
    PROVE  TypeOK'
<1> USE ConstAssumption DEF TypeOK
<1>1. (CSType /\ PrioType /\ WaitType /\ ProgType)'
  BY DEF MakeKilledRun, csVars, CSType, prioVars, PrioType, waitVars, WaitType,
     progVars, ProgType
<1>2. LifeType'
  BY DEF MakeKilledRun, LifeType, lifeVars
<1>3. SchedType'
  BY WakeType DEF MakeKilledRun, SchedType, schedVars
<1> QED
  BY <1>1, <1>2, <1>3

LEMMA SetThreadBasePrioType ==
    ASSUME TypeOK, NEW t \in Threads, NEW p \in Prios, SetThreadBasePrio(t, p)
    PROVE  TypeOK'
<1> USE ConstAssumption DEF TypeOK
<1>1. p \in 0..LowestPrio
  OBVIOUS
<1>2. (CSType /\ WaitType /\ ProgType /\ LifeType)'
  BY DEF SetThreadBasePrio, csVars, CSType, waitVars, WaitType, progVars, ProgType,
     lifeVars, LifeType
<1>3. bprio' \in [Threads -> 0..LowestPrio] /\ UNCHANGED <<owned, noPrioCalc, cur>>
  BY <1>1 DEF SetThreadBasePrio, PrioType
<1>4. CASE t = cur
  <2>1. cprio' = [cprio EXCEPT ![t] = InheritedPrio(t, p)]
    BY <1>4 DEF SetThreadBasePrio
  <2>2. PrioType'
    BY <1>1, <1>3, <2>1, InheritedPrioType DEF PrioType
  <2>3. SchedType'
    BY <1>3, <1>4 DEF SetThreadBasePrio, SchedType
  <2> QED
    BY <1>2, <2>2, <2>3
<1>5. CASE t # cur /\ p < cprio[t]
  <2>1. BoostCPrio(t, p)
    BY <1>5 DEF SetThreadBasePrio
  <2> QED
    BY <1>1, <1>2, <1>3, <2>1, BoostType DEF PrioType, SchedType
<1>6. CASE t # cur /\ ~(p < cprio[t])
  <2>1. UNCHANGED <<cprio, runstate, runq, resched>>
    BY <1>6 DEF SetThreadBasePrio
  <2> QED
    BY <1>2, <1>3, <2>1 DEF PrioType, SchedType
<1> QED
  BY <1>4, <1>5, <1>6

LEMMA KCNextThreadType ==
    ASSUME TypeOK, NEW expired \in BOOLEAN, KCNextThread(expired)
    PROVE  TypeOK'
<1> USE ConstAssumption DEF TypeOK
<1> DEFINE q == RunqAfterPreemption(expired)
           t == Head(q)
           dispatch == q # <<>> /\ (cur = None \/ Preempted(expired))
<1>1. (CSType /\ ProgType /\ LifeType)'
  BY DEF KCNextThread, csVars, CSType, progVars, ProgType, lifeVars, LifeType
<1>2. UNCHANGED <<bprio, owned, noPrioCalc, waitstate, lpProxy, stale, proxPrio>>
  BY DEF KCNextThread
<1>3. q \in Seq(Threads)
  <2>1. CASE ~Preempted(expired)
    BY <2>1 DEF RunqAfterPreemption, SchedType
  <2>2. CASE Preempted(expired)
    <3>1. cur \in Threads
      BY <2>2 DEF Preempted, SchedType
    <3> QED
      BY <2>2, <3>1, EnqueueType DEF RunqAfterPreemption, SchedType
  <2> QED
    BY <2>1, <2>2
<1>4. CASE dispatch
  <2>1. t \in Threads /\ Tail(q) \in Seq(Threads)
    BY <1>3, <1>4, HeadTailProperties
  <2>2. DispatchPrio(t) \in 0..LowestPrio
    <3>1. InheritedPrio(t, bprio[t]) \in 0..LowestPrio /\ cprio[t] \in 0..LowestPrio
      BY <2>1, InheritedPrioType DEF PrioType
    <3> QED
      BY <3>1 DEF DispatchPrio
  <2>3. /\ cur' = t
        /\ runq' = Tail(q)
        /\ runstate' = [u \in Threads |-> IF u = t THEN "RUNNING"
                           ELSE IF u = cur THEN "RUNNABLE" ELSE runstate[u]]
        /\ pLastCrit' = [pLastCrit EXCEPT ![t] = None]
        /\ cprio' = [cprio EXCEPT ![t] = DispatchPrio(t)]
        /\ resched' \in BOOLEAN
    BY <1>4 DEF KCNextThread
  <2> HIDE DEF q, t
  <2>4. PrioType'
    BY <1>2, <2>1, <2>2, <2>3 DEF PrioType
  <2>5. WaitType'
    BY <1>2, <2>3 DEF WaitType
  <2>6. SchedType'
    BY <2>1, <2>3 DEF SchedType
  <2> QED
    BY <1>1, <2>4, <2>5, <2>6
<1>5. CASE ~dispatch
  <2>1. resched' = FALSE /\ UNCHANGED <<cur, runq, runstate, pLastCrit, cprio>>
    BY <1>5 DEF KCNextThread
  <2> QED
    BY <1>1, <1>2, <2>1 DEF PrioType, WaitType, SchedType
<1> QED
  BY <1>4, <1>5

LEMMA StutterType == TypeOK /\ UNCHANGED vars => TypeOK'
BY DEF TypeOK, vars, csVars, CSType, prioVars, PrioType, waitVars, WaitType,
       progVars, ProgType, lifeVars, LifeType, schedVars, SchedType

LEMMA StepType == TypeOK /\ Next => TypeOK'
<1> SUFFICES ASSUME TypeOK, Next PROVE TypeOK'
  OBVIOUS
<1>1. CASE \E expired \in BOOLEAN : KCNextThread(expired)
  BY <1>1, KCNextThreadType
<1>2. ASSUME NEW t \in Threads, UserStep(t)
      PROVE  TypeOK'
  BY <1>2, EnterOwnedType, EnterFreeType, EnterTrapType, LeaveNestedType, LeaveMarkType,
     EnterCountType, LeaveTestType, LeaveFastType DEF UserStep
<1>3. ASSUME NEW t \in Threads, EnterStep(t)
      PROVE  TypeOK'
  BY <1>3, WaitConfigType, CSWaitAbortType, CSWaitTakeType, CSWaitStealType,
     CSWaitPendType, LaterLinkCritMutType, PostBoostCrit1Type, PostBoostCrit2Type,
     CSWaitSignalledType, CSWaitTerminatedType, CSWaitBlockType, OwnerGoneFaultType,
     DequeuePrioProxyType, DoReprioCritType, LoopTestType, CritFinalBoostType
     DEF EnterStep
<1>4. ASSUME NEW t \in Threads, LeaveStep(t)
      PROVE  TypeOK'
  BY <1>4, PreLeaveCritType, LeaveCritFreeType, LeaveCritStaleType, LeaveCritHandOverType,
     WakeNewOwnerType, PostUnlinkCritMutType DEF LeaveStep
<1>5. ASSUME NEW t \in Threads,
             ExitStep(t) \/ SuspendSelf(t) \/ ThreadResume(t) \/ ExitThread(t)
             \/ KillStep(t) \/ MakeKilledRun(t)
      PROVE  TypeOK'
  BY <1>5, ReleaseOwnedType, BuryType, FinalRemoveThreadType, SuspendSelfType,
     ThreadResumeType, ExitThreadType, KillRunnableType, KillBlockedType, KillLaterType,
     MakeKilledRunType DEF ExitStep, KillStep
<1>6. ASSUME NEW t \in Threads, NEW p \in Prios, SetThreadBasePrio(t, p)
      PROVE  TypeOK'
  BY <1>6, SetThreadBasePrioType
<1> QED
  BY <1>1, <1>2, <1>3, <1>4, <1>5, <1>6 DEF Next

\* Type correctness: no kernel call, in any interleaving, puts a value of another
\* type into a field, or works on a section or a thread it does not have.
THEOREM TypeCorrect == Spec => []TypeOK
<1>1. TypeOK /\ [Next]_vars => TypeOK'
  BY StepType, StutterType
<1> QED
  BY <1>1, InitType, PTL DEF Spec

-----------------------------------------------------------------------------
(* The sections and who is in them *)

\* The types of the variables the invariant is about.
Shapes ==
    /\ owner \in [Crits -> Threads \cup {None}]
    /\ leaving \in [Crits -> BOOLEAN]
    /\ lockCount \in [Crits -> Int]
    /\ needtrap \in [Crits -> BOOLEAN]
    /\ proxies \in [Crits -> Seq(Threads)]
    /\ bListed \in [Crits -> 0..2]
    /\ pc \in [Threads -> CallPCs \cup {"user", "asleep", "exit", "final", "gone", "fault"}]
    /\ crit \in [Threads -> Crits \cup {None}]
    /\ \A t \in Threads : pc[t] \in CallPCs => crit[t] # None
    /\ depth \in [Threads -> [Crits -> Nat]]
    /\ pLastCrit \in [Threads -> Crits \cup {None}]
    /\ owned \in [Threads -> SUBSET Crits]
    /\ life \in [Threads -> {"live", "dying", "dead", "buried", "gone"}]

LEMMA ShapesHold == IndInv => Shapes
BY DEF IndInv, Shapes, TypeOK, CSType, PrioType, WaitType, ProgType, LifeType

LEMMA NoneIsNothing == None \notin Threads /\ None \notin Crits
BY ConstAssumption

LEMMA EnterOwnedInv ==
    ASSUME IndInv, NEW t \in Threads, NEW c \in Crits, EnterOwned(t, c)
    PROVE  QueueInv' /\ \A u \in Threads, d \in Crits : LocalInv(u, d)'
<1>1. Shapes
  BY ShapesHold
<1>2. /\ pc[t] = "user" /\ owner[c] = t /\ ~leaving[c] /\ t = cur
      /\ UNCHANGED <<owner, leaving, needtrap, proxies, bListed, pc, crit, pLastCrit,
                     owned, life, cur>>
  BY DEF EnterOwned, Calls, At, Runs, prioVars, waitVars, lifeVars, schedVars
<1>3. /\ lockCount' = [lockCount EXCEPT ![c] = @ + 1]
      /\ depth' = [depth EXCEPT ![t][c] = @ + 1]
  BY DEF EnterOwned, Calls, At, Runs, prioVars, waitVars, lifeVars, schedVars
<1>4. ASSUME NEW u \in Threads, NEW d \in Crits
      PROVE  LocalInv(u, d)'
  <2>1. LocalInv(u, d) /\ LocalInv(t, c) /\ LocalInv(u, c) /\ LocalInv(t, d)
    BY DEF IndInv
  <2>2. /\ lockCount'[d] = IF d = c THEN lockCount[c] + 1 ELSE lockCount[d]
        /\ depth'[u][d] = IF u = t /\ d = c THEN depth[t][c] + 1 ELSE depth[u][d]
    BY <1>1, <1>3 DEF Shapes, NothingHeld
  <2>3. depth[u][d] \in Nat /\ lockCount[d] \in Int
    BY <1>1 DEF Shapes
  <2> USE NoneIsNothing DEF LocalInv, EndAt, OwnerAt, CallAt, HandedAt, ListAt,
        Owns, MarkedBy, Ended, CallPCs, UserPCs, EnterPCs, LeavePCs, QueuedPCs,
        MarkPCs
  <2>4. EndAt(u, d)'
    BY <1>2, <2>1, <2>2, <2>3
  <2>5. OwnerAt(u, d)'
    BY <1>2, <2>1, <2>2, <2>3
  <2>6. CallAt(u, d)'
    BY <1>2, <2>1, <2>2, <2>3
  <2>7. HandedAt(u, d)'
    BY <1>2, <2>1, <2>2, <2>3
  <2>8. ListAt(u, d)'
    BY <1>2, <2>1, <2>2, <2>3
  <2> QED
    BY <2>4, <2>5, <2>6, <2>7, <2>8
<1>5. QueueInv'
  BY <1>2 DEF QueueInv, IndInv
<1> QED
  BY <1>4, <1>5

LEMMA EnterFreeInv ==
    ASSUME IndInv, NEW t \in Threads, NEW c \in Crits, EnterFree(t, c)
    PROVE  QueueInv' /\ \A u \in Threads, d \in Crits : LocalInv(u, d)'
<1>1. Shapes
  BY ShapesHold
<1>2. /\ pc[t] = "user" /\ owner[c] = None
        /\ (c \in UserCS => \A d \in Crits \ UserCS : depth[t][d] = 0) /\ t = cur
      /\ UNCHANGED <<leaving, lockCount, needtrap, proxies, bListed, depth, pLastCrit,
                     owned, life, cur>>
  BY DEF EnterFree, Calls, At, Runs, Goto, prioVars, waitVars, lifeVars, schedVars
<1>3. /\ owner' = [owner EXCEPT ![c] = t]
      /\ pc' = [pc EXCEPT ![t] = "enterCount"]
      /\ crit' = [crit EXCEPT ![t] = c]
  BY DEF EnterFree, Calls, At, Runs, Goto, prioVars, waitVars, lifeVars, schedVars
<1>4. ASSUME NEW u \in Threads, NEW d \in Crits
      PROVE  LocalInv(u, d)'
  <2>1. LocalInv(u, d) /\ LocalInv(t, c) /\ LocalInv(u, c) /\ LocalInv(t, d)
    BY DEF IndInv
  <2>2. /\ owner'[d] = IF d = c THEN t ELSE owner[d]
        /\ pc'[u] = IF u = t THEN "enterCount" ELSE pc[u]
        /\ crit'[u] = IF u = t THEN c ELSE crit[u]
    BY <1>1, <1>3 DEF Shapes
  <2>3. depth[u][d] \in Nat /\ lockCount[d] \in Int
    BY <1>1 DEF Shapes
  <2> USE NoneIsNothing DEF LocalInv, EndAt, OwnerAt, CallAt, HandedAt, ListAt,
        Owns, MarkedBy, Ended, CallPCs, UserPCs, EnterPCs, LeavePCs, QueuedPCs,
        MarkPCs
  <2>4. EndAt(u, d)'
    BY <1>2, <2>1, <2>2, <2>3
  <2>5. OwnerAt(u, d)'
    BY <1>2, <2>1, <2>2, <2>3
  <2>6. CallAt(u, d)'
    BY <1>2, <2>1, <2>2, <2>3
  <2>7. HandedAt(u, d)'
    BY <1>2, <2>1, <2>2, <2>3
  <2>8. ListAt(u, d)'
    BY <1>2, <2>1, <2>2, <2>3
  <2> QED
    BY <2>4, <2>5, <2>6, <2>7, <2>8
<1>5. QueueInv'
  <2> USE DEF QueueInv, IndInv, Shapes, QueuedPCs, UserPCs
  <2>1. ASSUME NEW d \in Crits
        PROVE  Distinct(proxies'[d])
    BY <1>2
  <2>2. ASSUME NEW d \in Crits, NEW u \in Threads, Queued(u, proxies'[d])
        PROVE  crit'[u] = d /\ pc'[u] \in QueuedPCs \cup {"fault"}
    <3>1. Queued(u, proxies[d])
      BY <1>2, <2>2
    <3>2. /\ pc'[u] = IF u = t THEN "enterCount" ELSE pc[u]
          /\ crit'[u] = IF u = t THEN c ELSE crit[u]
      BY <1>1, <1>3
    <3> QED
      BY <1>1, <1>2, <3>1, <3>2
  <2> QED
    BY <2>1, <2>2
<1> QED
  BY <1>4, <1>5

LEMMA EnterTrapInv ==
    ASSUME IndInv, NEW t \in Threads, NEW c \in Crits, EnterTrap(t, c)
    PROVE  QueueInv' /\ \A u \in Threads, d \in Crits : LocalInv(u, d)'
<1>1. Shapes
  BY ShapesHold
<1>2. /\ pc[t] = "user" /\ (owner[c] # t \/ leaving[c])
        /\ (c \in UserCS => \A d \in Crits \ UserCS : depth[t][d] = 0) /\ t = cur
      /\ UNCHANGED <<owner, leaving, lockCount, needtrap, proxies, bListed, depth,
                     pLastCrit, owned, life, cur>>
  BY DEF EnterTrap, Calls, At, Runs, Goto, csVars, prioVars, waitVars, lifeVars,
     schedVars
<1>3. /\ pc' = [pc EXCEPT ![t] = "waitConfig"]
      /\ crit' = [crit EXCEPT ![t] = c]
  BY DEF EnterTrap, Calls, At, Runs, Goto, csVars, prioVars, waitVars, lifeVars,
     schedVars
<1>4. ASSUME NEW u \in Threads, NEW d \in Crits
      PROVE  LocalInv(u, d)'
  <2>1. LocalInv(u, d) /\ LocalInv(t, c) /\ LocalInv(u, c) /\ LocalInv(t, d)
    BY DEF IndInv
  <2>2. /\ pc'[u] = IF u = t THEN "waitConfig" ELSE pc[u]
        /\ crit'[u] = IF u = t THEN c ELSE crit[u]
    BY <1>1, <1>3 DEF Shapes
  <2>3. depth[u][d] \in Nat /\ lockCount[d] \in Int
    BY <1>1 DEF Shapes
  <2> USE NoneIsNothing DEF LocalInv, EndAt, OwnerAt, CallAt, HandedAt, ListAt,
        Owns, MarkedBy, Ended, CallPCs, UserPCs, EnterPCs, LeavePCs, QueuedPCs,
        MarkPCs
  <2>4. EndAt(u, d)'
    BY <1>2, <2>1, <2>2, <2>3
  <2>5. OwnerAt(u, d)'
    BY <1>2, <2>1, <2>2, <2>3
  <2>6. CallAt(u, d)'
    BY <1>2, <2>1, <2>2, <2>3
  <2>7. HandedAt(u, d)'
    BY <1>2, <2>1, <2>2, <2>3
  <2>8. ListAt(u, d)'
    BY <1>2, <2>1, <2>2, <2>3
  <2> QED
    BY <2>4, <2>5, <2>6, <2>7, <2>8
<1>5. QueueInv'
  <2> USE DEF QueueInv, IndInv, Shapes, QueuedPCs, UserPCs
  <2>1. ASSUME NEW d \in Crits
        PROVE  Distinct(proxies'[d])
    BY <1>2
  <2>2. ASSUME NEW d \in Crits, NEW u \in Threads, Queued(u, proxies'[d])
        PROVE  crit'[u] = d /\ pc'[u] \in QueuedPCs \cup {"fault"}
    <3>1. Queued(u, proxies[d])
      BY <1>2, <2>2
    <3>2. /\ pc'[u] = IF u = t THEN "waitConfig" ELSE pc[u]
          /\ crit'[u] = IF u = t THEN c ELSE crit[u]
      BY <1>1, <1>3
    <3> QED
      BY <1>1, <1>2, <3>1, <3>2
  <2> QED
    BY <2>1, <2>2
<1> QED
  BY <1>4, <1>5

LEMMA LeaveNestedInv ==
    ASSUME IndInv, NEW t \in Threads, NEW c \in Crits, LeaveNested(t, c)
    PROVE  QueueInv' /\ \A u \in Threads, d \in Crits : LocalInv(u, d)'
<1>1. Shapes
  BY ShapesHold
<1>2. /\ pc[t] = "user" /\ depth[t][c] > 0 /\ owner[c] = t /\ lockCount[c] # 1 /\ t = cur
      /\ UNCHANGED <<owner, leaving, needtrap, proxies, bListed, pc, crit, pLastCrit,
                     owned, life, cur>>
  BY DEF LeaveNested, Calls, At, Runs, prioVars, waitVars, lifeVars, schedVars
<1>3. /\ lockCount' = [lockCount EXCEPT ![c] = @ - 1]
      /\ depth' = [depth EXCEPT ![t][c] = @ - 1]
  BY DEF LeaveNested, Calls, At, Runs, prioVars, waitVars, lifeVars, schedVars
<1>4. ASSUME NEW u \in Threads, NEW d \in Crits
      PROVE  LocalInv(u, d)'
  <2>1. LocalInv(u, d) /\ LocalInv(t, c) /\ LocalInv(u, c) /\ LocalInv(t, d)
    BY DEF IndInv
  <2>2. /\ lockCount'[d] = IF d = c THEN lockCount[c] - 1 ELSE lockCount[d]
        /\ depth'[u][d] = IF u = t /\ d = c THEN depth[t][c] - 1 ELSE depth[u][d]
    BY <1>1, <1>3 DEF Shapes, NothingHeld
  <2>3. depth[u][d] \in Nat /\ lockCount[d] \in Int
    BY <1>1 DEF Shapes
  <2> USE NoneIsNothing DEF LocalInv, EndAt, OwnerAt, CallAt, HandedAt, ListAt,
        Owns, MarkedBy, Ended, CallPCs, UserPCs, EnterPCs, LeavePCs, QueuedPCs,
        MarkPCs
  <2>4. EndAt(u, d)'
    BY <1>2, <2>1, <2>2, <2>3
  <2>5. OwnerAt(u, d)'
    BY <1>2, <2>1, <2>2, <2>3
  <2>6. CallAt(u, d)'
    BY <1>2, <2>1, <2>2, <2>3
  <2>7. HandedAt(u, d)'
    BY <1>2, <2>1, <2>2, <2>3
  <2>8. ListAt(u, d)'
    BY <1>2, <2>1, <2>2, <2>3
  <2> QED
    BY <2>4, <2>5, <2>6, <2>7, <2>8
<1>5. QueueInv'
  BY <1>2 DEF QueueInv, IndInv
<1> QED
  BY <1>4, <1>5

LEMMA LeaveMarkInv ==
    ASSUME IndInv, NEW t \in Threads, NEW c \in Crits, LeaveMark(t, c)
    PROVE  QueueInv' /\ \A u \in Threads, d \in Crits : LocalInv(u, d)'
<1>1. Shapes
  BY ShapesHold
<1>2. /\ pc[t] = "user" /\ depth[t][c] > 0 /\ owner[c] = t /\ lockCount[c] = 1
        /\ (c \in UserCS => \A d \in Crits \ UserCS : depth[t][d] = 0) /\ t = cur
      /\ UNCHANGED <<owner, lockCount, needtrap, proxies, bListed, pLastCrit, owned,
                     life, cur>>
  BY DEF LeaveMark, Calls, At, Runs, Goto, prioVars, waitVars, lifeVars, schedVars
<1>3. /\ leaving' = [leaving EXCEPT ![c] = TRUE]
      /\ pc' = [pc EXCEPT ![t] = "leaveTest"]
      /\ crit' = [crit EXCEPT ![t] = c]
      /\ depth' = [depth EXCEPT ![t][c] = 0]
  BY DEF LeaveMark, Calls, At, Runs, Goto, prioVars, waitVars, lifeVars, schedVars
<1>4. ASSUME NEW u \in Threads, NEW d \in Crits
      PROVE  LocalInv(u, d)'
  <2>1. LocalInv(u, d) /\ LocalInv(t, c) /\ LocalInv(u, c) /\ LocalInv(t, d)
    BY DEF IndInv
  <2>2. /\ leaving'[d] = IF d = c THEN TRUE ELSE leaving[d]
        /\ pc'[u] = IF u = t THEN "leaveTest" ELSE pc[u]
        /\ crit'[u] = IF u = t THEN c ELSE crit[u]
        /\ depth'[u][d] = IF u = t /\ d = c THEN 0 ELSE depth[u][d]
    BY <1>1, <1>3 DEF Shapes, NothingHeld
  <2>3. depth[u][d] \in Nat /\ lockCount[d] \in Int
    BY <1>1 DEF Shapes
  <2> USE NoneIsNothing DEF LocalInv, EndAt, OwnerAt, CallAt, HandedAt, ListAt,
        Owns, MarkedBy, Ended, CallPCs, UserPCs, EnterPCs, LeavePCs, QueuedPCs,
        MarkPCs
  <2>4. EndAt(u, d)'
    BY <1>2, <2>1, <2>2, <2>3
  <2>5. OwnerAt(u, d)'
    BY <1>2, <2>1, <2>2, <2>3
  <2>6. CallAt(u, d)'
    BY <1>2, <2>1, <2>2, <2>3
  <2>7. HandedAt(u, d)'
    BY <1>2, <2>1, <2>2, <2>3
  <2>8. ListAt(u, d)'
    BY <1>2, <2>1, <2>2, <2>3
  <2> QED
    BY <2>4, <2>5, <2>6, <2>7, <2>8
<1>5. QueueInv'
  <2> USE DEF QueueInv, IndInv, Shapes, QueuedPCs, UserPCs
  <2>1. ASSUME NEW d \in Crits
        PROVE  Distinct(proxies'[d])
    BY <1>2
  <2>2. ASSUME NEW d \in Crits, NEW u \in Threads, Queued(u, proxies'[d])
        PROVE  crit'[u] = d /\ pc'[u] \in QueuedPCs \cup {"fault"}
    <3>1. Queued(u, proxies[d])
      BY <1>2, <2>2
    <3>2. /\ pc'[u] = IF u = t THEN "leaveTest" ELSE pc[u]
          /\ crit'[u] = IF u = t THEN c ELSE crit[u]
      BY <1>1, <1>3
    <3> QED
      BY <1>1, <1>2, <3>1, <3>2
  <2> QED
    BY <2>1, <2>2
<1> QED
  BY <1>4, <1>5

LEMMA EnterCountInv ==
    ASSUME IndInv, NEW t \in Threads, EnterCount(t)
    PROVE  QueueInv' /\ \A u \in Threads, d \in Crits : LocalInv(u, d)'
<1> DEFINE c == crit[t]
<1>1. Shapes
  BY ShapesHold
<1>2. c \in Crits
  BY <1>1 DEF EnterCount, At, Runs, Shapes, CallPCs, UserPCs, EnterPCs, LeavePCs
<1>3. /\ pc[t] = "enterCount" /\ t = cur /\ crit[t] = c
      /\ UNCHANGED <<owner, leaving, needtrap, proxies, bListed, crit, pLastCrit, owned,
                     life, cur>>
  BY DEF EnterCount, Goto, At, Runs, prioVars, waitVars, lifeVars, schedVars
<1>4. /\ lockCount' = [lockCount EXCEPT ![c] = 1]
      /\ pc' = [pc EXCEPT ![t] = "user"]
      /\ depth' = [depth EXCEPT ![t][c] = 1]
  BY DEF EnterCount, Goto, At, Runs, prioVars, waitVars, lifeVars, schedVars
<1> HIDE DEF c
<1>5. ASSUME NEW u \in Threads, NEW d \in Crits
      PROVE  LocalInv(u, d)'
  <2>1. LocalInv(u, d) /\ LocalInv(t, c) /\ LocalInv(u, c) /\ LocalInv(t, d)
    BY <1>2 DEF IndInv
  <2>2. /\ lockCount'[d] = IF d = c THEN 1 ELSE lockCount[d]
        /\ pc'[u] = IF u = t THEN "user" ELSE pc[u]
        /\ depth'[u][d] = IF u = t /\ d = c THEN 1 ELSE depth[u][d]
    BY <1>1, <1>2, <1>4 DEF Shapes, NothingHeld
  <2>3. depth[u][d] \in Nat /\ lockCount[d] \in Int
    BY <1>1 DEF Shapes
  <2> USE NoneIsNothing DEF LocalInv, EndAt, OwnerAt, CallAt, HandedAt, ListAt,
        Owns, MarkedBy, Ended, CallPCs, UserPCs, EnterPCs, LeavePCs, QueuedPCs,
        MarkPCs
  <2>4. EndAt(u, d)'
    BY <1>2, <1>3, <2>1, <2>2, <2>3
  <2>5. OwnerAt(u, d)'
    BY <1>2, <1>3, <2>1, <2>2, <2>3
  <2>6. CallAt(u, d)'
    BY <1>2, <1>3, <2>1, <2>2, <2>3
  <2>7. HandedAt(u, d)'
    BY <1>2, <1>3, <2>1, <2>2, <2>3
  <2>8. ListAt(u, d)'
    BY <1>2, <1>3, <2>1, <2>2, <2>3
  <2> QED
    BY <2>4, <2>5, <2>6, <2>7, <2>8
<1>6. QueueInv'
  <2> USE DEF QueueInv, IndInv, Shapes, QueuedPCs, UserPCs
  <2>1. ASSUME NEW d \in Crits
        PROVE  Distinct(proxies'[d])
    BY <1>3
  <2>2. ASSUME NEW d \in Crits, NEW u \in Threads, Queued(u, proxies'[d])
        PROVE  crit'[u] = d /\ pc'[u] \in QueuedPCs \cup {"fault"}
    <3>1. Queued(u, proxies[d])
      BY <1>3, <2>2
    <3>2. pc'[u] = IF u = t THEN "user" ELSE pc[u]
      BY <1>1, <1>2, <1>4
    <3> QED
      BY <1>1, <1>2, <1>3, <3>1, <3>2
  <2> QED
    BY <2>1, <2>2
<1> QED
  BY <1>5, <1>6

LEMMA LeaveTestInv ==
    ASSUME IndInv, NEW t \in Threads, LeaveTest(t)
    PROVE  QueueInv' /\ \A u \in Threads, d \in Crits : LocalInv(u, d)'
<1> DEFINE c == crit[t]
<1>1. Shapes
  BY ShapesHold
<1>2. c \in Crits
  BY <1>1 DEF LeaveTest, At, Runs, Shapes, CallPCs, UserPCs, EnterPCs, LeavePCs
<1>3. /\ pc[t] = "leaveTest" /\ t = cur /\ crit[t] = c
      /\ UNCHANGED <<owner, leaving, lockCount, needtrap, proxies, bListed, crit, depth,
                     pLastCrit, owned, life, cur>>
  BY DEF LeaveTest, Goto, At, Runs, csVars, prioVars, waitVars, lifeVars, schedVars
<1>4. pc' = [pc EXCEPT ![t] = IF needtrap[c] THEN "preLeave" ELSE "leaveFast"]
  BY DEF LeaveTest, Goto, At, Runs, csVars, prioVars, waitVars, lifeVars, schedVars
<1> HIDE DEF c
<1>5. ASSUME NEW u \in Threads, NEW d \in Crits
      PROVE  LocalInv(u, d)'
  <2>1. LocalInv(u, d) /\ LocalInv(t, c) /\ LocalInv(u, c) /\ LocalInv(t, d)
    BY <1>2 DEF IndInv
  <2>2. /\ pc'[u] = IF u = t THEN IF needtrap[c]
                        THEN "preLeave" ELSE "leaveFast" ELSE pc[u]
    BY <1>1, <1>2, <1>4 DEF Shapes
  <2>3. depth[u][d] \in Nat /\ lockCount[d] \in Int
    BY <1>1 DEF Shapes
  <2> USE NoneIsNothing DEF LocalInv, EndAt, OwnerAt, CallAt, HandedAt, ListAt,
        Owns, MarkedBy, Ended, CallPCs, UserPCs, EnterPCs, LeavePCs, QueuedPCs,
        MarkPCs
  <2>4. EndAt(u, d)'
    BY <1>2, <1>3, <2>1, <2>2, <2>3
  <2>5. OwnerAt(u, d)'
    BY <1>2, <1>3, <2>1, <2>2, <2>3
  <2>6. CallAt(u, d)'
    BY <1>2, <1>3, <2>1, <2>2, <2>3
  <2>7. HandedAt(u, d)'
    BY <1>2, <1>3, <2>1, <2>2, <2>3
  <2>8. ListAt(u, d)'
    BY <1>2, <1>3, <2>1, <2>2, <2>3
  <2> QED
    BY <2>4, <2>5, <2>6, <2>7, <2>8
<1>6. QueueInv'
  <2> USE DEF QueueInv, IndInv, Shapes, QueuedPCs, UserPCs
  <2>1. ASSUME NEW d \in Crits
        PROVE  Distinct(proxies'[d])
    BY <1>3
  <2>2. ASSUME NEW d \in Crits, NEW u \in Threads, Queued(u, proxies'[d])
        PROVE  crit'[u] = d /\ pc'[u] \in QueuedPCs \cup {"fault"}
    <3>1. Queued(u, proxies[d])
      BY <1>3, <2>2
    <3>2. pc'[u] = IF u = t THEN IF needtrap[c]
                       THEN "preLeave" ELSE "leaveFast" ELSE pc[u]
      BY <1>1, <1>2, <1>4
    <3> QED
      BY <1>1, <1>2, <1>3, <3>1, <3>2
  <2> QED
    BY <2>1, <2>2
<1> QED
  BY <1>5, <1>6

LEMMA LeaveFastInv ==
    ASSUME IndInv, NEW t \in Threads, LeaveFast(t)
    PROVE  QueueInv' /\ \A u \in Threads, d \in Crits : LocalInv(u, d)'
<1> DEFINE c == crit[t]
<1>1. Shapes
  BY ShapesHold
<1>2. c \in Crits
  BY <1>1 DEF LeaveFast, At, Runs, Shapes, CallPCs, UserPCs, EnterPCs, LeavePCs
<1>3. /\ pc[t] = "leaveFast" /\ t = cur /\ crit[t] = c
      /\ UNCHANGED <<lockCount, needtrap, proxies, bListed, crit, depth, pLastCrit,
                     owned, life, cur>>
  BY DEF LeaveFast, Goto, At, Runs, prioVars, waitVars, lifeVars, schedVars
<1>4. /\ owner' = [owner EXCEPT ![c] = IF MarkedBy(t, c) THEN None ELSE @]
      /\ leaving' = [leaving EXCEPT ![c] = @ /\ ~MarkedBy(t, c)]
      /\ pc' = [pc EXCEPT ![t] = "user"]
  BY DEF LeaveFast, Goto, At, Runs, prioVars, waitVars, lifeVars, schedVars
<1> HIDE DEF c
<1>5. ASSUME NEW u \in Threads, NEW d \in Crits
      PROVE  LocalInv(u, d)'
  <2>1. LocalInv(u, d) /\ LocalInv(t, c) /\ LocalInv(u, c) /\ LocalInv(t, d)
    BY <1>2 DEF IndInv
  <2>2. /\ owner'[d] = IF d = c THEN IF MarkedBy(t, c)
                           THEN None ELSE owner[c] ELSE owner[d]
        /\ leaving'[d] = IF d = c THEN leaving[c] /\ ~MarkedBy(t, c) ELSE leaving[d]
        /\ pc'[u] = IF u = t THEN "user" ELSE pc[u]
    BY <1>1, <1>2, <1>4 DEF Shapes
  <2>3. depth[u][d] \in Nat /\ lockCount[d] \in Int
    BY <1>1 DEF Shapes
  <2> USE NoneIsNothing DEF LocalInv, EndAt, OwnerAt, CallAt, HandedAt, ListAt,
        Owns, MarkedBy, Ended, CallPCs, UserPCs, EnterPCs, LeavePCs, QueuedPCs,
        MarkPCs
  <2>4. EndAt(u, d)'
    BY <1>2, <1>3, <2>1, <2>2, <2>3
  <2>5. OwnerAt(u, d)'
    BY <1>2, <1>3, <2>1, <2>2, <2>3, ZenonT(60)
  <2>6. CallAt(u, d)'
    BY <1>2, <1>3, <2>1, <2>2, <2>3, ZenonT(60)
  <2>7. HandedAt(u, d)'
    BY <1>2, <1>3, <2>1, <2>2, <2>3
  <2>8. ListAt(u, d)'
    BY <1>2, <1>3, <2>1, <2>2, <2>3
  <2> QED
    BY <2>4, <2>5, <2>6, <2>7, <2>8
<1>6. QueueInv'
  <2> USE DEF QueueInv, IndInv, Shapes, QueuedPCs, UserPCs
  <2>1. ASSUME NEW d \in Crits
        PROVE  Distinct(proxies'[d])
    BY <1>3
  <2>2. ASSUME NEW d \in Crits, NEW u \in Threads, Queued(u, proxies'[d])
        PROVE  crit'[u] = d /\ pc'[u] \in QueuedPCs \cup {"fault"}
    <3>1. Queued(u, proxies[d])
      BY <1>3, <2>2
    <3>2. pc'[u] = IF u = t THEN "user" ELSE pc[u]
      BY <1>1, <1>2, <1>4
    <3> QED
      BY <1>1, <1>2, <1>3, <3>1, <3>2
  <2> QED
    BY <2>1, <2>2
<1> QED
  BY <1>5, <1>6

LEMMA WaitConfigInv ==
    ASSUME IndInv, NEW t \in Threads, WaitConfig(t)
    PROVE  QueueInv' /\ \A u \in Threads, d \in Crits : LocalInv(u, d)'
<1> DEFINE c == crit[t]
<1>1. Shapes
  BY ShapesHold
<1>2. c \in Crits
  BY <1>1 DEF WaitConfig, At, Runs, Shapes, CallPCs, UserPCs, EnterPCs, LeavePCs
<1>3. /\ pc[t] = "waitConfig" /\ t = cur /\ crit[t] = c
      /\ UNCHANGED <<owner, leaving, lockCount, needtrap, proxies, bListed, crit, depth,
                     pLastCrit, owned, life, cur>>
  BY DEF WaitConfig, Goto, At, Runs, csVars, prioVars, lifeVars, schedVars
<1>4. pc' = [pc EXCEPT ![t] = "part1"]
  BY DEF WaitConfig, Goto, At, Runs, csVars, prioVars, lifeVars, schedVars
<1> HIDE DEF c
<1>5. ASSUME NEW u \in Threads, NEW d \in Crits
      PROVE  LocalInv(u, d)'
  <2>1. LocalInv(u, d) /\ LocalInv(t, c) /\ LocalInv(u, c) /\ LocalInv(t, d)
    BY <1>2 DEF IndInv
  <2>2. /\ pc'[u] = IF u = t THEN "part1" ELSE pc[u]
    BY <1>1, <1>2, <1>4 DEF Shapes
  <2>3. depth[u][d] \in Nat /\ lockCount[d] \in Int
    BY <1>1 DEF Shapes
  <2> USE NoneIsNothing DEF LocalInv, EndAt, OwnerAt, CallAt, HandedAt, ListAt,
        Owns, MarkedBy, Ended, CallPCs, UserPCs, EnterPCs, LeavePCs, QueuedPCs,
        MarkPCs
  <2>4. EndAt(u, d)'
    BY <1>2, <1>3, <2>1, <2>2, <2>3
  <2>5. OwnerAt(u, d)'
    BY <1>2, <1>3, <2>1, <2>2, <2>3
  <2>6. CallAt(u, d)'
    BY <1>2, <1>3, <2>1, <2>2, <2>3
  <2>7. HandedAt(u, d)'
    BY <1>2, <1>3, <2>1, <2>2, <2>3
  <2>8. ListAt(u, d)'
    BY <1>2, <1>3, <2>1, <2>2, <2>3
  <2> QED
    BY <2>4, <2>5, <2>6, <2>7, <2>8
<1>6. QueueInv'
  <2> USE DEF QueueInv, IndInv, Shapes, QueuedPCs, UserPCs
  <2>1. ASSUME NEW d \in Crits
        PROVE  Distinct(proxies'[d])
    BY <1>3
  <2>2. ASSUME NEW d \in Crits, NEW u \in Threads, Queued(u, proxies'[d])
        PROVE  crit'[u] = d /\ pc'[u] \in QueuedPCs \cup {"fault"}
    <3>1. Queued(u, proxies[d])
      BY <1>3, <2>2
    <3>2. pc'[u] = IF u = t THEN "part1" ELSE pc[u]
      BY <1>1, <1>2, <1>4
    <3> QED
      BY <1>1, <1>2, <1>3, <3>1, <3>2
  <2> QED
    BY <2>1, <2>2
<1> QED
  BY <1>5, <1>6

LEMMA CSWaitAbortInv ==
    ASSUME IndInv, NEW t \in Threads, CSWaitAbort(t)
    PROVE  QueueInv' /\ \A u \in Threads, d \in Crits : LocalInv(u, d)'
<1> DEFINE c == crit[t]
<1>1. Shapes
  BY ShapesHold
<1>2. c \in Crits
  BY <1>1 DEF CSWaitAbort, At, Runs, Shapes, CallPCs, UserPCs, EnterPCs, LeavePCs
<1>3. /\ pc[t] = "part1" /\ t = cur /\ crit[t] = c
      /\ UNCHANGED <<owner, leaving, lockCount, needtrap, proxies, bListed, crit, depth,
                     pLastCrit, owned, life, cur>>
  BY DEF CSWaitAbort, WaitDone, Goto, At, Runs, csVars, prioVars, lifeVars, schedVars
<1>4. pc' = [pc EXCEPT ![t] = "dequeue"]
  BY DEF CSWaitAbort, WaitDone, Goto, At, Runs, csVars, prioVars, lifeVars, schedVars
<1> HIDE DEF c
<1>5. ASSUME NEW u \in Threads, NEW d \in Crits
      PROVE  LocalInv(u, d)'
  <2>1. LocalInv(u, d) /\ LocalInv(t, c) /\ LocalInv(u, c) /\ LocalInv(t, d)
    BY <1>2 DEF IndInv
  <2>2. /\ pc'[u] = IF u = t THEN "dequeue" ELSE pc[u]
    BY <1>1, <1>2, <1>4 DEF Shapes
  <2>3. depth[u][d] \in Nat /\ lockCount[d] \in Int
    BY <1>1 DEF Shapes
  <2> USE NoneIsNothing DEF LocalInv, EndAt, OwnerAt, CallAt, HandedAt, ListAt,
        Owns, MarkedBy, Ended, CallPCs, UserPCs, EnterPCs, LeavePCs, QueuedPCs,
        MarkPCs
  <2>4. EndAt(u, d)'
    BY <1>2, <1>3, <2>1, <2>2, <2>3
  <2>5. OwnerAt(u, d)'
    BY <1>2, <1>3, <2>1, <2>2, <2>3
  <2>6. CallAt(u, d)'
    BY <1>2, <1>3, <2>1, <2>2, <2>3
  <2>7. HandedAt(u, d)'
    BY <1>2, <1>3, <2>1, <2>2, <2>3
  <2>8. ListAt(u, d)'
    BY <1>2, <1>3, <2>1, <2>2, <2>3
  <2> QED
    BY <2>4, <2>5, <2>6, <2>7, <2>8
<1>6. QueueInv'
  <2> USE DEF QueueInv, IndInv, Shapes, QueuedPCs, UserPCs
  <2>1. ASSUME NEW d \in Crits
        PROVE  Distinct(proxies'[d])
    BY <1>3
  <2>2. ASSUME NEW d \in Crits, NEW u \in Threads, Queued(u, proxies'[d])
        PROVE  crit'[u] = d /\ pc'[u] \in QueuedPCs \cup {"fault"}
    <3>1. Queued(u, proxies[d])
      BY <1>3, <2>2
    <3>2. pc'[u] = IF u = t THEN "dequeue" ELSE pc[u]
      BY <1>1, <1>2, <1>4
    <3> QED
      BY <1>1, <1>2, <1>3, <3>1, <3>2
  <2> QED
    BY <2>1, <2>2
<1> QED
  BY <1>5, <1>6

LEMMA CSWaitTakeInv ==
    ASSUME IndInv, NEW t \in Threads, CSWaitTake(t)
    PROVE  QueueInv' /\ \A u \in Threads, d \in Crits : LocalInv(u, d)'
<1> DEFINE c == crit[t]
<1>1. Shapes
  BY ShapesHold
<1>2. c \in Crits
  BY <1>1 DEF CSWaitTake, At, Runs, Shapes, CallPCs, UserPCs, EnterPCs, LeavePCs
<1>3. /\ pc[t] = "part1" /\ UpForGrabs(c) /\ t = cur /\ crit[t] = c
      /\ UNCHANGED <<needtrap, proxies, bListed, crit, depth, pLastCrit, owned, life,
                     cur>>
  BY DEF CSWaitTake, WaitDone, Goto, At, Runs, prioVars, lifeVars, schedVars
<1>4. /\ owner' = [owner EXCEPT ![c] = t]
      /\ leaving' = [leaving EXCEPT ![c] = FALSE]
      /\ lockCount' = [lockCount EXCEPT ![c] = 1]
      /\ pc' = [pc EXCEPT ![t] = "dequeue"]
  BY DEF CSWaitTake, WaitDone, Goto, At, Runs, prioVars, lifeVars, schedVars
<1> HIDE DEF c
<1>5. ASSUME NEW u \in Threads, NEW d \in Crits
      PROVE  LocalInv(u, d)'
  <2>1. LocalInv(u, d) /\ LocalInv(t, c) /\ LocalInv(u, c) /\ LocalInv(t, d)
    BY <1>2 DEF IndInv
  <2>2. /\ owner[c] \in Threads \cup {None}
        /\ owner[c] \in Threads => LocalInv(owner[c], c) /\ LocalInv(owner[c], d)
    BY <1>1, <1>2 DEF IndInv, Shapes
  <2>3. /\ owner'[d] = IF d = c THEN t ELSE owner[d]
        /\ leaving'[d] = IF d = c THEN FALSE ELSE leaving[d]
        /\ lockCount'[d] = IF d = c THEN 1 ELSE lockCount[d]
        /\ pc'[u] = IF u = t THEN "dequeue" ELSE pc[u]
    BY <1>1, <1>2, <1>4, <2>2 DEF Shapes
  <2>4. depth[u][d] \in Nat /\ lockCount[d] \in Int
    BY <1>1 DEF Shapes
  <2> USE NoneIsNothing DEF LocalInv, EndAt, OwnerAt, CallAt, HandedAt, ListAt,
        Owns, MarkedBy, Ended, CallPCs, UserPCs, EnterPCs, LeavePCs, QueuedPCs,
        MarkPCs, UpForGrabs, IsValid, Buried
  <2>5. EndAt(u, d)'
    BY SMTT(40), <1>2, <1>3, <2>1, <2>2, <2>3, <2>4
  <2>6. OwnerAt(u, d)'
    BY SMTT(40), <1>2, <1>3, <2>1, <2>2, <2>3, <2>4
  <2>7. CallAt(u, d)'
    BY <1>2, <1>3, <2>1, <2>2, <2>3, <2>4
  <2>8. HandedAt(u, d)'
    BY <1>2, <1>3, <2>1, <2>2, <2>3, <2>4
  <2>9. ListAt(u, d)'
    BY <1>2, <1>3, <2>1, <2>2, <2>3, <2>4
  <2> QED
    BY <2>5, <2>6, <2>7, <2>8, <2>9
<1>6. QueueInv'
  <2> USE DEF QueueInv, IndInv, Shapes, QueuedPCs, UserPCs
  <2>1. ASSUME NEW d \in Crits
        PROVE  Distinct(proxies'[d])
    BY <1>3
  <2>2. ASSUME NEW d \in Crits, NEW u \in Threads, Queued(u, proxies'[d])
        PROVE  crit'[u] = d /\ pc'[u] \in QueuedPCs \cup {"fault"}
    <3>1. Queued(u, proxies[d])
      BY <1>3, <2>2
    <3>2. pc'[u] = IF u = t THEN "dequeue" ELSE pc[u]
      BY <1>1, <1>2, <1>4
    <3> QED
      BY <1>1, <1>2, <1>3, <3>1, <3>2
  <2> QED
    BY <2>1, <2>2
<1> QED
  BY <1>5, <1>6

LEMMA CSWaitStealInv ==
    ASSUME IndInv, NEW t \in Threads, CSWaitSteal(t)
    PROVE  QueueInv' /\ \A u \in Threads, d \in Crits : LocalInv(u, d)'
<1> DEFINE c == crit[t]
<1>1. Shapes
  BY ShapesHold
<1>2. c \in Crits
  BY <1>1 DEF CSWaitSteal, At, Runs, Shapes, CallPCs, UserPCs, EnterPCs, LeavePCs
<1>3. /\ pc[t] = "part1" /\ ~UpForGrabs(c) /\ pLastCrit[owner[c]] = c /\ t = cur
                     /\ crit[t] = c
      /\ UNCHANGED <<lockCount, proxies, bListed, crit, depth, pLastCrit, owned, life,
                     cur>>
  BY DEF CSWaitSteal, CanSteal, WaitDone, Goto, At, Runs, prioVars, lifeVars, schedVars
<1>4. /\ owner' = [owner EXCEPT ![c] = t]
      /\ leaving' = [leaving EXCEPT ![c] = FALSE]
      /\ needtrap' = [needtrap EXCEPT ![c] = @ \/ proxies[c] # <<>>]
      /\ pc' = [pc EXCEPT ![t] = IF proxies[c] # <<>> THEN "laterLink" ELSE "dequeue"]
  BY DEF CSWaitSteal, CanSteal, WaitDone, Goto, At, Runs, prioVars, lifeVars, schedVars
<1> HIDE DEF c
<1>5. ASSUME NEW u \in Threads, NEW d \in Crits
      PROVE  LocalInv(u, d)'
  <2>1. LocalInv(u, d) /\ LocalInv(t, c) /\ LocalInv(u, c) /\ LocalInv(t, d)
    BY <1>2 DEF IndInv
  <2>2. /\ owner[c] \in Threads \cup {None}
        /\ owner[c] \in Threads => LocalInv(owner[c], c) /\ LocalInv(owner[c], d)
    BY <1>1, <1>2 DEF IndInv, Shapes
  <2>3. /\ owner'[d] = IF d = c THEN t ELSE owner[d]
        /\ leaving'[d] = IF d = c THEN FALSE ELSE leaving[d]
        /\ needtrap'[d] = IF d = c THEN needtrap[c] \/ proxies[c] # <<>> ELSE needtrap[d]
        /\ pc'[u] = IF u = t THEN IF proxies[c] # <<>>
                        THEN "laterLink" ELSE "dequeue" ELSE pc[u]
    BY <1>1, <1>2, <1>4, <2>2 DEF Shapes
  <2>4. depth[u][d] \in Nat /\ lockCount[d] \in Int
    BY <1>1 DEF Shapes
  <2> USE NoneIsNothing DEF LocalInv, EndAt, OwnerAt, CallAt, HandedAt, ListAt,
        Owns, MarkedBy, Ended, CallPCs, UserPCs, EnterPCs, LeavePCs, QueuedPCs,
        MarkPCs, UpForGrabs, IsValid, Buried
  <2>5. EndAt(u, d)'
    BY <1>2, <1>3, <2>1, <2>2, <2>3, <2>4
  <2>6. OwnerAt(u, d)'
    BY <1>2, <1>3, <2>1, <2>2, <2>3, <2>4
  <2>7. CallAt(u, d)'
    BY <1>2, <1>3, <2>1, <2>2, <2>3, <2>4
  <2>8. HandedAt(u, d)'
    BY <1>2, <1>3, <2>1, <2>2, <2>3, <2>4
  <2>9. ListAt(u, d)'
    BY <1>2, <1>3, <2>1, <2>2, <2>3, <2>4
  <2> QED
    BY <2>5, <2>6, <2>7, <2>8, <2>9
<1>6. QueueInv'
  <2> USE DEF QueueInv, IndInv, Shapes, QueuedPCs, UserPCs
  <2>1. ASSUME NEW d \in Crits
        PROVE  Distinct(proxies'[d])
    BY <1>3
  <2>2. ASSUME NEW d \in Crits, NEW u \in Threads, Queued(u, proxies'[d])
        PROVE  crit'[u] = d /\ pc'[u] \in QueuedPCs \cup {"fault"}
    <3>1. Queued(u, proxies[d])
      BY <1>3, <2>2
    <3>2. pc'[u] = IF u = t THEN IF proxies[c] # <<>>
                       THEN "laterLink" ELSE "dequeue" ELSE pc[u]
      BY <1>1, <1>2, <1>4
    <3> QED
      BY <1>1, <1>2, <1>3, <3>1, <3>2
  <2> QED
    BY <2>1, <2>2
<1> QED
  BY <1>5, <1>6

LEMMA CSWaitPendInv ==
    ASSUME IndInv, NEW t \in Threads, CSWaitPend(t)
    PROVE  QueueInv' /\ \A u \in Threads, d \in Crits : LocalInv(u, d)'
<1> DEFINE c == crit[t]
<1>1. Shapes
  BY ShapesHold
<1>2. c \in Crits
  BY <1>1 DEF CSWaitPend, At, Runs, Shapes, CallPCs, UserPCs, EnterPCs, LeavePCs
<1>3. /\ pc[t] = "part1" /\ ~UpForGrabs(c) /\ t = cur /\ crit[t] = c
      /\ UNCHANGED <<owner, leaving, lockCount, bListed, crit, depth, pLastCrit, owned,
                     life, cur>>
  BY DEF CSWaitPend, Goto, At, Runs, prioVars, lifeVars, schedVars
<1>4. /\ needtrap' = [needtrap EXCEPT ![c] = TRUE]
      /\ proxies' = [proxies EXCEPT ![c] = Enqueue(@, t, proxPrio[t], proxPrio)]
      /\ pc' \in {[pc EXCEPT ![t] = "boost1"], [pc EXCEPT ![t] = "part2"]}
  BY DEF CSWaitPend, Goto, At, Runs, prioVars, lifeVars, schedVars
<1> HIDE DEF c
<1>5. ASSUME NEW u \in Threads, NEW d \in Crits
      PROVE  LocalInv(u, d)'
  <2>1. LocalInv(u, d) /\ LocalInv(t, c) /\ LocalInv(u, c) /\ LocalInv(t, d)
    BY <1>2 DEF IndInv
  <2>2. /\ needtrap'[d] = IF d = c THEN TRUE ELSE needtrap[d]
        /\ IF u = t THEN pc'[u] \in {"boost1", "part2"} ELSE pc'[u] = pc[u]
    BY <1>1, <1>2, <1>4 DEF Shapes
  <2>3. depth[u][d] \in Nat /\ lockCount[d] \in Int
    BY <1>1 DEF Shapes
  <2> USE NoneIsNothing DEF LocalInv, EndAt, OwnerAt, CallAt, HandedAt, ListAt,
        Owns, MarkedBy, Ended, CallPCs, UserPCs, EnterPCs, LeavePCs, QueuedPCs,
        MarkPCs, UpForGrabs, IsValid, Buried
  <2>4. EndAt(u, d)'
    BY <1>2, <1>3, <2>1, <2>2, <2>3
  <2>5. OwnerAt(u, d)'
    BY <1>2, <1>3, <2>1, <2>2, <2>3
  <2>6. CallAt(u, d)'
    BY <1>2, <1>3, <2>1, <2>2, <2>3
  <2>7. HandedAt(u, d)'
    BY <1>2, <1>3, <2>1, <2>2, <2>3
  <2>8. ListAt(u, d)'
    BY <1>2, <1>3, <2>1, <2>2, <2>3
  <2> QED
    BY <2>4, <2>5, <2>6, <2>7, <2>8
<1>6. QueueInv'
  <2> USE DEF QueueInv, IndInv, Shapes, QueuedPCs, UserPCs
  <2>1. ~Queued(t, proxies[c])
    BY <1>1, <1>2, <1>3
  <2>2. ASSUME NEW d \in Crits
        PROVE  Distinct(proxies'[d])
    BY <1>1, <1>2, <1>3, <1>4, <2>1, EnqueueKeeps
  <2>3. ASSUME NEW d \in Crits, NEW u \in Threads, Queued(u, proxies'[d])
        PROVE  crit'[u] = d /\ pc'[u] \in QueuedPCs \cup {"fault"}
    <3>1. Queued(u, proxies[d]) \/ (u = t /\ d = c)
      BY <1>1, <1>2, <1>3, <1>4, <2>1, <2>3, EnqueueKeeps
    <3>2. IF u = t THEN pc'[u] \in {"boost1", "part2"} ELSE pc'[u] = pc[u]
      BY <1>1, <1>2, <1>4
    <3> QED
      BY <1>1, <1>2, <1>3, <3>1, <3>2
  <2> QED
    BY <2>2, <2>3
<1> QED
  BY <1>5, <1>6

LEMMA LaterLinkCritMutInv ==
    ASSUME IndInv, NEW t \in Threads, LaterLinkCritMut(t)
    PROVE  QueueInv' /\ \A u \in Threads, d \in Crits : LocalInv(u, d)'
<1> DEFINE c == crit[t]
<1>1. Shapes
  BY ShapesHold
<1>2. c \in Crits
  BY <1>1 DEF LaterLinkCritMut, At, Runs, Shapes, CallPCs, UserPCs, EnterPCs, LeavePCs
<1>3. /\ pc[t] = "laterLink" /\ t = cur /\ crit[t] = c
      /\ UNCHANGED <<owner, leaving, lockCount, needtrap, proxies, crit, depth,
                     pLastCrit, life, cur>>
  BY DEF LaterLinkCritMut, Link, Goto, At, Runs, waitVars, lifeVars, schedVars
<1>4. /\ bListed' = IF owner[c] = t /\ Links(t, c)
                        THEN [bListed EXCEPT ![c] = 1] ELSE bListed
      /\ pc' = [pc EXCEPT ![t] = "dequeue"]
      /\ owned' = IF owner[c] = t /\ Links(t, c)
                      THEN [owned EXCEPT ![t] = @ \cup {c}] ELSE owned
  BY DEF LaterLinkCritMut, Link, Goto, At, Runs, waitVars, lifeVars, schedVars
<1> HIDE DEF c
<1>5. ASSUME NEW u \in Threads, NEW d \in Crits
      PROVE  LocalInv(u, d)'
  <2>1. LocalInv(u, d) /\ LocalInv(t, c) /\ LocalInv(u, c) /\ LocalInv(t, d)
    BY <1>2 DEF IndInv
  <2>2. /\ bListed'[d] = IF owner[c] = t /\ Links(t, c) /\ d = c THEN 1 ELSE bListed[d]
        /\ pc'[u] = IF u = t THEN "dequeue" ELSE pc[u]
        /\ d \in owned'[u] <=> d \in owned[u] \/ (owner[c] = t /\ Links(t, c)
                            /\ u = t /\ d = c)
    BY <1>1, <1>2, <1>4 DEF Shapes
  <2>3. depth[u][d] \in Nat /\ lockCount[d] \in Int
    BY <1>1 DEF Shapes
  <2> USE NoneIsNothing DEF LocalInv, EndAt, OwnerAt, CallAt, HandedAt, ListAt,
        Owns, MarkedBy, Ended, CallPCs, UserPCs, EnterPCs, LeavePCs, QueuedPCs,
        MarkPCs, Links, Buried
  <2>4. EndAt(u, d)'
    BY <1>2, <1>3, <2>1, <2>2, <2>3
  <2>5. OwnerAt(u, d)'
    BY <1>2, <1>3, <2>1, <2>2, <2>3
  <2>6. CallAt(u, d)'
    BY <1>2, <1>3, <2>1, <2>2, <2>3
  <2>7. HandedAt(u, d)'
    BY <1>2, <1>3, <2>1, <2>2, <2>3
  <2>8. ListAt(u, d)'
    BY <1>2, <1>3, <2>1, <2>2, <2>3
  <2> QED
    BY <2>4, <2>5, <2>6, <2>7, <2>8
<1>6. QueueInv'
  <2> USE DEF QueueInv, IndInv, Shapes, QueuedPCs, UserPCs
  <2>1. ASSUME NEW d \in Crits
        PROVE  Distinct(proxies'[d])
    BY <1>3
  <2>2. ASSUME NEW d \in Crits, NEW u \in Threads, Queued(u, proxies'[d])
        PROVE  crit'[u] = d /\ pc'[u] \in QueuedPCs \cup {"fault"}
    <3>1. Queued(u, proxies[d])
      BY <1>3, <2>2
    <3>2. pc'[u] = IF u = t THEN "dequeue" ELSE pc[u]
      BY <1>1, <1>2, <1>4
    <3> QED
      BY <1>1, <1>2, <1>3, <3>1, <3>2
  <2> QED
    BY <2>1, <2>2
<1> QED
  BY <1>5, <1>6

LEMMA PostBoostCrit1Inv ==
    ASSUME IndInv, NEW t \in Threads, PostBoostCrit1(t)
    PROVE  QueueInv' /\ \A u \in Threads, d \in Crits : LocalInv(u, d)'
<1> DEFINE c == crit[t]
<1>1. Shapes
  BY ShapesHold
<1>2. c \in Crits
  BY <1>1 DEF PostBoostCrit1, At, Runs, Shapes, CallPCs, UserPCs, EnterPCs, LeavePCs
<1>3. /\ pc[t] = "boost1" /\ t = cur /\ crit[t] = c
      /\ UNCHANGED <<owner, leaving, lockCount, needtrap, proxies, bListed, crit, depth,
                     pLastCrit, life, cur>>
  BY DEF PostBoostCrit1, ReprioCritMut, Goto, At, Runs, waitVars, lifeVars, schedVars
<1>4. /\ pc' = [pc EXCEPT ![t] = "boost2"]
      /\ owned' = IF waitstate[t] = "PROCESSING" /\ IsValid(owner[c])
                      /\ bListed[c] = 1 THEN [owned EXCEPT ![owner[c]] = @ \cup {c}]
                            ELSE owned
  BY DEF PostBoostCrit1, ReprioCritMut, Goto, At, Runs, waitVars, lifeVars, schedVars
<1> HIDE DEF c
<1>5. ASSUME NEW u \in Threads, NEW d \in Crits
      PROVE  LocalInv(u, d)'
  <2>1. LocalInv(u, d) /\ LocalInv(t, c) /\ LocalInv(u, c) /\ LocalInv(t, d)
    BY <1>2 DEF IndInv
  <2>2. /\ owner[c] \in Threads \cup {None}
        /\ owner[c] \in Threads => LocalInv(owner[c], c) /\ LocalInv(owner[c], d)
    BY <1>1, <1>2 DEF IndInv, Shapes
  <2>3. /\ pc'[u] = IF u = t THEN "boost2" ELSE pc[u]
        /\ d \in owned'[u] <=> d \in owned[u]
                            \/ (waitstate[t] = "PROCESSING" /\ IsValid(owner[c])
                            /\ bListed[c] = 1 /\ u = owner[c] /\ d = c)
    BY <1>1, <1>2, <1>4, <2>2 DEF Shapes
  <2>4. depth[u][d] \in Nat /\ lockCount[d] \in Int
    BY <1>1 DEF Shapes
  <2> USE NoneIsNothing DEF LocalInv, EndAt, OwnerAt, CallAt, HandedAt, ListAt,
        Owns, MarkedBy, Ended, CallPCs, UserPCs, EnterPCs, LeavePCs, QueuedPCs,
        MarkPCs, UpForGrabs, IsValid, Buried
  <2>5. EndAt(u, d)'
    BY <1>2, <1>3, <2>1, <2>2, <2>3, <2>4
  <2>6. OwnerAt(u, d)'
    BY <1>2, <1>3, <2>1, <2>2, <2>3, <2>4
  <2>7. CallAt(u, d)'
    BY <1>2, <1>3, <2>1, <2>2, <2>3, <2>4
  <2>8. HandedAt(u, d)'
    BY <1>2, <1>3, <2>1, <2>2, <2>3, <2>4
  <2>9. ListAt(u, d)'
    BY <1>2, <1>3, <2>1, <2>2, <2>3, <2>4
  <2> QED
    BY <2>5, <2>6, <2>7, <2>8, <2>9
<1>6. QueueInv'
  <2> USE DEF QueueInv, IndInv, Shapes, QueuedPCs, UserPCs
  <2>1. ASSUME NEW d \in Crits
        PROVE  Distinct(proxies'[d])
    BY <1>3
  <2>2. ASSUME NEW d \in Crits, NEW u \in Threads, Queued(u, proxies'[d])
        PROVE  crit'[u] = d /\ pc'[u] \in QueuedPCs \cup {"fault"}
    <3>1. Queued(u, proxies[d])
      BY <1>3, <2>2
    <3>2. pc'[u] = IF u = t THEN "boost2" ELSE pc[u]
      BY <1>1, <1>2, <1>4
    <3> QED
      BY <1>1, <1>2, <1>3, <3>1, <3>2
  <2> QED
    BY <2>1, <2>2
<1> QED
  BY <1>5, <1>6

LEMMA PostBoostCrit2Inv ==
    ASSUME IndInv, NEW t \in Threads, PostBoostCrit2(t)
    PROVE  QueueInv' /\ \A u \in Threads, d \in Crits : LocalInv(u, d)'
<1> DEFINE c == crit[t]
<1>1. Shapes
  BY ShapesHold
<1>2. c \in Crits
  BY <1>1 DEF PostBoostCrit2, At, Runs, Shapes, CallPCs, UserPCs, EnterPCs, LeavePCs
<1>3. /\ pc[t] = "boost2" /\ t = cur /\ crit[t] = c
      /\ UNCHANGED <<owner, leaving, lockCount, needtrap, proxies, bListed, crit, depth,
                     pLastCrit, owned, life, cur>>
  BY DEF PostBoostCrit2, Goto, At, Runs, csVars, waitVars, lifeVars
<1>4. pc' = [pc EXCEPT ![t] = "part2"]
  BY DEF PostBoostCrit2, Goto, At, Runs, csVars, waitVars, lifeVars
<1> HIDE DEF c
<1>5. ASSUME NEW u \in Threads, NEW d \in Crits
      PROVE  LocalInv(u, d)'
  <2>1. LocalInv(u, d) /\ LocalInv(t, c) /\ LocalInv(u, c) /\ LocalInv(t, d)
    BY <1>2 DEF IndInv
  <2>2. /\ pc'[u] = IF u = t THEN "part2" ELSE pc[u]
    BY <1>1, <1>2, <1>4 DEF Shapes
  <2>3. depth[u][d] \in Nat /\ lockCount[d] \in Int
    BY <1>1 DEF Shapes
  <2> USE NoneIsNothing DEF LocalInv, EndAt, OwnerAt, CallAt, HandedAt, ListAt,
        Owns, MarkedBy, Ended, CallPCs, UserPCs, EnterPCs, LeavePCs, QueuedPCs,
        MarkPCs
  <2>4. EndAt(u, d)'
    BY <1>2, <1>3, <2>1, <2>2, <2>3
  <2>5. OwnerAt(u, d)'
    BY <1>2, <1>3, <2>1, <2>2, <2>3
  <2>6. CallAt(u, d)'
    BY <1>2, <1>3, <2>1, <2>2, <2>3
  <2>7. HandedAt(u, d)'
    BY <1>2, <1>3, <2>1, <2>2, <2>3
  <2>8. ListAt(u, d)'
    BY <1>2, <1>3, <2>1, <2>2, <2>3
  <2> QED
    BY <2>4, <2>5, <2>6, <2>7, <2>8
<1>6. QueueInv'
  <2> USE DEF QueueInv, IndInv, Shapes, QueuedPCs, UserPCs
  <2>1. ASSUME NEW d \in Crits
        PROVE  Distinct(proxies'[d])
    BY <1>3
  <2>2. ASSUME NEW d \in Crits, NEW u \in Threads, Queued(u, proxies'[d])
        PROVE  crit'[u] = d /\ pc'[u] \in QueuedPCs \cup {"fault"}
    <3>1. Queued(u, proxies[d])
      BY <1>3, <2>2
    <3>2. pc'[u] = IF u = t THEN "part2" ELSE pc[u]
      BY <1>1, <1>2, <1>4
    <3> QED
      BY <1>1, <1>2, <1>3, <3>1, <3>2
  <2> QED
    BY <2>1, <2>2
<1> QED
  BY <1>5, <1>6

LEMMA CSWaitSignalledInv ==
    ASSUME IndInv, NEW t \in Threads, CSWaitSignalled(t)
    PROVE  QueueInv' /\ \A u \in Threads, d \in Crits : LocalInv(u, d)'
<1> DEFINE c == crit[t]
<1>1. Shapes
  BY ShapesHold
<1>2. c \in Crits
  BY <1>1 DEF CSWaitSignalled, At, Runs, Shapes, CallPCs, UserPCs, EnterPCs, LeavePCs
<1>3. /\ pc[t] = "part2" /\ t = cur /\ crit[t] = c
      /\ UNCHANGED <<owner, leaving, lockCount, needtrap, proxies, bListed, crit, depth,
                     pLastCrit, owned, life, cur>>
  BY DEF CSWaitSignalled, Goto, At, Runs, csVars, prioVars, waitVars, lifeVars,
     schedVars
<1>4. pc' = [pc EXCEPT ![t] = "dequeue"]
  BY DEF CSWaitSignalled, Goto, At, Runs, csVars, prioVars, waitVars, lifeVars,
     schedVars
<1> HIDE DEF c
<1>5. ASSUME NEW u \in Threads, NEW d \in Crits
      PROVE  LocalInv(u, d)'
  <2>1. LocalInv(u, d) /\ LocalInv(t, c) /\ LocalInv(u, c) /\ LocalInv(t, d)
    BY <1>2 DEF IndInv
  <2>2. /\ pc'[u] = IF u = t THEN "dequeue" ELSE pc[u]
    BY <1>1, <1>2, <1>4 DEF Shapes
  <2>3. depth[u][d] \in Nat /\ lockCount[d] \in Int
    BY <1>1 DEF Shapes
  <2> USE NoneIsNothing DEF LocalInv, EndAt, OwnerAt, CallAt, HandedAt, ListAt,
        Owns, MarkedBy, Ended, CallPCs, UserPCs, EnterPCs, LeavePCs, QueuedPCs,
        MarkPCs
  <2>4. EndAt(u, d)'
    BY <1>2, <1>3, <2>1, <2>2, <2>3
  <2>5. OwnerAt(u, d)'
    BY <1>2, <1>3, <2>1, <2>2, <2>3
  <2>6. CallAt(u, d)'
    BY <1>2, <1>3, <2>1, <2>2, <2>3
  <2>7. HandedAt(u, d)'
    BY <1>2, <1>3, <2>1, <2>2, <2>3
  <2>8. ListAt(u, d)'
    BY <1>2, <1>3, <2>1, <2>2, <2>3
  <2> QED
    BY <2>4, <2>5, <2>6, <2>7, <2>8
<1>6. QueueInv'
  <2> USE DEF QueueInv, IndInv, Shapes, QueuedPCs, UserPCs
  <2>1. ASSUME NEW d \in Crits
        PROVE  Distinct(proxies'[d])
    BY <1>3
  <2>2. ASSUME NEW d \in Crits, NEW u \in Threads, Queued(u, proxies'[d])
        PROVE  crit'[u] = d /\ pc'[u] \in QueuedPCs \cup {"fault"}
    <3>1. Queued(u, proxies[d])
      BY <1>3, <2>2
    <3>2. pc'[u] = IF u = t THEN "dequeue" ELSE pc[u]
      BY <1>1, <1>2, <1>4
    <3> QED
      BY <1>1, <1>2, <1>3, <3>1, <3>2
  <2> QED
    BY <2>1, <2>2
<1> QED
  BY <1>5, <1>6

LEMMA CSWaitTerminatedInv ==
    ASSUME IndInv, NEW t \in Threads, CSWaitTerminated(t)
    PROVE  QueueInv' /\ \A u \in Threads, d \in Crits : LocalInv(u, d)'
<1> DEFINE c == crit[t]
<1>1. Shapes
  BY ShapesHold
<1>2. c \in Crits
  BY <1>1 DEF CSWaitTerminated, At, Runs, Shapes, CallPCs, UserPCs, EnterPCs, LeavePCs
<1>3. /\ pc[t] = "part2" /\ t = cur /\ crit[t] = c
      /\ UNCHANGED <<owner, leaving, lockCount, needtrap, proxies, bListed, crit, depth,
                     pLastCrit, owned, life, cur>>
  BY DEF CSWaitTerminated, Goto, At, Runs, csVars, prioVars, lifeVars, schedVars
<1>4. pc' = [pc EXCEPT ![t] = "dequeue"]
  BY DEF CSWaitTerminated, Goto, At, Runs, csVars, prioVars, lifeVars, schedVars
<1> HIDE DEF c
<1>5. ASSUME NEW u \in Threads, NEW d \in Crits
      PROVE  LocalInv(u, d)'
  <2>1. LocalInv(u, d) /\ LocalInv(t, c) /\ LocalInv(u, c) /\ LocalInv(t, d)
    BY <1>2 DEF IndInv
  <2>2. /\ pc'[u] = IF u = t THEN "dequeue" ELSE pc[u]
    BY <1>1, <1>2, <1>4 DEF Shapes
  <2>3. depth[u][d] \in Nat /\ lockCount[d] \in Int
    BY <1>1 DEF Shapes
  <2> USE NoneIsNothing DEF LocalInv, EndAt, OwnerAt, CallAt, HandedAt, ListAt,
        Owns, MarkedBy, Ended, CallPCs, UserPCs, EnterPCs, LeavePCs, QueuedPCs,
        MarkPCs
  <2>4. EndAt(u, d)'
    BY <1>2, <1>3, <2>1, <2>2, <2>3
  <2>5. OwnerAt(u, d)'
    BY <1>2, <1>3, <2>1, <2>2, <2>3
  <2>6. CallAt(u, d)'
    BY <1>2, <1>3, <2>1, <2>2, <2>3
  <2>7. HandedAt(u, d)'
    BY <1>2, <1>3, <2>1, <2>2, <2>3
  <2>8. ListAt(u, d)'
    BY <1>2, <1>3, <2>1, <2>2, <2>3
  <2> QED
    BY <2>4, <2>5, <2>6, <2>7, <2>8
<1>6. QueueInv'
  <2> USE DEF QueueInv, IndInv, Shapes, QueuedPCs, UserPCs
  <2>1. ASSUME NEW d \in Crits
        PROVE  Distinct(proxies'[d])
    BY <1>3
  <2>2. ASSUME NEW d \in Crits, NEW u \in Threads, Queued(u, proxies'[d])
        PROVE  crit'[u] = d /\ pc'[u] \in QueuedPCs \cup {"fault"}
    <3>1. Queued(u, proxies[d])
      BY <1>3, <2>2
    <3>2. pc'[u] = IF u = t THEN "dequeue" ELSE pc[u]
      BY <1>1, <1>2, <1>4
    <3> QED
      BY <1>1, <1>2, <1>3, <3>1, <3>2
  <2> QED
    BY <2>1, <2>2
<1> QED
  BY <1>5, <1>6

LEMMA CSWaitBlockInv ==
    ASSUME IndInv, NEW t \in Threads, CSWaitBlock(t)
    PROVE  QueueInv' /\ \A u \in Threads, d \in Crits : LocalInv(u, d)'
<1> DEFINE c == crit[t]
<1>1. Shapes
  BY ShapesHold
<1>2. c \in Crits
  BY <1>1 DEF CSWaitBlock, At, Runs, Shapes, CallPCs, UserPCs, EnterPCs, LeavePCs
<1>3. /\ pc[t] = "part2" /\ (bListed[c] # 0 \/ owner[c] # None) /\ t = cur /\ crit[t] = c
      /\ cur' = None
      /\ UNCHANGED <<owner, leaving, lockCount, needtrap, proxies, crit, depth, life>>
  BY DEF CSWaitBlock, LinkedLastCrit, Link, Links, Goto, IsValid, At, Runs, lifeVars
<1>4. /\ bListed' = IF Links(owner[c], c) THEN [bListed EXCEPT ![c] = 1] ELSE bListed
      /\ pc' = [pc EXCEPT ![t] = "dequeue"]
      /\ pLastCrit' = IF bListed[c] = 0
                          THEN [pLastCrit EXCEPT ![owner[c]] = None] ELSE pLastCrit
      /\ owned' = IF Links(owner[c], c)
                      THEN [owned EXCEPT ![owner[c]] = @ \cup {c}] ELSE owned
  BY DEF CSWaitBlock, LinkedLastCrit, Link, Links, Goto, IsValid, At, Runs, lifeVars
<1> HIDE DEF c
<1>5. ASSUME NEW u \in Threads, NEW d \in Crits
      PROVE  LocalInv(u, d)'
  <2>1. LocalInv(u, d) /\ LocalInv(t, c) /\ LocalInv(u, c) /\ LocalInv(t, d)
    BY <1>2 DEF IndInv
  <2>2. /\ owner[c] \in Threads \cup {None}
        /\ owner[c] \in Threads => LocalInv(owner[c], c) /\ LocalInv(owner[c], d)
    BY <1>1, <1>2 DEF IndInv, Shapes
  <2>3. /\ bListed'[d] = IF Links(owner[c], c) /\ d = c THEN 1 ELSE bListed[d]
        /\ pc'[u] = IF u = t THEN "dequeue" ELSE pc[u]
        /\ pLastCrit'[u] = IF bListed[c] = 0 /\ u = owner[c] THEN None ELSE pLastCrit[u]
        /\ d \in owned'[u] <=> d \in owned[u] \/ (Links(owner[c], c)
                            /\ u = owner[c] /\ d = c)
    BY <1>1, <1>2, <1>4, <2>2 DEF Shapes
  <2>4. depth[u][d] \in Nat /\ lockCount[d] \in Int
    BY <1>1 DEF Shapes
  <2> USE NoneIsNothing DEF LocalInv, EndAt, OwnerAt, CallAt, HandedAt, ListAt,
        Owns, MarkedBy, Ended, CallPCs, UserPCs, EnterPCs, LeavePCs, QueuedPCs,
        MarkPCs, UpForGrabs, IsValid, Buried, Links
  <2>5. EndAt(u, d)'
    BY <1>2, <1>3, <2>1, <2>2, <2>3, <2>4
  <2>6. OwnerAt(u, d)'
    BY <1>2, <1>3, <2>1, <2>2, <2>3, <2>4
  <2>7. CallAt(u, d)'
    BY <1>2, <1>3, <2>1, <2>2, <2>3, <2>4
  <2>8. HandedAt(u, d)'
    BY <1>2, <1>3, <2>1, <2>2, <2>3, <2>4
  <2>9. ListAt(u, d)'
    BY <1>2, <1>3, <2>1, <2>2, <2>3, <2>4
  <2> QED
    BY <2>5, <2>6, <2>7, <2>8, <2>9
<1>6. QueueInv'
  <2> USE DEF QueueInv, IndInv, Shapes, QueuedPCs, UserPCs
  <2>1. ASSUME NEW d \in Crits
        PROVE  Distinct(proxies'[d])
    BY <1>3
  <2>2. ASSUME NEW d \in Crits, NEW u \in Threads, Queued(u, proxies'[d])
        PROVE  crit'[u] = d /\ pc'[u] \in QueuedPCs \cup {"fault"}
    <3>1. Queued(u, proxies[d])
      BY <1>3, <2>2
    <3>2. pc'[u] = IF u = t THEN "dequeue" ELSE pc[u]
      BY <1>1, <1>2, <1>4
    <3> QED
      BY <1>1, <1>2, <1>3, <3>1, <3>2
  <2> QED
    BY <2>1, <2>2
<1> QED
  BY <1>5, <1>6

LEMMA OwnerGoneFaultInv ==
    ASSUME IndInv, NEW t \in Threads, OwnerGoneFault(t)
    PROVE  QueueInv' /\ \A u \in Threads, d \in Crits : LocalInv(u, d)'
<1> DEFINE c == crit[t]
<1>1. Shapes
  BY ShapesHold
<1>2. c \in Crits
  BY <1>1 DEF OwnerGoneFault, At, Runs, Shapes, CallPCs, UserPCs, EnterPCs, LeavePCs
<1>3. /\ pc[t] \in {"boost2", "part2"} /\ t = cur /\ crit[t] = c
      /\ UNCHANGED <<owner, leaving, lockCount, needtrap, proxies, bListed, crit, depth,
                     pLastCrit, owned, life, cur>>
  BY DEF OwnerGoneFault, Faults, Goto, At, Runs, csVars, prioVars, waitVars, lifeVars,
     schedVars
<1>4. pc' = [pc EXCEPT ![t] = "fault"]
  BY DEF OwnerGoneFault, Faults, Goto, At, Runs, csVars, prioVars, waitVars, lifeVars,
     schedVars
<1> HIDE DEF c
<1>5. ASSUME NEW u \in Threads, NEW d \in Crits
      PROVE  LocalInv(u, d)'
  <2>1. LocalInv(u, d) /\ LocalInv(t, c) /\ LocalInv(u, c) /\ LocalInv(t, d)
    BY <1>2 DEF IndInv
  <2>2. /\ pc'[u] = IF u = t THEN "fault" ELSE pc[u]
    BY <1>1, <1>2, <1>4 DEF Shapes
  <2>3. depth[u][d] \in Nat /\ lockCount[d] \in Int
    BY <1>1 DEF Shapes
  <2> USE NoneIsNothing DEF LocalInv, EndAt, OwnerAt, CallAt, HandedAt, ListAt,
        Owns, MarkedBy, Ended, CallPCs, UserPCs, EnterPCs, LeavePCs, QueuedPCs,
        MarkPCs
  <2>4. EndAt(u, d)'
    BY <1>2, <1>3, <2>1, <2>2, <2>3
  <2>5. OwnerAt(u, d)'
    BY <1>2, <1>3, <2>1, <2>2, <2>3
  <2>6. CallAt(u, d)'
    BY <1>2, <1>3, <2>1, <2>2, <2>3
  <2>7. HandedAt(u, d)'
    BY <1>2, <1>3, <2>1, <2>2, <2>3
  <2>8. ListAt(u, d)'
    BY <1>2, <1>3, <2>1, <2>2, <2>3
  <2> QED
    BY <2>4, <2>5, <2>6, <2>7, <2>8
<1>6. QueueInv'
  <2> USE DEF QueueInv, IndInv, Shapes, QueuedPCs, UserPCs
  <2>1. ASSUME NEW d \in Crits
        PROVE  Distinct(proxies'[d])
    BY <1>3
  <2>2. ASSUME NEW d \in Crits, NEW u \in Threads, Queued(u, proxies'[d])
        PROVE  crit'[u] = d /\ pc'[u] \in QueuedPCs \cup {"fault"}
    <3>1. Queued(u, proxies[d])
      BY <1>3, <2>2
    <3>2. pc'[u] = IF u = t THEN "fault" ELSE pc[u]
      BY <1>1, <1>2, <1>4
    <3> QED
      BY <1>1, <1>2, <1>3, <3>1, <3>2
  <2> QED
    BY <2>1, <2>2
<1> QED
  BY <1>5, <1>6

LEMMA DequeuePrioProxyInv ==
    ASSUME IndInv, NEW t \in Threads, DequeuePrioProxy(t)
    PROVE  QueueInv' /\ \A u \in Threads, d \in Crits : LocalInv(u, d)'
<1> DEFINE c == crit[t]
<1>1. Shapes
  BY ShapesHold
<1>2. c \in Crits
  BY <1>1 DEF DequeuePrioProxy, At, Runs, Shapes, CallPCs, UserPCs, EnterPCs, LeavePCs
<1>3. /\ pc[t] = "dequeue" /\ t = cur /\ crit[t] = c
      /\ UNCHANGED <<owner, leaving, lockCount, needtrap, bListed, crit, depth,
                     pLastCrit, owned, life, cur>>
  BY DEF DequeuePrioProxy, Goto, At, Runs, prioVars, waitVars, lifeVars, schedVars
<1>4. /\ proxies' = [proxies EXCEPT ![c] = Dequeue(@, t)]
      /\ pc' \in {[pc EXCEPT ![t] = "reprio"], [pc EXCEPT ![t] = "loopTest"]}
  BY DEF DequeuePrioProxy, Goto, At, Runs, prioVars, waitVars, lifeVars, schedVars
<1> HIDE DEF c
<1>5. ASSUME NEW u \in Threads, NEW d \in Crits
      PROVE  LocalInv(u, d)'
  <2>1. LocalInv(u, d) /\ LocalInv(t, c) /\ LocalInv(u, c) /\ LocalInv(t, d)
    BY <1>2 DEF IndInv
  <2>2. /\ IF u = t THEN pc'[u] \in {"reprio", "loopTest"} ELSE pc'[u] = pc[u]
    BY <1>1, <1>2, <1>4 DEF Shapes
  <2>3. depth[u][d] \in Nat /\ lockCount[d] \in Int
    BY <1>1 DEF Shapes
  <2> USE NoneIsNothing DEF LocalInv, EndAt, OwnerAt, CallAt, HandedAt, ListAt,
        Owns, MarkedBy, Ended, CallPCs, UserPCs, EnterPCs, LeavePCs, QueuedPCs,
        MarkPCs
  <2>4. EndAt(u, d)'
    BY <1>2, <1>3, <2>1, <2>2, <2>3
  <2>5. OwnerAt(u, d)'
    BY <1>2, <1>3, <2>1, <2>2, <2>3
  <2>6. CallAt(u, d)'
    BY <1>2, <1>3, <2>1, <2>2, <2>3
  <2>7. HandedAt(u, d)'
    BY <1>2, <1>3, <2>1, <2>2, <2>3
  <2>8. ListAt(u, d)'
    BY <1>2, <1>3, <2>1, <2>2, <2>3
  <2> QED
    BY <2>4, <2>5, <2>6, <2>7, <2>8
<1>6. QueueInv'
  <2> USE DEF QueueInv, IndInv, Shapes, QueuedPCs, UserPCs
  <2>1. Distinct(proxies[c]) /\ proxies[c] \in Seq(Threads)
    BY <1>1, <1>2, <1>3
  <2>2. ASSUME NEW d \in Crits
        PROVE  Distinct(proxies'[d])
    BY <1>1, <1>2, <1>3, <1>4, <2>1, DequeueKeeps
  <2>3. ASSUME NEW d \in Crits, NEW u \in Threads, Queued(u, proxies'[d])
        PROVE  crit'[u] = d /\ pc'[u] \in QueuedPCs \cup {"fault"}
    <3>1. Queued(u, proxies[d]) /\ (d = c => u # t)
      BY <1>1, <1>2, <1>3, <1>4, <2>1, <2>3, DequeueKeeps
    <3>2. IF u = t THEN pc'[u] \in {"reprio", "loopTest"} ELSE pc'[u] = pc[u]
      BY <1>1, <1>2, <1>4
    <3> QED
      BY <1>1, <1>2, <1>3, <3>1, <3>2
  <2> QED
    BY <2>2, <2>3
<1> QED
  BY <1>5, <1>6

LEMMA DoReprioCritInv ==
    ASSUME IndInv, NEW t \in Threads, DoReprioCrit(t)
    PROVE  QueueInv' /\ \A u \in Threads, d \in Crits : LocalInv(u, d)'
<1> DEFINE c == crit[t]
<1>1. Shapes
  BY ShapesHold
<1>2. c \in Crits
  BY <1>1 DEF DoReprioCrit, At, Runs, Shapes, CallPCs, UserPCs, EnterPCs, LeavePCs
<1>3. /\ pc[t] = "reprio" /\ t = cur /\ crit[t] = c
      /\ UNCHANGED <<owner, leaving, lockCount, needtrap, proxies, bListed, crit, depth,
                     pLastCrit, life, cur>>
  BY DEF DoReprioCrit, ReprioCritMut, Goto, At, Runs, waitVars, lifeVars, schedVars
<1>4. /\ pc' = [pc EXCEPT ![t] = "loopTest"]
      /\ owned' = IF IsValid(owner[c]) /\ bListed[c] = 1
                      THEN [owned EXCEPT ![owner[c]] = @ \cup {c}] ELSE owned
  BY DEF DoReprioCrit, ReprioCritMut, Goto, At, Runs, waitVars, lifeVars, schedVars
<1> HIDE DEF c
<1>5. ASSUME NEW u \in Threads, NEW d \in Crits
      PROVE  LocalInv(u, d)'
  <2>1. LocalInv(u, d) /\ LocalInv(t, c) /\ LocalInv(u, c) /\ LocalInv(t, d)
    BY <1>2 DEF IndInv
  <2>2. /\ owner[c] \in Threads \cup {None}
        /\ owner[c] \in Threads => LocalInv(owner[c], c) /\ LocalInv(owner[c], d)
    BY <1>1, <1>2 DEF IndInv, Shapes
  <2>3. /\ pc'[u] = IF u = t THEN "loopTest" ELSE pc[u]
        /\ d \in owned'[u] <=> d \in owned[u]
                            \/ (IsValid(owner[c]) /\ bListed[c] = 1
                            /\ u = owner[c] /\ d = c)
    BY <1>1, <1>2, <1>4, <2>2 DEF Shapes
  <2>4. depth[u][d] \in Nat /\ lockCount[d] \in Int
    BY <1>1 DEF Shapes
  <2> USE NoneIsNothing DEF LocalInv, EndAt, OwnerAt, CallAt, HandedAt, ListAt,
        Owns, MarkedBy, Ended, CallPCs, UserPCs, EnterPCs, LeavePCs, QueuedPCs,
        MarkPCs, UpForGrabs, IsValid, Buried
  <2>5. EndAt(u, d)'
    BY <1>2, <1>3, <2>1, <2>2, <2>3, <2>4
  <2>6. OwnerAt(u, d)'
    BY <1>2, <1>3, <2>1, <2>2, <2>3, <2>4
  <2>7. CallAt(u, d)'
    BY <1>2, <1>3, <2>1, <2>2, <2>3, <2>4
  <2>8. HandedAt(u, d)'
    BY <1>2, <1>3, <2>1, <2>2, <2>3, <2>4
  <2>9. ListAt(u, d)'
    BY <1>2, <1>3, <2>1, <2>2, <2>3, <2>4
  <2> QED
    BY <2>5, <2>6, <2>7, <2>8, <2>9
<1>6. QueueInv'
  <2> USE DEF QueueInv, IndInv, Shapes, QueuedPCs, UserPCs
  <2>1. ASSUME NEW d \in Crits
        PROVE  Distinct(proxies'[d])
    BY <1>3
  <2>2. ASSUME NEW d \in Crits, NEW u \in Threads, Queued(u, proxies'[d])
        PROVE  crit'[u] = d /\ pc'[u] \in QueuedPCs \cup {"fault"}
    <3>1. Queued(u, proxies[d])
      BY <1>3, <2>2
    <3>2. pc'[u] = IF u = t THEN "loopTest" ELSE pc[u]
      BY <1>1, <1>2, <1>4
    <3> QED
      BY <1>1, <1>2, <1>3, <3>1, <3>2
  <2> QED
    BY <2>1, <2>2
<1> QED
  BY <1>5, <1>6

LEMMA LoopTestInv ==
    ASSUME IndInv, NEW t \in Threads, LoopTest(t)
    PROVE  QueueInv' /\ \A u \in Threads, d \in Crits : LocalInv(u, d)'
<1> DEFINE c == crit[t]
<1>1. Shapes
  BY ShapesHold
<1>2. c \in Crits
  BY <1>1 DEF LoopTest, At, Runs, Shapes, CallPCs, UserPCs, EnterPCs, LeavePCs
<1>3. /\ pc[t] = "loopTest" /\ (Owns(t, c) => t = cur) /\ t = cur /\ crit[t] = c
      /\ UNCHANGED <<owner, leaving, lockCount, needtrap, proxies, bListed, crit,
                     pLastCrit, owned, life, cur>>
  BY DEF LoopTest, Goto, At, Runs, csVars, prioVars, waitVars, lifeVars, schedVars
<1>4. /\ pc' = [pc EXCEPT ![t] = IF Owns(t, c) THEN "finalBoost"
                                  ELSE IF bRetry[t] THEN "waitConfig" ELSE ReturnPC(t, c)]
      /\ depth' = IF ~Owns(t, c) /\ ~bRetry[t] /\ ReturnPC(t, c) = "exit"
                       THEN [depth EXCEPT ![t] = NothingHeld] ELSE depth
  BY DEF LoopTest, Goto, At, Runs, csVars, prioVars, waitVars, lifeVars, schedVars
<1> HIDE DEF c
<1>5. ASSUME NEW u \in Threads, NEW d \in Crits
      PROVE  LocalInv(u, d)'
  <2>1. LocalInv(u, d) /\ LocalInv(t, c) /\ LocalInv(u, c) /\ LocalInv(t, d)
    BY <1>2 DEF IndInv
  <2>2. /\ pc'[u] = IF u = t THEN IF Owns(t, c) THEN "finalBoost"
                                  ELSE IF bRetry[t] THEN "waitConfig"
                            ELSE ReturnPC(t, c) ELSE pc[u]
        /\ depth'[u][d] = IF u = t /\ ~Owns(t, c) /\ ~bRetry[t]
                            /\ ReturnPC(t, c) = "exit" THEN 0 ELSE depth[u][d]
    BY <1>1, <1>2, <1>4 DEF Shapes, NothingHeld
  <2>3. depth[u][d] \in Nat /\ lockCount[d] \in Int
    BY <1>1 DEF Shapes
  <2> USE NoneIsNothing DEF LocalInv, EndAt, OwnerAt, CallAt, HandedAt, ListAt,
        Owns, MarkedBy, Ended, CallPCs, UserPCs, EnterPCs, LeavePCs, QueuedPCs,
        MarkPCs, ReturnPC, NothingHeld
  <2>4. EndAt(u, d)'
    BY <1>2, <1>3, <2>1, <2>2, <2>3
  <2>5. OwnerAt(u, d)'
    BY <1>2, <1>3, <2>1, <2>2, <2>3
  <2>6. CallAt(u, d)'
    BY <1>2, <1>3, <2>1, <2>2, <2>3
  <2>7. HandedAt(u, d)'
    BY <1>2, <1>3, <2>1, <2>2, <2>3
  <2>8. ListAt(u, d)'
    BY <1>2, <1>3, <2>1, <2>2, <2>3
  <2> QED
    BY <2>4, <2>5, <2>6, <2>7, <2>8
<1>6. QueueInv'
  <2> USE DEF QueueInv, IndInv, Shapes, QueuedPCs, UserPCs
  <2>1. ASSUME NEW d \in Crits
        PROVE  Distinct(proxies'[d])
    BY <1>3
  <2>2. ASSUME NEW d \in Crits, NEW u \in Threads, Queued(u, proxies'[d])
        PROVE  crit'[u] = d /\ pc'[u] \in QueuedPCs \cup {"fault"}
    <3>1. Queued(u, proxies[d])
      BY <1>3, <2>2
    <3>2. pc'[u] = IF u = t THEN IF Owns(t, c) THEN "finalBoost"
                                  ELSE IF bRetry[t] THEN "waitConfig"
                            ELSE ReturnPC(t, c) ELSE pc[u]
      BY <1>1, <1>2, <1>4
    <3> QED
      BY <1>1, <1>2, <1>3, <3>1, <3>2 DEF ReturnPC
  <2> QED
    BY <2>1, <2>2
<1> QED
  BY <1>5, <1>6

LEMMA CritFinalBoostInv ==
    ASSUME IndInv, NEW t \in Threads, CritFinalBoost(t)
    PROVE  QueueInv' /\ \A u \in Threads, d \in Crits : LocalInv(u, d)'
<1> DEFINE c == crit[t]
<1>1. Shapes
  BY ShapesHold
<1>2. c \in Crits
  BY <1>1 DEF CritFinalBoost, At, Runs, Shapes, CallPCs, UserPCs, EnterPCs, LeavePCs
<1>3. /\ pc[t] = "finalBoost" /\ t = cur /\ crit[t] = c
      /\ UNCHANGED <<owner, leaving, lockCount, needtrap, proxies, crit, pLastCrit,
                     life, cur>>
  BY DEF CritFinalBoost, Link, Goto, At, Runs, waitVars, lifeVars, schedVars
<1>4. /\ bListed' = IF proxies[c] # <<>> /\ Links(t, c)
                        THEN [bListed EXCEPT ![c] = 1] ELSE bListed
      /\ pc' = [pc EXCEPT ![t] = ReturnPC(t, c)]
      /\ depth' = [depth EXCEPT ![t] = IF ReturnPC(t, c) = "exit" THEN NothingHeld
                                                ELSE [@ EXCEPT ![c] = 1]]
      /\ owned' = IF proxies[c] # <<>> /\ Links(t, c)
                      THEN [owned EXCEPT ![t] = @ \cup {c}] ELSE owned
  BY DEF CritFinalBoost, Link, Goto, At, Runs, waitVars, lifeVars, schedVars
<1> HIDE DEF c
<1>5. ASSUME NEW u \in Threads, NEW d \in Crits
      PROVE  LocalInv(u, d)'
  <2>1. LocalInv(u, d) /\ LocalInv(t, c) /\ LocalInv(u, c) /\ LocalInv(t, d)
    BY <1>2 DEF IndInv
  <2>2. /\ bListed'[d] = IF proxies[c] # <<>> /\ Links(t, c) /\ d = c
                            THEN 1 ELSE bListed[d]
        /\ pc'[u] = IF u = t THEN ReturnPC(t, c) ELSE pc[u]
        /\ depth'[u][d] = IF u # t THEN depth[u][d] ELSE IF ReturnPC(t, c) = "exit" THEN 0
                           ELSE IF d = c THEN 1 ELSE depth[u][d]
        /\ d \in owned'[u] <=> d \in owned[u] \/ (proxies[c] # <<>> /\ Links(t, c)
                            /\ u = t /\ d = c)
    BY <1>1, <1>2, <1>4 DEF Shapes, NothingHeld
  <2>3. depth[u][d] \in Nat /\ lockCount[d] \in Int
    BY <1>1 DEF Shapes
  <2> USE NoneIsNothing DEF LocalInv, EndAt, OwnerAt, CallAt, HandedAt, ListAt,
        Owns, MarkedBy, Ended, CallPCs, UserPCs, EnterPCs, LeavePCs, QueuedPCs,
        MarkPCs, Links, Buried, ReturnPC, NothingHeld
  <2>4. EndAt(u, d)'
    BY <1>2, <1>3, <2>1, <2>2, <2>3
  <2>5. OwnerAt(u, d)'
    BY <1>2, <1>3, <2>1, <2>2, <2>3
  <2>6. CallAt(u, d)'
    BY <1>2, <1>3, <2>1, <2>2, <2>3
  <2>7. HandedAt(u, d)'
    BY <1>2, <1>3, <2>1, <2>2, <2>3
  <2>8. ListAt(u, d)'
    BY <1>2, <1>3, <2>1, <2>2, <2>3
  <2> QED
    BY <2>4, <2>5, <2>6, <2>7, <2>8
<1>6. QueueInv'
  <2> USE DEF QueueInv, IndInv, Shapes, QueuedPCs, UserPCs
  <2>1. ASSUME NEW d \in Crits
        PROVE  Distinct(proxies'[d])
    BY <1>3
  <2>2. ASSUME NEW d \in Crits, NEW u \in Threads, Queued(u, proxies'[d])
        PROVE  crit'[u] = d /\ pc'[u] \in QueuedPCs \cup {"fault"}
    <3>1. Queued(u, proxies[d])
      BY <1>3, <2>2
    <3>2. pc'[u] = IF u = t THEN ReturnPC(t, c) ELSE pc[u]
      BY <1>1, <1>2, <1>4
    <3> QED
      BY <1>1, <1>2, <1>3, <3>1, <3>2 DEF ReturnPC
  <2> QED
    BY <2>1, <2>2
<1> QED
  BY <1>5, <1>6

LEMMA PreLeaveCritInv ==
    ASSUME IndInv, NEW t \in Threads, PreLeaveCrit(t)
    PROVE  QueueInv' /\ \A u \in Threads, d \in Crits : LocalInv(u, d)'
<1> DEFINE c == crit[t]
<1>1. Shapes
  BY ShapesHold
<1>2. c \in Crits
  BY <1>1 DEF PreLeaveCrit, At, Runs, Shapes, CallPCs, UserPCs, EnterPCs, LeavePCs
<1>3. /\ pc[t] = "preLeave" /\ t = cur /\ crit[t] = c
      /\ UNCHANGED <<owner, lockCount, needtrap, proxies, crit, pLastCrit, life, cur>>
  BY DEF PreLeaveCrit, Unlink, Goto, At, Runs, waitVars, lifeVars, schedVars
<1>4. /\ leaving' = IF MarkedBy(t, c) THEN [leaving EXCEPT ![c] = FALSE] ELSE leaving
      /\ bListed' = IF MarkedBy(t, c) THEN [bListed EXCEPT ![c] = 2] ELSE bListed
      /\ pc' = [pc EXCEPT ![t] = IF MarkedBy(t, c) THEN "leave" ELSE ReturnPC(t, c)]
      /\ depth' = IF ~MarkedBy(t, c) /\ ReturnPC(t, c) = "exit"
                     THEN [depth EXCEPT ![t] = NothingHeld] ELSE depth
      /\ owned' = IF MarkedBy(t, c) /\ bListed[c] = 1
                     THEN [owned EXCEPT ![t] = @ \ {c}] ELSE owned
  BY DEF PreLeaveCrit, Unlink, Goto, At, Runs, waitVars, lifeVars, schedVars
<1> HIDE DEF c
<1>5. ASSUME NEW u \in Threads, NEW d \in Crits
      PROVE  LocalInv(u, d)'
  <2>1. LocalInv(u, d) /\ LocalInv(t, c) /\ LocalInv(u, c) /\ LocalInv(t, d)
    BY <1>2 DEF IndInv
  <2>2. /\ leaving'[d] = IF MarkedBy(t, c) /\ d = c THEN FALSE ELSE leaving[d]
        /\ bListed'[d] = IF MarkedBy(t, c) /\ d = c THEN 2 ELSE bListed[d]
        /\ pc'[u] = IF u = t THEN IF MarkedBy(t, c)
                        THEN "leave" ELSE ReturnPC(t, c) ELSE pc[u]
        /\ depth'[u][d] = IF u = t /\ ~MarkedBy(t, c) /\ ReturnPC(t, c) = "exit"
                            THEN 0 ELSE depth[u][d]
        /\ d \in owned'[u] <=> d \in owned[u] /\ ~(MarkedBy(t, c) /\ bListed[c] = 1
                            /\ u = t /\ d = c)
    BY <1>1, <1>2, <1>4 DEF Shapes, NothingHeld
  <2>3. depth[u][d] \in Nat /\ lockCount[d] \in Int
    BY <1>1 DEF Shapes
  <2> USE NoneIsNothing DEF LocalInv, EndAt, OwnerAt, CallAt, HandedAt, ListAt,
        Owns, MarkedBy, Ended, CallPCs, UserPCs, EnterPCs, LeavePCs, QueuedPCs,
        MarkPCs, ReturnPC, NothingHeld
  <2>4. EndAt(u, d)'
    BY <1>2, <1>3, <2>1, <2>2, <2>3
  <2>5. OwnerAt(u, d)'
    BY <1>2, <1>3, <2>1, <2>2, <2>3
  <2>6. CallAt(u, d)'
    BY <1>2, <1>3, <2>1, <2>2, <2>3
  <2>7. HandedAt(u, d)'
    BY <1>2, <1>3, <2>1, <2>2, <2>3
  <2>8. ListAt(u, d)'
    BY <1>2, <1>3, <2>1, <2>2, <2>3
  <2> QED
    BY <2>4, <2>5, <2>6, <2>7, <2>8
<1>6. QueueInv'
  <2> USE DEF QueueInv, IndInv, Shapes, QueuedPCs, UserPCs
  <2>1. ASSUME NEW d \in Crits
        PROVE  Distinct(proxies'[d])
    BY <1>3
  <2>2. ASSUME NEW d \in Crits, NEW u \in Threads, Queued(u, proxies'[d])
        PROVE  crit'[u] = d /\ pc'[u] \in QueuedPCs \cup {"fault"}
    <3>1. Queued(u, proxies[d])
      BY <1>3, <2>2
    <3>2. pc'[u] = IF u = t THEN IF MarkedBy(t, c)
                       THEN "leave" ELSE ReturnPC(t, c) ELSE pc[u]
      BY <1>1, <1>2, <1>4
    <3> QED
      BY <1>1, <1>2, <1>3, <3>1, <3>2 DEF ReturnPC
  <2> QED
    BY <2>1, <2>2
<1> QED
  BY <1>5, <1>6

LEMMA LeaveCritFreeInv ==
    ASSUME IndInv, NEW t \in Threads, LeaveCritFree(t)
    PROVE  QueueInv' /\ \A u \in Threads, d \in Crits : LocalInv(u, d)'
<1> DEFINE c == crit[t]
<1>1. Shapes
  BY ShapesHold
<1>2. c \in Crits
  BY <1>1 DEF LeaveCritFree, At, Runs, Shapes, CallPCs, UserPCs, EnterPCs, LeavePCs
<1>3. /\ pc[t] = "leave" /\ t = cur /\ crit[t] = c
      /\ UNCHANGED <<leaving, lockCount, proxies, crit, depth, pLastCrit, owned, life,
                     cur>>
  BY DEF LeaveCritFree, Goto, At, Runs, prioVars, waitVars, lifeVars, schedVars
<1>4. /\ owner' = [owner EXCEPT ![c] = None]
      /\ needtrap' = [needtrap EXCEPT ![c] = FALSE]
      /\ bListed' = [bListed EXCEPT ![c] = 0]
      /\ pc' = [pc EXCEPT ![t] = "postUnlink"]
  BY DEF LeaveCritFree, Goto, At, Runs, prioVars, waitVars, lifeVars, schedVars
<1> HIDE DEF c
<1>5. ASSUME NEW u \in Threads, NEW d \in Crits
      PROVE  LocalInv(u, d)'
  <2>1. LocalInv(u, d) /\ LocalInv(t, c) /\ LocalInv(u, c) /\ LocalInv(t, d)
    BY <1>2 DEF IndInv
  <2>2. /\ owner'[d] = IF d = c THEN None ELSE owner[d]
        /\ needtrap'[d] = IF d = c THEN FALSE ELSE needtrap[d]
        /\ bListed'[d] = IF d = c THEN 0 ELSE bListed[d]
        /\ pc'[u] = IF u = t THEN "postUnlink" ELSE pc[u]
    BY <1>1, <1>2, <1>4 DEF Shapes
  <2>3. depth[u][d] \in Nat /\ lockCount[d] \in Int
    BY <1>1 DEF Shapes
  <2> USE NoneIsNothing DEF LocalInv, EndAt, OwnerAt, CallAt, HandedAt, ListAt,
        Owns, MarkedBy, Ended, CallPCs, UserPCs, EnterPCs, LeavePCs, QueuedPCs,
        MarkPCs
  <2>4. EndAt(u, d)'
    BY <1>2, <1>3, <2>1, <2>2, <2>3
  <2>5. OwnerAt(u, d)'
    BY <1>2, <1>3, <2>1, <2>2, <2>3
  <2>6. CallAt(u, d)'
    BY <1>2, <1>3, <2>1, <2>2, <2>3
  <2>7. HandedAt(u, d)'
    BY <1>2, <1>3, <2>1, <2>2, <2>3
  <2>8. ListAt(u, d)'
    BY <1>2, <1>3, <2>1, <2>2, <2>3
  <2> QED
    BY <2>4, <2>5, <2>6, <2>7, <2>8
<1>6. QueueInv'
  <2> USE DEF QueueInv, IndInv, Shapes, QueuedPCs, UserPCs
  <2>1. ASSUME NEW d \in Crits
        PROVE  Distinct(proxies'[d])
    BY <1>3
  <2>2. ASSUME NEW d \in Crits, NEW u \in Threads, Queued(u, proxies'[d])
        PROVE  crit'[u] = d /\ pc'[u] \in QueuedPCs \cup {"fault"}
    <3>1. Queued(u, proxies[d])
      BY <1>3, <2>2
    <3>2. pc'[u] = IF u = t THEN "postUnlink" ELSE pc[u]
      BY <1>1, <1>2, <1>4
    <3> QED
      BY <1>1, <1>2, <1>3, <3>1, <3>2
  <2> QED
    BY <2>1, <2>2
<1> QED
  BY <1>5, <1>6

LEMMA LeaveCritStaleInv ==
    ASSUME IndInv, NEW t \in Threads, LeaveCritStale(t)
    PROVE  QueueInv' /\ \A u \in Threads, d \in Crits : LocalInv(u, d)'
<1> DEFINE c == crit[t]
<1>1. Shapes
  BY ShapesHold
<1>2. c \in Crits
  BY <1>1 DEF LeaveCritStale, At, Runs, Shapes, CallPCs, UserPCs, EnterPCs, LeavePCs
<1>3. /\ pc[t] = "leave" /\ proxies[c] # <<>> /\ t = cur /\ crit[t] = c
      /\ UNCHANGED <<owner, leaving, lockCount, needtrap, bListed, pc, crit, depth,
                     pLastCrit, owned, life, cur>>
  BY DEF LeaveCritStale, At, Runs, prioVars, waitVars, progVars, lifeVars, schedVars
<1>4. proxies' = [proxies EXCEPT ![c] = Tail(@)]
  BY DEF LeaveCritStale, At, Runs, prioVars, waitVars, progVars, lifeVars, schedVars
<1> HIDE DEF c
<1>5. ASSUME NEW u \in Threads, NEW d \in Crits
      PROVE  LocalInv(u, d)'
  <2>1. LocalInv(u, d) /\ LocalInv(t, c) /\ LocalInv(u, c) /\ LocalInv(t, d)
    BY <1>2 DEF IndInv
  <2>2. depth[u][d] \in Nat /\ lockCount[d] \in Int
    BY <1>1 DEF Shapes
  <2> USE NoneIsNothing DEF LocalInv, EndAt, OwnerAt, CallAt, HandedAt, ListAt,
        Owns, MarkedBy, Ended, CallPCs, UserPCs, EnterPCs, LeavePCs, QueuedPCs,
        MarkPCs
  <2>3. EndAt(u, d)'
    BY <1>2, <1>3, <2>1, <2>2
  <2>4. OwnerAt(u, d)'
    BY <1>2, <1>3, <2>1, <2>2
  <2>5. CallAt(u, d)'
    BY <1>2, <1>3, <2>1, <2>2
  <2>6. HandedAt(u, d)'
    BY <1>2, <1>3, <2>1, <2>2
  <2>7. ListAt(u, d)'
    BY <1>2, <1>3, <2>1, <2>2
  <2> QED
    BY <2>3, <2>4, <2>5, <2>6, <2>7
<1>6. QueueInv'
  <2> USE DEF QueueInv, IndInv, Shapes, QueuedPCs, UserPCs
  <2>1. Distinct(proxies[c]) /\ proxies[c] \in Seq(Threads)
    BY <1>1, <1>2, <1>3
  <2>2. ASSUME NEW d \in Crits
        PROVE  Distinct(proxies'[d])
    BY <1>1, <1>2, <1>3, <1>4, <2>1, TailKeeps
  <2>3. ASSUME NEW d \in Crits, NEW u \in Threads, Queued(u, proxies'[d])
        PROVE  crit'[u] = d /\ pc'[u] \in QueuedPCs \cup {"fault"}
    <3>1. Queued(u, proxies[d]) /\ (d = c => u # Head(proxies[c]))
      BY <1>1, <1>2, <1>3, <1>4, <2>1, <2>3, TailKeeps
    <3> QED
      BY <1>1, <1>2, <1>3, <3>1
  <2> QED
    BY <2>2, <2>3
<1> QED
  BY <1>5, <1>6

LEMMA LeaveCritHandOverInv ==
    ASSUME IndInv, NEW t \in Threads, LeaveCritHandOver(t)
    PROVE  QueueInv' /\ \A u \in Threads, d \in Crits : LocalInv(u, d)'
<1> DEFINE c == crit[t]
<1>1. Shapes
  BY ShapesHold
<1>2. c \in Crits
  BY <1>1 DEF LeaveCritHandOver, At, Runs, Shapes, CallPCs, UserPCs, EnterPCs, LeavePCs
<1>3. /\ pc[t] = "leave" /\ proxies[c] # <<>> /\ NoFault /\ t = cur /\ crit[t] = c
      /\ UNCHANGED <<leaving, crit, depth, owned, life, cur>>
  BY DEF LeaveCritHandOver, Goto, At, Runs, prioVars, lifeVars
<1>4. /\ owner' = [owner EXCEPT ![c] = Head(proxies[c])]
      /\ lockCount' = [lockCount EXCEPT ![c] = 1]
      /\ needtrap' = [needtrap EXCEPT ![c] = @ /\ Tail(proxies[c]) # <<>>]
      /\ proxies' = [proxies EXCEPT ![c] = Tail(@)]
      /\ bListed' = [bListed EXCEPT ![c] = 0]
      /\ pc' \in {[pc EXCEPT ![t] = "wake"], [pc EXCEPT ![t] = "postUnlink"]}
      /\ pLastCrit' = [pLastCrit EXCEPT ![Head(proxies[c])] = c]
  BY DEF LeaveCritHandOver, Goto, At, Runs, prioVars, lifeVars
<1> HIDE DEF c
<1>5. ASSUME NEW u \in Threads, NEW d \in Crits
      PROVE  LocalInv(u, d)'
  <2>1. LocalInv(u, d) /\ LocalInv(t, c) /\ LocalInv(u, c) /\ LocalInv(t, d)
    BY <1>2 DEF IndInv
  <2>2. /\ Head(proxies[c]) \in Threads /\ crit[Head(proxies[c])] = c
        /\ pc[Head(proxies[c])] \in QueuedPCs
    <3>1. proxies[c] \in Seq(Threads) /\ proxies[c] # <<>>
      BY <1>1, <1>2, <1>3 DEF Shapes
    <3>2. Head(proxies[c]) \in Threads /\ Head(proxies[c]) = proxies[c][1]
          /\ 1 \in DOMAIN proxies[c]
      BY <3>1, HeadTailProperties, LenProperties, EmptySeq
    <3>3. Queued(Head(proxies[c]), proxies[c])
      BY <3>2 DEF Queued
    <3> QED
      BY <1>2, <1>3, <3>2, <3>3 DEF IndInv, QueueInv, NoFault
  <2>3. /\ owner'[d] = IF d = c THEN Head(proxies[c]) ELSE owner[d]
        /\ lockCount'[d] = IF d = c THEN 1 ELSE lockCount[d]
        /\ needtrap'[d] = IF d = c THEN needtrap[c] /\ Tail(proxies[c]) # <<>>
                            ELSE needtrap[d]
        /\ bListed'[d] = IF d = c THEN 0 ELSE bListed[d]
        /\ IF u = t THEN pc'[u] \in {"wake", "postUnlink"} ELSE pc'[u] = pc[u]
        /\ pLastCrit'[u] = IF u = Head(proxies[c]) THEN c ELSE pLastCrit[u]
    BY <1>1, <1>2, <1>4, <2>2 DEF Shapes
  <2>4. depth[u][d] \in Nat /\ lockCount[d] \in Int
    BY <1>1 DEF Shapes
  <2> USE NoneIsNothing DEF LocalInv, EndAt, OwnerAt, CallAt, HandedAt, ListAt,
        Owns, MarkedBy, Ended, CallPCs, UserPCs, EnterPCs, LeavePCs, QueuedPCs,
        MarkPCs
  <2>5. EndAt(u, d)'
    BY <1>2, <1>3, <2>1, <2>2, <2>3, <2>4
  <2>6. OwnerAt(u, d)'
    BY <1>2, <1>3, <2>1, <2>2, <2>3, <2>4
  <2>7. CallAt(u, d)'
    <3>1. CASE d = c /\ u = Head(proxies[c])
      BY SMTT(90), <1>2, <1>3, <2>1, <2>2, <2>3, <2>4, <3>1
    <3>2. CASE d = c /\ u # Head(proxies[c])
      BY <1>2, <1>3, <2>1, <2>2, <2>3, <2>4, <3>2
    <3>3. CASE d # c
      BY <1>2, <1>3, <2>1, <2>2, <2>3, <2>4, <3>3
    <3> QED
      BY <3>1, <3>2, <3>3
  <2>8. HandedAt(u, d)'
    BY <1>2, <1>3, <2>1, <2>2, <2>3, <2>4
  <2>9. ListAt(u, d)'
    BY <1>2, <1>3, <2>1, <2>2, <2>3, <2>4
  <2> QED
    BY <2>5, <2>6, <2>7, <2>8, <2>9
<1>6. QueueInv'
  <2> USE DEF QueueInv, IndInv, Shapes, QueuedPCs, UserPCs
  <2>1. Distinct(proxies[c]) /\ proxies[c] \in Seq(Threads)
    BY <1>1, <1>2, <1>3
  <2>2. ASSUME NEW d \in Crits
        PROVE  Distinct(proxies'[d])
    BY <1>1, <1>2, <1>3, <1>4, <2>1, TailKeeps
  <2>3. ASSUME NEW d \in Crits, NEW u \in Threads, Queued(u, proxies'[d])
        PROVE  crit'[u] = d /\ pc'[u] \in QueuedPCs \cup {"fault"}
    <3>1. Queued(u, proxies[d]) /\ (d = c => u # Head(proxies[c]))
      BY <1>1, <1>2, <1>3, <1>4, <2>1, <2>3, TailKeeps
    <3>2. IF u = t THEN pc'[u] \in {"wake", "postUnlink"} ELSE pc'[u] = pc[u]
      BY <1>1, <1>2, <1>4
    <3> QED
      BY <1>1, <1>2, <1>3, <3>1, <3>2
  <2> QED
    BY <2>2, <2>3
<1> QED
  BY <1>5, <1>6

LEMMA WakeNewOwnerInv ==
    ASSUME IndInv, NEW t \in Threads, WakeNewOwner(t)
    PROVE  QueueInv' /\ \A u \in Threads, d \in Crits : LocalInv(u, d)'
<1> DEFINE c == crit[t]
<1>1. Shapes
  BY ShapesHold
<1>2. c \in Crits
  BY <1>1 DEF WakeNewOwner, At, Runs, Shapes, CallPCs, UserPCs, EnterPCs, LeavePCs
<1>3. /\ pc[t] = "wake" /\ t = cur /\ crit[t] = c
      /\ UNCHANGED <<owner, leaving, lockCount, needtrap, proxies, bListed, crit, depth,
                     pLastCrit, owned, life, cur>>
  BY DEF WakeNewOwner, Goto, At, Runs, csVars, prioVars, waitVars, lifeVars
<1>4. pc' = [pc EXCEPT ![t] = "postUnlink"]
  BY DEF WakeNewOwner, Goto, At, Runs, csVars, prioVars, waitVars, lifeVars
<1> HIDE DEF c
<1>5. ASSUME NEW u \in Threads, NEW d \in Crits
      PROVE  LocalInv(u, d)'
  <2>1. LocalInv(u, d) /\ LocalInv(t, c) /\ LocalInv(u, c) /\ LocalInv(t, d)
    BY <1>2 DEF IndInv
  <2>2. /\ pc'[u] = IF u = t THEN "postUnlink" ELSE pc[u]
    BY <1>1, <1>2, <1>4 DEF Shapes
  <2>3. depth[u][d] \in Nat /\ lockCount[d] \in Int
    BY <1>1 DEF Shapes
  <2> USE NoneIsNothing DEF LocalInv, EndAt, OwnerAt, CallAt, HandedAt, ListAt,
        Owns, MarkedBy, Ended, CallPCs, UserPCs, EnterPCs, LeavePCs, QueuedPCs,
        MarkPCs
  <2>4. EndAt(u, d)'
    BY <1>2, <1>3, <2>1, <2>2, <2>3
  <2>5. OwnerAt(u, d)'
    BY <1>2, <1>3, <2>1, <2>2, <2>3
  <2>6. CallAt(u, d)'
    BY <1>2, <1>3, <2>1, <2>2, <2>3
  <2>7. HandedAt(u, d)'
    BY <1>2, <1>3, <2>1, <2>2, <2>3
  <2>8. ListAt(u, d)'
    BY <1>2, <1>3, <2>1, <2>2, <2>3
  <2> QED
    BY <2>4, <2>5, <2>6, <2>7, <2>8
<1>6. QueueInv'
  <2> USE DEF QueueInv, IndInv, Shapes, QueuedPCs, UserPCs
  <2>1. ASSUME NEW d \in Crits
        PROVE  Distinct(proxies'[d])
    BY <1>3
  <2>2. ASSUME NEW d \in Crits, NEW u \in Threads, Queued(u, proxies'[d])
        PROVE  crit'[u] = d /\ pc'[u] \in QueuedPCs \cup {"fault"}
    <3>1. Queued(u, proxies[d])
      BY <1>3, <2>2
    <3>2. pc'[u] = IF u = t THEN "postUnlink" ELSE pc[u]
      BY <1>1, <1>2, <1>4
    <3> QED
      BY <1>1, <1>2, <1>3, <3>1, <3>2
  <2> QED
    BY <2>1, <2>2
<1> QED
  BY <1>5, <1>6

LEMMA PostUnlinkCritMutInv ==
    ASSUME IndInv, NEW t \in Threads, PostUnlinkCritMut(t)
    PROVE  QueueInv' /\ \A u \in Threads, d \in Crits : LocalInv(u, d)'
<1> DEFINE c == crit[t]
<1>1. Shapes
  BY ShapesHold
<1>2. c \in Crits
  BY <1>1 DEF PostUnlinkCritMut, At, Runs, Shapes, CallPCs, UserPCs, EnterPCs, LeavePCs
<1>3. /\ pc[t] = "postUnlink" /\ t = cur /\ crit[t] = c
      /\ UNCHANGED <<owner, leaving, lockCount, needtrap, proxies, bListed, crit,
                     pLastCrit, owned, life, cur>>
  BY DEF PostUnlinkCritMut, Goto, At, Runs, csVars, waitVars, lifeVars
<1>4. /\ pc' = [pc EXCEPT ![t] = ReturnPC(t, c)]
      /\ depth' = IF ReturnPC(t, c) = "exit"
                      THEN [depth EXCEPT ![t] = NothingHeld] ELSE depth
  BY DEF PostUnlinkCritMut, Goto, At, Runs, csVars, waitVars, lifeVars
<1> HIDE DEF c
<1>5. ASSUME NEW u \in Threads, NEW d \in Crits
      PROVE  LocalInv(u, d)'
  <2>1. LocalInv(u, d) /\ LocalInv(t, c) /\ LocalInv(u, c) /\ LocalInv(t, d)
    BY <1>2 DEF IndInv
  <2>2. /\ pc'[u] = IF u = t THEN ReturnPC(t, c) ELSE pc[u]
        /\ depth'[u][d] = IF u = t /\ ReturnPC(t, c) = "exit" THEN 0 ELSE depth[u][d]
    BY <1>1, <1>2, <1>4 DEF Shapes, NothingHeld
  <2>3. depth[u][d] \in Nat /\ lockCount[d] \in Int
    BY <1>1 DEF Shapes
  <2> USE NoneIsNothing DEF LocalInv, EndAt, OwnerAt, CallAt, HandedAt, ListAt,
        Owns, MarkedBy, Ended, CallPCs, UserPCs, EnterPCs, LeavePCs, QueuedPCs,
        MarkPCs, ReturnPC, NothingHeld
  <2>4. EndAt(u, d)'
    BY <1>2, <1>3, <2>1, <2>2, <2>3
  <2>5. OwnerAt(u, d)'
    BY <1>2, <1>3, <2>1, <2>2, <2>3
  <2>6. CallAt(u, d)'
    BY <1>2, <1>3, <2>1, <2>2, <2>3
  <2>7. HandedAt(u, d)'
    BY <1>2, <1>3, <2>1, <2>2, <2>3
  <2>8. ListAt(u, d)'
    BY <1>2, <1>3, <2>1, <2>2, <2>3
  <2> QED
    BY <2>4, <2>5, <2>6, <2>7, <2>8
<1>6. QueueInv'
  <2> USE DEF QueueInv, IndInv, Shapes, QueuedPCs, UserPCs
  <2>1. ASSUME NEW d \in Crits
        PROVE  Distinct(proxies'[d])
    BY <1>3
  <2>2. ASSUME NEW d \in Crits, NEW u \in Threads, Queued(u, proxies'[d])
        PROVE  crit'[u] = d /\ pc'[u] \in QueuedPCs \cup {"fault"}
    <3>1. Queued(u, proxies[d])
      BY <1>3, <2>2
    <3>2. pc'[u] = IF u = t THEN ReturnPC(t, c) ELSE pc[u]
      BY <1>1, <1>2, <1>4
    <3> QED
      BY <1>1, <1>2, <1>3, <3>1, <3>2 DEF ReturnPC
  <2> QED
    BY <2>1, <2>2
<1> QED
  BY <1>5, <1>6

LEMMA ReleaseOwnedInv ==
    ASSUME IndInv, NEW t \in Threads, NEW c \in Crits, ReleaseOwned(t, c)
    PROVE  QueueInv' /\ \A u \in Threads, d \in Crits : LocalInv(u, d)'
<1>1. Shapes
  BY ShapesHold
<1>2. /\ pc[t] = "exit" /\ c \in owned[t] /\ t = cur
      /\ UNCHANGED <<owner, needtrap, proxies, bListed, depth, pLastCrit, owned, cur>>
  BY DEF ReleaseOwned, At, Runs, Goto, prioVars, waitVars, schedVars
<1>3. /\ leaving' = [leaving EXCEPT ![c] = TRUE]
      /\ lockCount' = [lockCount EXCEPT ![c] = 1]
      /\ pc' = [pc EXCEPT ![t] = "preLeave"]
      /\ crit' = [crit EXCEPT ![t] = c]
      /\ life' = [life EXCEPT ![t] = "dead"]
  BY DEF ReleaseOwned, At, Runs, Goto, prioVars, waitVars, schedVars
<1>4. ASSUME NEW u \in Threads, NEW d \in Crits
      PROVE  LocalInv(u, d)'
  <2>1. LocalInv(u, d) /\ LocalInv(t, c) /\ LocalInv(u, c) /\ LocalInv(t, d)
    BY DEF IndInv
  <2>2. /\ leaving'[d] = IF d = c THEN TRUE ELSE leaving[d]
        /\ lockCount'[d] = IF d = c THEN 1 ELSE lockCount[d]
        /\ pc'[u] = IF u = t THEN "preLeave" ELSE pc[u]
        /\ crit'[u] = IF u = t THEN c ELSE crit[u]
        /\ life'[u] = IF u = t THEN "dead" ELSE life[u]
    BY <1>1, <1>3 DEF Shapes
  <2>3. depth[u][d] \in Nat /\ lockCount[d] \in Int
    BY <1>1 DEF Shapes
  <2> USE NoneIsNothing DEF LocalInv, EndAt, OwnerAt, CallAt, HandedAt, ListAt,
        Owns, MarkedBy, Ended, CallPCs, UserPCs, EnterPCs, LeavePCs, QueuedPCs,
        MarkPCs
  <2>4. EndAt(u, d)'
    BY <1>2, <2>1, <2>2, <2>3
  <2>5. OwnerAt(u, d)'
    BY <1>2, <2>1, <2>2, <2>3
  <2>6. CallAt(u, d)'
    BY <1>2, <2>1, <2>2, <2>3
  <2>7. HandedAt(u, d)'
    BY <1>2, <2>1, <2>2, <2>3
  <2>8. ListAt(u, d)'
    BY <1>2, <2>1, <2>2, <2>3
  <2> QED
    BY <2>4, <2>5, <2>6, <2>7, <2>8
<1>5. QueueInv'
  <2> USE DEF QueueInv, IndInv, Shapes, QueuedPCs, UserPCs
  <2>1. ASSUME NEW d \in Crits
        PROVE  Distinct(proxies'[d])
    BY <1>2
  <2>2. ASSUME NEW d \in Crits, NEW u \in Threads, Queued(u, proxies'[d])
        PROVE  crit'[u] = d /\ pc'[u] \in QueuedPCs \cup {"fault"}
    <3>1. Queued(u, proxies[d])
      BY <1>2, <2>2
    <3>2. /\ pc'[u] = IF u = t THEN "preLeave" ELSE pc[u]
          /\ crit'[u] = IF u = t THEN c ELSE crit[u]
      BY <1>1, <1>3
    <3> QED
      BY <1>1, <1>2, <3>1, <3>2
  <2> QED
    BY <2>1, <2>2
<1> QED
  BY <1>4, <1>5

LEMMA BuryInv ==
    ASSUME IndInv, NEW t \in Threads, Bury(t)
    PROVE  QueueInv' /\ \A u \in Threads, d \in Crits : LocalInv(u, d)'
<1>1. Shapes
  BY ShapesHold
<1>2. /\ pc[t] = "exit" /\ owned[t] = {}
      /\ UNCHANGED <<owner, leaving, lockCount, needtrap, proxies, bListed, crit, depth,
                     pLastCrit, owned, cur>>
  BY DEF Bury, At, Runs, Goto, csVars, prioVars, waitVars, schedVars
<1>3. /\ pc' = [pc EXCEPT ![t] = "final"]
      /\ life' = [life EXCEPT ![t] = "buried"]
  BY DEF Bury, At, Runs, Goto, csVars, prioVars, waitVars, schedVars
<1>4. ASSUME NEW u \in Threads, NEW d \in Crits
      PROVE  LocalInv(u, d)'
  <2>1. LocalInv(u, d) /\ LocalInv(t, d)
    BY DEF IndInv
  <2>2. /\ pc'[u] = IF u = t THEN "final" ELSE pc[u]
        /\ life'[u] = IF u = t THEN "buried" ELSE life[u]
    BY <1>1, <1>3 DEF Shapes
  <2>3. depth[u][d] \in Nat /\ lockCount[d] \in Int
    BY <1>1 DEF Shapes
  <2> USE NoneIsNothing DEF LocalInv, EndAt, OwnerAt, CallAt, HandedAt, ListAt,
        Owns, MarkedBy, Ended, CallPCs, UserPCs, EnterPCs, LeavePCs, QueuedPCs,
        MarkPCs
  <2>4. EndAt(u, d)'
    BY <1>2, <2>1, <2>2, <2>3
  <2>5. OwnerAt(u, d)'
    BY <1>2, <2>1, <2>2, <2>3
  <2>6. CallAt(u, d)'
    BY <1>2, <2>1, <2>2, <2>3
  <2>7. HandedAt(u, d)'
    BY <1>2, <2>1, <2>2, <2>3
  <2>8. ListAt(u, d)'
    BY <1>2, <2>1, <2>2, <2>3
  <2> QED
    BY <2>4, <2>5, <2>6, <2>7, <2>8
<1>5. QueueInv'
  <2> USE DEF QueueInv, IndInv, Shapes, QueuedPCs, UserPCs
  <2>1. ASSUME NEW d \in Crits
        PROVE  Distinct(proxies'[d])
    BY <1>2
  <2>2. ASSUME NEW d \in Crits, NEW u \in Threads, Queued(u, proxies'[d])
        PROVE  crit'[u] = d /\ pc'[u] \in QueuedPCs \cup {"fault"}
    <3>1. Queued(u, proxies[d])
      BY <1>2, <2>2
    <3>2. pc'[u] = IF u = t THEN "final" ELSE pc[u]
      BY <1>1, <1>3
    <3> QED
      BY <1>1, <1>2, <3>1, <3>2
  <2> QED
    BY <2>1, <2>2
<1> QED
  BY <1>4, <1>5

LEMMA FinalRemoveThreadInv ==
    ASSUME IndInv, NEW t \in Threads, FinalRemoveThread(t)
    PROVE  QueueInv' /\ \A u \in Threads, d \in Crits : LocalInv(u, d)'
<1>1. Shapes
  BY ShapesHold
<1>2. /\ pc[t] = "final" /\ t = cur
      /\ cur' = None
      /\ UNCHANGED <<owner, leaving, lockCount, needtrap, proxies, bListed, crit, depth,
                     pLastCrit, owned>>
  BY DEF FinalRemoveThread, At, Runs, Goto, csVars, prioVars, waitVars
<1>3. /\ pc' = [pc EXCEPT ![t] = "gone"]
      /\ life' = [life EXCEPT ![t] = "gone"]
  BY DEF FinalRemoveThread, At, Runs, Goto, csVars, prioVars, waitVars
<1>4. ASSUME NEW u \in Threads, NEW d \in Crits
      PROVE  LocalInv(u, d)'
  <2>1. LocalInv(u, d) /\ LocalInv(t, d)
    BY DEF IndInv
  <2>2. /\ pc'[u] = IF u = t THEN "gone" ELSE pc[u]
        /\ life'[u] = IF u = t THEN "gone" ELSE life[u]
    BY <1>1, <1>3 DEF Shapes
  <2>3. depth[u][d] \in Nat /\ lockCount[d] \in Int
    BY <1>1 DEF Shapes
  <2> USE NoneIsNothing DEF LocalInv, EndAt, OwnerAt, CallAt, HandedAt, ListAt,
        Owns, MarkedBy, Ended, CallPCs, UserPCs, EnterPCs, LeavePCs, QueuedPCs,
        MarkPCs
  <2>4. EndAt(u, d)'
    BY <1>2, <2>1, <2>2, <2>3
  <2>5. OwnerAt(u, d)'
    BY <1>2, <2>1, <2>2, <2>3
  <2>6. CallAt(u, d)'
    BY <1>2, <2>1, <2>2, <2>3
  <2>7. HandedAt(u, d)'
    BY <1>2, <2>1, <2>2, <2>3
  <2>8. ListAt(u, d)'
    BY <1>2, <2>1, <2>2, <2>3
  <2> QED
    BY <2>4, <2>5, <2>6, <2>7, <2>8
<1>5. QueueInv'
  <2> USE DEF QueueInv, IndInv, Shapes, QueuedPCs, UserPCs
  <2>1. ASSUME NEW d \in Crits
        PROVE  Distinct(proxies'[d])
    BY <1>2
  <2>2. ASSUME NEW d \in Crits, NEW u \in Threads, Queued(u, proxies'[d])
        PROVE  crit'[u] = d /\ pc'[u] \in QueuedPCs \cup {"fault"}
    <3>1. Queued(u, proxies[d])
      BY <1>2, <2>2
    <3>2. pc'[u] = IF u = t THEN "gone" ELSE pc[u]
      BY <1>1, <1>3
    <3> QED
      BY <1>1, <1>2, <3>1, <3>2
  <2> QED
    BY <2>1, <2>2
<1> QED
  BY <1>4, <1>5

LEMMA SuspendSelfInv ==
    ASSUME IndInv, NEW t \in Threads, SuspendSelf(t)
    PROVE  QueueInv' /\ \A u \in Threads, d \in Crits : LocalInv(u, d)'
<1>1. Shapes
  BY ShapesHold
<1>2. /\ pc[t] = "user"
      /\ cur' = None
      /\ UNCHANGED <<owner, leaving, lockCount, needtrap, proxies, bListed, crit, depth,
                     pLastCrit, owned, life>>
  BY DEF SuspendSelf, At, Runs, Goto, csVars, prioVars, waitVars, lifeVars
<1>3. pc' = [pc EXCEPT ![t] = "asleep"]
  BY DEF SuspendSelf, At, Runs, Goto, csVars, prioVars, waitVars, lifeVars
<1>4. ASSUME NEW u \in Threads, NEW d \in Crits
      PROVE  LocalInv(u, d)'
  <2>1. LocalInv(u, d) /\ LocalInv(t, d)
    BY DEF IndInv
  <2>2. /\ pc'[u] = IF u = t THEN "asleep" ELSE pc[u]
    BY <1>1, <1>3 DEF Shapes
  <2>3. depth[u][d] \in Nat /\ lockCount[d] \in Int
    BY <1>1 DEF Shapes
  <2> USE NoneIsNothing DEF LocalInv, EndAt, OwnerAt, CallAt, HandedAt, ListAt,
        Owns, MarkedBy, Ended, CallPCs, UserPCs, EnterPCs, LeavePCs, QueuedPCs,
        MarkPCs
  <2>4. EndAt(u, d)'
    BY <1>2, <2>1, <2>2, <2>3
  <2>5. OwnerAt(u, d)'
    BY <1>2, <2>1, <2>2, <2>3
  <2>6. CallAt(u, d)'
    BY <1>2, <2>1, <2>2, <2>3
  <2>7. HandedAt(u, d)'
    BY <1>2, <2>1, <2>2, <2>3
  <2>8. ListAt(u, d)'
    BY <1>2, <2>1, <2>2, <2>3
  <2> QED
    BY <2>4, <2>5, <2>6, <2>7, <2>8
<1>5. QueueInv'
  <2> USE DEF QueueInv, IndInv, Shapes, QueuedPCs, UserPCs
  <2>1. ASSUME NEW d \in Crits
        PROVE  Distinct(proxies'[d])
    BY <1>2
  <2>2. ASSUME NEW d \in Crits, NEW u \in Threads, Queued(u, proxies'[d])
        PROVE  crit'[u] = d /\ pc'[u] \in QueuedPCs \cup {"fault"}
    <3>1. Queued(u, proxies[d])
      BY <1>2, <2>2
    <3>2. pc'[u] = IF u = t THEN "asleep" ELSE pc[u]
      BY <1>1, <1>3
    <3> QED
      BY <1>1, <1>2, <3>1, <3>2
  <2> QED
    BY <2>1, <2>2
<1> QED
  BY <1>4, <1>5

LEMMA ThreadResumeInv ==
    ASSUME IndInv, NEW t \in Threads, ThreadResume(t)
    PROVE  QueueInv' /\ \A u \in Threads, d \in Crits : LocalInv(u, d)'
<1>1. Shapes
  BY ShapesHold
<1>2. /\ pc[t] = "asleep"
      /\ UNCHANGED <<owner, leaving, lockCount, needtrap, proxies, bListed, crit, depth,
                     pLastCrit, owned, life, cur>>
  BY DEF ThreadResume, Goto, csVars, prioVars, waitVars, lifeVars
<1>3. pc' = [pc EXCEPT ![t] = "user"]
  BY DEF ThreadResume, Goto, csVars, prioVars, waitVars, lifeVars
<1>4. ASSUME NEW u \in Threads, NEW d \in Crits
      PROVE  LocalInv(u, d)'
  <2>1. LocalInv(u, d) /\ LocalInv(t, d)
    BY DEF IndInv
  <2>2. /\ pc'[u] = IF u = t THEN "user" ELSE pc[u]
    BY <1>1, <1>3 DEF Shapes
  <2>3. depth[u][d] \in Nat /\ lockCount[d] \in Int
    BY <1>1 DEF Shapes
  <2> USE NoneIsNothing DEF LocalInv, EndAt, OwnerAt, CallAt, HandedAt, ListAt,
        Owns, MarkedBy, Ended, CallPCs, UserPCs, EnterPCs, LeavePCs, QueuedPCs,
        MarkPCs
  <2>4. EndAt(u, d)'
    BY <1>2, <2>1, <2>2, <2>3
  <2>5. OwnerAt(u, d)'
    BY <1>2, <2>1, <2>2, <2>3
  <2>6. CallAt(u, d)'
    BY <1>2, <2>1, <2>2, <2>3
  <2>7. HandedAt(u, d)'
    BY <1>2, <2>1, <2>2, <2>3
  <2>8. ListAt(u, d)'
    BY <1>2, <2>1, <2>2, <2>3
  <2> QED
    BY <2>4, <2>5, <2>6, <2>7, <2>8
<1>5. QueueInv'
  <2> USE DEF QueueInv, IndInv, Shapes, QueuedPCs, UserPCs
  <2>1. ASSUME NEW d \in Crits
        PROVE  Distinct(proxies'[d])
    BY <1>2
  <2>2. ASSUME NEW d \in Crits, NEW u \in Threads, Queued(u, proxies'[d])
        PROVE  crit'[u] = d /\ pc'[u] \in QueuedPCs \cup {"fault"}
    <3>1. Queued(u, proxies[d])
      BY <1>2, <2>2
    <3>2. pc'[u] = IF u = t THEN "user" ELSE pc[u]
      BY <1>1, <1>3
    <3> QED
      BY <1>1, <1>2, <3>1, <3>2
  <2> QED
    BY <2>1, <2>2
<1> QED
  BY <1>4, <1>5

LEMMA ExitThreadInv ==
    ASSUME IndInv, NEW t \in Threads, ExitThread(t)
    PROVE  QueueInv' /\ \A u \in Threads, d \in Crits : LocalInv(u, d)'
<1>1. Shapes
  BY ShapesHold
<1>2. /\ pc[t] = "user" /\ \A c \in Crits \ UserCS : depth[t][c] = 0
      /\ UNCHANGED <<owner, leaving, lockCount, needtrap, proxies, bListed, crit,
                     pLastCrit, owned, cur>>
  BY DEF ExitThread, InUserMode, At, Runs, Goto, csVars, prioVars, waitVars, schedVars
<1>3. /\ pc' = [pc EXCEPT ![t] = "exit"]
      /\ depth' = [depth EXCEPT ![t] = NothingHeld]
      /\ life' = [life EXCEPT ![t] = "dead"]
  BY DEF ExitThread, InUserMode, At, Runs, Goto, csVars, prioVars, waitVars, schedVars
<1>4. ASSUME NEW u \in Threads, NEW d \in Crits
      PROVE  LocalInv(u, d)'
  <2>1. LocalInv(u, d) /\ LocalInv(t, d)
    BY DEF IndInv
  <2>2. /\ pc'[u] = IF u = t THEN "exit" ELSE pc[u]
        /\ depth'[u][d] = IF u = t THEN 0 ELSE depth[u][d]
        /\ life'[u] = IF u = t THEN "dead" ELSE life[u]
    BY <1>1, <1>3 DEF Shapes, NothingHeld
  <2>3. depth[u][d] \in Nat /\ lockCount[d] \in Int
    BY <1>1 DEF Shapes
  <2> USE NoneIsNothing DEF LocalInv, EndAt, OwnerAt, CallAt, HandedAt, ListAt,
        Owns, MarkedBy, Ended, CallPCs, UserPCs, EnterPCs, LeavePCs, QueuedPCs,
        MarkPCs, NothingHeld
  <2>4. EndAt(u, d)'
    BY <1>2, <2>1, <2>2, <2>3
  <2>5. OwnerAt(u, d)'
    BY <1>2, <2>1, <2>2, <2>3
  <2>6. CallAt(u, d)'
    BY <1>2, <2>1, <2>2, <2>3
  <2>7. HandedAt(u, d)'
    BY <1>2, <2>1, <2>2, <2>3
  <2>8. ListAt(u, d)'
    BY <1>2, <2>1, <2>2, <2>3
  <2> QED
    BY <2>4, <2>5, <2>6, <2>7, <2>8
<1>5. QueueInv'
  <2> USE DEF QueueInv, IndInv, Shapes, QueuedPCs, UserPCs
  <2>1. ASSUME NEW d \in Crits
        PROVE  Distinct(proxies'[d])
    BY <1>2
  <2>2. ASSUME NEW d \in Crits, NEW u \in Threads, Queued(u, proxies'[d])
        PROVE  crit'[u] = d /\ pc'[u] \in QueuedPCs \cup {"fault"}
    <3>1. Queued(u, proxies[d])
      BY <1>2, <2>2
    <3>2. pc'[u] = IF u = t THEN "exit" ELSE pc[u]
      BY <1>1, <1>3
    <3> QED
      BY <1>1, <1>2, <3>1, <3>2
  <2> QED
    BY <2>1, <2>2
<1> QED
  BY <1>4, <1>5

LEMMA KillRunnableInv ==
    ASSUME IndInv, NEW t \in Threads, KillRunnable(t)
    PROVE  QueueInv' /\ \A u \in Threads, d \in Crits : LocalInv(u, d)'
<1>1. Shapes
  BY ShapesHold
<1>2. /\ pc[t] \in UserPCs /\ life[t] = "live"
        /\ (pc[t] = "user" \/ crit[t] \in UserCS)
                        /\ \A c \in Crits \ UserCS : depth[t][c] = 0
      /\ UNCHANGED <<owner, leaving, lockCount, needtrap, proxies, bListed, crit,
                     pLastCrit, owned, cur>>
  BY DEF KillRunnable, CanDie, DiesInUserCode, InUserMode, DieNow, Goto, csVars,
     prioVars, waitVars
<1>3. /\ pc' = [pc EXCEPT ![t] = "exit"]
      /\ depth' = [depth EXCEPT ![t] = NothingHeld]
      /\ life' = [life EXCEPT ![t] = "dying"]
  BY DEF KillRunnable, CanDie, DiesInUserCode, InUserMode, DieNow, Goto, csVars,
     prioVars, waitVars
<1>4. ASSUME NEW u \in Threads, NEW d \in Crits
      PROVE  LocalInv(u, d)'
  <2>1. LocalInv(u, d) /\ LocalInv(t, d)
    BY DEF IndInv
  <2>2. /\ pc'[u] = IF u = t THEN "exit" ELSE pc[u]
        /\ depth'[u][d] = IF u = t THEN 0 ELSE depth[u][d]
        /\ life'[u] = IF u = t THEN "dying" ELSE life[u]
    BY <1>1, <1>3 DEF Shapes, NothingHeld
  <2>3. depth[u][d] \in Nat /\ lockCount[d] \in Int
    BY <1>1 DEF Shapes
  <2> USE NoneIsNothing DEF LocalInv, EndAt, OwnerAt, CallAt, HandedAt, ListAt,
        Owns, MarkedBy, Ended, CallPCs, UserPCs, EnterPCs, LeavePCs, QueuedPCs,
        MarkPCs, NothingHeld
  <2>4. EndAt(u, d)'
    BY <1>2, <2>1, <2>2, <2>3
  <2>5. OwnerAt(u, d)'
    BY <1>2, <2>1, <2>2, <2>3
  <2>6. CallAt(u, d)'
    BY <1>2, <2>1, <2>2, <2>3
  <2>7. HandedAt(u, d)'
    BY <1>2, <2>1, <2>2, <2>3
  <2>8. ListAt(u, d)'
    BY <1>2, <2>1, <2>2, <2>3
  <2> QED
    BY <2>4, <2>5, <2>6, <2>7, <2>8
<1>5. QueueInv'
  <2> USE DEF QueueInv, IndInv, Shapes, QueuedPCs, UserPCs
  <2>1. ASSUME NEW d \in Crits
        PROVE  Distinct(proxies'[d])
    BY <1>2
  <2>2. ASSUME NEW d \in Crits, NEW u \in Threads, Queued(u, proxies'[d])
        PROVE  crit'[u] = d /\ pc'[u] \in QueuedPCs \cup {"fault"}
    <3>1. Queued(u, proxies[d])
      BY <1>2, <2>2
    <3>2. pc'[u] = IF u = t THEN "exit" ELSE pc[u]
      BY <1>1, <1>3
    <3> QED
      BY <1>1, <1>2, <3>1, <3>2
  <2> QED
    BY <2>1, <2>2
<1> QED
  BY <1>4, <1>5

LEMMA KillBlockedInv ==
    ASSUME IndInv, NEW t \in Threads, KillBlocked(t)
    PROVE  QueueInv' /\ \A u \in Threads, d \in Crits : LocalInv(u, d)'
<1>1. Shapes
  BY ShapesHold
<1>2. /\ life[t] = "live"
        /\ (pc[t] = "asleep" => \A c \in Crits \ UserCS : depth[t][c] = 0)
      /\ UNCHANGED <<owner, leaving, lockCount, needtrap, proxies, bListed, crit,
                     pLastCrit, owned, cur>>
  BY DEF KillBlocked, CanDie, DiesBlocked, InUserBlock, DieNow, EnterPCs, csVars,
     prioVars
<1>3. /\ pc' = [pc EXCEPT ![t] = IF @ = "asleep" THEN "exit" ELSE @]
      /\ depth' = [depth EXCEPT ![t] = IF pc[t] = "asleep" THEN NothingHeld ELSE @]
      /\ life' = [life EXCEPT ![t] = "dying"]
  BY DEF KillBlocked, CanDie, DiesBlocked, InUserBlock, DieNow, EnterPCs, csVars,
     prioVars
<1>4. ASSUME NEW u \in Threads, NEW d \in Crits
      PROVE  LocalInv(u, d)'
  <2>1. LocalInv(u, d) /\ LocalInv(t, d)
    BY DEF IndInv
  <2>2. /\ pc'[u] = IF u = t THEN IF pc[t] = "asleep" THEN "exit" ELSE pc[t] ELSE pc[u]
        /\ depth'[u][d] = IF u = t /\ pc[t] = "asleep" THEN 0 ELSE depth[u][d]
        /\ life'[u] = IF u = t THEN "dying" ELSE life[u]
    BY <1>1, <1>3 DEF Shapes, NothingHeld
  <2>3. depth[u][d] \in Nat /\ lockCount[d] \in Int
    BY <1>1 DEF Shapes
  <2> USE NoneIsNothing DEF LocalInv, EndAt, OwnerAt, CallAt, HandedAt, ListAt,
        Owns, MarkedBy, Ended, CallPCs, UserPCs, EnterPCs, LeavePCs, QueuedPCs,
        MarkPCs, NothingHeld
  <2>4. EndAt(u, d)'
    BY <1>2, <2>1, <2>2, <2>3
  <2>5. OwnerAt(u, d)'
    BY <1>2, <2>1, <2>2, <2>3
  <2>6. CallAt(u, d)'
    BY <1>2, <2>1, <2>2, <2>3
  <2>7. HandedAt(u, d)'
    BY <1>2, <2>1, <2>2, <2>3
  <2>8. ListAt(u, d)'
    BY <1>2, <2>1, <2>2, <2>3
  <2> QED
    BY <2>4, <2>5, <2>6, <2>7, <2>8
<1>5. QueueInv'
  <2> USE DEF QueueInv, IndInv, Shapes, QueuedPCs, UserPCs
  <2>1. ASSUME NEW d \in Crits
        PROVE  Distinct(proxies'[d])
    BY <1>2
  <2>2. ASSUME NEW d \in Crits, NEW u \in Threads, Queued(u, proxies'[d])
        PROVE  crit'[u] = d /\ pc'[u] \in QueuedPCs \cup {"fault"}
    <3>1. Queued(u, proxies[d])
      BY <1>2, <2>2
    <3>2. pc'[u] = IF u = t THEN IF pc[t] = "asleep" THEN "exit" ELSE pc[t] ELSE pc[u]
      BY <1>1, <1>3
    <3> QED
      BY <1>1, <1>2, <3>1, <3>2
  <2> QED
    BY <2>1, <2>2
<1> QED
  BY <1>4, <1>5

LEMMA KillLaterInv ==
    ASSUME IndInv, NEW t \in Threads, KillLater(t)
    PROVE  QueueInv' /\ \A u \in Threads, d \in Crits : LocalInv(u, d)'
<1>1. Shapes
  BY ShapesHold
<1>2. /\ life[t] = "live"
      /\ UNCHANGED <<owner, leaving, lockCount, needtrap, proxies, bListed, pc, crit,
                     depth, pLastCrit, owned, cur>>
  BY DEF KillLater, CanDie, csVars, prioVars, waitVars, progVars, schedVars
<1>3. life' = [life EXCEPT ![t] = "dying"]
  BY DEF KillLater, CanDie, csVars, prioVars, waitVars, progVars, schedVars
<1>4. ASSUME NEW u \in Threads, NEW d \in Crits
      PROVE  LocalInv(u, d)'
  <2>1. LocalInv(u, d) /\ LocalInv(t, d)
    BY DEF IndInv
  <2>2. /\ life'[u] = IF u = t THEN "dying" ELSE life[u]
    BY <1>1, <1>3 DEF Shapes
  <2>3. depth[u][d] \in Nat /\ lockCount[d] \in Int
    BY <1>1 DEF Shapes
  <2> USE NoneIsNothing DEF LocalInv, EndAt, OwnerAt, CallAt, HandedAt, ListAt,
        Owns, MarkedBy, Ended, CallPCs, UserPCs, EnterPCs, LeavePCs, QueuedPCs,
        MarkPCs
  <2>4. EndAt(u, d)'
    BY <1>2, <2>1, <2>2, <2>3
  <2>5. OwnerAt(u, d)'
    BY <1>2, <2>1, <2>2, <2>3
  <2>6. CallAt(u, d)'
    BY <1>2, <2>1, <2>2, <2>3
  <2>7. HandedAt(u, d)'
    BY <1>2, <2>1, <2>2, <2>3
  <2>8. ListAt(u, d)'
    BY <1>2, <2>1, <2>2, <2>3
  <2> QED
    BY <2>4, <2>5, <2>6, <2>7, <2>8
<1>5. QueueInv'
  BY <1>2 DEF QueueInv, IndInv
<1> QED
  BY <1>4, <1>5

LEMMA MakeKilledRunInv ==
    ASSUME IndInv, NEW t \in Threads, MakeKilledRun(t)
    PROVE  QueueInv' /\ \A u \in Threads, d \in Crits : LocalInv(u, d)'
<1>1. Shapes
  BY ShapesHold
<1>2. /\ TRUE
      /\ UNCHANGED <<owner, leaving, lockCount, needtrap, proxies, bListed, pc, crit,
                     depth, pLastCrit, owned, life, cur>>
  BY DEF MakeKilledRun, csVars, prioVars, waitVars, progVars
<1>3. ASSUME NEW u \in Threads, NEW d \in Crits
      PROVE  LocalInv(u, d)'
  <2>1. LocalInv(u, d) /\ LocalInv(t, d)
    BY DEF IndInv
  <2>2. depth[u][d] \in Nat /\ lockCount[d] \in Int
    BY <1>1 DEF Shapes
  <2> USE NoneIsNothing DEF LocalInv, EndAt, OwnerAt, CallAt, HandedAt, ListAt,
        Owns, MarkedBy, Ended, CallPCs, UserPCs, EnterPCs, LeavePCs, QueuedPCs,
        MarkPCs
  <2>3. EndAt(u, d)'
    BY <1>2, <2>1, <2>2
  <2>4. OwnerAt(u, d)'
    BY <1>2, <2>1, <2>2
  <2>5. CallAt(u, d)'
    BY <1>2, <2>1, <2>2
  <2>6. HandedAt(u, d)'
    BY <1>2, <2>1, <2>2
  <2>7. ListAt(u, d)'
    BY <1>2, <2>1, <2>2
  <2> QED
    BY <2>3, <2>4, <2>5, <2>6, <2>7
<1>4. QueueInv'
  BY <1>2 DEF QueueInv, IndInv
<1> QED
  BY <1>3, <1>4

----------------------------------------------------------------------------
(* The scheduler and the initial state *)

LEMMA InitInv == Init => IndInv
<1> SUFFICES ASSUME Init PROVE IndInv
  OBVIOUS
<1>1. TypeOK
  BY InitType
<1>2. QueueInv
  BY DEF Init, QueueInv, Distinct, Queued
<1>3. ASSUME NEW t \in Threads, NEW c \in Crits
      PROVE  LocalInv(t, c)
  BY NoneIsNothing DEF Init, LocalInv, EndAt, OwnerAt, CallAt, HandedAt, ListAt, Owns,
     MarkedBy, Ended, CallPCs, UserPCs, EnterPCs, LeavePCs, QueuedPCs, MarkPCs
<1> QED
  BY <1>1, <1>2, <1>3 DEF IndInv

\* Dispatching a thread ends the time in which a section can be stolen from it.
LEMMA KCNextThreadInv ==
    ASSUME IndInv, NEW expired \in BOOLEAN, KCNextThread(expired)
    PROVE  QueueInv' /\ \A u \in Threads, d \in Crits : LocalInv(u, d)'
<1>1. Shapes
  BY ShapesHold
<1>2. UNCHANGED <<owner, leaving, lockCount, needtrap, proxies, bListed, pc, crit, depth,
                  owned, life>>
  BY DEF KCNextThread, csVars, progVars, lifeVars
<1>3. ASSUME NEW u \in Threads, NEW d \in Crits
      PROVE  pLastCrit'[u] = d => pLastCrit[u] = d /\ u # cur'
  <2>1. CASE UNCHANGED <<cur, pLastCrit>>
    BY <2>1 DEF IndInv, LocalInv, HandedAt
  <2>2. CASE pLastCrit' = [pLastCrit EXCEPT ![cur'] = None]
    BY <1>1, <2>2, NoneIsNothing DEF Shapes
  <2> QED
    BY <2>1, <2>2 DEF KCNextThread
<1>4. ASSUME NEW u \in Threads, NEW d \in Crits
      PROVE  LocalInv(u, d)'
  <2>1. LocalInv(u, d)
    BY DEF IndInv
  <2> QED
    BY <1>2, <1>3, <2>1 DEF LocalInv, EndAt, OwnerAt, CallAt, HandedAt, ListAt, Owns,
       MarkedBy, Ended
<1>5. QueueInv'
  BY <1>2 DEF IndInv, QueueInv
<1> QED
  BY <1>4, <1>5

\* Steps that touch nothing the invariant is about.
LEMMA OtherInv ==
    ASSUME IndInv,
           UNCHANGED <<owner, leaving, lockCount, needtrap, proxies, bListed, pc, crit,
                       depth, pLastCrit, owned, life, cur>>
    PROVE  QueueInv' /\ \A u \in Threads, d \in Crits : LocalInv(u, d)'
<1>1. ASSUME NEW u \in Threads, NEW d \in Crits
      PROVE  LocalInv(u, d)'
  <2>1. LocalInv(u, d)
    BY DEF IndInv
  <2> QED
    BY <2>1 DEF LocalInv, EndAt, OwnerAt, CallAt, HandedAt, ListAt, Owns, MarkedBy, Ended
<1>2. QueueInv'
  BY DEF IndInv, QueueInv
<1> QED
  BY <1>1, <1>2

----------------------------------------------------------------------------
LEMMA StepInv == IndInv /\ [Next]_vars => IndInv'
<1> DEFINE Goal == QueueInv' /\ \A u \in Threads, d \in Crits : LocalInv(u, d)'
<1> SUFFICES ASSUME IndInv, [Next]_vars PROVE Goal
  BY StepType, StutterType DEF IndInv
<1> HIDE DEF Goal
<1>1. CASE UNCHANGED vars
  BY <1>1, OtherInv DEF Goal, vars, csVars, prioVars, waitVars, progVars, lifeVars, schedVars
<1>2. ASSUME NEW expired \in BOOLEAN, KCNextThread(expired)
      PROVE  Goal
  BY <1>2, KCNextThreadInv DEF Goal
<1>3. ASSUME NEW t \in Threads, UserStep(t)
      PROVE  Goal
  BY <1>3, EnterOwnedInv, EnterFreeInv, EnterTrapInv, LeaveNestedInv, LeaveMarkInv,
     EnterCountInv, LeaveTestInv, LeaveFastInv DEF Goal, UserStep
<1>4. ASSUME NEW t \in Threads, EnterStep(t)
      PROVE  Goal
  BY <1>4, WaitConfigInv, CSWaitAbortInv, CSWaitTakeInv, CSWaitStealInv, CSWaitPendInv,
     LaterLinkCritMutInv, PostBoostCrit1Inv, PostBoostCrit2Inv, CSWaitSignalledInv,
     CSWaitTerminatedInv, CSWaitBlockInv, OwnerGoneFaultInv, DequeuePrioProxyInv,
     DoReprioCritInv, LoopTestInv, CritFinalBoostInv DEF Goal, EnterStep
<1>5. ASSUME NEW t \in Threads, LeaveStep(t)
      PROVE  Goal
  BY <1>5, PreLeaveCritInv, LeaveCritFreeInv, LeaveCritStaleInv, LeaveCritHandOverInv,
     WakeNewOwnerInv, PostUnlinkCritMutInv DEF Goal, LeaveStep
<1>6. ASSUME NEW t \in Threads,
             ExitStep(t) \/ SuspendSelf(t) \/ ThreadResume(t) \/ ExitThread(t)
             \/ KillStep(t) \/ MakeKilledRun(t)
      PROVE  Goal
  BY <1>6, ReleaseOwnedInv, BuryInv, FinalRemoveThreadInv, SuspendSelfInv,
     ThreadResumeInv, ExitThreadInv, KillRunnableInv, KillBlockedInv, KillLaterInv,
     MakeKilledRunInv DEF Goal, ExitStep, KillStep
<1>7. ASSUME NEW t \in Threads, NEW p \in Prios, SetThreadBasePrio(t, p)
      PROVE  Goal
  <2>1. UNCHANGED <<csVars, owned, waitVars, progVars, lifeVars, cur>>
    BY <1>7 DEF SetThreadBasePrio
  <2> QED
    BY <2>1, OtherInv DEF Goal, csVars, waitVars, progVars, lifeVars
<1> QED
  BY <1>1, <1>2, <1>3, <1>4, <1>5, <1>6, <1>7 DEF Next

\* IndInv is an invariant: it holds at the start and every kernel call keeps it.
THEOREM Invariance == Spec => []IndInv
BY InitInv, StepInv, PTL DEF Spec

\* A critical section is never inside two threads, and its LockCount is the number
\* of times its owner has entered, whatever is stolen, handed over, taken over from
\* a thread that is gone or given up by one that is terminated.
THEOREM MutualExclusionHolds == Spec => []MutualExclusion
<1>1. IndInv => MutualExclusion
  BY DEF IndInv, LocalInv, OwnerAt, MutualExclusion
<1> QED
  BY <1>1, Invariance, PTL

\* The owned lists of all threads together hold the sections marked as listed, each
\* on the list of its owner.
THEOREM OwnedListExactHolds == Spec => []OwnedListExact
<1>1. IndInv => OwnedListExact
  BY DEF IndInv, LocalInv, ListAt, OwnedListExact
<1> QED
  BY <1>1, Invariance, PTL

\* The three DEBUGCHKs of LeaveCrit never fire.
THEOREM LeaveAssertionsHold == Spec => []LeaveAssertions
<1>1. IndInv => LeaveAssertions
  <2> SUFFICES ASSUME IndInv, NEW t \in Threads, pc[t] = "leave"
               PROVE  Owns(t, crit[t]) /\ lockCount[crit[t]] = 1 /\ bListed[crit[t]] = 2
    BY DEF LeaveAssertions
  <2>1. crit[t] \in Crits
    BY ShapesHold DEF Shapes, CallPCs, LeavePCs
  <2>2. CallAt(t, crit[t])
    BY <2>1 DEF IndInv, LocalInv
  <2> QED
    BY <2>2 DEF CallAt, CallPCs, LeavePCs
<1> QED
  BY <1>1, Invariance, PTL

-----------------------------------------------------------------------------
(* The sections are locks *)

\* Whom a section of CritSect would belong to as a lock: nobody, or the thread inside.
AllLeft(c) == \A t \in Threads : depth[t][c] = 0
OnlyInside(t, c) == depth[t][c] > 0 /\ \A u \in Threads \ {t} : depth[u][c] = 0

\* Mutual exclusion, as far as the entries are concerned.
LEMMA InsideAlone ==
    IndInv => \A t \in Threads, c \in Crits : depth[t][c] > 0 => OnlyInside(t, c)
<1> SUFFICES ASSUME IndInv, NEW t \in Threads, NEW c \in Crits, depth[t][c] > 0,
                    NEW u \in Threads \ {t}
             PROVE  depth[u][c] = 0
  BY DEF OnlyInside
<1>1. OwnerAt(t, c) /\ OwnerAt(u, c)
  BY DEF IndInv, LocalInv
<1>2. depth[u][c] \in Nat
  BY ShapesHold DEF Shapes
<1> QED
  BY <1>1, <1>2 DEF OwnerAt, Owns

\* The lock that the entries amount to.
LEMMA HolderIs ==
    /\ \A c \in Crits : AllLeft(c) => HolderOf(c) = None /\ CountOf(c) = 0
    /\ \A t \in Threads, c \in Crits :
          OnlyInside(t, c) => HolderOf(c) = t /\ CountOf(c) = depth[t][c]
<1>1. ASSUME NEW c \in Crits, AllLeft(c)
      PROVE  HolderOf(c) = None /\ CountOf(c) = 0
  <2>1. Inside(c) = {}
    BY <1>1 DEF AllLeft, Inside
  <2> QED
    BY <2>1 DEF HolderOf, CountOf
<1>2. ASSUME NEW t \in Threads, NEW c \in Crits, OnlyInside(t, c)
      PROVE  HolderOf(c) = t /\ CountOf(c) = depth[t][c]
  <2>1. Inside(c) = {t}
    BY <1>2 DEF OnlyInside, Inside
  <2> QED
    BY <2>1 DEF HolderOf, CountOf
<1> QED
  BY <1>1, <1>2

\* What a step may do to the entries.
NothingEntered == depth' = depth
FirstEntry(t, c) == AllLeft(c) /\ depth' = [depth EXCEPT ![t][c] = 1]
EnteredAgain(t, c) == depth[t][c] > 0 /\ depth' = [depth EXCEPT ![t][c] = @ + 1]
LeftOnce(t, c) == depth[t][c] > 0 /\ depth' = [depth EXCEPT ![t][c] = @ - 1]
GivenUp(t) == depth' = [depth EXCEPT ![t] = NothingHeld]
EntriesMove ==
    \/ NothingEntered
    \/ \E t \in Threads :
          \/ GivenUp(t)
          \/ \E c \in Crits : FirstEntry(t, c) \/ EnteredAgain(t, c) \/ LeftOnce(t, c)

\* A thread that owns c without having entered it is alone with it.
LEMMA NobodyInside ==
    ASSUME IndInv, NEW t \in Threads, NEW c \in Crits, Owns(t, c), depth[t][c] = 0
    PROVE  AllLeft(c)
<1> SUFFICES ASSUME NEW u \in Threads
             PROVE  depth[u][c] = 0
  BY DEF AllLeft
<1>1. OwnerAt(u, c)
  BY DEF IndInv, LocalInv
<1>2. depth[u][c] \in Nat
  BY ShapesHold DEF Shapes
<1> QED
  BY <1>1, <1>2 DEF OwnerAt, Owns

\* The calls of the user-mode fast path enter or leave one section once.
LEMMA UserEntries == ASSUME IndInv, NEW t \in Threads, UserStep(t) PROVE EntriesMove
<1>1. Shapes
  BY ShapesHold
<1>2. CASE LeaveTest(t) \/ LeaveFast(t)
  BY <1>2 DEF LeaveTest, LeaveFast, EntriesMove, NothingEntered
<1>3. ASSUME EnterCount(t)
      PROVE  EntriesMove
  <2> DEFINE c == crit[t]
  <2>1. pc[t] = "enterCount" /\ depth' = [depth EXCEPT ![t][c] = 1]
    BY <1>3 DEF EnterCount, At
  <2>2. c \in Crits
    BY <1>1, <2>1 DEF Shapes, CallPCs, UserPCs
  <2>3. Owns(t, c) /\ depth[t][c] = 0
    BY <2>1, <2>2 DEF IndInv, LocalInv, CallAt, CallPCs, UserPCs
  <2>4. FirstEntry(t, c)
    BY <2>1, <2>2, <2>3, NobodyInside DEF FirstEntry
  <2> QED
    BY <2>2, <2>4 DEF EntriesMove
<1>4. ASSUME NEW c \in Crits, EnterOwned(t, c)
      PROVE  EntriesMove
  <2>1. pc[t] = "user" /\ Owns(t, c) /\ depth' = [depth EXCEPT ![t][c] = @ + 1]
    BY <1>4 DEF EnterOwned, Calls, At, Owns
  <2>2. LocalInv(t, c) /\ depth[t][c] \in Nat
    BY <1>1 DEF IndInv, Shapes
  <2>3. ~Ended(t)
    BY <2>1, <2>2 DEF LocalInv, EndAt, Ended, LeavePCs
  <2>4. depth[t][c] > 0
    BY <2>1, <2>2, <2>3 DEF LocalInv, OwnerAt, EnterPCs
  <2>5. EnteredAgain(t, c)
    BY <2>1, <2>4 DEF EnteredAgain
  <2> QED
    BY <2>5 DEF EntriesMove
<1>5. ASSUME NEW c \in Crits, EnterFree(t, c) \/ EnterTrap(t, c)
      PROVE  EntriesMove
  BY <1>5 DEF EnterFree, EnterTrap, EntriesMove, NothingEntered
<1>6. ASSUME NEW c \in Crits, LeaveNested(t, c)
      PROVE  EntriesMove
  BY <1>6 DEF LeaveNested, EntriesMove, LeftOnce
<1>7. ASSUME NEW c \in Crits, LeaveMark(t, c)
      PROVE  EntriesMove
  <2>1. lockCount[c] = 1 /\ depth[t][c] > 0 /\ depth' = [depth EXCEPT ![t][c] = 0]
    BY <1>7 DEF LeaveMark
  <2>2. depth[t][c] = 1
    BY <2>1 DEF IndInv, LocalInv, OwnerAt
  <2>3. LeftOnce(t, c)
    BY <1>1, <2>1, <2>2 DEF LeftOnce, Shapes
  <2> QED
    BY <2>3 DEF EntriesMove
<1> QED
  BY <1>2, <1>3, <1>4, <1>5, <1>6, <1>7 DEF UserStep

\* A call into the kernel enters its section in the end, or finds that its thread
\* is to die.
LEMMA EnterEntries == ASSUME IndInv, NEW t \in Threads, EnterStep(t) PROVE EntriesMove
<1>1. Shapes
  BY ShapesHold
<1>2. CASE LoopTest(t)
  BY <1>2 DEF LoopTest, EntriesMove, NothingEntered, GivenUp
<1>3. ASSUME CritFinalBoost(t)
      PROVE  EntriesMove
  <2> DEFINE c == crit[t]
  <2>1. /\ pc[t] = "finalBoost"
        /\ depth' = [depth EXCEPT ![t] = IF ReturnPC(t, c) = "exit" THEN NothingHeld
                                         ELSE [@ EXCEPT ![c] = 1]]
    BY <1>3 DEF CritFinalBoost, At
  <2>2. c \in Crits
    BY <1>1, <2>1 DEF Shapes, CallPCs, EnterPCs
  <2>3. Owns(t, c) /\ depth[t][c] = 0
    BY <2>1, <2>2 DEF IndInv, LocalInv, CallAt, CallPCs, EnterPCs
  <2>4. CASE ReturnPC(t, c) = "exit"
    BY <2>1, <2>4 DEF EntriesMove, GivenUp
  <2>5. CASE ReturnPC(t, c) # "exit"
    <3>1. FirstEntry(t, c)
      BY <2>1, <2>2, <2>3, <2>5, NobodyInside DEF FirstEntry
    <3> QED
      BY <2>2, <3>1 DEF EntriesMove
  <2> QED
    BY <2>4, <2>5
<1>4. CASE ~LoopTest(t) /\ ~CritFinalBoost(t)
  <2>1. depth' = depth
    BY <1>4 DEF EnterStep, WaitConfig, CSWaitAbort, CSWaitTake, CSWaitSteal,
       CSWaitPend, LaterLinkCritMut, PostBoostCrit1, PostBoostCrit2, CSWaitSignalled,
       CSWaitTerminated, CSWaitBlock, OwnerGoneFault, Faults, DequeuePrioProxy,
       DoReprioCrit
  <2> QED
    BY <2>1 DEF EntriesMove, NothingEntered
<1> QED
  BY <1>2, <1>3, <1>4

\* Nothing else enters a section; a thread that ends gives up all it was inside.
LEMMA OtherEntries ==
    ASSUME IndInv, NEW t \in Threads,
           LeaveStep(t) \/ ExitStep(t) \/ SuspendSelf(t) \/ ThreadResume(t)
           \/ ExitThread(t) \/ KillStep(t) \/ MakeKilledRun(t)
    PROVE  depth' = depth \/ GivenUp(t)
<1>1. CASE LeaveStep(t)
  BY <1>1 DEF LeaveStep, PreLeaveCrit, LeaveCritFree, LeaveCritStale, LeaveCritHandOver,
     WakeNewOwner, PostUnlinkCritMut, progVars, GivenUp
<1>2. CASE ExitStep(t)
  BY <1>2 DEF ExitStep, ReleaseOwned, Bury, FinalRemoveThread
<1>3. CASE SuspendSelf(t) \/ ThreadResume(t) \/ ExitThread(t) \/ MakeKilledRun(t)
  BY <1>3 DEF SuspendSelf, ThreadResume, ExitThread, MakeKilledRun, progVars, GivenUp
<1>4. CASE KillRunnable(t) \/ KillLater(t)
  BY <1>4 DEF KillRunnable, KillLater, progVars, GivenUp
<1>5. CASE KillBlocked(t)
  <2>1. depth \in [Threads -> [Crits -> Nat]]
    BY ShapesHold DEF Shapes
  <2> QED
    BY <1>5, <2>1 DEF KillBlocked, GivenUp
<1> QED
  BY <1>1, <1>2, <1>3, <1>4, <1>5 DEF KillStep

LEMMA StepEntries == IndInv /\ [Next]_vars => EntriesMove
<1> SUFFICES ASSUME IndInv, [Next]_vars
             PROVE  EntriesMove
  OBVIOUS
<1>1. CASE UNCHANGED vars
  BY <1>1 DEF vars, progVars, EntriesMove, NothingEntered
<1>2. ASSUME NEW expired \in BOOLEAN, KCNextThread(expired)
      PROVE  EntriesMove
  BY <1>2 DEF KCNextThread, progVars, EntriesMove, NothingEntered
<1>3. ASSUME NEW t \in Threads, UserStep(t) \/ EnterStep(t)
      PROVE  EntriesMove
  BY <1>3, UserEntries, EnterEntries
<1>4. ASSUME NEW t \in Threads,
             LeaveStep(t) \/ ExitStep(t) \/ SuspendSelf(t) \/ ThreadResume(t)
             \/ ExitThread(t) \/ KillStep(t) \/ MakeKilledRun(t)
      PROVE  EntriesMove
  BY <1>4, OtherEntries DEF EntriesMove, NothingEntered
<1>5. ASSUME NEW t \in Threads, NEW p \in Prios, SetThreadBasePrio(t, p)
      PROVE  EntriesMove
  BY <1>5 DEF SetThreadBasePrio, progVars, EntriesMove, NothingEntered
<1> QED
  BY <1>1, <1>2, <1>3, <1>4, <1>5 DEF Next

\* Nobody is inside a section at first.
LEMMA LockInitially == Init => L!LockInit
<1> SUFFICES ASSUME Init
             PROVE  L!LockInit
  OBVIOUS
<1>1. ASSUME NEW c \in Crits
      PROVE  AllLeft(c)
  BY DEF Init, AllLeft
<1>2. \A c \in Crits : HolderOf(c) = None /\ CountOf(c) = 0
  BY <1>1, HolderIs
<1> QED
  BY <1>2 DEF L!LockInit

\* Every step of the kernel is a step of the lock, or none.
LEMMA LockStep == IndInv /\ IndInv' /\ [Next]_vars => [L!LockNext]_L!lockVars
<1> SUFFICES ASSUME IndInv, IndInv', [Next]_vars
             PROVE  [L!LockNext]_L!lockVars
  OBVIOUS
<1> DEFINE holder == [c \in Crits |-> HolderOf(c)]
           count == [c \in Crits |-> CountOf(c)]
<1>1. Shapes /\ Shapes'
  BY ShapesHold, PTL
<1>2. /\ \A t \in Threads, c \in Crits : depth[t][c] > 0 => OnlyInside(t, c)
      /\ \A t \in Threads, c \in Crits : depth'[t][c] > 0 => OnlyInside(t, c)'
  <2>1. (\A t \in Threads, c \in Crits : depth[t][c] > 0 => OnlyInside(t, c))'
    BY InsideAlone, PTL
  <2> QED
    BY <2>1, InsideAlone
<1>3. /\ \A c \in Crits : AllLeft(c) => holder[c] = None /\ count[c] = 0
      /\ \A t \in Threads, c \in Crits :
            OnlyInside(t, c) => holder[c] = t /\ count[c] = depth[t][c]
  BY HolderIs
<1>4. /\ \A c \in Crits : AllLeft(c)' => holder'[c] = None /\ count'[c] = 0
      /\ \A t \in Threads, c \in Crits :
            OnlyInside(t, c)' => holder'[c] = t /\ count'[c] = depth'[t][c]
  <2>1. (/\ \A c \in Crits : AllLeft(c) => HolderOf(c) = None /\ CountOf(c) = 0
         /\ \A t \in Threads, c \in Crits :
               OnlyInside(t, c) => HolderOf(c) = t /\ CountOf(c) = depth[t][c])'
    BY HolderIs, PTL
  <2> QED
    BY <2>1
<1>5. \A t \in Threads, c \in Crits : depth[t][c] \in Nat /\ depth'[t][c] \in Nat
  BY <1>1 DEF Shapes
<1>6. \A c \in Crits : \/ AllLeft(c)
                       \/ \E t \in Threads : OnlyInside(t, c)
  BY <1>2, <1>5 DEF AllLeft
<1>7. \A c \in Crits : (\A t \in Threads : depth'[t][c] = depth[t][c])
                          => holder'[c] = holder[c] /\ count'[c] = count[c]
  BY <1>3, <1>4, <1>6 DEF AllLeft, OnlyInside
<1>8. CASE NothingEntered
  <2>1. holder' = holder /\ count' = count
    BY <1>7, <1>8 DEF NothingEntered
  <2> QED
    BY <2>1 DEF L!lockVars
<1>9. ASSUME NEW t \in Threads, NEW c \in Crits, NEW n,
             depth' = [depth EXCEPT ![t][c] = n]
      PROVE  \A d \in Crits \ {c} : holder'[d] = holder[d] /\ count'[d] = count[d]
  <2>1. \A u \in Threads, d \in Crits \ {c} : depth'[u][d] = depth[u][d]
    BY <1>1, <1>9 DEF Shapes
  <2> QED
    BY <1>7, <2>1
<1>10. ASSUME NEW t \in Threads, NEW c \in Crits, FirstEntry(t, c)
       PROVE  L!LockNext
  <2>1. \A u \in Threads : depth'[u][c] = IF u = t THEN 1 ELSE 0
    BY <1>1, <1>10 DEF Shapes, FirstEntry, AllLeft
  <2>2. holder[c] = None /\ holder'[c] = t /\ count'[c] = 1
    BY <1>3, <1>4, <1>10, <2>1 DEF FirstEntry, OnlyInside
  <2>3. \A d \in Crits \ {c} : holder'[d] = holder[d] /\ count'[d] = count[d]
    BY <1>9, <1>10 DEF FirstEntry
  <2>4. L!Acquire(t, c)
    BY <2>2, <2>3 DEF L!Acquire
  <2> QED
    BY <2>4 DEF L!LockNext
<1>11. ASSUME NEW t \in Threads, NEW c \in Crits, EnteredAgain(t, c)
       PROVE  L!LockNext
  <2>1. OnlyInside(t, c)
    BY <1>2, <1>11 DEF EnteredAgain
  <2>2. \A u \in Threads : depth'[u][c] = IF u = t THEN depth[t][c] + 1 ELSE 0
    BY <1>1, <1>11, <2>1 DEF Shapes, EnteredAgain, OnlyInside
  <2>3. holder[c] = t /\ count[c] = depth[t][c]
        /\ holder'[c] = t /\ count'[c] = depth[t][c] + 1
    BY <1>3, <1>4, <1>5, <2>1, <2>2 DEF OnlyInside
  <2>4. \A d \in Crits \ {c} : holder'[d] = holder[d] /\ count'[d] = count[d]
    BY <1>9, <1>11 DEF EnteredAgain
  <2>5. L!Reenter(t, c)
    BY <2>3, <2>4 DEF L!Reenter
  <2> QED
    BY <2>5 DEF L!LockNext
<1>12. ASSUME NEW t \in Threads, NEW c \in Crits, LeftOnce(t, c)
       PROVE  L!LockNext
  <2>1. OnlyInside(t, c)
    BY <1>2, <1>12 DEF LeftOnce
  <2>2. \A u \in Threads : depth'[u][c] = IF u = t THEN depth[t][c] - 1 ELSE 0
    BY <1>1, <1>12, <2>1 DEF Shapes, LeftOnce, OnlyInside
  <2>3. holder[c] = t /\ count[c] = depth[t][c]
    BY <1>3, <2>1
  <2>4. /\ holder'[c] = IF depth[t][c] = 1 THEN None ELSE t
        /\ count'[c] = depth[t][c] - 1
    BY <1>4, <1>5, <2>1, <2>2 DEF OnlyInside, AllLeft
  <2>5. \A d \in Crits \ {c} : holder'[d] = holder[d] /\ count'[d] = count[d]
    BY <1>9, <1>12 DEF LeftOnce
  <2>6. L!Leave(t, c)
    BY <2>3, <2>4, <2>5 DEF L!Leave
  <2> QED
    BY <2>6 DEF L!LockNext
<1>13. ASSUME NEW t \in Threads, GivenUp(t)
       PROVE  L!LockNext
  <2>1. \A u \in Threads, c \in Crits : depth'[u][c] = IF u = t THEN 0 ELSE depth[u][c]
    BY <1>1, <1>13 DEF Shapes, GivenUp, NothingHeld
  <2>2. ASSUME NEW c \in Crits, holder[c] = t
        PROVE  holder'[c] = None /\ count'[c] = 0
    <3>1. \A u \in Threads \ {t} : depth[u][c] = 0
      BY <1>3, <1>6, <2>2, NoneIsNothing DEF OnlyInside
    <3>2. AllLeft(c)'
      BY <2>1, <3>1 DEF AllLeft
    <3> QED
      BY <1>4, <3>2
  <2>3. ASSUME NEW c \in Crits, holder[c] # t
        PROVE  holder'[c] = holder[c] /\ count'[c] = count[c]
    <3>1. ~OnlyInside(t, c)
      BY <1>3, <2>3
    <3>2. depth[t][c] = 0
      BY <1>2, <1>5, <3>1
    <3> QED
      BY <1>7, <2>1, <3>2
  <2>4. L!Abandon(t)
    BY <2>2, <2>3 DEF L!Abandon
  <2> QED
    BY <2>4 DEF L!LockNext
<1>14. EntriesMove
  BY StepEntries
<1> QED
  BY <1>8, <1>10, <1>11, <1>12, <1>13, <1>14 DEF EntriesMove

\* The critical sections do what Lock promises: whatever the kernel steals, hands
\* over or takes back, a program sees a recursive lock that is acquired free, held
\* by one thread, and lost only by being left or by the death of that thread.
THEOREM LockImplemented == Spec => ImplementsLock
<1>1. Init => L!LockInit
  BY LockInitially
<1>2. IndInv /\ IndInv' /\ [Next]_vars => [L!LockNext]_L!lockVars
  BY LockStep
<1> QED
  BY <1>1, <1>2, Invariance, PTL DEF Spec, L!LockSpec, ImplementsLock

=============================================================================
