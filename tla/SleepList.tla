----------------------------- MODULE SleepList ------------------------------
(***************************************************************************)
(* Sleeping and timing out in the scheduler of NK/KERNEL/kcalls.c: the     *)
(* list of sleepers (SleepList), the search a thread makes through it one  *)
(* kernel call at a time (SleepOneMore), the timer (NextThread), dispatch  *)
(* (KCNextThread), and the calls that take a sleeper out: MakeRunIfNeeded  *)
(* after a signal or a termination, a change of priority, a suspension.    *)
(*                                                                         *)
(* Sleepers with the same wake-up time form a column.  When the time has   *)
(* come only the top of the column is made runnable; the rest hangs below  *)
(* it in the run queue, and each becomes runnable as the one above leaves. *)
(*                                                                         *)
(* ThreadSleep and a wait with a timeout use the list in the same way; the *)
(* objects waited for are in WaitObjects.  Clock values have W = 2 * Half  *)
(* values and compare by sign, as (int) (a - b) does with 32 bits.         *)
(***************************************************************************)
EXTENDS PrioSeq

CONSTANTS
    Thread, None,
    Prio,           \* priorities, 0 the best
    FirstPrio,      \* the base priority each thread starts with
    May,            \* what each thread does: "sleep", "signal", "prio", "suspend"
    Changing,       \* whose priority is changed, and who gets suspended (bound)
    Half,           \* 2^31
    Times,          \* the times slept, MAX_TIMEOUT the greatest
    MaxLate         \* how late the timer may be (bound)

ASSUME SleepListAssumption ==
    /\ None \notin Thread /\ IsFiniteSet(Thread)
    /\ Prio \subseteq Nat /\ FirstPrio \in [Thread -> Prio]
    /\ May \in [Thread -> SUBSET {"sleep", "signal", "prio", "suspend"}]
    /\ Half \in Nat \ {0, 1} /\ MaxLate \in Nat /\ MaxLate + 1 < Half
    \* MAX_TIMEOUT leaves room below 2^31 for a timer that is late
    /\ \A d \in Times : d \in Nat \ {0} /\ d + MaxLate < Half

VARIABLES
    CurMSec,
    dwReschedTime,
    top,            \* SleepList: the tops of the columns, as a sequence
    tail,           \* what is below the top of a column, asleep or runnable
    runq,           \* RunList.pRunnable
    runth,          \* RunList.pth
    resched,        \* SetReschedule
    state,          \* GET_RUNSTATE
    cprio, bprio,
    needSleep,      \* NEEDSLEEP
    suspended,      \* bSuspendCnt
    pc,             \* "run", "crab", "asleep", "signal", and whom it signals
    target,
    crab            \* the sleeper_t of the search: pth, whether wCount2 still is what
                    \* it was, wDirection, and dwWakeupTime, which the sleeper keeps

listVars == <<top, tail>>
schedVars == <<runq, runth, resched, state>>
prioVars == <<cprio, bprio>>
clockVars == <<CurMSec, dwReschedTime>>
vars == <<clockVars, listVars, schedVars, prioVars, needSleep, suspended,
          pc, target, crab>>

W == 2 * Half
Add(a, d) == (a + d) % W
\* (int) (a - b)
Diff(a, b) == ((a - b + W + Half) % W) - Half

\* A search that starts at SleepList.
Start(w) == [pth |-> None, ok |-> TRUE, vertical |-> FALSE, wake |-> w]
wake(t) == crab[t].wake

Init ==
    /\ CurMSec = 0 /\ dwReschedTime = Add(0, Half - 1)
    /\ top = <<>> /\ tail = [t \in Thread |-> <<>>]
    /\ \E order \in [1..Cardinality(Thread) -> Thread] :
          /\ Distinct(order)
          /\ \A i, j \in DOMAIN order : i < j => FirstPrio[order[i]] <= FirstPrio[order[j]]
          /\ runq = order
    /\ runth = None /\ resched = TRUE
    /\ state = [t \in Thread |-> "runnable"]
    /\ cprio = FirstPrio /\ bprio = FirstPrio
    /\ needSleep = {} /\ suspended = {}
    /\ pc = [t \in Thread |-> "run"] /\ target = [t \in Thread |-> None]
    /\ crab = [t \in Thread |-> Start(0)]

-----------------------------------------------------------------------------
(* The two lists *)

\* pUpSleep: t is in a column, below its top.
Hangs(t) == \E h \in Thread : Queued(t, tail[h])
Sleeping(t) == Queued(t, top) \/ Hangs(t)
Column(t) == CHOOSE h \in Thread : (h = t /\ Queued(t, top)) \/ Queued(t, tail[h])

\* pDownSleep of a sleeper, None at the bottom.
Below(t) ==
    LET c == <<Column(t)>> \o tail[Column(t)]
        i == CHOOSE k \in DOMAIN c : c[k] = t
    IN  IF i = Len(c) THEN None ELSE c[i + 1]

\* wCount2 of the threads in S has changed: searches that stand on them restart.
Forget(S) ==
    crab' = [t \in Thread |-> IF crab[t].pth \in S THEN [crab[t] EXCEPT !.ok = FALSE] ELSE crab[t]]

InsertBelow(p, t) ==
    LET h == Column(p)
        n == IF h = p THEN 0 ELSE CHOOSE i \in DOMAIN tail[h] : tail[h][i] = p
    IN  tail' = [tail EXCEPT ![h] = SubSeq(@, 1, n) \o <<t>> \o SubSeq(@, n + 1, Len(@))]

\* SleepqDequeue
SleepqDequeue(t) ==
    /\ IF Queued(t, top) /\ tail[t] # <<>>
       THEN /\ top' = [i \in DOMAIN top |-> IF top[i] = t THEN Head(tail[t]) ELSE top[i]]
            /\ tail' = [tail EXCEPT ![Head(tail[t])] = Tail(tail[t]), ![t] = <<>>]
       ELSE /\ top' = Dequeue(top, t)
            /\ tail' = [h \in Thread |-> Dequeue(tail[h], t)]
    /\ Forget({t})

\* Mutant: a thread that is marked to run is left where it hangs.
ReleasedIfAsleep(t) == IF tail[t] = <<>> THEN {} ELSE {Head(tail[t])} \ {d \in Thread : state[d] = "needsrun"}

\* What RunqDequeue does to the thread below t, and what is left of the run queue
\* q: of the same priority as t it takes t's place, else it is made runnable.
Released(t) == IF tail[t] = <<>> THEN {} ELSE {Head(tail[t])}
Woken(t) == {d \in Released(t) : state[d] # "needsrun"}
TailsWithout(t) ==
    [h \in Thread |-> IF h = t /\ Released(t) # {} THEN <<>> ELSE IF h \in Released(t) THEN Tail(tail[t]) ELSE tail[h]]
RunqWithout(q, t, prio) ==
    IF Woken(t) = {} THEN Dequeue(q, t)
    ELSE LET d == Head(tail[t]) IN
         IF prio[d] = prio[t]
         THEN [i \in DOMAIN q |-> IF q[i] = t THEN d ELSE q[i]]
         ELSE Dequeue(Enqueue(q, d, prio[d], prio), t)

\* Mutant: only an idle processor reschedules.
PreemptsIdle(t, q, prio) == runth = None

\* MakeRun asks for a reschedule when t comes to the front and the running thread is
\* less urgent.
Preempts(t, q, prio) ==
    /\ q = <<>> \/ prio[t] < prio[Head(q)]
    /\ runth = None \/ prio[t] < prio[runth]

MakeRun(t) ==
    /\ runq' = Enqueue(runq, t, cprio[t], cprio)
    /\ state' = [state EXCEPT ![t] = "runnable"]
    /\ resched' = (resched \/ Preempts(t, runq, cprio))

-----------------------------------------------------------------------------
(* The calls of the running thread *)

Runs(t) == runth = t /\ ~resched

\* ThreadSleep, or a wait with a timeout
BeginSleep(t, d) ==
    /\ Runs(t) /\ pc[t] = "run" /\ "sleep" \in May[t]
    /\ pc' = [pc EXCEPT ![t] = "crab"]
    /\ crab' = [crab EXCEPT ![t] = Start(Add(CurMSec, d))]
    /\ UNCHANGED <<clockVars, listVars, schedVars, prioVars, needSleep, suspended, target>>

\* In PutThreadToSleep and in WaitOneMore: is it time already
TooLate(t) == Diff(wake(t), CurMSec) <= 0
InCall(t) == Runs(t) /\ (pc[t] = "crab" \/ (pc[t] = "asleep" /\ t \in needSleep))

\* The call ends without a place in the list: it is time already, the thread is to
\* die, or what it waits for has been signalled while it was not in the list (still
\* searching, suspended, or on its way back).
SleepNot(t) ==
    /\ InCall(t)
    /\ needSleep' = needSleep \ {t}
    /\ pc' = [pc EXCEPT ![t] = "run"]
    /\ crab' = [crab EXCEPT ![t] = Start(CurMSec)]
    /\ UNCHANGED <<clockVars, listVars, schedVars, prioVars, suspended, target>>

\* Where SleepOneMore stands.
At(t) == crab[t].pth
NextTop(t) ==
    LET n == IF At(t) = None THEN 1 ELSE 1 + CHOOSE i \in DOMAIN top : top[i] = At(t)
    IN  IF n > Len(top) THEN None ELSE top[n]
Moved(t) == At(t) # None /\ ~crab[t].ok

\* Mutant: the search goes on.
InvertedNever(t) == FALSE

\* "Priority inverted while traversing down": t has become more urgent than the one it is at
Inverted(t) == crab[t].vertical /\ cprio[t] < cprio[At(t)]

\* The thread to go on from, to the right or down, None when the place is found.
StepTo(t) ==
    IF crab[t].vertical
    THEN IF Below(At(t)) # None /\ cprio[t] >= cprio[Below(At(t))] THEN Below(At(t)) ELSE None
    ELSE LET n == NextTop(t) IN
         IF n = None THEN None
         ELSE LET d == Diff(wake(n), wake(t)) IN
              IF d < 0 \/ (d = 0 /\ cprio[t] >= cprio[n]) THEN n ELSE None

\* One step further.
Stepped(t) ==
    [pth |-> StepTo(t), ok |-> TRUE, wake |-> wake(t),
     vertical |-> crab[t].vertical \/ wake(StepTo(t)) = wake(t)]

\* SleepOneMore starts again, or makes one step of the search
SleepSearch(t) ==
    /\ InCall(t) /\ ~TooLate(t)
    /\ needSleep' = needSleep \ {t}
    /\ pc' = [pc EXCEPT ![t] = "crab"]
    /\ IF Moved(t) \/ Inverted(t)
       THEN crab' = [crab EXCEPT ![t] = Start(wake(t))]
       ELSE /\ StepTo(t) # None
            /\ crab' = [crab EXCEPT ![t] = Stepped(t)]
    /\ UNCHANGED <<clockVars, listVars, schedVars, prioVars, suspended, target>>

\* Mutant: only the first sleeper of an empty list sets the timer.
ReschedForFirst(t) == IF top = <<>> THEN wake(t) ELSE dwReschedTime

\* A new first sleeper may bring the timer forward.
ReschedFor(t) ==
    IF ~crab[t].vertical /\ At(t) = None /\ Diff(dwReschedTime, wake(t)) > 0 THEN wake(t)
    ELSE dwReschedTime

\* or puts the thread in its place: below the one it has reached, on top of a column
\* of less urgent threads, or in a column of its own.
SleepPlace(t) ==
    LET next == IF crab[t].vertical THEN None ELSE NextTop(t)
        n == IF At(t) = None THEN 0 ELSE CHOOSE i \in DOMAIN top : top[i] = At(t)
        onTop == next # None /\ wake(next) = wake(t)
    IN
    /\ InCall(t) /\ ~TooLate(t) /\ ~Moved(t) /\ ~Inverted(t) /\ StepTo(t) = None
    /\ IF crab[t].vertical
       THEN InsertBelow(At(t), t) /\ UNCHANGED top
       ELSE IF onTop
       THEN /\ top' = [top EXCEPT ![n + 1] = t]
            /\ tail' = [tail EXCEPT ![t] = <<next>> \o tail[next], ![next] = <<>>]
       ELSE /\ top' = SubSeq(top, 1, n) \o <<t>> \o SubSeq(top, n + 1, Len(top))
            /\ UNCHANGED tail
    /\ crab' = [u \in Thread |->
                  IF u = t THEN Start(wake(t))
                  ELSE IF onTop /\ At(u) = next THEN [crab[u] EXCEPT !.ok = FALSE] ELSE crab[u]]
    /\ dwReschedTime' = ReschedFor(t)
    /\ state' = [state EXCEPT ![t] = "blocked"]
    /\ runth' = None /\ resched' = TRUE
    /\ needSleep' = needSleep \ {t}
    /\ pc' = [pc EXCEPT ![t] = "asleep"]
    /\ UNCHANGED <<CurMSec, runq, prioVars, suspended, target>>

\* It runs again, and not because its place in the list had to change.
Return(t) ==
    /\ Runs(t) /\ pc[t] = "asleep" /\ t \notin needSleep
    /\ pc' = [pc EXCEPT ![t] = "run"]
    /\ crab' = [crab EXCEPT ![t] = Start(CurMSec)]
    /\ UNCHANGED <<clockVars, listVars, schedVars, prioVars, needSleep, suspended, target>>

\* A signal, or SetThreadToDie, marks a sleeper; it stays in the list
Signal(r, t) ==
    /\ Runs(r) /\ pc[r] = "run" /\ "signal" \in May[r]
    /\ state[t] = "blocked" /\ Sleeping(t)
    /\ state' = [state EXCEPT ![t] = "needsrun"]
    /\ pc' = [pc EXCEPT ![r] = "signal"]
    /\ target' = [target EXCEPT ![r] = t]
    /\ UNCHANGED <<clockVars, listVars, runq, runth, resched, prioVars, needSleep, suspended, crab>>

\* until the next kernel call.
MakeRunIfNeeded(r) ==
    LET t == target[r] IN
    /\ Runs(r) /\ pc[r] = "signal"
    /\ IF state[t] = "needsrun"
       THEN /\ IF Sleeping(t) THEN SleepqDequeue(t) ELSE UNCHANGED <<listVars, crab>>
            /\ MakeRun(t)
       ELSE UNCHANGED <<listVars, runq, resched, state, crab>>
    /\ pc' = [pc EXCEPT ![r] = "run"]
    /\ target' = [target EXCEPT ![r] = None]
    /\ UNCHANGED <<clockVars, runth, prioVars, needSleep, suspended>>

\* Out of the list to sleep again (BoostCPrio does the same as SetThreadBasePrio).
Resleep(t) ==
    /\ SleepqDequeue(t)
    /\ needSleep' = needSleep \cup {t}

\* SetThreadBasePrio
SetThreadBasePrio(r, t, p) ==
    LET prio == [cprio EXCEPT ![t] = p] IN
    /\ Runs(r) /\ pc[r] = "run" /\ "prio" \in May[r] /\ t \in Changing /\ bprio[t] # p
    /\ bprio' = [bprio EXCEPT ![t] = p]
    /\ IF t = r
       THEN /\ cprio' = prio
            /\ resched' = (p # cprio[t] /\ runq # <<>> /\ p > cprio[Head(runq)])
            /\ UNCHANGED <<listVars, runq, state, needSleep, crab>>
       ELSE IF p >= cprio[t]
       THEN UNCHANGED <<listVars, runq, resched, state, cprio, needSleep, crab>>
       ELSE /\ cprio' = prio
            /\ IF state[t] = "runnable"
               THEN LET q == RunqWithout(runq, t, cprio) IN
                    /\ runq' = Enqueue(q, t, p, prio)
                    /\ tail' = TailsWithout(t)
                    /\ Forget(Released(t))
                    /\ state' = [u \in Thread |-> IF u \in Woken(t) THEN "runnable" ELSE state[u]]
                    /\ resched' = Preempts(t, q, prio)
                    /\ UNCHANGED <<top, needSleep>>
               ELSE IF Hangs(t) /\ state[t] # "needsrun"
               THEN /\ Resleep(t)
                    /\ runq' = Enqueue(runq, t, p, cprio)
                    /\ state' = [state EXCEPT ![t] = "runnable"]
                    /\ resched' = Preempts(t, runq, prio)
               ELSE UNCHANGED <<listVars, runq, resched, state, needSleep, crab>>
    /\ UNCHANGED <<clockVars, runth, suspended, pc, target>>

\* ThreadSuspend on the spot, of a thread outside the kernel or of a sleeper.
Suspend(r, t) ==
    /\ Runs(r) /\ pc[r] = "run" /\ "suspend" \in May[r]
    /\ t \notin suspended /\ t # r /\ t \in Changing
    /\ suspended' = suspended \cup {t}
    /\ state' = [u \in Thread |-> IF u = t THEN "blocked"
                                  ELSE IF state[t] = "runnable" /\ u \in Woken(t) THEN "runnable"
                                  ELSE state[u]]
    /\ \/ /\ state[t] = "runnable" /\ pc[t] = "run"
          /\ runq' = RunqWithout(runq, t, cprio)
          /\ tail' = TailsWithout(t)
          /\ Forget(Released(t))
          /\ UNCHANGED <<top, needSleep>>
       \/ state[t] = "blocked" /\ Sleeping(t) /\ Resleep(t) /\ UNCHANGED runq
    /\ UNCHANGED <<clockVars, runth, resched, prioVars, pc, target>>

\* ThreadResume
Resume(r, t) ==
    /\ Runs(r) /\ pc[r] = "run" /\ t \in suspended
    /\ suspended' = suspended \ {t}
    /\ MakeRun(t)
    /\ UNCHANGED <<clockVars, listVars, runth, prioVars, needSleep, pc, target, crab>>

-----------------------------------------------------------------------------
(* The timer and the scheduler *)

\* Mutant: a top that somebody is about to make runnable stays.
ExpiredUnmarked(now) ==
    top # <<>> /\ Diff(now, wake(Head(top))) >= 0 /\ state[Head(top)] # "needsrun"

\* The time of the first column has come.
Expired(now) == top # <<>> /\ Diff(now, wake(Head(top))) >= 0

\* NextThread, on an interrupt that may have moved the clock: one column whose time
\* has come leaves the list, and its top is made runnable unless its waker is
\* about to.
NextThread(now) ==
    LET t == Head(top)
        due == Diff(now, dwReschedTime) >= 0
        runs == Expired(now) /\ state[t] # "needsrun"
    IN
    /\ CurMSec' = now
    /\ top' = IF Expired(now) THEN Tail(top) ELSE top
    /\ Forget(IF Expired(now) THEN {t} ELSE {})
    /\ runq' = IF runs THEN Enqueue(runq, t, cprio[t], cprio) ELSE runq
    /\ state' = IF runs THEN [state EXCEPT ![t] = "runnable"] ELSE state
    /\ resched' = (resched \/ due \/ (runs /\ Preempts(t, runq, cprio)))
    /\ UNCHANGED <<dwReschedTime, tail, runth, prioVars, needSleep, suspended, pc, target>>

\* t is asleep, or on its way to a place in the list.
Timed(t) == Sleeping(t) \/ pc[t] = "crab" \/ t \in needSleep

\* The clock moves on, but no sleeper and no search is overtaken by more than MaxLate.
Tick ==
    /\ \A t \in Thread : Timed(t) => Diff(CurMSec, wake(t)) < MaxLate
    /\ NextThread(Add(CurMSec, 1))
Interrupt == NextThread(CurMSec)

\* The run queue that KCNextThread chooses from.  The running thread goes behind its
\* equals when its quantum is over, and otherwise in front of them if it has to make room
\* for a more urgent one.
RunqToDispatch(quantumOver) ==
    IF runth = None \/ runq = <<>> THEN runq
    ELSE IF cprio[runth] > cprio[Head(runq)] /\ ~quantumOver
    THEN EnqueueFirst(runq, runth, cprio[runth], cprio)
    ELSE IF cprio[runth] > cprio[Head(runq)]
            \/ (cprio[runth] = cprio[Head(runq)] /\ quantumOver)
    THEN Enqueue(runq, runth, cprio[runth], cprio)
    ELSE runq

KCNextThread ==
    \E quantumOver \in BOOLEAN :
    LET q == RunqToDispatch(quantumOver)
        stays == runth # None /\ q = runq
        t == IF stays THEN runth ELSE IF q = <<>> THEN None ELSE Head(q)
        head == IF top = <<>> THEN Add(CurMSec, Half - 1) ELSE wake(Head(top))
        prio == IF stays \/ t = None \/ bprio[t] < cprio[t] THEN cprio
                ELSE [cprio EXCEPT ![t] = bprio[t]]
        rest == RunqWithout(q, t, cprio)
    IN
    /\ resched
    /\ runth' = t
    /\ cprio' = prio
    /\ \E end \in {head, Add(CurMSec, 1)} :
          /\ end = head \/ (t # None /\ Diff(end, head) < 0)
          /\ dwReschedTime' = end
    /\ IF stays \/ t = None
       THEN resched' = FALSE /\ UNCHANGED <<runq, tail, state, crab>>
       ELSE /\ runq' = rest
            /\ tail' = TailsWithout(t)
            /\ Forget(Released(t))
            /\ state' = [u \in Thread |-> IF u = t THEN "running"
                                          ELSE IF u = runth \/ u \in Woken(t) THEN "runnable"
                                          ELSE state[u]]
            /\ resched' = (prio[t] > cprio[t] /\ rest # <<>> /\ prio[t] > prio[Head(rest)])
    /\ UNCHANGED <<CurMSec, top, bprio, needSleep, suspended, pc, target>>

-----------------------------------------------------------------------------

Next ==
    \/ Tick \/ Interrupt \/ KCNextThread
    \/ \E t \in Thread :
          \/ \E d \in Times : BeginSleep(t, d)
          \/ SleepNot(t) \/ SleepSearch(t) \/ SleepPlace(t) \/ Return(t) \/ MakeRunIfNeeded(t)
          \/ \E u \in Thread :
                \/ Signal(t, u) \/ Suspend(t, u) \/ Resume(t, u)
                \/ \E p \in Prio : SetThreadBasePrio(t, u, p)

Spec == Init /\ [][Next]_vars

\* Interrupts keep coming.
FairSpec == Spec /\ WF_vars(Interrupt)

-----------------------------------------------------------------------------
(* Properties *)

\* Type correctness.
TypeOK ==
    /\ CurMSec \in 0..W - 1 /\ dwReschedTime \in 0..W - 1
    /\ top \in Seq(Thread) /\ tail \in [Thread -> Seq(Thread)] /\ runq \in Seq(Thread)
    /\ runth \in Thread \cup {None} /\ resched \in BOOLEAN
    /\ state \in [Thread -> {"running", "runnable", "blocked", "needsrun"}]
    /\ cprio \in [Thread -> Prio] /\ bprio \in [Thread -> Prio]
    /\ needSleep \subseteq Thread /\ suspended \subseteq Thread
    /\ pc \in [Thread -> {"run", "crab", "asleep", "signal"}]
    /\ target \in [Thread -> Thread \cup {None}]
    /\ crab \in [Thread -> [pth : Thread \cup {None}, ok : BOOLEAN, vertical : BOOLEAN,
                             wake : 0..W - 1]]

\* No thread is lost between the lists: one that is blocked sleeps or is suspended,
\* one that is marked to run has a waker about to make it runnable, one that is
\* runnable is in the run queue, and none is in two places.
NoThreadLost ==
    /\ Distinct(top) /\ Distinct(runq)
    /\ \A t \in Thread :
          /\ state[t] = "running" <=> runth = t
          /\ state[t] = "runnable" <=> Queued(t, runq)
          /\ state[t] = "needsrun" => \E r \in Thread : pc[r] = "signal" /\ target[r] = t
          /\ state[t] = "blocked" => Sleeping(t) \/ t \in suspended
          /\ Sleeping(t) => state[t] \in {"blocked", "needsrun"} /\ pc[t] = "asleep"
          /\ Distinct(tail[t]) /\ ~(Queued(t, top) /\ Hangs(t))
          /\ \A u \in Thread \ {t} : \A v \in Thread : ~(Queued(v, tail[t]) /\ Queued(v, tail[u]))

\* What hangs below a thread will be let go: the thread is in the list, in the run
\* queue or about to be put there (RunqDequeue 231, PutThreadToSleep 2173).
Carried ==
    \A h \in Thread : tail[h] # <<>> => Queued(h, top) \/ state[h] \in {"runnable", "needsrun"}

ListsSound == TypeOK /\ NoThreadLost /\ Carried

\* The list is in the order of the wake-up times, which all of a column share.
InOrderOfTime ==
    /\ \A i, j \in DOMAIN top : i < j => Diff(wake(top[i]), wake(top[j])) < 0
    /\ \A h \in Thread : \A i \in DOMAIN tail[h] : wake(tail[h][i]) = wake(h)

\* A column is in the order of the priorities of those that nobody has woken.
InOrderOfPriority ==
    \A h \in Thread :
        LET c == <<h>> \o tail[h] IN
        \A i, j \in DOMAIN c :
            i < j /\ state[c[i]] # "needsrun" /\ state[c[j]] # "needsrun" => cprio[c[i]] <= cprio[c[j]]

\* Both hold though priorities change and the search for a place is interrupted at every
\* step (DEBUGCHKs at 232 and 414).  With two threads whose priority changes the second
\* one fails: a search does not see who is above a marked thread (SleepOneMore 418).
SleepOrdered == InOrderOfTime /\ InOrderOfPriority

\* The timer is asked for early enough for the first sleeper (NextThread 1153).
ReschedInTime == top # <<>> => Diff(wake(Head(top)), dwReschedTime) >= 0

\* The thread that runs is as urgent as any that is ready and as any whose time has
\* come and that hangs below a thread in the run queue.
MostUrgentRuns ==
    runth # None /\ ~resched =>
        /\ \A t \in Thread : Queued(t, runq) => cprio[runth] <= cprio[t]
        /\ \A t \in Thread : Hangs(t) /\ Queued(Column(t), runq) /\ state[t] # "needsrun"
              => cprio[runth] <= cprio[t]

\* Whoever has hung below a thread taken off the list has slept its time.
NoEarlyWake ==
    \A t \in Thread : Hangs(t) /\ ~Queued(Column(t), top) => Diff(CurMSec, wake(t)) >= 0

\* Neither too late nor too early.
OnTime == ReschedInTime /\ NoEarlyWake

\* A sleeper whose time has come leaves the list, one column for each interrupt.
DueLeaves ==
    \A t \in Thread : (Queued(t, top) /\ Diff(CurMSec, wake(t)) >= 0) ~> ~Queued(t, top)
=============================================================================
