---------------------------- MODULE WaitService -----------------------------
(***************************************************************************)
(* What WaitForMultipleObjects promises: a wait ends with one object of    *)
(* its list, whose signal it has used up, or without any effect on the     *)
(* objects.                                                                *)
(***************************************************************************)
EXTENDS Integers

CONSTANTS
    Threads, None,
    AutoEvents, ManualEvents, Semaphores, Mutexes,
    MaxCount        \* lMaxCount of the semaphores

VARIABLES
    signal,         \* of each event
    count,          \* of each semaphore
    holder, depth,  \* of each mutex, and how often it holds it
    exited,         \* threads that have ended: a thread is an object, too
    released,       \* <<t, o>>: the manual event o was set while t waited
    waiting,        \* what each thread waits for
    outcome         \* how its wait has ended

serviceVars == <<signal, count, holder, depth, exited, released, waiting, outcome>>
objects == <<signal, count, holder, depth, exited>>

ServiceInit ==
    /\ signal \in [AutoEvents \cup ManualEvents -> BOOLEAN]
    /\ count \in [Semaphores -> 0..MaxCount]
    /\ holder = [m \in Mutexes |-> None] /\ depth = [m \in Mutexes |-> 0]
    /\ exited = {} /\ released = {}
    /\ waiting = [t \in Threads |-> {}]
    /\ outcome = [t \in Threads |-> None]

Begin(t, wanted) ==
    /\ waiting[t] = {} /\ outcome[t] = None
    /\ waiting' = [waiting EXCEPT ![t] = wanted]
    /\ UNCHANGED <<objects, released, outcome>>

Decide(t, r) ==
    /\ waiting[t] # {}
    /\ waiting' = [waiting EXCEPT ![t] = {}]
    /\ outcome' = [outcome EXCEPT ![t] = r]
    /\ released' = {r2 \in released : r2[1] # t}

GiveUp(t) == (\E r \in {"timeout", "failed", "killed"} : Decide(t, r)) /\ UNCHANGED objects

End(t) ==
    /\ outcome' = [outcome EXCEPT ![t] = None]
    /\ UNCHANGED <<objects, released, waiting>>

\* An event that resets itself releases one wait, directly or later.
ModifyAuto(o, on) ==
    /\ signal' = [signal EXCEPT ![o] = on]
    /\ UNCHANGED <<count, holder, depth, exited, released, waiting, outcome>>
HandAuto(t, o) ==
    /\ o \in waiting[t] /\ ~signal[o]
    /\ Decide(t, o) /\ UNCHANGED objects
TakeAuto(t, o) ==
    /\ o \in waiting[t] /\ signal[o]
    /\ Decide(t, o)
    /\ signal' = [signal EXCEPT ![o] = FALSE]
    /\ UNCHANGED <<count, holder, depth, exited>>

\* A manual one releases all who wait, even if it is reset at once.
ModifyManual(o, on, S) ==
    /\ \A t \in S : o \in waiting[t]
    /\ signal' = [signal EXCEPT ![o] = on]
    /\ released' = released \cup (S \X {o})
    /\ UNCHANGED <<count, holder, depth, exited, waiting, outcome>>
SeeManual(t, o) ==
    /\ o \in waiting[t]
    /\ signal[o] \/ <<t, o>> \in released
    /\ Decide(t, o) /\ UNCHANGED objects

Exit(t) ==
    /\ exited' = exited \cup {t}
    /\ UNCHANGED <<signal, count, holder, depth, released, waiting, outcome>>
SeeExit(t, u) ==
    /\ u \in waiting[t] \cap exited
    /\ Decide(t, u) /\ UNCHANGED objects

Release(s, n) ==
    /\ count[s] + n <= MaxCount
    /\ count' = [count EXCEPT ![s] = @ + n]
    /\ UNCHANGED <<signal, holder, depth, exited, released, waiting, outcome>>
Acquire(t, s) ==
    /\ s \in waiting[t] /\ count[s] > 0
    /\ Decide(t, s)
    /\ count' = [count EXCEPT ![s] = @ - 1]
    /\ UNCHANGED <<signal, holder, depth, exited>>

Own(t, m) ==
    /\ m \in waiting[t] /\ holder[m] \in {None, t}
    /\ Decide(t, m)
    /\ holder' = [holder EXCEPT ![m] = t]
    /\ depth' = [depth EXCEPT ![m] = @ + 1]
    /\ UNCHANGED <<signal, count, exited>>
Disown(t, m) ==
    /\ holder[m] = t
    /\ IF depth[m] > 1 /\ t \notin exited
       THEN depth' = [depth EXCEPT ![m] = @ - 1] /\ UNCHANGED holder
       ELSE depth' = [depth EXCEPT ![m] = 0] /\ holder' = [holder EXCEPT ![m] = None]
    /\ UNCHANGED <<signal, count, exited, released, waiting, outcome>>
HandOver(t, m, u) ==
    /\ holder[m] = t /\ (depth[m] = 1 \/ t \in exited)
    /\ m \in waiting[u] /\ Decide(u, m)
    /\ holder' = [holder EXCEPT ![m] = u]
    /\ depth' = [depth EXCEPT ![m] = 1]
    /\ UNCHANGED <<signal, count, exited>>

ServiceNext ==
    \/ \E t \in Threads :
          \/ \E wanted \in SUBSET (AutoEvents \cup ManualEvents \cup Semaphores
                                   \cup Mutexes \cup Threads) : Begin(t, wanted)
          \/ GiveUp(t) \/ End(t) \/ Exit(t)
          \/ \E o \in AutoEvents : HandAuto(t, o) \/ TakeAuto(t, o)
          \/ \E o \in ManualEvents : SeeManual(t, o)
          \/ \E u \in Threads : SeeExit(t, u)
          \/ \E s \in Semaphores : Acquire(t, s)
          \/ \E m \in Mutexes : Own(t, m) \/ Disown(t, m) \/ \E u \in Threads : HandOver(t, m, u)
    \/ \E o \in AutoEvents, on \in BOOLEAN : ModifyAuto(o, on)
    \/ \E o \in ManualEvents, on \in BOOLEAN, S \in SUBSET Threads : ModifyManual(o, on, S)
    \/ \E s \in Semaphores, n \in 1..MaxCount : Release(s, n)

WaitServiceSpec == ServiceInit /\ [][ServiceNext]_serviceVars
=============================================================================
