-------------------------------- MODULE Lock --------------------------------
(***************************************************************************)
(* What EnterCriticalSection and LeaveCriticalSection promise a program:   *)
(* recursive locks, each held by one thread at a time, lost only by being  *)
(* left or by the death of the thread that holds them.                     *)
(***************************************************************************)
EXTENDS Naturals

CONSTANTS Threads, Crits, None

VARIABLES
    holder,     \* the thread inside each lock, or None
    count       \* how many times it has entered

lockVars == <<holder, count>>

LockInit ==
    /\ holder = [c \in Crits |-> None]
    /\ count = [c \in Crits |-> 0]

Acquire(t, c) ==
    /\ holder[c] = None
    /\ holder' = [holder EXCEPT ![c] = t]
    /\ count' = [count EXCEPT ![c] = 1]

Reenter(t, c) ==
    /\ holder[c] = t
    /\ count' = [count EXCEPT ![c] = @ + 1]
    /\ UNCHANGED holder

Leave(t, c) ==
    /\ holder[c] = t
    /\ count' = [count EXCEPT ![c] = @ - 1]
    /\ holder' = [holder EXCEPT ![c] = IF count[c] = 1 THEN None ELSE @]

\* A dying thread stops using every lock it is inside.
Abandon(t) ==
    /\ holder' = [c \in Crits |-> IF holder[c] = t THEN None ELSE holder[c]]
    /\ count' = [c \in Crits |-> IF holder[c] = t THEN 0 ELSE count[c]]

LockNext ==
    \E t \in Threads :
        \/ \E c \in Crits : Acquire(t, c) \/ Reenter(t, c) \/ Leave(t, c)
        \/ Abandon(t)

LockSpec == LockInit /\ [][LockNext]_lockVars
=============================================================================
