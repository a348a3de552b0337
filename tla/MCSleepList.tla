---------------------------- MODULE MCSleepList -----------------------------
(* Instances of SleepList for TLC. *)
EXTENDS SleepList, TLC
CONSTANTS t1, t2, t3

\* The most urgent wakes the others, and changes the priority of one and suspends it.
Levels == t1 :> 0 @@ t2 :> 1 @@ t3 :> 1
Roles == t1 :> {"sleep", "signal", "prio", "suspend"} @@ t2 :> {"sleep"} @@ t3 :> {"sleep"}

\* Two states that differ by where the clock stands are one.
View == <<Diff(dwReschedTime, CurMSec), listVars, schedVars, prioVars, needSleep, suspended, pc,
          target,
          [t \in Thread |-> IF pc[t] \in {"crab", "asleep"}
                            THEN [crab[t] EXCEPT !.wake = Diff(@, CurMSec)] ELSE Start(0)]>>
=============================================================================
