--------------------------- MODULE MCWaitObjects ----------------------------
(* Instances of WaitObjects for TLC. *)
EXTENDS WaitObjects, TLC
CONSTANTS t1, t2, t3, e1, e2, m1, m2, s1, i1

EqualPrio == [t \in Threads |-> 1]
\* t1 is the best.
RankedPrio == [t \in Threads |-> IF t = t1 THEN 0 ELSE 1]

Timed(ws) == ws \X {"finite"}
Endless(ws) == ws \X {"infinite"}

SignalWaits == t1 :> Timed({<<e1, s1>>}) @@ t2 :> Timed({<<e2, e1>>, <<s1>>}) @@ t3 :> {}
SignalSignals == t1 :> {} @@ t2 :> {s1} @@ t3 :> {e1, e2, s1}

\* t1 serves the interrupt, t2 ends.
EndWaits == t1 :> (Endless({<<i1>>}) \cup Timed({<<m1>>}))
         @@ t2 :> Timed({<<m1>>})
         @@ t3 :> (Endless({<<t2, m1>>}) \cup {<< <<i1>>, "zero">>})
EndSignals == t1 :> {} @@ t2 :> {} @@ t3 :> {i1}

LiveWaits == t1 :> Timed({<<m1>>, <<e1, m1>>}) @@ t2 :> Timed({<<m1>>, <<e1, m1>>})
LiveSignals == t1 :> {} @@ t2 :> {e1}

IntrWaits == t1 :> Timed({<<i1>>}) @@ t2 :> {}
IntrSignals == t1 :> {} @@ t2 :> {i1}
=============================================================================
