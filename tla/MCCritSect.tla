----------------------------- MODULE MCCritSect -----------------------------
(* Instances of CritSect for TLC. *)
EXTENDS CritSect, TLC
CONSTANTS t1, t2, t3, c1, c2

TwoEqual     == t1 :> 1 @@ t2 :> 1
ThreeEqual   == t1 :> 1 @@ t2 :> 1 @@ t3 :> 1
HighLow      == t1 :> 0 @@ t2 :> 1
HighMidLow   == t1 :> 0 @@ t2 :> 1 @@ t3 :> 2
HighLowLow   == t1 :> 0 @@ t2 :> 1 @@ t3 :> 1
OneIndex     == c1 :> 0
TwoIndex     == c1 :> 0 @@ c2 :> 1
=============================================================================
