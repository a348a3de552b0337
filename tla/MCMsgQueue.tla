----------------------------- MODULE MCMsgQueue -----------------------------
(* Instances of MsgQueue for TLC. *)
EXTENDS MsgQueue, TLC
CONSTANTS t1, t2, t3, r1, r2, w1

\* Two readers, one of which also writes, and a thread that closes and opens.
Roles == t1 :> {"read"} @@ t2 :> {"read", "write"} @@ t3 :> {"close", "open"}
\* A queue with a name that breaks, and one without that does not and allocates
\* its nodes as it goes.
Kinds == {[broken |-> FALSE, nocommit |-> FALSE, named |-> TRUE],
          [broken |-> TRUE, nocommit |-> TRUE, named |-> FALSE]}
Opens == [e \in End |-> IF e \in WriterEnd THEN 2 ELSE 1]
EndSym == Permutations(ReaderEnd)
=============================================================================
