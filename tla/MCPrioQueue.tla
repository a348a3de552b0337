---------------------------- MODULE MCPrioQueue -----------------------------
(* Instances of PrioQueue for TLC. *)
EXTENDS PrioQueue
CONSTANTS n1, n2, n3, n4
=============================================================================
