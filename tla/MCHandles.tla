----------------------------- MODULE MCHandles ------------------------------
(* Instances of Handles for TLC. *)
EXTENDS Handles, TLC
CONSTANTS t1, t2, t3, p1, p2, api1, f, n, m, nm

\* f is a handle of the API set api1; n and m have the same name.
Names == api1 :> None @@ f :> None @@ n :> nm @@ m :> nm
Classes == api1 :> None @@ f :> api1 @@ n :> None @@ m :> None
OneKind == {{api1, f, m}, {n, m}}
=============================================================================
