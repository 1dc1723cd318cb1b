------------------------------ MODULE MCEvents ------------------------------
(* TLC instances of ChEvents: see the cfg files. *)
EXTENDS ChEvents, TLC

CONSTANTS t1, t2, l1, l2

Priorities == (t1 :> 2) @@ (t2 :> 3)
Owners == (l1 :> t1) @@ (l2 :> t2)
ListenMasks == (l1 :> {1}) @@ (l2 :> {0, 1})
============================================================================
