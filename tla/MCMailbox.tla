----------------------------- MODULE MCMailbox -----------------------------
(* TLC instances of ChMailbox: see the cfg files. *)
EXTENDS ChMailbox

CONSTANTS t1, t2, m1, m2

Priorities == (t1 :> 2) @@ (t2 :> 3)
============================================================================
