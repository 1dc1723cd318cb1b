------------------------------- MODULE MCSem -------------------------------
(* TLC instances of ChSem: see the cfg files. *)
EXTENDS ChSem

CONSTANTS t1, t2, t3, s1, s2

\* Two threads of equal priority under one of a higher priority.
Priorities == (t1 :> 2) @@ (t2 :> 2) @@ (t3 :> 3)
OneUnit == [sp \in Sems |-> IF sp = s1 THEN 1 ELSE 0]
============================================================================
