------------------------------- MODULE MCCond -------------------------------
(* TLC instances of ChCond: see the cfg files. *)
EXTENDS ChCond, TLC

CONSTANTS t1, t2, t3, m1, m2, c1

\* Three different priorities: the shape in which priority inversion shows.
DistinctPrios == (t1 :> 2) @@ (t2 :> 3) @@ (t3 :> 4)
============================================================================
