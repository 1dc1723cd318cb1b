----------------------------- MODULE MCServices -----------------------------
(***************************************************************************)
(* The heap and the virtual timers share no state, so that one run checks  *)
(* them one after the other; the first state chooses.                      *)
(***************************************************************************)
EXTENDS ChHeap, ChVT, TLC

CONSTANTS t1, t2

VARIABLE service

ServicesInit == HeapInit /\ VTInit /\ service \in {"heap", "timers"}

ServicesNext ==
    \/ service = "heap" /\ HeapNext /\ UNCHANGED <<vars, service>>
    \/ service = "timers" /\ VTNext /\ UNCHANGED <<heapvars, service>>

ServicesSpec == ServicesInit /\ [][ServicesNext]_<<heapvars, vars, service>>

\* The threads are interchangeable.
Exchange == Permutations(Threads)
============================================================================
