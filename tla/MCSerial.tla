------------------------------ MODULE MCSerial ------------------------------
(* The TLC instance of ChSerial: see Queues.cfg. *)
EXTENDS ChSerial, TLC

CONSTANTS t1, t2, x, y, z

Priorities == (t1 :> 2) @@ (t2 :> 3)
Values == [iq |-> {x, y}, oq |-> {z}]
\* The values of received bytes are interchangeable.
Exchange == Permutations({x, y})
Sizes == [iq |-> 2, oq |-> 2]
============================================================================
