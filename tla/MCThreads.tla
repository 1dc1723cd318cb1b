----------------------------- MODULE MCThreads -----------------------------
(* TLC instances of ChThreads: see the cfg files. *)
EXTENDS ChThreads, TLC

CONSTANTS main, s1, d1, d2

\* The dynamic threads share the priority of main, the static one is above.
Priorities == [t \in Threads |-> IF t = s1 THEN 3 ELSE 2]

\* Behaviours are followed up to the first step the properties exempt: they say
\* nothing of what comes after it.
NotExempt == ~raced /\ ~stale

\* Bound: once the fourth thread has been created (which sets its mode for good),
\* only main holds references, and nobody sends or waits for messages.
FewHolders ==
    \/ p_flags[d2] = "STATIC"
    \/ /\ \A u \in AllThreads : ~Holds(s1, u)
       /\ \A t \in Threads : k.p_state[t] \notin {"WTMSG", "SNDMSGQ", "SNDMSG"}
============================================================================
