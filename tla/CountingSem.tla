---------------------------- MODULE CountingSem ----------------------------
(***************************************************************************)
(* What the semaphores promise: a number of free units, a line of waiting  *)
(* threads, and for every thread the outcome of its last wait. The state   *)
(* is one record so that a service which signals one semaphore and waits   *)
(* for another is one step:                                                *)
(*   avail    the free units of every semaphore                            *)
(*   line     the waiting threads, first come first served, each with      *)
(*            whether its wait is limited in time                          *)
(*   outcome  "none" while a thread has no wait under way, "waiting", or   *)
(*            how the wait ended that the thread is about to return from   *)
(***************************************************************************)
EXTENDS Integers, Sequences, SequencesExt, FiniteSets

CONSTANTS
    Waiters, Sems,
    InitCounts,   \* the units of every semaphore at the start
    Counts        \* the numbers of units a signal gives and a reset leaves

VARIABLE a

CountingInit ==
    a = [avail   |-> InitCounts,
         line    |-> [sp \in Sems |-> <<>>],
         outcome |-> [t \in Waiters |-> "none"]]

\* n units for sp: the first waiters in the line get one each, the rest is free.
Give(s, sp, n) ==
    LET served == IF n < Len(s.line[sp]) THEN n ELSE Len(s.line[sp])
    IN [s EXCEPT !.avail[sp] = @ + n - served,
                 !.line[sp] = SubSeq(@, served + 1, Len(@)),
                 !.outcome = [t \in Waiters |->
                     IF \E i \in 1..served : s.line[sp][i].who = t
                     THEN "RDY_OK" ELSE @[t]]]

\* t asks for a unit of sp: it gets a free one or joins the line.
Ask(s, t, sp, timed) ==
    IF s.avail[sp] > 0
    THEN [s EXCEPT !.avail[sp] = @ - 1]
    ELSE [s EXCEPT !.line[sp] = Append(@, [who |-> t, timed |-> timed]),
                   !.outcome[t] = "waiting"]

Wait(t, sp) ==
    /\ a.outcome[t] = "none"
    /\ \E timed \in BOOLEAN : a' = Ask(a, t, sp, timed)

Leave(t) ==
    /\ a.outcome[t] \notin {"none", "waiting"}
    /\ a' = [a EXCEPT !.outcome[t] = "none"]

Signal(sp, n) == a' = Give(a, sp, n)

SignalAndWait(t, sp1, sp2) ==
    /\ a.outcome[t] = "none"
    /\ a' = Ask(Give(a, sp1, 1), t, sp2, FALSE)

\* Only a wait limited in time may give up.
GiveUp(sp, i) ==
    /\ a.line[sp][i].timed
    /\ a' = [a EXCEPT !.line[sp] = RemoveAt(@, i),
                      !.outcome[a.line[sp][i].who] = "RDY_TIMEOUT"]

Reset(sp, n) ==
    a' = [a EXCEPT !.avail[sp] = n, !.line[sp] = <<>>,
                   !.outcome = [t \in Waiters |->
                       IF \E i \in 1..Len(a.line[sp]) : a.line[sp][i].who = t
                       THEN "RDY_RESET" ELSE @[t]]]

CountingNext ==
    \/ \E t \in Waiters : Leave(t)
    \/ \E sp \in Sems :
          \/ \E t \in Waiters : Wait(t, sp)
          \/ \E t \in Waiters, sp2 \in Sems : SignalAndWait(t, sp, sp2)
          \/ \E n \in Counts : Signal(sp, n) \/ Reset(sp, n)
          \/ \E i \in 1..Len(a.line[sp]) : GiveUp(sp, i)

CountingSpec == CountingInit /\ [][CountingNext]_a
============================================================================
