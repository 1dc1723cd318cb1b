------------------------------ MODULE ChSched ------------------------------
(***************************************************************************)
(* The scheduler primitives of ChibiOS/RT 2.7 (os/kernel/src/chschd.c and  *)
(* the thread lists of chlists.c) as pure operators on a scheduler state.  *)
(*                                                                         *)
(* A scheduler state s is a record:                                        *)
(*   r_current  the running thread (currp)                                 *)
(*   r_queue    the ready list, highest priority first                     *)
(*   p_state    the state of every thread                                  *)
(*   p_prio     the current (possibly inherited) priority of every thread  *)
(*   p_preempt  the ticks left in the round-robin slice of every thread    *)
(*                                                                         *)
(* Every kernel service runs inside the kernel lock, so a service is one   *)
(* atomic step that composes these operators in the order of the C code.   *)
(***************************************************************************)
EXTENDS Integers, Sequences, FiniteSets

CONSTANTS
    Threads,    \* the application's threads
    Idle,       \* the idle thread: always ready, never sleeps
    HIGHPRIO,   \* highest priority a thread may have
    CH_TIME_QUANTUM,  \* ticks of a round-robin slice, 0: no round robin
    NULL        \* the null pointer

AllThreads == Threads \cup {Idle}
IDLEPRIO == 1
LOWPRIO == 2
Prios == IDLEPRIO..HIGHPRIO
UserPrios == LOWPRIO..HIGHPRIO

ASSUME SchedAssumption ==
    /\ IsFiniteSet(Threads)
    /\ Idle \notin Threads
    /\ NULL \notin AllThreads
    /\ HIGHPRIO \in Nat /\ HIGHPRIO >= LOWPRIO
    /\ CH_TIME_QUANTUM \in Nat

ThreadStates ==
    {"READY", "CURRENT", "SUSPENDED", "WTSEM", "WTMTX", "WTCOND", "SLEEPING",
     "WTEXIT", "WTOREVT", "WTANDEVT", "SNDMSGQ", "SNDMSG", "WTMSG",
     "WTQUEUE", "FINAL"}

SchedStates ==
    [r_current : AllThreads, r_queue : Seq(AllThreads),
     p_state : [AllThreads -> ThreadStates], p_prio : [AllThreads -> Prios],
     p_preempt : [AllThreads -> 0..CH_TIME_QUANTUM]]

----------------------------------------------------------------------------
(* Thread lists. *)

Elems(q) == {q[i] : i \in 1..Len(q)}

\* t placed at position i of the queue q.
PlaceAt(q, i, t) == SubSeq(q, 1, i - 1) \o <<t>> \o SubSeq(q, i, Len(q))

\* The first position of q whose thread has a priority below prio[t]: the scan
\* "cp->p_prio >= tp->p_prio" stops there, at the latest at the list header.
BehindPos(q, prio, t) ==
    CHOOSE i \in 1..Len(q) + 1 :
        /\ \A j \in 1..i - 1 : prio[q[j]] >= prio[t]
        /\ i <= Len(q) => prio[q[i]] < prio[t]

\* The same for the scan "cp->p_prio > otp->p_prio".
AheadPos(q, prio, t) ==
    CHOOSE i \in 1..Len(q) + 1 :
        /\ \A j \in 1..i - 1 : prio[q[j]] > prio[t]
        /\ i <= Len(q) => prio[q[i]] <= prio[t]

\* prio_insert(): behind the threads of the same priority.
prio_insert(q, prio, t) == PlaceAt(q, BehindPos(q, prio, t), t)

\* dequeue(): unlinks t wherever it is in q.
dequeue(q, t) ==
    LET i == CHOOSE i \in 1..Len(q) : q[i] = t
    IN SubSeq(q, 1, i - 1) \o SubSeq(q, i + 1, Len(q))

\* A queue kept in priority order.
SortedByPrio(q, prio) ==
    \A i, j \in 1..Len(q) : i < j => prio[q[i]] >= prio[q[j]]

NoDuplicates(q) == \A i, j \in 1..Len(q) : q[i] = q[j] => i = j

----------------------------------------------------------------------------
(* Scheduler services. *)

\* firstprio(&rlist.r_queue); the list header has priority NOPRIO = 0.
firstprio(s) == IF s.r_queue = <<>> THEN 0 ELSE s.p_prio[Head(s.r_queue)]

chSchReadyI(s, t) ==
    [s EXCEPT !.p_state[t] = "READY",
              !.r_queue = prio_insert(@, s.p_prio, t)]

\* The head of the ready list becomes current.
PickFirst(s) ==
    LET n == Head(s.r_queue)
    IN [s EXCEPT !.r_current = n, !.r_queue = Tail(@), !.p_state[n] = "CURRENT"]

chSchGoSleepS(s, newstate) ==
    PickFirst([s EXCEPT !.p_state[s.r_current] = newstate,
                        !.p_preempt[s.r_current] = CH_TIME_QUANTUM])

\* Faulty: the woken thread never takes the CPU at once.
WakeupAsReady(s, t) == chSchReadyI(s, t)

chSchWakeupS(s, t) ==
    IF s.p_prio[t] <= s.p_prio[s.r_current]
    THEN chSchReadyI(s, t)
    ELSE [chSchReadyI(s, s.r_current) EXCEPT !.r_current = t,
                                             !.p_state[t] = "CURRENT"]

chSchIsRescRequiredI(s) == firstprio(s) > s.p_prio[s.r_current]

chSchDoRescheduleBehind(s) ==
    LET otp == s.r_current
    IN chSchReadyI([PickFirst(s) EXCEPT !.p_preempt[otp] = CH_TIME_QUANTUM], otp)

chSchDoRescheduleAhead(s) ==
    LET otp == s.r_current
        n == PickFirst(s)
    IN [n EXCEPT !.p_state[otp] = "READY",
                 !.r_queue = PlaceAt(@, AheadPos(@, s.p_prio, otp), otp)]

chSchRescheduleS(s) ==
    IF chSchIsRescRequiredI(s) THEN chSchDoRescheduleAhead(s) ELSE s

chSchIsPreemptionRequired(s) ==
    IF CH_TIME_QUANTUM > 0 /\ s.p_preempt[s.r_current] = 0
    THEN firstprio(s) >= s.p_prio[s.r_current]
    ELSE firstprio(s) > s.p_prio[s.r_current]

chSchDoReschedule(s) ==
    IF CH_TIME_QUANTUM > 0 /\ s.p_preempt[s.r_current] = 0
    THEN chSchDoRescheduleBehind(s)
    ELSE chSchDoRescheduleAhead(s)

\* The epilogue the port runs when the outermost interrupt returns.
IrqEpilogue(s) ==
    IF chSchIsPreemptionRequired(s) THEN chSchDoReschedule(s) ELSE s

\* Faulty: the slice never ends.
EndlessSlice(s) == s

\* The tick takes one off the slice of the running thread.
ConsumeSlice(s) ==
    [s EXCEPT !.p_preempt[s.r_current] = IF @ > 0 THEN @ - 1 ELSE 0]

\* chSchDoYieldS(); nothing happens when nobody else may run.
chSchDoYieldS(s) ==
    IF firstprio(s) >= s.p_prio[s.r_current] THEN chSchDoRescheduleBehind(s) ELSE s

\* A chain of chSchReadyI() calls, in the order of the sequence ts.
ReadyAll(s, ts) ==
    LET r[i \in 0..Len(ts)] ==
            IF i = 0 THEN s ELSE chSchReadyI(r[i - 1], ts[i])
    IN r[Len(ts)]

----------------------------------------------------------------------------
(* What the scheduler promises, stated on a scheduler state. *)

Runnable == {"READY", "CURRENT"}

\* The ready list holds exactly the READY threads, once each, and exactly one
\* thread is CURRENT.
ReadyListMembers(s) ==
    /\ NoDuplicates(s.r_queue)
    /\ Elems(s.r_queue) = {t \in AllThreads : s.p_state[t] = "READY"}
    /\ \A t \in AllThreads : s.p_state[t] = "CURRENT" <=> t = s.r_current

\* ... in priority order.
ReadyListOK(s) ==
    /\ ReadyListMembers(s)
    /\ SortedByPrio(s.r_queue, s.p_prio)

\* No ready thread has a priority above the running one.
HighestRuns(s) == \A t \in Elems(s.r_queue) : s.p_prio[t] <= s.p_prio[s.r_current]
============================================================================
