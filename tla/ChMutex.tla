------------------------------ MODULE ChMutex ------------------------------
(***************************************************************************)
(* Mutexes with full priority inheritance: os/kernel/src/chmtx.c, with     *)
(* chThdSetPriority() of chthreads.c, the sleeping threads a timer readies *)
(* and the preemption at the end of an interrupt.                          *)
(*                                                                         *)
(* The machine has one core. A service runs inside the kernel lock and is  *)
(* one step; interrupts arrive between two services (isr becomes TRUE) and *)
(* the thread level continues when the interrupt epilogue has run.         *)
(***************************************************************************)
EXTENDS ChSched

CONSTANTS
    Mutexes,      \* the mutex objects
    CondVars,     \* the condition variables (used by the extending module)
    InitPrio,     \* the priority every thread was created with
    SetPrios      \* the priorities threads pass to chThdSetPriority()

WaitObjects == Mutexes \cup CondVars

ASSUME MutexAssumption ==
    /\ IsFiniteSet(Mutexes)
    /\ Mutexes \cap CondVars = {}
    /\ NULL \notin WaitObjects
    /\ InitPrio \in [Threads -> UserPrios]
    /\ SetPrios \subseteq UserPrios

VARIABLES
    k,            \* the scheduler state
    isr,          \* an interrupt is being served
    p_realprio,   \* the own, non inherited, priority of every thread
    p_mtxlist,    \* the mutexes a thread owns, last locked first
    m_owner,      \* the owner of every mutex, or NULL
    waitq,        \* the threads queued on every mutex and condition variable
    wtobjp        \* the object a thread waits for (p_u.wtobjp)

mtxvars == <<p_realprio, p_mtxlist, m_owner, waitq, wtobjp>>
vars == <<k, isr, mtxvars>>

currp == k.r_current

MutexTypeOK ==
    /\ k \in SchedStates
    /\ isr \in BOOLEAN
    /\ p_realprio \in [AllThreads -> Prios]
    /\ p_mtxlist \in [AllThreads -> Seq(Mutexes)]
    /\ m_owner \in [Mutexes -> AllThreads \cup {NULL}]
    /\ waitq \in [WaitObjects -> Seq(AllThreads)]
    /\ wtobjp \in [AllThreads -> WaitObjects \cup {NULL}]

PrioAtStart == [t \in AllThreads |-> IF t = Idle THEN IDLEPRIO ELSE InitPrio[t]]

\* All the application's threads sleep, the idle thread runs.
Init ==
    /\ k = [r_current |-> Idle,
            r_queue   |-> <<>>,
            p_state   |-> [t \in AllThreads |->
                             IF t = Idle THEN "CURRENT" ELSE "SLEEPING"],
            p_prio    |-> PrioAtStart,
            p_preempt |-> [t \in AllThreads |-> CH_TIME_QUANTUM]]
    /\ isr = FALSE
    /\ p_realprio = PrioAtStart
    /\ p_mtxlist = [t \in AllThreads |-> <<>>]
    /\ m_owner = [m \in Mutexes |-> NULL]
    /\ waitq = [o \in WaitObjects |-> <<>>]
    /\ wtobjp = [t \in AllThreads |-> NULL]

\* The application's code is running: no interrupt, not the idle thread.
ThreadCode == ~isr /\ currp # Idle

----------------------------------------------------------------------------
(* chMtxLockS() and chMtxTryLockS() *)

\* Faulty turns of the loop, no boost at all; a boost that
\* leaves the thread where it is in its queue.
NoBoost(b, prio) == [b EXCEPT !.tp = NULL]
BoostInPlace(b, prio) ==
    IF b.tp = NULL \/ b.s.p_prio[b.tp] >= prio
    THEN [b EXCEPT !.tp = NULL]
    ELSE [b EXCEPT !.s.p_prio[b.tp] = prio,
                   !.tp = IF b.s.p_state[b.tp] = "WTMTX" THEN m_owner[wtobjp[b.tp]]
                          ELSE NULL]

\* One turn of the priority inheritance loop. b.tp is the thread the loop
\* looks at, NULL when it has ended; b.s and b.q are the scheduler state and
\* the wait queues so far. prio is the priority of the requesting thread.
BoostStep(b, prio) ==
    LET t  == b.tp
        o  == wtobjp[t]
        s1 == [b.s EXCEPT !.p_prio[t] = prio]
        q1 == [b.q EXCEPT ![o] = prio_insert(dequeue(@, t), s1.p_prio, t)]
    IN IF t = NULL \/ b.s.p_prio[t] >= prio
       THEN [b EXCEPT !.tp = NULL]
       ELSE CASE b.s.p_state[t] = "WTMTX" ->
                   [s |-> s1, q |-> q1, tp |-> m_owner[o]]
              [] b.s.p_state[t] = "WTCOND" ->
                   [s |-> s1, q |-> q1, tp |-> NULL]
              [] b.s.p_state[t] = "READY" ->
                   [s |-> chSchReadyI([s1 EXCEPT !.r_queue = dequeue(@, t)], t),
                    q |-> b.q, tp |-> NULL]
              [] OTHER ->
                   [s |-> s1, q |-> b.q, tp |-> NULL]

\* The loop: it boosts every thread at most once, so it has ended after as
\* many turns as there are threads.
Boost(owner, prio) ==
    LET b[i \in 0..Cardinality(AllThreads)] ==
            IF i = 0 THEN [s |-> k, q |-> waitq, tp |-> owner]
                     ELSE BoostStep(b[i - 1], prio)
    IN b[Cardinality(AllThreads)]

\* The running thread takes the free mutex m.
Acquire(m) ==
    /\ m_owner' = [m_owner EXCEPT ![m] = currp]
    /\ p_mtxlist' = [p_mtxlist EXCEPT ![currp] = <<m>> \o @]
    /\ UNCHANGED <<k, p_realprio, waitq, wtobjp>>

\* The running thread queues on the owned mutex m and sleeps.
Block(m) ==
    LET b == Boost(m_owner[m], k.p_prio[currp])
    IN /\ waitq' = [b.q EXCEPT ![m] = prio_insert(@, b.s.p_prio, currp)]
       /\ wtobjp' = [wtobjp EXCEPT ![currp] = m]
       /\ k' = chSchGoSleepS(b.s, "WTMTX")
       /\ UNCHANGED <<p_realprio, p_mtxlist, m_owner>>

chMtxLockS(m) ==
    \/ m_owner[m] = NULL /\ Acquire(m)
    \/ m_owner[m] # NULL /\ Block(m)

Lock(m) ==
    /\ ThreadCode
    /\ chMtxLockS(m)
    /\ UNCHANGED isr

\* A failing chMtxTryLock() changes nothing.
TryLock(m) ==
    /\ ThreadCode
    /\ m_owner[m] = NULL
    /\ Acquire(m)
    /\ UNCHANGED isr

----------------------------------------------------------------------------
(* chMtxUnlock(), chMtxUnlockS() and chMtxUnlockAll() *)

HeadPrio(m) == IF waitq[m] = <<>> THEN 0 ELSE k.p_prio[Head(waitq[m])]

\* Faulty: the waiters of the kept mutexes forgotten.
FallbackToOwn == p_realprio[currp]

\* The priority the running thread falls back to when it gives up the mutex on
\* top of its list: its own, or that of the first waiter of a mutex it keeps.
FallbackPrio ==
    LET kept == Tail(p_mtxlist[currp])
        own  == {p_realprio[currp]} \cup {HeadPrio(kept[i]) : i \in 1..Len(kept)}
    IN CHOOSE p \in own : \A q \in own : q <= p

\* Faulty hand-overs: to the last waiter instead of the first, and without the
\* new owner's list.
HandOverToLast(m) ==
    /\ m_owner' = [m_owner EXCEPT ![m] =
                      IF waitq[m] = <<>> THEN NULL ELSE waitq[m][Len(waitq[m])]]
    /\ p_mtxlist' = [t \in AllThreads |->
          IF t = currp THEN Tail(p_mtxlist[t])
          ELSE IF t = m_owner'[m] THEN <<m>> \o p_mtxlist[t] ELSE p_mtxlist[t]]
HandOverUnlisted(m) ==
    /\ m_owner' = [m_owner EXCEPT ![m] =
                      IF waitq[m] = <<>> THEN NULL ELSE Head(waitq[m])]
    /\ p_mtxlist' = [p_mtxlist EXCEPT ![currp] = Tail(@)]

\* The top mutex m goes to its first waiter tp, to nobody when none waits.
HandOver(m) ==
    IF waitq[m] = <<>>
    THEN /\ m_owner' = [m_owner EXCEPT ![m] = NULL]
         /\ p_mtxlist' = [p_mtxlist EXCEPT ![currp] = Tail(@)]
    ELSE LET tp == Head(waitq[m])
         IN /\ m_owner' = [m_owner EXCEPT ![m] = tp]
            /\ p_mtxlist' = [p_mtxlist EXCEPT ![currp] = Tail(@),
                                              ![tp] = <<m>> \o @]

\* Faulty: the new owner stays in the queue.
QueuedStill(m) == waitq

\* The wait queues and the scheduler state chMtxUnlockS() leaves behind, before
\* tp is woken.
Unqueued(m) ==
    IF waitq[m] = <<>> THEN waitq ELSE [waitq EXCEPT ![m] = Tail(@)]

Unboosted(m) ==
    IF waitq[m] = <<>> THEN k ELSE [k EXCEPT !.p_prio[currp] = FallbackPrio]

Unlock ==
    /\ ThreadCode
    /\ p_mtxlist[currp] # <<>>
    /\ LET ump == Head(p_mtxlist[currp])
       IN /\ HandOver(ump)
          /\ waitq' = Unqueued(ump)
          /\ k' = IF waitq[ump] = <<>> THEN k
                  ELSE chSchWakeupS(Unboosted(ump), Head(waitq[ump]))
    /\ UNCHANGED <<isr, p_realprio, wtobjp>>

\* The first waiters of the mutexes ms, made ready in the order of the list.
ReadyHeads(s, ms) ==
    LET r[i \in 0..Len(ms)] ==
            IF i = 0 THEN s
            ELSE IF waitq[ms[i]] = <<>> THEN r[i - 1]
                 ELSE chSchReadyI(r[i - 1], Head(waitq[ms[i]]))
    IN r[Len(ms)]

UnlockAll ==
    /\ ThreadCode
    /\ p_mtxlist[currp] # <<>>
    /\ LET mine == Elems(p_mtxlist[currp])
           next == [m \in mine |-> IF waitq[m] = <<>> THEN NULL ELSE Head(waitq[m])]
       IN /\ m_owner' = [m \in Mutexes |-> IF m \in mine THEN next[m] ELSE m_owner[m]]
          /\ p_mtxlist' = [t \in AllThreads |->
                IF t = currp THEN <<>>
                ELSE IF \E m \in mine : next[m] = t
                     THEN <<CHOOSE m \in mine : next[m] = t>> \o p_mtxlist[t]
                     ELSE p_mtxlist[t]]
          /\ waitq' = [o \in WaitObjects |->
                IF o \in mine /\ waitq[o] # <<>> THEN Tail(waitq[o]) ELSE waitq[o]]
    /\ k' = chSchRescheduleS([ReadyHeads(k, p_mtxlist[currp])
                                EXCEPT !.p_prio[currp] = p_realprio[currp]])
    /\ UNCHANGED <<isr, p_realprio, wtobjp>>

----------------------------------------------------------------------------
(* Threads *)

\* Faulty: an inherited priority is kept.
SetPriorityUnderBoost(newprio) ==
    /\ ThreadCode
    /\ k' = chSchRescheduleS([k EXCEPT !.p_prio[currp] = IF newprio > @ THEN newprio ELSE @])
    /\ p_realprio' = [p_realprio EXCEPT ![currp] = newprio]
    /\ UNCHANGED <<isr, p_mtxlist, m_owner, waitq, wtobjp>>

chThdSetPriority(newprio) ==
    /\ ThreadCode
    /\ k' = chSchRescheduleS(
               IF k.p_prio[currp] = p_realprio[currp] \/ newprio > k.p_prio[currp]
               THEN [k EXCEPT !.p_prio[currp] = newprio] ELSE k)
    /\ p_realprio' = [p_realprio EXCEPT ![currp] = newprio]
    /\ UNCHANGED <<isr, p_mtxlist, m_owner, waitq, wtobjp>>

chThdSleep ==
    /\ ThreadCode
    /\ k' = chSchGoSleepS(k, "SLEEPING")
    /\ UNCHANGED <<isr, mtxvars>>

\* The timer interrupt ends the sleep of t: wakeup() of chschd.c.
WakeSleeper(t) ==
    /\ k.p_state[t] = "SLEEPING"
    /\ k' = chSchReadyI(k, t)
    /\ isr' = TRUE
    /\ UNCHANGED mtxvars

\* The last interrupt returns to thread level.
IrqExit ==
    /\ isr
    /\ k' = IrqEpilogue(k)
    /\ isr' = FALSE
    /\ UNCHANGED mtxvars

MutexNext ==
    \/ \E m \in Mutexes : Lock(m) \/ TryLock(m)
    \/ Unlock
    \/ UnlockAll
    \/ \E p \in SetPrios : chThdSetPriority(p)
    \/ chThdSleep
    \/ \E t \in Threads : WakeSleeper(t)
    \/ IrqExit

MutexSpec == Init /\ [][MutexNext]_vars

----------------------------------------------------------------------------
(* Properties *)

\* The owner field and the per-thread lists of owned mutexes agree, and a free
\* mutex has no waiters: chMtxUnlock() hands the mutex over instead of freeing
\* it, and a thread leaves the queue only as the owner (the two assertions of
\* chMtxLockS() after the sleep, chmtx.c:171-172).
Ownership ==
    /\ \A t \in AllThreads : NoDuplicates(p_mtxlist[t])
    /\ \A m \in Mutexes, t \in AllThreads :
          m_owner[m] = t <=> m \in Elems(p_mtxlist[t])
    /\ \A m \in Mutexes : m_owner[m] = NULL => waitq[m] = <<>>

\* A thread is queued on an object exactly while its state and its wtobjp say
\* so, and only once.
Queued ==
    \A o \in WaitObjects :
        /\ NoDuplicates(waitq[o])
        /\ Elems(waitq[o]) =
              {t \in AllThreads :
                 /\ k.p_state[t] = IF o \in Mutexes THEN "WTMTX" ELSE "WTCOND"
                 /\ wtobjp[t] = o}

\* Every queue stays in priority order while priority inheritance changes the
\* priority of threads that already wait in it.
QueuesSorted ==
    /\ ReadyListOK(k)
    /\ \A o \in WaitObjects : SortedByPrio(waitq[o], k.p_prio)

\* While the application's code runs, no ready thread has a higher priority
\* than the running one, whatever priority the services just gave or took.
HighestPriorityRuns == ~isr => HighestRuns(k)

\* Full priority inheritance (chmtx.c:54-58), the lower bound: a thread that
\* holds a mutex, directly or through a chain of blocked owners, never runs at
\* a lower priority than a thread queued on that mutex.
InheritsFromWaiters ==
    \A m \in Mutexes : \A w \in Elems(waitq[m]) :
        k.p_prio[m_owner[m]] >= k.p_prio[w]

\* ... and the upper bound: no thread keeps an inherited priority longer than
\* it holds the mutex it inherited it through.
InheritsNothingElse ==
    \A t \in AllThreads :
        \/ k.p_prio[t] = p_realprio[t]
        \/ \E m \in Elems(p_mtxlist[t]) : \E w \in Elems(waitq[m]) :
              k.p_prio[t] = k.p_prio[w]

\* A mutex that passes from its owner to another thread goes to a waiter, and
\* no other waiter has a higher priority.
HandOffToHighest ==
    [][\A m \in Mutexes :
         (m_owner[m] # m_owner'[m] /\ m_owner'[m] # NULL) =>
            IF m_owner[m] = NULL
            THEN waitq[m] = <<>> /\ m_owner'[m] = currp
            ELSE /\ m_owner'[m] \in Elems(waitq[m])
                 /\ \A w \in Elems(waitq[m]) :
                      k.p_prio[w] <= k.p_prio[m_owner'[m]]]_vars
============================================================================
