------------------------------ MODULE ChSemOps ------------------------------
(***************************************************************************)
(* The counting semaphores of os/kernel/src/chsem.c and the timed sleep of *)
(* chschd.c as operators on a kernel state, so that services built on a    *)
(* semaphore can compose them. A kernel state w is a record:               *)
(*   k         the scheduler state of ChSched                              *)
(*   s_cnt     the counter of every semaphore, negative: threads wait      *)
(*   s_queue   the threads queued on every semaphore, in order of arrival  *)
(*   p_u       the union p_u of every thread: the semaphore it waits for   *)
(*             (wtobjp), then its wakeup message (rdymsg)                  *)
(*   vt        the timer of a timed sleep, a variable on the stack of the  *)
(*             sleeping thread: "off", "armed", or "fired" between its     *)
(*             removal from the timer list and its callback, which runs    *)
(*             with the kernel unlocked                                    *)
(*   call      the kernel call a thread will finish when it runs again     *)
(***************************************************************************)
EXTENDS ChSched, SequencesExt

CONSTANTS Sems, Calls

SemAssumption == NULL \notin Sems

RdyMsgs == {"RDY_OK", "RDY_TIMEOUT", "RDY_RESET"}
TimerStates == {"off", "armed", "fired"}

\* A thread that resumes inside a kernel call still holds the kernel lock: it
\* finishes the call before any other code can run.
Locked(w) == w.call[w.k.r_current] # "none"

\* t becomes ready with the wakeup message msg.
ReadyMsg(w, t, msg) ==
    [w EXCEPT !.k = chSchReadyI(@, t), !.p_u[t] = msg]

\* ... and runs at once when its priority is above that of the running thread.
WakeupMsg(w, t, msg) ==
    [w EXCEPT !.k = chSchWakeupS(@, t), !.p_u[t] = msg]

Reschedule(w) == [w EXCEPT !.k = chSchRescheduleS(@)]

----------------------------------------------------------------------------
(* Semaphores *)

\* The first waiter leaves the queue of sp with the unit just signalled.
Unqueue(w, sp) ==
    [w EXCEPT !.s_cnt[sp] = @ + 1, !.s_queue[sp] = Tail(@)]

chSemSignalI(w, sp) ==
    IF w.s_cnt[sp] + 1 <= 0
    THEN ReadyMsg(Unqueue(w, sp), Head(w.s_queue[sp]), "RDY_OK")
    ELSE [w EXCEPT !.s_cnt[sp] = @ + 1]

chSemSignal(w, sp) ==
    IF w.s_cnt[sp] + 1 <= 0
    THEN WakeupMsg(Unqueue(w, sp), Head(w.s_queue[sp]), "RDY_OK")
    ELSE [w EXCEPT !.s_cnt[sp] = @ + 1]

chSemAddCounterI(w, sp, n) ==
    LET r[i \in 0..n] == IF i = 0 THEN w ELSE chSemSignalI(r[i - 1], sp)
    IN r[n]

\* Faulty: the loop of chSemResetI() stops one waiter early.
ResetAllButOne(w, sp, n) ==
    LET kept == IF w.s_cnt[sp] < 0 THEN <<Head(w.s_queue[sp])>> ELSE <<>>
    IN FoldSeq(LAMBDA t, v : ReadyMsg(v, t, "RDY_RESET"),
               [w EXCEPT !.s_cnt[sp] = n, !.s_queue[sp] = kept],
               IF kept = <<>> THEN <<>> ELSE Tail(w.s_queue[sp]))

\* The waiters leave last-in first-out, as many as the counter says.
chSemResetI(w, sp, n) ==
    LET waiters == IF w.s_cnt[sp] < 0 THEN -w.s_cnt[sp] ELSE 0
        r[i \in 0..waiters] ==
            IF i = 0 THEN [w EXCEPT !.s_cnt[sp] = n]
            ELSE ReadyMsg([r[i - 1] EXCEPT !.s_queue[sp] = Front(@)],
                          Last(r[i - 1].s_queue[sp]), "RDY_RESET")
    IN r[waiters]

\* The running thread takes a unit.
chSemFastWaitI(w, sp) == [w EXCEPT !.s_cnt[sp] = @ - 1]

\* The running thread queues on sp and sleeps inside the call c, with a timer
\* when the wait is timed.
SleepOnSem(w, sp, timed, c) ==
    LET t == w.k.r_current
    IN [w EXCEPT !.s_cnt[sp] = @ - 1,
                 !.p_u[t] = sp,
                 !.s_queue[sp] = Append(@, t),
                 !.vt[t] = IF timed THEN "armed" ELSE @,
                 !.call[t] = c,
                 !.k = chSchGoSleepS(@, "WTSEM")]

chThdSleepS(w) ==
    LET t == w.k.r_current
    IN [w EXCEPT !.vt[t] = "armed", !.call[t] = "sleep",
                 !.k = chSchGoSleepS(@, "SLEEPING")]

----------------------------------------------------------------------------
(* Timed sleeps *)

\* The tick takes the timer of t off the list, then unlocks the kernel; the next
\* timer follows after the callback.
MayExpire(w, t) == w.vt[t] = "armed" /\ \A u \in AllThreads : w.vt[u] # "fired"
Expire(w, t) == [w EXCEPT !.vt[t] = "fired"]

\* Faulty callbacks: the early return forgotten, the waiter left asleep.
wakeupAlways(w, t) ==
    LET o == w.p_u[t]
        off == [w EXCEPT !.vt[t] = "off"]
    IN IF w.k.p_state[t] = "WTSEM"
       THEN ReadyMsg([off EXCEPT !.s_cnt[o] = @ + 1, !.s_queue[o] = dequeue(@, t)],
                     t, "RDY_TIMEOUT")
       ELSE [off EXCEPT !.p_u[t] = "RDY_TIMEOUT",
                        !.k = IF w.k.p_state[t] = "READY" THEN @ ELSE chSchReadyI(@, t)]
wakeupSleepers(w, t) ==
    LET off == [w EXCEPT !.vt[t] = "off"]
    IN IF w.k.p_state[t] = "SLEEPING" THEN ReadyMsg(off, t, "RDY_TIMEOUT") ELSE off

\* The timer callback wakeup().
wakeup(w, t) ==
    LET o == w.p_u[t]
        off == [w EXCEPT !.vt[t] = "off"]
    IN CASE w.k.p_state[t] = "READY" -> off
         [] w.k.p_state[t] = "WTSEM" ->
              ReadyMsg([off EXCEPT !.s_cnt[o] = @ + 1, !.s_queue[o] = dequeue(@, t)],
                       t, "RDY_TIMEOUT")
         [] OTHER -> ReadyMsg(off, t, "RDY_TIMEOUT")

\* Faulty: the timer stays armed when the thread resumes.
ResumeArmed(w) == [w EXCEPT !.call[w.k.r_current] = "none"]

\* The running thread leaves the timed sleep: its timer is disarmed.
Resume(w) ==
    LET t == w.k.r_current
    IN [w EXCEPT !.call[t] = "none",
                 !.vt[t] = IF @ = "armed" THEN "off" ELSE @]

----------------------------------------------------------------------------

KernelStates ==
    [k : SchedStates, s_cnt : [Sems -> Int], s_queue : [Sems -> Seq(AllThreads)],
     p_u : [AllThreads -> Sems \cup RdyMsgs \cup {NULL}],
     vt : [AllThreads -> TimerStates], call : [AllThreads -> Calls]]

\* All threads sleep with a timer armed, the idle thread runs.
AllAsleep(prio, counts) ==
    [k |-> [r_current |-> Idle, r_queue |-> <<>>,
            p_state |-> [t \in AllThreads |-> IF t = Idle THEN "CURRENT" ELSE "SLEEPING"],
            p_prio |-> [t \in AllThreads |-> IF t = Idle THEN IDLEPRIO ELSE prio[t]],
            p_preempt |-> [t \in AllThreads |-> CH_TIME_QUANTUM]],
     s_cnt |-> counts,
     s_queue |-> [sp \in Sems |-> <<>>],
     p_u |-> [t \in AllThreads |-> NULL],
     vt |-> [t \in AllThreads |-> IF t = Idle THEN "off" ELSE "armed"],
     call |-> [t \in AllThreads |-> IF t = Idle THEN "none" ELSE "sleep"]]

\* The counter and the queue of a semaphore agree: the assertion at the head of
\* every service of chsem.c, with the number of waiters.
SemConsistent(w) ==
    \A sp \in Sems :
        /\ Len(w.s_queue[sp]) = IF w.s_cnt[sp] < 0 THEN -w.s_cnt[sp] ELSE 0
        /\ NoDuplicates(w.s_queue[sp])
        /\ Elems(w.s_queue[sp]) =
              {t \in AllThreads : w.k.p_state[t] = "WTSEM" /\ w.p_u[t] = sp}

\* A timer is on the list only while its thread is inside the sleep whose stack
\* frame holds it.
TimersOnLiveStacks(w) == \A t \in AllThreads : w.vt[t] # "off" => w.call[t] # "none"
============================================================================
