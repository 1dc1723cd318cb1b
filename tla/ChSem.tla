------------------------------- MODULE ChSem -------------------------------
(***************************************************************************)
(* Counting semaphores, os/kernel/src/chsem.c: threads wait with and       *)
(* without a timeout, signal, reset and signal-and-wait, interrupt         *)
(* handlers signal, add to the counter and reset, and the timers of timed  *)
(* waits expire between any two of these steps.                            *)
(*                                                                         *)
(* A service up to the context switch is one step, what it does when its   *)
(* thread runs again is the step ReturnFromCall, before which nothing else *)
(* can run: the thread resumes with the kernel locked.                     *)
(***************************************************************************)
EXTENDS ChSemKernel

CONSTANTS
    InitCounts,   \* the counter every semaphore was initialised with
    ResetCounts,  \* the counters chSemReset() is called with
    MaxCnt        \* bound: nobody signals a semaphore with this counter

ASSUME SemBounds ==
    /\ SemAssumption
    /\ {"none", "sleep", "semwait"} \subseteq Calls
    /\ InitPrio \in [Threads -> UserPrios]
    /\ MaxCnt \in Nat
    /\ InitCounts \in [Sems -> 0..MaxCnt]
    /\ ResetCounts \subseteq 0..MaxCnt

SemTypeOK ==
    /\ w \in KernelStates
    /\ \A sp \in Sems : w.s_cnt[sp] \in -Cardinality(Threads)..MaxCnt
    /\ isr \in BOOLEAN

SemInit == KernelInit(InitCounts)

----------------------------------------------------------------------------
(* Threads *)

\* chSemWait(), not timed, and chSemWaitTimeout() with a time other than
\* TIME_IMMEDIATE.
chSemWaitTimeout(sp, timed) ==
    /\ ThreadCode
    /\ \/ /\ w.s_cnt[sp] - 1 >= 0
          /\ w' = chSemFastWaitI(w, sp)
       \/ /\ w.s_cnt[sp] - 1 < 0
          /\ w' = SleepOnSem(w, sp, timed, "semwait")
    /\ UNCHANGED isr

\* chSemWaitTimeout() with TIME_IMMEDIATE; one that fails restores the counter
\* and changes nothing.
chSemWaitImmediate(sp) ==
    /\ ThreadCode
    /\ w.s_cnt[sp] - 1 >= 0
    /\ w' = chSemFastWaitI(w, sp)
    /\ UNCHANGED isr

SignalFromThread(sp) ==
    /\ ThreadCode
    /\ w.s_cnt[sp] < MaxCnt
    /\ w' = chSemSignal(w, sp)
    /\ UNCHANGED isr

chSemReset(sp, n) ==
    /\ ThreadCode
    /\ w' = Reschedule(chSemResetI(w, sp, n))
    /\ UNCHANGED isr

chSemSignalWait(sps, spw) ==
    /\ ThreadCode
    /\ w.s_cnt[sps] < MaxCnt
    /\ LET signalled == chSemSignalI(w, sps)
       IN \/ /\ signalled.s_cnt[spw] - 1 < 0
             /\ w' = SleepOnSem(signalled, spw, FALSE, "semwait")
          \/ /\ signalled.s_cnt[spw] - 1 >= 0
             /\ w' = Reschedule(chSemFastWaitI(signalled, spw))
    /\ UNCHANGED isr

\* The running thread continues inside chSchGoSleepTimeoutS() or behind
\* chSchGoSleepS() and returns from the wait.
ReturnFromCall ==
    /\ Locked(w)
    /\ w' = Resume(w)
    /\ UNCHANGED isr

----------------------------------------------------------------------------
(* Interrupts *)

SignalFromIsr(sp, n) ==
    /\ IsrCode
    /\ w.s_cnt[sp] + n <= MaxCnt
    /\ w' = chSemAddCounterI(w, sp, n)
    /\ isr' = TRUE

ResetFromIsr(sp, n) ==
    /\ IsrCode
    /\ w' = chSemResetI(w, sp, n)
    /\ isr' = TRUE

SemNext ==
    \/ \E sp \in Sems, timed \in BOOLEAN : chSemWaitTimeout(sp, timed)
    \/ \E sp \in Sems : chSemWaitImmediate(sp) \/ SignalFromThread(sp)
    \/ \E sp \in Sems, n \in ResetCounts : chSemReset(sp, n) \/ ResetFromIsr(sp, n)
    \/ \E sps, spw \in Sems : chSemSignalWait(sps, spw)
    \/ chThdSleep
    \/ ReturnFromCall
    \/ \E sp \in Sems, n \in 1..2 : SignalFromIsr(sp, n)
    \/ \E t \in Threads : TimerExpires(t) \/ TimerCallback(t)
    \/ IrqExit

SemSpec == SemInit /\ [][SemNext]_kernelvars

\* The tick interrupt comes, so that a timer which stays on the list expires,
\* however often shorter ones expire before it; its callback and the epilogue
\* run, and a resumed thread finishes its kernel call.
SemFairness ==
    /\ WF_kernelvars(ReturnFromCall)
    /\ WF_kernelvars(IrqExit)
    /\ \A t \in Threads : SF_kernelvars(TimerExpires(t)) /\ WF_kernelvars(TimerCallback(t))

SemLiveSpec == SemSpec /\ SemFairness

----------------------------------------------------------------------------
(* Properties *)

\* Counter and queue agree between any two steps, for every semaphore
\* (the assertions of chsem.c, e.g. chsem.c:182-185).
CountersMatchQueues == SemTypeOK /\ SemConsistent(w)

\* No timer outlives the call whose stack frame it lies in (chschd.c:188-192).
NoDanglingTimer == TimersOnLiveStacks(w)

\* What the unfinished wait of every thread has come to.
outcome(v) ==
    [t \in Threads |->
        IF v.call[t] # "semwait" THEN "none"
        ELSE IF v.k.p_state[t] = "WTSEM" THEN "waiting" ELSE v.p_u[t]]

\* The waiters of sp, each with whether a timer limits its wait.
line(v, sp) ==
    [i \in 1..Len(v.s_queue[sp]) |->
        [who |-> v.s_queue[sp][i], timed |-> v.vt[v.s_queue[sp][i]] # "off"]]

\* The kernel state v as its users see it.
Promised(v) ==
    [avail   |-> [sp \in Sems |-> IF v.s_cnt[sp] < 0 THEN 0 ELSE v.s_cnt[sp]],
     line    |-> [sp \in Sems |-> line(v, sp)],
     outcome |-> outcome(v)]

Promise == INSTANCE CountingSem WITH
    Waiters <- Threads, Counts <- ResetCounts \cup (1..2), a <- Promised(w)

\* The semaphores are counting semaphores: no unit is lost or doubled when a
\* signal, a reset and the expiry of a timed wait meet, units are granted first
\* come first served, and only a wait limited in time times out.
CountingSemaphore == Promise!CountingSpec

\* A wait with a timeout ends, whatever the others do.
TimedWaitsEnd ==
    \A t \in Threads :
        (w.k.p_state[t] = "WTSEM" /\ w.vt[t] = "armed") ~> (w.k.p_state[t] # "WTSEM")
============================================================================
