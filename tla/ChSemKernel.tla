---------------------------- MODULE ChSemKernel ----------------------------
(***************************************************************************)
(* What every system of threads with semaphores has: threads that sleep    *)
(* for a time, interrupts, the tick that expires the timers of timed       *)
(* sleeps, and the epilogue of the outermost interrupt.                    *)
(***************************************************************************)
EXTENDS ChSemOps

CONSTANT InitPrio   \* the priority of every thread

VARIABLES
    w,        \* the kernel state
    isr       \* an interrupt is being served

kernelvars == <<w, isr>>

currp == w.k.r_current

KernelInit(counts) ==
    /\ w = AllAsleep(InitPrio, counts)
    /\ isr = FALSE

\* What may run between two kernel services: a thread, and an interrupt handler.
ThreadCode == ~isr /\ ~Locked(w) /\ currp # Idle
IsrCode == ~Locked(w)

chThdSleep ==
    /\ ThreadCode
    /\ w' = chThdSleepS(w)
    /\ UNCHANGED isr

TimerExpires(t) ==
    /\ IsrCode
    /\ MayExpire(w, t)
    /\ w' = Expire(w, t)
    /\ isr' = TRUE

TimerCallback(t) ==
    /\ w.vt[t] = "fired"
    /\ w' = wakeup(w, t)
    /\ UNCHANGED isr

IrqExit ==
    /\ isr
    /\ \A t \in AllThreads : w.vt[t] # "fired"
    /\ w' = [w EXCEPT !.k = IrqEpilogue(@)]
    /\ isr' = FALSE
============================================================================
