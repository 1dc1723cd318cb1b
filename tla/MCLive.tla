------------------------------- MODULE MCLive -------------------------------
(***************************************************************************)
(* Three applications of the kernel for which something must eventually    *)
(* happen; the first state chooses one of them.                            *)
(*   "inversion"  the threads lock two mutexes in one order;               *)
(*   "monitor"    two consumers wait for items in a monitor, a producer of *)
(*                lower priority adds them and broadcasts;                 *)
(*   "equals"     threads compute, sleep, yield, and move to one priority, *)
(*                while the timer ticks.                                   *)
(***************************************************************************)
EXTENDS MCCond

CONSTANT MaxItems     \* bound: the producer adds up to so many items

VARIABLES
    app,     \* the application
    items,   \* the monitor's items, guarded by m1
    told     \* the producer has broadcast since it added an item

livevars == <<allvars, app, items, told>>

KernelStep(A) == ~Locked /\ A /\ UNCHANGED condvars

----------------------------------------------------------------------------
(* "inversion": no cycle of owners can arise, for the lock order *)

Ranks == (m1 :> 1) @@ (m2 :> 2)

InOrder(m) == \A h \in Elems(p_mtxlist[currp]) : Ranks[h] < Ranks[m]

InversionStep ==
    /\ app = "inversion"
    /\ KernelStep(\/ \E m \in Mutexes : InOrder(m) /\ Lock(m)
                  \/ Unlock \/ UnlockAll
                  \/ chThdSleep)
    /\ UNCHANGED <<app, items, told>>

\* The owner t leaves its last critical section.
Release(t) ==
    /\ currp = t
    /\ InversionStep
    /\ p_mtxlist[t] # <<>> /\ p_mtxlist'[t] = <<>>

----------------------------------------------------------------------------
(* "monitor" *)

Consumers == {t2, t3}
Inside(t) == app = "monitor" /\ currp = t /\ m1 \in Elems(p_mtxlist[t])
Outside(t) == app = "monitor" /\ currp = t /\ p_mtxlist[t] = <<>>

Enter(t) ==
    /\ Outside(t) /\ KernelStep(Lock(m1))
    /\ UNCHANGED <<app, items, told>>

Rest(t) ==
    /\ Outside(t) /\ KernelStep(chThdSleep)
    /\ UNCHANGED <<app, items, told>>

AwaitItem(t) ==
    /\ Inside(t) /\ items = 0
    /\ chCondWait(c1, FALSE)
    /\ UNCHANGED <<app, items, told>>

TakeItem(t) ==
    /\ Inside(t) /\ items > 0
    /\ KernelStep(Unlock)
    /\ items' = items - 1
    /\ UNCHANGED <<app, told>>

AddItem ==
    /\ Inside(t1) /\ CondCode /\ items < MaxItems /\ told
    /\ items' = items + 1
    /\ told' = FALSE
    /\ UNCHANGED <<app, allvars>>

Tell ==
    /\ Inside(t1) /\ ~told
    /\ chCondBroadcast(c1)
    /\ told' = TRUE
    /\ UNCHANGED <<app, items>>

LeaveTold ==
    /\ Inside(t1) /\ told
    /\ KernelStep(Unlock)
    /\ UNCHANGED <<app, items, told>>

MonitorStep ==
    \/ \E t \in Threads : Enter(t) \/ Rest(t)
    \/ \E t \in Consumers : AwaitItem(t) \/ TakeItem(t)
    \/ AddItem \/ Tell \/ LeaveTold

----------------------------------------------------------------------------
(* "equals" *)

EqualsStep ==
    /\ app = "equals"
    /\ KernelStep(\/ \E p \in SetPrios : chThdSetPriority(p)
                  \/ chThdSleep
                  \/ /\ ThreadCode            \* chThdYield()
                     /\ k' = chSchDoYieldS(k)
                     /\ UNCHANGED <<isr, mtxvars>>)
    /\ UNCHANGED <<app, items, told>>

\* The timer interrupt, chSysTimerHandlerI(), as far as the scheduler goes.
Tick ==
    /\ app = "equals"
    /\ k' = ConsumeSlice(k)
    /\ isr' = TRUE
    /\ UNCHANGED <<mtxvars, condvars, app, items, told>>

----------------------------------------------------------------------------

System ==
    /\ \/ LeaveWait
       \/ KernelStep((\E t \in Threads : WakeSleeper(t)) \/ IrqExit)
    /\ UNCHANGED <<app, items, told>>

LiveInit ==
    /\ CondInit
    /\ app \in {"inversion", "monitor", "equals"}
    /\ items = 0
    /\ told = TRUE

LiveNext == InversionStep \/ MonitorStep \/ EqualsStep \/ Tick \/ System

\* Interrupts return, sleeps end, and a thread that is given the CPU again and
\* again goes on: an owner leaves its critical sections, the producer adds
\* items, a consumer takes its item and rests after it. Nothing else is
\* expected of anybody: a thread without a mutex may compute for ever.
LiveSpec ==
    /\ LiveInit /\ [][LiveNext]_livevars
    /\ WF_livevars(System)
    /\ \A t \in Threads :
          WF_livevars(KernelStep(WakeSleeper(t)) /\ UNCHANGED <<app, items, told>>)
    /\ \A t \in Consumers :
          SF_livevars(Rest(t)) /\ SF_livevars(AwaitItem(t) \/ TakeItem(t) \/ Release(t))
    /\ SF_livevars(Enter(t1)) /\ SF_livevars(AddItem) /\ SF_livevars(Tell)
    /\ SF_livevars(LeaveTold \/ Release(t1))

----------------------------------------------------------------------------
(* Properties *)

\* Priority inversion is bounded: the thread of the highest priority, once it
\* waits for a mutex, runs again, even when a thread of a priority between it
\* and the owner never stops computing (chmtx.c:51-60).
InversionIsBounded == (k.p_state[t3] = "WTMTX") ~> (currp = t3)

\* No wakeup is lost between the release of the mutex and the wait: a consumer
\* that waits for an item is woken (chcond.c:135-137, "All the sequence is
\* performed atomically").
ConsumersAreWoken ==
    \A t \in Consumers : (k.p_state[t] = "WTCOND") ~> (k.p_state[t] # "WTCOND")

\* Equals take turns: a thread that is ready again and again when the timer
\* ticks in a thread of no higher priority gets to run again and again,
\* although threads of higher priority preempt its equals in the middle of
\* their slices (chschd.c:280-290, 355-372).
EqualsTakeTurns ==
    \A t \in Threads :
        []<><<Tick /\ k.p_state[t] = "READY" /\ k.p_prio[t] >= k.p_prio[currp]>>_livevars
            => []<>(currp = t)
============================================================================
