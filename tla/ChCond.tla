------------------------------- MODULE ChCond -------------------------------
(***************************************************************************)
(* Condition variables, os/kernel/src/chcond.c, on top of the mutexes of   *)
(* ChMutex. A wait releases the mutex locked last, sleeps, and locks it    *)
(* again when the thread runs, unless the wait timed out. The thread runs  *)
(* again with the kernel locked, so that nothing happens before the lock   *)
(* is taken or queued for.                                                 *)
(***************************************************************************)
EXTENDS ChMutex

VARIABLES
    relock,   \* the mutex a thread has to lock when it leaves its wait
    rdymsg,   \* the wakeup message of a thread that was woken in its wait
    vt        \* the timer of a timed wait: "off", "armed" or "fired"

condvars == <<relock, rdymsg, vt>>
allvars == <<vars, condvars>>

WakeMsgs == {"RDY_OK", "RDY_RESET", "RDY_TIMEOUT"}

CondTypeOK ==
    /\ MutexTypeOK
    /\ relock \in [AllThreads -> Mutexes \cup {NULL}]
    /\ rdymsg \in [AllThreads -> WakeMsgs \cup {NULL}]
    /\ vt \in [AllThreads -> {"off", "armed", "fired"}]

CondInit ==
    /\ Init
    /\ relock = [t \in AllThreads |-> NULL]
    /\ rdymsg = [t \in AllThreads |-> NULL]
    /\ vt = [t \in AllThreads |-> "off"]

\* The running thread has come out of its sleep in chCondWaitS().
Locked == relock[currp] # NULL

CondCode == ThreadCode /\ ~Locked

----------------------------------------------------------------------------
(* Waiting *)

\* The scheduler state chMtxUnlockS() leaves: the new owner is ready, nobody is
\* switched to.
Released(m) ==
    IF waitq[m] = <<>> THEN k ELSE chSchReadyI(Unboosted(m), Head(waitq[m]))

\* Faulty: the waiters in order of arrival.
QueueLast(q, prio, t) == Append(q, t)

\* The order of the waiters.
QueueByPrio(q, prio, t) == prio_insert(q, prio, t)

chCondWait(c, timed) ==
    /\ CondCode
    /\ p_mtxlist[currp] # <<>>
    /\ LET mp == Head(p_mtxlist[currp])
           s  == Released(mp)
       IN /\ HandOver(mp)
          /\ waitq' = [Unqueued(mp) EXCEPT ![c] = QueueByPrio(@, s.p_prio, currp)]
          /\ k' = chSchGoSleepS(s, "WTCOND")
          /\ relock' = [relock EXCEPT ![currp] = mp]
    /\ wtobjp' = [wtobjp EXCEPT ![currp] = c]
    /\ vt' = [vt EXCEPT ![currp] = IF timed THEN "armed" ELSE @]
    /\ UNCHANGED <<isr, p_realprio, rdymsg>>

\* Faulty: the timer is left to run.
TimerKept(t) == vt

TimerReset(t) == [vt EXCEPT ![t] = IF @ = "armed" THEN "off" ELSE @]

TimedOut(msg) == msg = "RDY_TIMEOUT"

\* The wait returns: the timer is reset, then the mutex is locked again.
LeaveWait ==
    /\ Locked
    /\ vt' = TimerReset(currp)
    /\ relock' = [relock EXCEPT ![currp] = NULL]
    /\ \/ TimedOut(rdymsg[currp]) /\ UNCHANGED <<k, mtxvars>>
       \/ ~TimedOut(rdymsg[currp]) /\ chMtxLockS(relock[currp])
    /\ rdymsg' = [rdymsg EXCEPT ![currp] = NULL]
    /\ UNCHANGED isr

----------------------------------------------------------------------------
(* Signals *)

chCondSignal(c) ==
    /\ CondCode
    /\ waitq[c] # <<>>
    /\ waitq' = [waitq EXCEPT ![c] = Tail(@)]
    /\ rdymsg' = [rdymsg EXCEPT ![Head(waitq[c])] = "RDY_OK"]
    /\ k' = chSchWakeupS(k, Head(waitq[c]))
    /\ UNCHANGED <<isr, p_realprio, p_mtxlist, m_owner, wtobjp, relock, vt>>

chCondSignalI(c) ==
    /\ ~Locked
    /\ waitq[c] # <<>>
    /\ waitq' = [waitq EXCEPT ![c] = Tail(@)]
    /\ rdymsg' = [rdymsg EXCEPT ![Head(waitq[c])] = "RDY_OK"]
    /\ k' = chSchReadyI(k, Head(waitq[c]))
    /\ isr' = TRUE
    /\ UNCHANGED <<p_realprio, p_mtxlist, m_owner, wtobjp, relock, vt>>

\* Faulty: the last waiter is forgotten.
AllButLast(q) == SubSeq(q, 1, Len(q) - 1)

\* The waiters a broadcast wakes, in the order in which they get ready.
Woken(q) == q

BroadcastI(c) ==
    /\ waitq' = [waitq EXCEPT ![c] = <<>>]
    /\ rdymsg' = [t \in AllThreads |->
                    IF t \in Elems(Woken(waitq[c])) THEN "RDY_RESET" ELSE rdymsg[t]]
    /\ UNCHANGED <<p_realprio, p_mtxlist, m_owner, wtobjp, relock, vt>>

chCondBroadcast(c) ==
    /\ CondCode
    /\ BroadcastI(c)
    /\ k' = chSchRescheduleS(ReadyAll(k, Woken(waitq[c])))
    /\ UNCHANGED isr

chCondBroadcastI(c) ==
    /\ ~Locked
    /\ BroadcastI(c)
    /\ k' = ReadyAll(k, Woken(waitq[c]))
    /\ isr' = TRUE

----------------------------------------------------------------------------
(* Timers *)

TimerExpires(t) ==
    /\ ~Locked
    /\ vt[t] = "armed"
    /\ \A u \in AllThreads : vt[u] # "fired"
    /\ vt' = [vt EXCEPT ![t] = "fired"]
    /\ isr' = TRUE
    /\ UNCHANGED <<k, mtxvars, relock, rdymsg>>

\* Faulty: the thread is left in the queue of the condition variable.
NotDequeued(t) == waitq

Dequeued(t) == [waitq EXCEPT ![wtobjp[t]] = dequeue(@, t)]

\* Faulty: the message is left before the state is looked at.
AnswerFirst(t) == [rdymsg EXCEPT ![t] = "RDY_TIMEOUT"]

\* The messages that the timeout of t leaves.
Answer(t) ==
    IF k.p_state[t] = "READY" THEN rdymsg ELSE [rdymsg EXCEPT ![t] = "RDY_TIMEOUT"]

\* wakeup() of chschd.c; a thread signalled before its callback stays as it is.
TimerCallback(t) ==
    /\ vt[t] = "fired"
    /\ vt' = [vt EXCEPT ![t] = "off"]
    /\ rdymsg' = Answer(t)
    /\ \/ /\ k.p_state[t] = "READY"
          /\ UNCHANGED <<k, waitq>>
       \/ /\ k.p_state[t] = "WTCOND"
          /\ waitq' = Dequeued(t)
          /\ k' = chSchReadyI(k, t)
    /\ UNCHANGED <<isr, p_realprio, p_mtxlist, m_owner, wtobjp, relock>>

CallbacksDone == \A t \in AllThreads : vt[t] # "fired"

\* The services of ChMutex, between two calls of a thread.
MutexStep ==
    /\ ~Locked
    /\ \/ \E m \in Mutexes : Lock(m) \/ TryLock(m)
       \/ Unlock
       \/ UnlockAll
       \/ \E p \in SetPrios : chThdSetPriority(p)
       \/ chThdSleep
       \/ \E t \in Threads : WakeSleeper(t)
       \/ CallbacksDone /\ IrqExit
    /\ UNCHANGED condvars

CondNext ==
    \/ \E c \in CondVars :
          \/ \E timed \in BOOLEAN : chCondWait(c, timed)
          \/ chCondSignal(c) \/ chCondSignalI(c)
          \/ chCondBroadcast(c) \/ chCondBroadcastI(c)
    \/ LeaveWait
    \/ \E t \in Threads : TimerExpires(t) \/ TimerCallback(t)
    \/ MutexStep

CondSpec == CondInit /\ [][CondNext]_allvars

----------------------------------------------------------------------------
(* Properties, besides those of ChMutex, which must hold with the condition  *)
(* variables as well. *)

\* The timer of a wait is off before the thread does anything else, above all
\* before it waits for the mutex: the callback would make it ready while it is
\* still queued there (chschd.c:188-192).
NoDanglingTimer ==
    CondTypeOK /\ \A t \in AllThreads :
        vt[t] # "off" => relock[t] # NULL /\ k.p_state[t] \in Runnable \cup {"WTCOND"}

\* What wakes a thread in its wait first, a signal or the timeout, decides how the
\* wait ends, also when both come in the same tick (chschd.c:130-159). A thread that
\* left its wait without a timeout owns the mutex it released or waits for it; one that
\* timed out does neither (chcond.c:207-208, "the mutex ownership is lost").
MutexRegained ==
    [][\A t \in Threads :
         LET m == relock[t] IN
         /\ relock'[t] # NULL /\ k.p_state[t] # "WTCOND" => rdymsg'[t] = rdymsg[t]
         /\ (m # NULL /\ relock'[t] = NULL) =>
               IF rdymsg[t] = "RDY_TIMEOUT"
               THEN m_owner'[m] # t /\ t \notin Elems(waitq'[m])
               ELSE m_owner'[m] = t \/ t \in Elems(waitq'[m])]_allvars
============================================================================
