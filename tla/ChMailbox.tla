----------------------------- MODULE ChMailbox -----------------------------
(***************************************************************************)
(* Mailboxes, os/kernel/src/chmboxes.c: a ring buffer between a semaphore  *)
(* that counts its empty slots and one that counts its messages. A thread  *)
(* that had to wait accesses the buffer when it runs again, some time      *)
(* after the semaphore granted it the slot or the message.                 *)
(***************************************************************************)
EXTENDS ChSemKernel

CONSTANTS
    Messages,
    Size        \* the slots of the buffer

ASSUME MailboxAssumption ==
    /\ SemAssumption
    /\ Sems = {"empty", "full"}
    /\ {"none", "sleep", "post", "ahead", "fetch"} \subseteq Calls
    /\ InitPrio \in [Threads -> UserPrios]
    /\ NULL \notin Messages
    /\ Size \in Nat \ {0}

VARIABLES
    mb,     \* the buffer and its two pointers, as offsets
    arg,    \* the message a thread is waiting to post
    got,    \* the message fetched last
    torn    \* history: a reset came between a grant and the access

mbvars == <<kernelvars, mb, arg, got, torn>>

MailboxTypeOK ==
    /\ w \in KernelStates
    /\ \A sp \in Sems : w.s_cnt[sp] \in -Cardinality(Threads)..Size + Cardinality(Threads)
    /\ isr \in BOOLEAN
    /\ mb \in [mb_buffer : [0..Size - 1 -> Messages \cup {NULL}],
               mb_wrptr : 0..Size - 1, mb_rdptr : 0..Size - 1]
    /\ arg \in [Threads -> Messages \cup {NULL}]
    /\ got \in Messages \cup {NULL}
    /\ torn \in BOOLEAN

MailboxInit ==
    /\ KernelInit([sp \in Sems |-> IF sp = "empty" THEN Size ELSE 0])
    /\ mb = [mb_buffer |-> [i \in 0..Size - 1 |-> NULL], mb_wrptr |-> 0, mb_rdptr |-> 0]
    /\ arg = [t \in Threads |-> NULL]
    /\ got = NULL
    /\ torn = FALSE

----------------------------------------------------------------------------
(* The ring buffer *)

\* Faulty: the pointer moves before the slot is written.
MoveThenWrite(b, msg) ==
    LET i == (b.mb_wrptr + 1) % Size
    IN [b EXCEPT !.mb_buffer[i] = msg, !.mb_wrptr = i]

\* *mb_wrptr++ = msg
Write(b, msg) ==
    [b EXCEPT !.mb_buffer[b.mb_wrptr] = msg, !.mb_wrptr = (@ + 1) % Size]

\* *--mb_rdptr = msg
WriteAhead(b, msg) ==
    LET i == (b.mb_rdptr + Size - 1) % Size
    IN [b EXCEPT !.mb_buffer[i] = msg, !.mb_rdptr = i]

ReadNext(b) == [b EXCEPT !.mb_rdptr = (@ + 1) % Size]

\* How the call c of a thread with a granted slot or message accesses the buffer.
Access(c, msg) ==
    CASE c = "post"  -> mb' = Write(mb, msg) /\ UNCHANGED got
      [] c = "ahead" -> mb' = WriteAhead(mb, msg) /\ UNCHANGED got
      [] c = "fetch" -> mb' = ReadNext(mb) /\ got' = mb.mb_buffer[mb.mb_rdptr]

\* The semaphore a call waits on and the one it signals.
Needs(c) == IF c = "fetch" THEN "full" ELSE "empty"
Gives(c) == IF c = "fetch" THEN "empty" ELSE "full"

----------------------------------------------------------------------------
(* Threads *)

\* chMBPost(), chMBPostAhead() and chMBFetch(); those that time out at once
\* change nothing.
Request(c, msg, timed) ==
    /\ ThreadCode
    /\ \/ /\ w.s_cnt[Needs(c)] - 1 >= 0
          /\ Access(c, msg)
          /\ w' = Reschedule(chSemSignalI(chSemFastWaitI(w, Needs(c)), Gives(c)))
          /\ UNCHANGED arg
       \/ /\ w.s_cnt[Needs(c)] - 1 < 0
          /\ w' = SleepOnSem(w, Needs(c), timed, c)
          /\ arg' = [arg EXCEPT ![currp] = msg]
          /\ UNCHANGED <<mb, got>>
    /\ UNCHANGED <<isr, torn>>

chMBPost(msg, timed) == Request("post", msg, timed)
chMBPostAhead(msg, timed) == Request("ahead", msg, timed)
chMBFetch(timed) == Request("fetch", NULL, timed)

\* Faulty: a call that timed out accesses the buffer nevertheless.
Proceeds(c, msg) == c # "sleep"

\* The wait was granted.
Granted(c, msg) == c # "sleep" /\ msg = "RDY_OK"

\* The running thread continues behind its sleep.
Continue ==
    LET t == currp
        c == w.call[t]
    IN /\ Locked(w)
       /\ \/ /\ Granted(c, w.p_u[t])
             /\ Access(c, arg[t])
             /\ w' = Reschedule(chSemSignalI(Resume(w), Gives(c)))
          \/ /\ ~Granted(c, w.p_u[t])
             /\ w' = Resume(w)
             /\ UNCHANGED <<mb, got>>
       /\ arg' = [arg EXCEPT ![t] = NULL]
       /\ UNCHANGED <<isr, torn>>

\* The threads that were granted a wait on sp and did not run since.
Pending(sp) ==
    {t \in Threads : /\ w.k.p_state[t] \in Runnable
                     /\ w.call[t] # "none"
                     /\ Granted(w.call[t], w.p_u[t])
                     /\ Needs(w.call[t]) = sp}

ResetSems(v) == chSemResetI(chSemResetI(v, "empty", Size), "full", 0)

chMBReset ==
    /\ ThreadCode
    /\ mb' = [mb EXCEPT !.mb_wrptr = 0, !.mb_rdptr = 0]
    /\ w' = Reschedule(ResetSems(w))
    /\ torn' = (torn \/ \E sp \in Sems : Pending(sp) # {})
    /\ UNCHANGED <<isr, arg, got>>

----------------------------------------------------------------------------
(* Interrupts *)

\* chMBPostI(), chMBPostAheadI() and chMBFetchI(): nothing happens when the
\* counter is not positive.
RequestI(c, msg) ==
    /\ IsrCode
    /\ w.s_cnt[Needs(c)] > 0
    /\ Access(c, msg)
    /\ w' = chSemSignalI(chSemFastWaitI(w, Needs(c)), Gives(c))
    /\ isr' = TRUE
    /\ UNCHANGED <<arg, torn>>

MailboxNext ==
    \/ \E timed \in BOOLEAN :
          \/ \E msg \in Messages : chMBPost(msg, timed) \/ chMBPostAhead(msg, timed)
          \/ chMBFetch(timed)
    \/ Continue
    \/ chMBReset
    \/ \E msg \in Messages : RequestI("post", msg) \/ RequestI("ahead", msg)
    \/ RequestI("fetch", NULL)
    \/ /\ \/ chThdSleep
          \/ \E t \in Threads : TimerExpires(t) \/ TimerCallback(t)
          \/ IrqExit
       /\ UNCHANGED <<mb, arg, got, torn>>

MailboxSpec == MailboxInit /\ [][MailboxNext]_mbvars

----------------------------------------------------------------------------
(* Properties *)

Positive(sp) == IF w.s_cnt[sp] > 0 THEN w.s_cnt[sp] ELSE 0

\* The messages in the buffer: those counted by "full" and those a fetch under
\* way was granted.
Used == Positive("full") + Cardinality(Pending("full"))

\* Every slot is empty, full, or granted to one unfinished call; the write
\* pointer is Used slots ahead of the read pointer: unless a reset came between
\* a grant and the access. Counter and queue of both semaphores agree even then.
SlotsConserved ==
    /\ MailboxTypeOK
    /\ SemConsistent(w)
    /\ ~torn =>
          /\ Used + Positive("empty") + Cardinality(Pending("empty")) = Size
          /\ mb.mb_wrptr = (mb.mb_rdptr + Used) % Size

Queue == INSTANCE MailQueue WITH
    q <- [i \in 1..Used |-> mb.mb_buffer[(mb.mb_rdptr + i - 1) % Size]]

\* The mailbox is a bounded queue: no message is lost, doubled or overtaken,
\* although slots and messages are granted in an order that differs from the
\* one in which the threads then run, and a reset empties it.
MailboxIsQueue == Queue!QueueSpec

\* The free count is a number of slots (chmboxes.h: chMBGetFreeCountI() "Returns
\* the number of free message slots into a mailbox").
FreeCountWithinSize == w.s_cnt["empty"] <= Size
============================================================================
