---------------------------- MODULE ChSemProofs ----------------------------
(***************************************************************************)
(* The theorems about semaphores, for every set of threads. The first part *)
(* is about the operators on kernel states that ChSem and ChMailbox share. *)
(* The second is about ChSem, with any semaphores: counters and queues     *)
(* agree, no timer outlives the sleep whose stack frame holds it, and the  *)
(* semaphores are counting semaphores. The third is about the mailboxes of *)
(* chmboxes.c, with any messages and size of the buffer: until a reset     *)
(* tears a call no slot is lost or used twice, and the mailbox implements  *)
(* a bounded queue. Only the third part uses MailboxAssumption.            *)
(***************************************************************************)
EXTENDS ChSem, ChMailbox, ChSchedProofs, FiniteSetTheorems

----------------------------------------------------------------------------
(* Queues *)

\* The last thread leaves a queue.
LEMMA FrontLast ==
    ASSUME NEW S, NEW q \in Seq(S), q # <<>>, NoDuplicates(q)
    PROVE  /\ Last(q) \in Elems(q)
           /\ Front(q) \in Seq(S) /\ Len(Front(q)) = Len(q) - 1
           /\ NoDuplicates(Front(q))
           /\ Elems(Front(q)) = Elems(q) \ {Last(q)}
<1> DEFINE r == Front(q)
<1>1. Len(q) \in Nat \ {0} BY EmptySeq
<1>2. /\ r \in Seq(S) /\ Len(r) = Len(q) - 1
      /\ \A i \in 1..Len(q) - 1 : r[i] = q[i]
  <2>1. /\ 1 \in 1..Len(q) + 1 /\ Len(q) - 1 \in 1 - 1..Len(q)
        /\ (Len(q) - 1) - 1 + 1 = Len(q) - 1
        /\ \A i \in 1..Len(q) - 1 : 1 + i - 1 = i
    BY <1>1
  <2>2. /\ SubSeq(q, 1, Len(q) - 1) \in Seq(S)
        /\ Len(SubSeq(q, 1, Len(q) - 1)) = Len(q) - 1
        /\ \A i \in 1..Len(q) - 1 : SubSeq(q, 1, Len(q) - 1)[i] = q[i]
    BY <1>1, <2>1, SubSeqProperties
  <2> QED BY <2>2 DEF Front
<1> HIDE DEF r
<1>3. Last(q) = q[Len(q)] /\ Len(q) \in 1..Len(q) BY <1>1 DEF Last
<1>4. \A i, j \in 1..Len(q) : q[i] = q[j] => i = j BY DEF NoDuplicates
<1>5. NoDuplicates(r) BY <1>1, <1>2, <1>4 DEF NoDuplicates
<1>6. Elems(r) = Elems(q) \ {q[Len(q)]}
  <2>1. ASSUME NEW i \in 1..Len(r) PROVE r[i] \in Elems(q) \ {q[Len(q)]}
    <3>1. i \in 1..Len(q) /\ i # Len(q) /\ r[i] = q[i] BY <1>1, <1>2
    <3> QED BY <1>3, <1>4, <3>1 DEF Elems
  <2>2. ASSUME NEW i \in 1..Len(q), q[i] # q[Len(q)] PROVE q[i] \in Elems(r)
    <3>1. i \in 1..Len(r) /\ r[i] = q[i] BY <1>1, <1>2, <2>2
    <3> QED BY <3>1 DEF Elems
  <2> QED BY <2>1, <2>2 DEF Elems
<1> QED BY <1>2, <1>3, <1>5, <1>6 DEF r, Elems

----------------------------------------------------------------------------
(* Kernel states *)

\* What the unfinished call of a thread says of its state, and a wakeup message
\* replaces the semaphore in p_u when the wait is over.
CallsMatchStates(v) ==
    \A t \in AllThreads :
        /\ v.k.p_state[t] \in Runnable \cup {"WTSEM", "SLEEPING"}
        /\ v.k.p_state[t] = "SLEEPING" => v.call[t] = "sleep"
        /\ v.k.p_state[t] = "WTSEM" =>
              v.call[t] \notin {"none", "sleep"} /\ v.p_u[t] \in Sems
        /\ v.k.p_state[t] \in Runnable /\ v.call[t] \notin {"none", "sleep"} =>
              v.p_u[t] \in RdyMsgs

GoodKernel(v) ==
    /\ v \in KernelStates
    /\ SchedInv(v.k)
    /\ SemConsistent(v)
    /\ CallsMatchStates(v)
    /\ TimersOnLiveStacks(v)

\* The assumptions that kernel states need.
KernelAssumption == SemAssumption /\ {"none", "sleep"} \subseteq Calls

\* The fields of a kernel state, as functions.
LEMMA KernelTypes ==
    ASSUME NEW v \in KernelStates
    PROVE  /\ v.k \in SchedStates
           /\ v.s_cnt \in [Sems -> Int]
           /\ v.s_queue \in [Sems -> Seq(AllThreads)]
           /\ v.p_u \in [AllThreads -> Sems \cup RdyMsgs \cup {NULL}]
           /\ v.vt \in [AllThreads -> TimerStates]
           /\ v.call \in [AllThreads -> Calls]
           /\ v = [k |-> v.k, s_cnt |-> v.s_cnt, s_queue |-> v.s_queue,
                   p_u |-> v.p_u, vt |-> v.vt, call |-> v.call]
           /\ v.k.r_current \in AllThreads
           /\ v.k.p_state \in [AllThreads -> ThreadStates]
BY DEF KernelStates, SchedStates

LEMMA SameKernel ==
    ASSUME NEW x \in KernelStates, NEW y \in KernelStates,
           x.k = y.k, x.s_cnt = y.s_cnt, x.s_queue = y.s_queue,
           x.p_u = y.p_u, x.vt = y.vt, x.call = y.call
    PROVE  x = y
<1> DEFINE A == [Sems -> Int]
           B == [Sems -> Seq(AllThreads)]
           C == [AllThreads -> Sems \cup RdyMsgs \cup {NULL}]
           D == [AllThreads -> TimerStates]
           E == [AllThreads -> Calls]
           R == [k : SchedStates, s_cnt : A, s_queue : B, p_u : C, vt : D, call : E]
<1>1. x \in R /\ y \in R BY DEF KernelStates
<1> HIDE DEF A, B, C, D, E
<1> QED BY <1>1

\* A step of the scheduler that blocks and wakes nobody.
LEMMA SchedStep ==
    ASSUME NEW v, GoodKernel(v), NEW r, SchedInv(r), Keeps(v.k, r, {})
    PROVE  GoodKernel([v EXCEPT !.k = r])
<1> DEFINE x == [v EXCEPT !.k = r]
<1>1. v \in KernelStates /\ r \in SchedStates BY DEF GoodKernel, SchedInv
<1>2. /\ x.k = r /\ x.s_cnt = v.s_cnt /\ x.s_queue = v.s_queue
      /\ x.p_u = v.p_u /\ x.vt = v.vt /\ x.call = v.call
      /\ x \in KernelStates
  BY <1>1 DEF KernelStates
<1> HIDE DEF x
<1>3. \A u \in AllThreads :
         \/ r.p_state[u] = v.k.p_state[u]
         \/ r.p_state[u] \in Runnable /\ v.k.p_state[u] \in Runnable
  BY DEF Keeps
<1>4. \A u \in AllThreads :
         /\ r.p_state[u] = "WTSEM" <=> v.k.p_state[u] = "WTSEM"
         /\ r.p_state[u] = "SLEEPING" <=> v.k.p_state[u] = "SLEEPING"
         /\ r.p_state[u] \in Runnable <=> v.k.p_state[u] \in Runnable
  BY <1>3 DEF Runnable
<1>5. SemConsistent(x) BY <1>2, <1>4 DEF GoodKernel, SemConsistent
<1>6. CallsMatchStates(x) BY <1>2, <1>4 DEF GoodKernel, CallsMatchStates
<1>7. TimersOnLiveStacks(x) BY <1>2 DEF GoodKernel, TimersOnLiveStacks
<1> QED BY <1>2, <1>5, <1>6, <1>7 DEF GoodKernel, x

\* The thread t leaves the queue of sp, which becomes q with the counter n, and
\* is runnable with the message msg in the scheduler state r.
LEMMA LeavesQueue ==
    ASSUME NEW v, GoodKernel(v), NEW sp \in Sems, NEW t \in Elems(v.s_queue[sp]),
           NEW q \in Seq(AllThreads), NoDuplicates(q),
           Elems(q) = Elems(v.s_queue[sp]) \ {t},
           NEW n \in Int, Len(q) = IF n < 0 THEN -n ELSE 0,
           NEW r, SchedInv(r), Keeps(v.k, r, {t}), r.p_state[t] \in Runnable,
           NEW msg \in RdyMsgs, KernelAssumption
    PROVE  GoodKernel([v EXCEPT !.k = r, !.s_cnt = [@ EXCEPT ![sp] = n],
                                !.s_queue = [@ EXCEPT ![sp] = q],
                                !.p_u = [@ EXCEPT ![t] = msg]])
<1> DEFINE x == [v EXCEPT !.k = r, !.s_cnt = [@ EXCEPT ![sp] = n],
                          !.s_queue = [@ EXCEPT ![sp] = q],
                          !.p_u = [@ EXCEPT ![t] = msg]]
<1>1. v \in KernelStates /\ r \in SchedStates BY DEF GoodKernel, SchedInv
<1>2. t \in AllThreads /\ v.k.p_state[t] = "WTSEM" /\ v.p_u[t] = sp
  BY DEF GoodKernel, SemConsistent
<1>3. /\ v.s_cnt \in [Sems -> Int] /\ v.s_queue \in [Sems -> Seq(AllThreads)]
      /\ v.p_u \in [AllThreads -> Sems \cup RdyMsgs \cup {NULL}]
  BY <1>1, KernelTypes
<1>4. /\ x.k = r /\ x.s_cnt = [v.s_cnt EXCEPT ![sp] = n]
      /\ x.s_queue = [v.s_queue EXCEPT ![sp] = q]
      /\ x.p_u = [v.p_u EXCEPT ![t] = msg]
      /\ x.vt = v.vt /\ x.call = v.call
  BY <1>1 DEF KernelStates
<1>5. x \in KernelStates
  <2>1. /\ [v.s_cnt EXCEPT ![sp] = n] \in [Sems -> Int]
        /\ [v.s_queue EXCEPT ![sp] = q] \in [Sems -> Seq(AllThreads)]
        /\ [v.p_u EXCEPT ![t] = msg] \in [AllThreads -> Sems \cup RdyMsgs \cup {NULL}]
    BY <1>3
  <2> QED BY <1>1, <2>1 DEF KernelStates
<1> HIDE DEF x
<1>6. \A u \in AllThreads \ {t} :
         \/ r.p_state[u] = v.k.p_state[u]
         \/ r.p_state[u] \in Runnable /\ v.k.p_state[u] \in Runnable
  BY DEF Keeps
<1>7. \A u \in AllThreads \ {t} :
         /\ r.p_state[u] = "WTSEM" <=> v.k.p_state[u] = "WTSEM"
         /\ r.p_state[u] = "SLEEPING" <=> v.k.p_state[u] = "SLEEPING"
         /\ r.p_state[u] \in Runnable <=> v.k.p_state[u] \in Runnable
         /\ x.p_u[u] = v.p_u[u]
  BY <1>3, <1>4, <1>6 DEF Runnable
<1>8. x.p_u[t] = msg /\ r.p_state[t] # "WTSEM" /\ r.p_state[t] # "SLEEPING"
  BY <1>2, <1>3, <1>4 DEF Runnable
<1>9. SemConsistent(x)
  <2> SUFFICES ASSUME NEW o \in Sems
               PROVE  /\ Len(x.s_queue[o]) = IF x.s_cnt[o] < 0 THEN -x.s_cnt[o] ELSE 0
                      /\ NoDuplicates(x.s_queue[o])
                      /\ Elems(x.s_queue[o]) =
                            {u \in AllThreads : x.k.p_state[u] = "WTSEM" /\ x.p_u[u] = o}
    BY DEF SemConsistent
  <2>1. Elems(v.s_queue[o]) =
           {u \in AllThreads : v.k.p_state[u] = "WTSEM" /\ v.p_u[u] = o}
    BY DEF GoodKernel, SemConsistent
  <2>2. {u \in AllThreads : x.k.p_state[u] = "WTSEM" /\ x.p_u[u] = o} =
           Elems(v.s_queue[o]) \ {t}
    BY <1>4, <1>7, <1>8, <2>1
  <2>3. CASE o = sp
    <3>1. x.s_queue[o] = q /\ x.s_cnt[o] = n BY <1>3, <1>4, <2>3
    <3> QED BY <2>2, <2>3, <3>1
  <2>4. CASE o # sp
    <3>1. x.s_queue[o] = v.s_queue[o] /\ x.s_cnt[o] = v.s_cnt[o] BY <1>3, <1>4, <2>4
    <3>2. t \notin Elems(v.s_queue[o]) BY <1>2, <2>1, <2>4
    <3> QED BY <2>2, <3>1, <3>2 DEF GoodKernel, SemConsistent
  <2> QED BY <2>3, <2>4
<1>10. CallsMatchStates(x)
  <2>1. \A u \in AllThreads \ {t} :
           /\ x.k.p_state[u] \in Runnable \cup {"WTSEM", "SLEEPING"}
           /\ x.k.p_state[u] = "SLEEPING" => x.call[u] = "sleep"
           /\ x.k.p_state[u] = "WTSEM" =>
                x.call[u] \notin {"none", "sleep"} /\ x.p_u[u] \in Sems
           /\ x.k.p_state[u] \in Runnable /\ x.call[u] \notin {"none", "sleep"} =>
                x.p_u[u] \in RdyMsgs
    BY <1>4, <1>7 DEF GoodKernel, CallsMatchStates
  <2> QED BY <1>4, <1>8, <2>1 DEF CallsMatchStates
<1>11. TimersOnLiveStacks(x) BY <1>4 DEF GoodKernel, TimersOnLiveStacks
<1> QED BY <1>4, <1>5, <1>9, <1>10, <1>11 DEF GoodKernel, x

\* The timer of t changes; off the list it may always be, on it only while t is
\* inside a call.
LEMMA TimerChanges ==
    ASSUME NEW v, GoodKernel(v), NEW t \in AllThreads, NEW st \in TimerStates,
           st # "off" => v.call[t] # "none"
    PROVE  GoodKernel([v EXCEPT !.vt[t] = st])
<1> DEFINE x == [v EXCEPT !.vt[t] = st]
<1>1. v \in KernelStates /\ v.vt \in [AllThreads -> TimerStates]
  BY KernelTypes DEF GoodKernel
<1>2. /\ x.k = v.k /\ x.s_cnt = v.s_cnt /\ x.s_queue = v.s_queue
      /\ x.p_u = v.p_u /\ x.call = v.call
      /\ x.vt = [v.vt EXCEPT ![t] = st]
      /\ x \in KernelStates
  BY <1>1 DEF KernelStates
<1> HIDE DEF x
<1>3. TimersOnLiveStacks(x) BY <1>1, <1>2 DEF GoodKernel, TimersOnLiveStacks
<1>4. SemConsistent(x) /\ CallsMatchStates(x)
  BY <1>2 DEF GoodKernel, SemConsistent, CallsMatchStates
<1> QED BY <1>2, <1>3, <1>4 DEF GoodKernel, x

\* The counter of a semaphore without waiters changes.
LEMMA CountChanges ==
    ASSUME NEW v, GoodKernel(v), NEW sp \in Sems, v.s_cnt[sp] >= 0, NEW n \in Nat
    PROVE  GoodKernel([v EXCEPT !.s_cnt[sp] = n])
<1> DEFINE x == [v EXCEPT !.s_cnt[sp] = n]
<1>1. v \in KernelStates /\ [v.s_cnt EXCEPT ![sp] = n] \in [Sems -> Int]
      /\ v.s_cnt \in [Sems -> Int]
  <2>1. v.s_cnt \in [Sems -> Int] /\ n \in Int BY KernelTypes DEF GoodKernel
  <2> QED BY <2>1 DEF GoodKernel
<1>2. /\ x.k = v.k /\ x.s_cnt = [v.s_cnt EXCEPT ![sp] = n] /\ x.s_queue = v.s_queue
      /\ x.p_u = v.p_u /\ x.call = v.call /\ x.vt = v.vt
      /\ x \in KernelStates
  BY <1>1 DEF KernelStates
<1> HIDE DEF x
<1>3. SemConsistent(x)
  BY <1>1, <1>2 DEF GoodKernel, SemConsistent
<1>4. TimersOnLiveStacks(x) /\ CallsMatchStates(x)
  BY <1>2 DEF GoodKernel, TimersOnLiveStacks, CallsMatchStates
<1> QED BY <1>2, <1>3, <1>4 DEF GoodKernel, x

----------------------------------------------------------------------------
(* Signals *)

\* The first waiter of sp.
FirstWaits(v, sp) == v.s_cnt[sp] + 1 <= 0

\* A semaphore whose counter is negative has waiters, the first of which waits
\* for it.
LEMMA FirstWaiter ==
    ASSUME NEW v, GoodKernel(v), NEW sp \in Sems, FirstWaits(v, sp)
    PROVE  LET q == v.s_queue[sp]
           IN /\ q \in Seq(AllThreads) /\ q # <<>>
              /\ Head(q) \in AllThreads /\ Head(q) \in Elems(q)
              /\ v.k.p_state[Head(q)] = "WTSEM" /\ v.p_u[Head(q)] = sp
              /\ v.call[Head(q)] \notin {"none", "sleep"}
              /\ Tail(q) \in Seq(AllThreads) /\ NoDuplicates(Tail(q))
              /\ Elems(Tail(q)) = Elems(q) \ {Head(q)}
              /\ Len(Tail(q)) =
                    IF v.s_cnt[sp] + 1 < 0 THEN -(v.s_cnt[sp] + 1) ELSE 0
<1> DEFINE q == v.s_queue[sp]
<1>1. /\ v.s_cnt \in [Sems -> Int] /\ q \in Seq(AllThreads)
      /\ v.s_cnt[sp] \in Int
  BY KernelTypes DEF GoodKernel
<1>2. /\ Len(q) = IF v.s_cnt[sp] < 0 THEN -v.s_cnt[sp] ELSE 0
      /\ NoDuplicates(q)
      /\ Elems(q) = {t \in AllThreads : v.k.p_state[t] = "WTSEM" /\ v.p_u[t] = sp}
  BY DEF GoodKernel, SemConsistent
<1> HIDE DEF q
<1>3. q # <<>> /\ Len(q) = -v.s_cnt[sp]
  <2>1. Len(q) = -v.s_cnt[sp] /\ Len(q) # 0 BY <1>1, <1>2 DEF FirstWaits
  <2> QED BY <2>1
<1>4. /\ Head(q) \in AllThreads /\ Head(q) \in Elems(q)
      /\ Tail(q) \in Seq(AllThreads) /\ NoDuplicates(Tail(q))
      /\ Elems(Tail(q)) = Elems(q) \ {Head(q)}
  BY <1>1, <1>2, <1>3, HeadTail
<1>5. Len(Tail(q)) = Len(q) - 1 BY <1>1, <1>3, HeadTailProperties
<1>6. Len(Tail(q)) = IF v.s_cnt[sp] + 1 < 0 THEN -(v.s_cnt[sp] + 1) ELSE 0
  BY <1>1, <1>3, <1>5 DEF FirstWaits
<1>7. v.k.p_state[Head(q)] = "WTSEM" /\ v.p_u[Head(q)] = sp BY <1>2, <1>4
<1>8. v.call[Head(q)] \notin {"none", "sleep"}
  BY <1>4, <1>7 DEF GoodKernel, CallsMatchStates
<1> QED BY <1>1, <1>3, <1>4, <1>6, <1>7, <1>8 DEF q

\* What a signal changes.
SignalEffect(v, x, sp) ==
    /\ GoodKernel(x)
    /\ x.s_cnt = [v.s_cnt EXCEPT ![sp] = @ + 1]
    /\ x.vt = v.vt /\ x.call = v.call
    /\ FirstWaits(v, sp) =>
         /\ x.s_queue = [v.s_queue EXCEPT ![sp] = Tail(@)]
         /\ x.p_u = [v.p_u EXCEPT ![Head(v.s_queue[sp])] = "RDY_OK"]
         /\ Keeps(v.k, x.k, {Head(v.s_queue[sp])})
         /\ x.k.p_state[Head(v.s_queue[sp])] \in Runnable
    /\ ~FirstWaits(v, sp) =>
         x.s_queue = v.s_queue /\ x.p_u = v.p_u /\ x.k = v.k

\* chSemSignalI() takes the first waiter off the queue, who is then runnable with
\* RDY_OK, and changes no other wait.
LEMMA SignalI ==
    ASSUME NEW v, GoodKernel(v), NEW sp \in Sems, KernelAssumption
    PROVE  /\ SignalEffect(v, chSemSignalI(v, sp), sp)
           /\ chSemSignalI(v, sp).k.r_current = v.k.r_current
<1> DEFINE x == chSemSignalI(v, sp)
<1>1. /\ v \in KernelStates
      /\ v.s_cnt \in [Sems -> Int] /\ v.s_queue \in [Sems -> Seq(AllThreads)]
      /\ v.p_u \in [AllThreads -> Sems \cup RdyMsgs \cup {NULL}]
      /\ v.s_cnt[sp] \in Int
  BY KernelTypes DEF GoodKernel
<1>2. CASE FirstWaits(v, sp)
  <2> DEFINE t == Head(v.s_queue[sp])
             q == Tail(v.s_queue[sp])
             r == chSchReadyI(v.k, t)
  <2>1. /\ t \in AllThreads /\ t \in Elems(v.s_queue[sp])
        /\ v.k.p_state[t] = "WTSEM"
        /\ q \in Seq(AllThreads) /\ NoDuplicates(q)
        /\ Elems(q) = Elems(v.s_queue[sp]) \ {t}
        /\ Len(q) = IF v.s_cnt[sp] + 1 < 0 THEN -(v.s_cnt[sp] + 1) ELSE 0
    BY <1>2, FirstWaiter
  <2>2. x = [v EXCEPT !.k = r, !.s_cnt = [@ EXCEPT ![sp] = v.s_cnt[sp] + 1],
                      !.s_queue = [@ EXCEPT ![sp] = q],
                      !.p_u = [@ EXCEPT ![t] = "RDY_OK"]]
    BY <1>1, <1>2 DEF chSemSignalI, ReadyMsg, Unqueue, FirstWaits, KernelStates
  <2> HIDE DEF t, q, r, x
  <2>3. v.k.p_state[t] \notin Runnable BY <2>1 DEF Runnable
  <2>4. /\ SchedInv(r) /\ Keeps(v.k, r, {t}) /\ r.p_state[t] \in Runnable
        /\ r.r_current = v.k.r_current
    BY <2>1, <2>3, ReadyI DEF r, GoodKernel, Runnable
  <2>5. "RDY_OK" \in RdyMsgs /\ v.s_cnt[sp] + 1 \in Int BY <1>1 DEF RdyMsgs
  <2>6. GoodKernel(x) BY <2>1, <2>2, <2>4, <2>5, LeavesQueue
  <2>7. /\ x.k = r /\ x.s_cnt = [v.s_cnt EXCEPT ![sp] = v.s_cnt[sp] + 1]
        /\ x.s_queue = [v.s_queue EXCEPT ![sp] = q]
        /\ x.p_u = [v.p_u EXCEPT ![t] = "RDY_OK"]
        /\ x.vt = v.vt /\ x.call = v.call
    BY <1>1, <2>2 DEF KernelStates
  <2> QED BY <1>1, <1>2, <2>4, <2>6, <2>7 DEF x, t, q, SignalEffect
<1>3. CASE ~FirstWaits(v, sp)
  <2>1. x = [v EXCEPT !.s_cnt[sp] = v.s_cnt[sp] + 1]
    BY <1>1, <1>3 DEF chSemSignalI, FirstWaits, KernelStates
  <2>2. v.s_cnt[sp] >= 0 /\ v.s_cnt[sp] + 1 \in Nat BY <1>1, <1>3 DEF FirstWaits
  <2> HIDE DEF x
  <2>3. GoodKernel(x) BY <2>1, <2>2, CountChanges
  <2>4. /\ x.k = v.k /\ x.s_cnt = [v.s_cnt EXCEPT ![sp] = v.s_cnt[sp] + 1]
        /\ x.s_queue = v.s_queue /\ x.p_u = v.p_u
        /\ x.vt = v.vt /\ x.call = v.call
    BY <1>1, <2>1 DEF KernelStates
  <2> QED BY <1>1, <1>3, <2>3, <2>4 DEF x, SignalEffect
<1> QED BY <1>2, <1>3 DEF SignalEffect

\* chSemSignal() does the same, and lets the waiter run at once when its priority
\* is higher.
LEMMA SignalS ==
    ASSUME NEW v, GoodKernel(v), NEW sp \in Sems, KernelAssumption
    PROVE  SignalEffect(v, chSemSignal(v, sp), sp)
<1> DEFINE x == chSemSignal(v, sp)
<1>1. /\ v \in KernelStates
      /\ v.s_cnt \in [Sems -> Int] /\ v.s_queue \in [Sems -> Seq(AllThreads)]
      /\ v.p_u \in [AllThreads -> Sems \cup RdyMsgs \cup {NULL}]
      /\ v.s_cnt[sp] \in Int
  BY KernelTypes DEF GoodKernel
<1>2. CASE FirstWaits(v, sp)
  <2> DEFINE t == Head(v.s_queue[sp])
             q == Tail(v.s_queue[sp])
             r == chSchWakeupS(v.k, t)
  <2>1. /\ t \in AllThreads /\ t \in Elems(v.s_queue[sp])
        /\ v.k.p_state[t] = "WTSEM"
        /\ q \in Seq(AllThreads) /\ NoDuplicates(q)
        /\ Elems(q) = Elems(v.s_queue[sp]) \ {t}
        /\ Len(q) = IF v.s_cnt[sp] + 1 < 0 THEN -(v.s_cnt[sp] + 1) ELSE 0
    BY <1>2, FirstWaiter
  <2>2. x = [v EXCEPT !.k = r, !.s_cnt = [@ EXCEPT ![sp] = v.s_cnt[sp] + 1],
                      !.s_queue = [@ EXCEPT ![sp] = q],
                      !.p_u = [@ EXCEPT ![t] = "RDY_OK"]]
    BY <1>1, <1>2 DEF chSemSignal, WakeupMsg, Unqueue, FirstWaits, KernelStates
  <2> HIDE DEF t, q, r, x
  <2>3. v.k.p_state[t] \notin Runnable BY <2>1 DEF Runnable
  <2>4. SchedInv(r) /\ Keeps(v.k, r, {t}) /\ r.p_state[t] \in Runnable
    BY <2>1, <2>3, WakeupS DEF r, GoodKernel
  <2>5. "RDY_OK" \in RdyMsgs /\ v.s_cnt[sp] + 1 \in Int BY <1>1 DEF RdyMsgs
  <2>6. GoodKernel(x) BY <2>1, <2>2, <2>4, <2>5, LeavesQueue
  <2>7. /\ x.k = r /\ x.s_cnt = [v.s_cnt EXCEPT ![sp] = v.s_cnt[sp] + 1]
        /\ x.s_queue = [v.s_queue EXCEPT ![sp] = q]
        /\ x.p_u = [v.p_u EXCEPT ![t] = "RDY_OK"]
        /\ x.vt = v.vt /\ x.call = v.call
    BY <1>1, <2>2 DEF KernelStates
  <2> QED BY <1>1, <1>2, <2>4, <2>6, <2>7 DEF x, t, q, SignalEffect
<1>3. CASE ~FirstWaits(v, sp)
  <2>1. x = chSemSignalI(v, sp)
    BY <1>3 DEF chSemSignal, chSemSignalI, FirstWaits
  <2> HIDE DEF x
  <2>2. /\ GoodKernel(x) /\ x.s_cnt = [v.s_cnt EXCEPT ![sp] = @ + 1]
        /\ x.vt = v.vt /\ x.call = v.call
        /\ x.s_queue = v.s_queue /\ x.p_u = v.p_u /\ x.k = v.k
    BY <1>3, <2>1, SignalI DEF SignalEffect
  <2> QED BY <1>3, <2>2 DEF x, SignalEffect
<1> QED BY <1>2, <1>3 DEF SignalEffect

----------------------------------------------------------------------------
(* Waits *)

\* What a sleep on a semaphore changes.
SleepEffect(v, x, sp, timed, c) ==
    LET t == v.k.r_current
    IN /\ GoodKernel(x)
       /\ x.s_cnt = [v.s_cnt EXCEPT ![sp] = @ - 1]
       /\ x.s_queue = [v.s_queue EXCEPT ![sp] = Append(@, t)]
       /\ x.vt = [v.vt EXCEPT ![t] = IF timed THEN "armed" ELSE @]
       /\ x.call = [v.call EXCEPT ![t] = c]
       /\ x.p_u = [v.p_u EXCEPT ![t] = sp]
       /\ Keeps(v.k, x.k, {t}) /\ x.k.p_state[t] = "WTSEM"

\* The running thread sleeps in the call c with the state st, its timer armed or
\* not: on the queue of sp, whose counter goes below zero.
LEMMA SleepOnSemOK ==
    ASSUME NEW v, GoodKernel(v), ~Locked(v), v.k.r_current # Idle,
           NEW sp \in Sems, v.s_cnt[sp] - 1 < 0, NEW timed \in BOOLEAN,
           NEW c \in Calls \ {"none", "sleep"}, KernelAssumption
    PROVE  SleepEffect(v, SleepOnSem(v, sp, timed, c), sp, timed, c)
<1> DEFINE x == SleepOnSem(v, sp, timed, c)
           t == v.k.r_current
           r == chSchGoSleepS(v.k, "WTSEM")
           q == Append(v.s_queue[sp], t)
           n == v.s_cnt[sp] - 1
           tm == IF timed THEN "armed" ELSE v.vt[t]
<1>1. /\ v \in KernelStates /\ t \in AllThreads
      /\ v.s_cnt \in [Sems -> Int] /\ v.s_queue \in [Sems -> Seq(AllThreads)]
      /\ v.p_u \in [AllThreads -> Sems \cup RdyMsgs \cup {NULL}]
      /\ v.vt \in [AllThreads -> TimerStates] /\ v.call \in [AllThreads -> Calls]
      /\ v.s_cnt[sp] \in Int /\ v.s_queue[sp] \in Seq(AllThreads)
  BY KernelTypes DEF GoodKernel
<1>2. v.k.p_state[t] = "CURRENT" BY <1>1 DEF GoodKernel, SchedInv, ReadyListMembers
<1>3. "WTSEM" \in ThreadStates \ Runnable BY DEF ThreadStates, Runnable
<1>4. SchedInv(r) /\ Keeps(v.k, r, {t}) /\ r.p_state[t] = "WTSEM"
  BY <1>3, GoSleepS DEF GoodKernel
<1>5. \A o \in Sems :
         /\ Len(v.s_queue[o]) = IF v.s_cnt[o] < 0 THEN -v.s_cnt[o] ELSE 0
         /\ NoDuplicates(v.s_queue[o])
         /\ Elems(v.s_queue[o]) =
               {u \in AllThreads : v.k.p_state[u] = "WTSEM" /\ v.p_u[u] = o}
  BY DEF GoodKernel, SemConsistent
<1>6. /\ q \in Seq(AllThreads) /\ Len(q) = Len(v.s_queue[sp]) + 1
      /\ Elems(q) = Elems(v.s_queue[sp]) \cup {t} /\ NoDuplicates(q)
  <2>1. t \notin Elems(v.s_queue[sp]) BY <1>2, <1>5
  <2> HIDE DEF t
  <2> QED BY <1>1, <1>5, <2>1, AppendNew
<1>7. n \in Int /\ Len(q) = IF n < 0 THEN -n ELSE 0 BY <1>1, <1>5, <1>6
<1>8. x = [v EXCEPT !.k = r, !.s_cnt = [@ EXCEPT ![sp] = n],
                    !.s_queue = [@ EXCEPT ![sp] = q],
                    !.p_u = [@ EXCEPT ![t] = sp],
                    !.vt = [@ EXCEPT ![t] = tm],
                    !.call = [@ EXCEPT ![t] = c]]
  BY <1>1 DEF SleepOnSem, KernelStates
<1>9. tm \in TimerStates BY <1>1 DEF TimerStates
<1>10. t # Idle /\ v.call[t] = "none" BY DEF Locked
<1> HIDE DEF x, t, r, q, n, tm
<1>11. /\ x.k = r /\ x.s_cnt = [v.s_cnt EXCEPT ![sp] = n]
       /\ x.s_queue = [v.s_queue EXCEPT ![sp] = q]
       /\ x.p_u = [v.p_u EXCEPT ![t] = sp]
       /\ x.vt = [v.vt EXCEPT ![t] = tm] /\ x.call = [v.call EXCEPT ![t] = c]
  BY <1>1, <1>8 DEF KernelStates
<1>12. x \in KernelStates
  <2>1. /\ [v.s_cnt EXCEPT ![sp] = n] \in [Sems -> Int]
        /\ [v.s_queue EXCEPT ![sp] = q] \in [Sems -> Seq(AllThreads)]
        /\ [v.p_u EXCEPT ![t] = sp] \in [AllThreads -> Sems \cup RdyMsgs \cup {NULL}]
        /\ [v.vt EXCEPT ![t] = tm] \in [AllThreads -> TimerStates]
        /\ [v.call EXCEPT ![t] = c] \in [AllThreads -> Calls]
    BY <1>1, <1>6, <1>7, <1>9
  <2>2. r \in SchedStates BY <1>4 DEF SchedInv
  <2> QED BY <1>1, <1>8, <2>1, <2>2 DEF KernelStates
<1>13. \A u \in AllThreads \ {t} :
         /\ r.p_state[u] = "WTSEM" <=> v.k.p_state[u] = "WTSEM"
         /\ r.p_state[u] = "SLEEPING" <=> v.k.p_state[u] = "SLEEPING"
         /\ r.p_state[u] \in Runnable <=> v.k.p_state[u] \in Runnable
         /\ x.p_u[u] = v.p_u[u] /\ x.vt[u] = v.vt[u] /\ x.call[u] = v.call[u]
  <2>1. \A u \in AllThreads \ {t} :
           \/ r.p_state[u] = v.k.p_state[u]
           \/ r.p_state[u] \in Runnable /\ v.k.p_state[u] \in Runnable
    BY <1>4 DEF Keeps
  <2> QED BY <1>1, <1>11, <2>1 DEF Runnable
<1>14. x.p_u[t] = sp /\ x.call[t] = c BY <1>1, <1>11
<1>15. SemConsistent(x)
  <2> SUFFICES ASSUME NEW o \in Sems
               PROVE  /\ Len(x.s_queue[o]) = IF x.s_cnt[o] < 0 THEN -x.s_cnt[o] ELSE 0
                      /\ NoDuplicates(x.s_queue[o])
                      /\ Elems(x.s_queue[o]) =
                            {u \in AllThreads : x.k.p_state[u] = "WTSEM" /\ x.p_u[u] = o}
    BY DEF SemConsistent
  <2>1. \A u \in AllThreads \ {t} :
           (x.k.p_state[u] = "WTSEM" /\ x.p_u[u] = o)
             <=> (v.k.p_state[u] = "WTSEM" /\ v.p_u[u] = o)
    BY <1>11, <1>13
  <2>2. v.k.p_state[t] # "WTSEM" /\ x.k.p_state[t] = "WTSEM" BY <1>2, <1>4, <1>11
  <2>3. CASE o = sp
    <3>1. x.s_queue[o] = q /\ x.s_cnt[o] = n BY <1>1, <1>11, <2>3
    <3>2. {u \in AllThreads : x.k.p_state[u] = "WTSEM" /\ x.p_u[u] = o} =
             {u \in AllThreads : v.k.p_state[u] = "WTSEM" /\ v.p_u[u] = o} \cup {t}
      BY <1>1, <1>14, <2>1, <2>2, <2>3
    <3> QED BY <1>5, <1>6, <1>7, <2>3, <3>1, <3>2
  <2>4. CASE o # sp
    <3>1. x.s_queue[o] = v.s_queue[o] /\ x.s_cnt[o] = v.s_cnt[o] BY <1>1, <1>11, <2>4
    <3>2. {u \in AllThreads : x.k.p_state[u] = "WTSEM" /\ x.p_u[u] = o} =
             {u \in AllThreads : v.k.p_state[u] = "WTSEM" /\ v.p_u[u] = o}
      BY <1>14, <2>1, <2>2, <2>4
    <3> QED BY <1>5, <3>1, <3>2
  <2> QED BY <2>3, <2>4
<1>16. CallsMatchStates(x)
  <2>1. \A u \in AllThreads \ {t} :
           /\ x.k.p_state[u] \in Runnable \cup {"WTSEM", "SLEEPING"}
           /\ x.k.p_state[u] = "SLEEPING" => x.call[u] = "sleep"
           /\ x.k.p_state[u] = "WTSEM" =>
                x.call[u] \notin {"none", "sleep"} /\ x.p_u[u] \in Sems
           /\ x.k.p_state[u] \in Runnable /\ x.call[u] \notin {"none", "sleep"} =>
                x.p_u[u] \in RdyMsgs
    BY <1>11, <1>13 DEF GoodKernel, CallsMatchStates
  <2>2. x.k.p_state[t] = "WTSEM" BY <1>4, <1>11
  <2>3. c \notin {"none", "sleep"} OBVIOUS
  <2> QED BY <1>14, <2>1, <2>2, <2>3 DEF CallsMatchStates, Runnable
<1>17. TimersOnLiveStacks(x)
  <2>1. \A u \in AllThreads \ {t} : x.vt[u] # "off" => x.call[u] # "none"
    BY <1>13 DEF GoodKernel, TimersOnLiveStacks
  <2> QED BY <1>14, <2>1 DEF TimersOnLiveStacks
<1>18. GoodKernel(x) BY <1>4, <1>11, <1>12, <1>15, <1>16, <1>17 DEF GoodKernel
<1> QED BY <1>1, <1>4, <1>11, <1>18 DEF x, t, r, q, n, tm, SleepEffect

\* chThdSleep(): the running thread sleeps with its timer armed.
LEMMA SleepOK ==
    ASSUME NEW v, GoodKernel(v), ~Locked(v), v.k.r_current # Idle, KernelAssumption
    PROVE  LET x == chThdSleepS(v)
               t == v.k.r_current
           IN /\ GoodKernel(x)
              /\ x.s_cnt = v.s_cnt /\ x.s_queue = v.s_queue /\ x.p_u = v.p_u
              /\ x.vt = [v.vt EXCEPT ![t] = "armed"]
              /\ x.call = [v.call EXCEPT ![t] = "sleep"]
              /\ Keeps(v.k, x.k, {t}) /\ x.k.p_state[t] = "SLEEPING"
<1> DEFINE x == chThdSleepS(v)
           t == v.k.r_current
           r == chSchGoSleepS(v.k, "SLEEPING")
<1>1. /\ v \in KernelStates /\ t \in AllThreads
      /\ v.vt \in [AllThreads -> TimerStates] /\ v.call \in [AllThreads -> Calls]
  BY KernelTypes DEF GoodKernel
<1>2. v.k.p_state[t] = "CURRENT" BY <1>1 DEF GoodKernel, SchedInv, ReadyListMembers
<1>3. "SLEEPING" \in ThreadStates \ Runnable BY DEF ThreadStates, Runnable
<1>4. SchedInv(r) /\ Keeps(v.k, r, {t}) /\ r.p_state[t] = "SLEEPING"
  BY <1>3, GoSleepS DEF GoodKernel
<1>5. x = [v EXCEPT !.k = r, !.vt = [@ EXCEPT ![t] = "armed"],
                    !.call = [@ EXCEPT ![t] = "sleep"]]
  BY <1>1 DEF chThdSleepS, KernelStates
<1> HIDE DEF x, t, r
<1>6. /\ x.k = r /\ x.s_cnt = v.s_cnt /\ x.s_queue = v.s_queue /\ x.p_u = v.p_u
      /\ x.vt = [v.vt EXCEPT ![t] = "armed"] /\ x.call = [v.call EXCEPT ![t] = "sleep"]
  BY <1>1, <1>5 DEF KernelStates
<1>7. x \in KernelStates
  <2>1. /\ [v.vt EXCEPT ![t] = "armed"] \in [AllThreads -> TimerStates]
        /\ [v.call EXCEPT ![t] = "sleep"] \in [AllThreads -> Calls]
    BY <1>1 DEF TimerStates, KernelAssumption
  <2>2. r \in SchedStates BY <1>4 DEF SchedInv
  <2> QED BY <1>1, <1>5, <2>1, <2>2 DEF KernelStates
<1>8. \A u \in AllThreads \ {t} :
         /\ r.p_state[u] = "WTSEM" <=> v.k.p_state[u] = "WTSEM"
         /\ r.p_state[u] = "SLEEPING" <=> v.k.p_state[u] = "SLEEPING"
         /\ r.p_state[u] \in Runnable <=> v.k.p_state[u] \in Runnable
         /\ x.vt[u] = v.vt[u] /\ x.call[u] = v.call[u]
  <2>1. \A u \in AllThreads \ {t} :
           \/ r.p_state[u] = v.k.p_state[u]
           \/ r.p_state[u] \in Runnable /\ v.k.p_state[u] \in Runnable
    BY <1>4 DEF Keeps
  <2> QED BY <1>1, <1>6, <2>1 DEF Runnable
<1>9. x.call[t] = "sleep" BY <1>1, <1>6
<1>10. SemConsistent(x)
  <2>1. \A u \in AllThreads : x.k.p_state[u] = "WTSEM" <=> v.k.p_state[u] = "WTSEM"
    BY <1>2, <1>4, <1>6, <1>8
  <2> QED BY <1>6, <2>1 DEF GoodKernel, SemConsistent
<1>11. CallsMatchStates(x)
  <2>1. \A u \in AllThreads \ {t} :
           /\ x.k.p_state[u] \in Runnable \cup {"WTSEM", "SLEEPING"}
           /\ x.k.p_state[u] = "SLEEPING" => x.call[u] = "sleep"
           /\ x.k.p_state[u] = "WTSEM" =>
                x.call[u] \notin {"none", "sleep"} /\ x.p_u[u] \in Sems
           /\ x.k.p_state[u] \in Runnable /\ x.call[u] \notin {"none", "sleep"} =>
                x.p_u[u] \in RdyMsgs
    BY <1>6, <1>8 DEF GoodKernel, CallsMatchStates
  <2>2. x.k.p_state[t] = "SLEEPING" BY <1>4, <1>6
  <2> QED BY <1>9, <2>1, <2>2 DEF CallsMatchStates, Runnable
<1>12. TimersOnLiveStacks(x)
  <2>1. \A u \in AllThreads \ {t} : x.vt[u] # "off" => x.call[u] # "none"
    BY <1>8 DEF GoodKernel, TimersOnLiveStacks
  <2> QED BY <1>9, <2>1 DEF TimersOnLiveStacks
<1>13. GoodKernel(x) BY <1>4, <1>6, <1>7, <1>10, <1>11, <1>12 DEF GoodKernel
<1> QED BY <1>4, <1>6, <1>13 DEF x, t, r

\* chSemFastWaitI(): the running thread takes a free unit.
LEMMA FastWaitOK ==
    ASSUME NEW v, GoodKernel(v), NEW sp \in Sems, v.s_cnt[sp] - 1 >= 0
    PROVE  LET x == chSemFastWaitI(v, sp)
           IN /\ GoodKernel(x)
              /\ x.s_cnt = [v.s_cnt EXCEPT ![sp] = @ - 1]
              /\ x.s_queue = v.s_queue /\ x.vt = v.vt /\ x.call = v.call
              /\ x.p_u = v.p_u /\ x.k = v.k
<1> DEFINE x == chSemFastWaitI(v, sp)
<1>1. v \in KernelStates /\ v.s_cnt[sp] \in Int BY KernelTypes DEF GoodKernel
<1>2. x = [v EXCEPT !.s_cnt[sp] = v.s_cnt[sp] - 1]
  BY <1>1 DEF chSemFastWaitI, KernelStates
<1> HIDE DEF x
<1>3. GoodKernel(x)
  <2>1. v.s_cnt[sp] >= 0 /\ v.s_cnt[sp] - 1 \in Nat BY <1>1
  <2> QED BY <1>2, <2>1, CountChanges
<1>4. /\ x.s_cnt = [v.s_cnt EXCEPT ![sp] = v.s_cnt[sp] - 1]
      /\ x.s_queue = v.s_queue /\ x.vt = v.vt /\ x.call = v.call
      /\ x.p_u = v.p_u /\ x.k = v.k
  BY <1>1, <1>2 DEF KernelStates
<1> QED BY <1>3, <1>4 DEF x

\* The running thread, which no timer is about to wake, returns from its call.
LEMMA ResumeOK ==
    ASSUME NEW v, GoodKernel(v), v.vt[v.k.r_current] # "fired", KernelAssumption
    PROVE  LET x == Resume(v)
               t == v.k.r_current
           IN /\ GoodKernel(x)
              /\ x.s_cnt = v.s_cnt /\ x.s_queue = v.s_queue /\ x.p_u = v.p_u
              /\ x.k = v.k
              /\ x.vt = [v.vt EXCEPT ![t] = "off"]
              /\ x.call = [v.call EXCEPT ![t] = "none"]
<1> DEFINE x == Resume(v)
           t == v.k.r_current
<1>1. /\ v \in KernelStates /\ t \in AllThreads
      /\ v.vt \in [AllThreads -> TimerStates] /\ v.call \in [AllThreads -> Calls]
  BY KernelTypes DEF GoodKernel
<1>2. v.k.p_state[t] = "CURRENT" BY <1>1 DEF GoodKernel, SchedInv, ReadyListMembers
<1>3. v.vt[t] \in {"off", "armed"} BY <1>1 DEF TimerStates
<1>4. x = [v EXCEPT !.vt = [@ EXCEPT ![t] = "off"],
                    !.call = [@ EXCEPT ![t] = "none"]]
  <2>1. (IF v.vt[t] = "armed" THEN "off" ELSE v.vt[t]) = "off" BY <1>3
  <2> QED BY <1>1, <2>1 DEF Resume, KernelStates
<1> HIDE DEF x, t
<1>5. /\ x.k = v.k /\ x.s_cnt = v.s_cnt /\ x.s_queue = v.s_queue /\ x.p_u = v.p_u
      /\ x.vt = [v.vt EXCEPT ![t] = "off"] /\ x.call = [v.call EXCEPT ![t] = "none"]
  BY <1>1, <1>4 DEF KernelStates
<1>6. x \in KernelStates
  <2>1. /\ [v.vt EXCEPT ![t] = "off"] \in [AllThreads -> TimerStates]
        /\ [v.call EXCEPT ![t] = "none"] \in [AllThreads -> Calls]
    BY <1>1 DEF TimerStates, KernelAssumption
  <2> QED BY <1>1, <1>4, <2>1 DEF KernelStates
<1>7. /\ x.vt[t] = "off" /\ x.call[t] = "none"
      /\ \A u \in AllThreads \ {t} : x.vt[u] = v.vt[u] /\ x.call[u] = v.call[u]
  BY <1>1, <1>5
<1>8. SemConsistent(x) BY <1>5 DEF GoodKernel, SemConsistent
<1>9. CallsMatchStates(x)
  <2>1. \A u \in AllThreads \ {t} :
           /\ x.k.p_state[u] \in Runnable \cup {"WTSEM", "SLEEPING"}
           /\ x.k.p_state[u] = "SLEEPING" => x.call[u] = "sleep"
           /\ x.k.p_state[u] = "WTSEM" =>
                x.call[u] \notin {"none", "sleep"} /\ x.p_u[u] \in Sems
           /\ x.k.p_state[u] \in Runnable /\ x.call[u] \notin {"none", "sleep"} =>
                x.p_u[u] \in RdyMsgs
    BY <1>5, <1>7 DEF GoodKernel, CallsMatchStates
  <2>2. x.k.p_state[t] = "CURRENT" BY <1>2, <1>5
  <2> QED BY <1>7, <2>1, <2>2 DEF CallsMatchStates, Runnable
<1>10. TimersOnLiveStacks(x)
  BY <1>7 DEF GoodKernel, TimersOnLiveStacks
<1> QED BY <1>5, <1>6, <1>8, <1>9, <1>10 DEF GoodKernel, x, t

----------------------------------------------------------------------------
(* The services that signal or reset several times are loops. *)

\* chSemAddCounterI(): n signals, one after the other.
LEMMA AddCounterSignals ==
    ASSUME NEW v, GoodKernel(v), NEW sp \in Sems, NEW n \in Nat, KernelAssumption
    PROVE  \E b : /\ b[0] = v /\ b[n] = chSemAddCounterI(v, sp, n)
                  /\ \A i \in 0..n : GoodKernel(b[i])
                  /\ \A i \in 1..n : b[i] = chSemSignalI(b[i - 1], sp)
<1> DEFINE Body(x) == chSemSignalI(x, sp)
           Turn(x) == IF GoodKernel(x) THEN Body(x) ELSE x
           F == [p \in (1..n) \X KernelStates |-> Turn(p[2])]
           Loop(b) == b = [i \in 0..n |-> IF i = 0 THEN v ELSE Body(b[i - 1])]
           b == CHOOSE b : Loop(b)
<1>1. v \in KernelStates BY DEF GoodKernel
<1>2. \A x : GoodKernel(x) => GoodKernel(Body(x)) BY SignalI DEF SignalEffect
<1>3. \A x \in KernelStates : Turn(x) \in KernelStates BY <1>2 DEF GoodKernel
<1>4. chSemAddCounterI(v, sp, n) = b[n] BY DEF chSemAddCounterI
<1> HIDE DEF Body, Turn
<1>5. F \in [(1..n) \X KernelStates -> KernelStates] BY <1>3
<1>6. \E f \in [0..n -> KernelStates] : IsIteration(f, n, v, F)
  <2> HIDE DEF F
  <2> QED BY <1>1, <1>5, Iteration
<1>7. ASSUME NEW f, f[0] = v,
             \A i \in 1..n : GoodKernel(f[i - 1]) => f[i] = Body(f[i - 1])
      PROVE  \A i \in 0..n : GoodKernel(f[i])
  <2> DEFINE Good == {i \in 0..n : GoodKernel(f[i])}
  <2>1. 0 \in Good BY <1>7
  <2>2. \A i \in 1..n : i - 1 \in Good => i \in Good BY <1>2, <1>7
  <2> HIDE DEF Good
  <2>3. \A i \in 0..n : i \in Good BY <2>1, <2>2, TurnInduction
  <2> QED BY <2>3 DEF Good
<1>8. \E f : Loop(f)
  <2>1. PICK f \in [0..n -> KernelStates] : IsIteration(f, n, v, F) BY <1>6
  <2>2. \A i \in 0..n : f[i] \in KernelStates OBVIOUS
  <2>3. f[0] = v /\ \A i \in 1..n : f[i] = F[<<i, f[i - 1]>>]
    <3> HIDE DEF F
    <3> QED BY <2>1 DEF IsIteration
  <2>4. \A i \in 1..n : f[i] = Turn(f[i - 1])
    <3> TAKE i \in 1..n
    <3>1. f[i - 1] \in KernelStates BY <2>2
    <3> QED BY <2>3, <3>1
  <2>5. \A i \in 0..n : GoodKernel(f[i]) BY <1>7, <2>3, <2>4 DEF Turn
  <2>6. \A i \in 1..n : f[i] = Body(f[i - 1]) BY <2>4, <2>5 DEF Turn
  <2>7. \A i \in 0..n : f[i] = IF i = 0 THEN v ELSE Body(f[i - 1])
    BY <2>3, <2>6
  <2> HIDE DEF F
  <2>8. f = [i \in 0..n |-> IF i = 0 THEN v ELSE Body(f[i - 1])]
    BY <2>7
  <2> QED BY <2>8
<1>9. Loop(b)
  <2> HIDE DEF Loop
  <2> QED BY <1>8
<1> HIDE DEF b
<1>10. b[0] = v /\ \A i \in 1..n : b[i] = Body(b[i - 1])
  <2>1. \A i \in 0..n : b[i] = IF i = 0 THEN v ELSE Body(b[i - 1]) BY <1>9
  <2> HIDE DEF Loop
  <2> QED BY <2>1
<1>11. \A i \in 0..n : GoodKernel(b[i]) BY <1>7, <1>10
<1> QED BY <1>4, <1>10, <1>11 DEF Body

\* ... which add n to the counter.
LEMMA AddCounterI ==
    ASSUME NEW v, GoodKernel(v), NEW sp \in Sems, NEW n \in Nat, KernelAssumption
    PROVE  LET x == chSemAddCounterI(v, sp, n)
           IN /\ GoodKernel(x)
              /\ x.s_cnt = [v.s_cnt EXCEPT ![sp] = @ + n]
              /\ x.vt = v.vt /\ x.call = v.call
              /\ x.k.r_current = v.k.r_current
<1> DEFINE x == chSemAddCounterI(v, sp, n)
<1>1. PICK b : /\ b[0] = v /\ b[n] = x
               /\ \A i \in 0..n : GoodKernel(b[i])
               /\ \A i \in 1..n : b[i] = chSemSignalI(b[i - 1], sp)
  BY AddCounterSignals
<1> HIDE DEF x
<1> DEFINE OK(i) == /\ b[i].s_cnt = [v.s_cnt EXCEPT ![sp] = @ + i]
                    /\ b[i].vt = v.vt /\ b[i].call = v.call
                    /\ b[i].k.r_current = v.k.r_current
           Good == {i \in 0..n : OK(i)}
<1>2. v.s_cnt \in [Sems -> Int] BY KernelTypes DEF GoodKernel
<1>3. OK(0) BY <1>1, <1>2
<1>4. ASSUME NEW i \in 1..n, OK(i - 1) PROVE OK(i)
  <2>1. GoodKernel(b[i - 1]) /\ b[i] = chSemSignalI(b[i - 1], sp) BY <1>1
  <2>2. /\ b[i].s_cnt = [b[i - 1].s_cnt EXCEPT ![sp] = @ + 1]
        /\ b[i].vt = b[i - 1].vt /\ b[i].call = b[i - 1].call
        /\ b[i].k.r_current = b[i - 1].k.r_current
    <3> DEFINE y == b[i - 1]
    <3>1. GoodKernel(y) BY <2>1
    <3> HIDE DEF y
    <3> DEFINE z == chSemSignalI(y, sp)
    <3>2. /\ z.s_cnt = [y.s_cnt EXCEPT ![sp] = @ + 1]
          /\ z.vt = y.vt /\ z.call = y.call /\ z.k.r_current = y.k.r_current
      BY <3>1, SignalI DEF SignalEffect
    <3>3. b[i] = z BY <2>1 DEF y
    <3> HIDE DEF z
    <3> QED BY <3>2, <3>3 DEF y
  <2>3. b[i].s_cnt = [v.s_cnt EXCEPT ![sp] = @ + i]
    BY <1>2, <1>4, <2>2
  <2> QED BY <1>4, <2>2, <2>3
<1>5. OK(n)
  <2>1. 0 \in Good BY <1>3
  <2>2. \A i \in 1..n : i - 1 \in Good => i \in Good
    <3> TAKE i \in 1..n
    <3> HAVE i - 1 \in Good
    <3>1. OK(i - 1) /\ i \in 0..n OBVIOUS
    <3>2. OK(i)
      <4> HIDE DEF OK
      <4> QED BY <1>4, <3>1
    <3> HIDE DEF OK
    <3> QED BY <3>1, <3>2
  <2> HIDE DEF Good
  <2>3. n \in Good BY <2>1, <2>2, TurnInduction
  <2> QED BY <2>3 DEF Good
<1>6. GoodKernel(b[n]) BY <1>1
<1> QED BY <1>1, <1>5, <1>6 DEF x

\* One turn of the loop of chSemResetI(): the last waiter leaves.
WakeLast(x, sp) ==
    ReadyMsg([x EXCEPT !.s_queue[sp] = Front(@)], Last(x.s_queue[sp]), "RDY_RESET")

\* x with the counter of sp that its queue calls for.
Counted(x, sp) == [x EXCEPT !.s_cnt[sp] = 0 - Len(x.s_queue[sp])]

LEMMA WakeLastOK ==
    ASSUME NEW x \in KernelStates, NEW sp \in Sems, GoodKernel(Counted(x, sp)),
           x.s_queue[sp] # <<>>, KernelAssumption
    PROVE  LET y == WakeLast(x, sp)
               t == Last(x.s_queue[sp])
           IN /\ y \in KernelStates /\ GoodKernel(Counted(y, sp))
              /\ t \in Elems(x.s_queue[sp])
              /\ y.s_cnt = x.s_cnt /\ y.vt = x.vt /\ y.call = x.call
              /\ y.k.r_current = x.k.r_current
              /\ Keeps(x.k, y.k, {t}) /\ y.k.p_state[t] \in Runnable
              /\ y.p_u = [x.p_u EXCEPT ![t] = "RDY_RESET"]
              /\ y.s_queue = [x.s_queue EXCEPT ![sp] = Front(@)]
              /\ Len(y.s_queue[sp]) = Len(x.s_queue[sp]) - 1
              /\ Elems(y.s_queue[sp]) = Elems(x.s_queue[sp]) \ {t}
<1> DEFINE v == Counted(x, sp)
           q == Front(x.s_queue[sp])
           t == Last(x.s_queue[sp])
           r == chSchReadyI(x.k, t)
           y == WakeLast(x, sp)
<1>1. /\ x.s_cnt \in [Sems -> Int] /\ x.s_queue \in [Sems -> Seq(AllThreads)]
      /\ x.p_u \in [AllThreads -> Sems \cup RdyMsgs \cup {NULL}]
      /\ x.s_queue[sp] \in Seq(AllThreads)
  BY KernelTypes
<1>2. /\ v = [x EXCEPT !.s_cnt = [@ EXCEPT ![sp] = 0 - Len(x.s_queue[sp])]]
      /\ v.k = x.k /\ v.s_queue = x.s_queue /\ v.p_u = x.p_u
      /\ v.s_cnt = [x.s_cnt EXCEPT ![sp] = 0 - Len(x.s_queue[sp])]
  BY DEF Counted, KernelStates
<1>3. /\ NoDuplicates(x.s_queue[sp])
      /\ Elems(x.s_queue[sp]) =
            {u \in AllThreads : x.k.p_state[u] = "WTSEM" /\ x.p_u[u] = sp}
      /\ SchedInv(x.k)
  BY <1>2 DEF GoodKernel, SemConsistent
<1>4. /\ t \in Elems(x.s_queue[sp])
      /\ q \in Seq(AllThreads) /\ Len(q) = Len(x.s_queue[sp]) - 1
      /\ NoDuplicates(q) /\ Elems(q) = Elems(x.s_queue[sp]) \ {t}
  BY <1>1, <1>3, FrontLast
<1>5. y = [x EXCEPT !.k = r, !.s_queue = [@ EXCEPT ![sp] = q],
                    !.p_u = [@ EXCEPT ![t] = "RDY_RESET"]]
  BY <1>1 DEF WakeLast, ReadyMsg, KernelStates
<1> HIDE DEF v, q, t, r, y
<1>6. /\ SchedInv(r) /\ Keeps(x.k, r, {t}) /\ r.p_state[t] \in Runnable
      /\ r.r_current = x.k.r_current
  <2>1. t \in AllThreads /\ x.k.p_state[t] \notin Runnable
    BY <1>3, <1>4 DEF Runnable
  <2> QED BY <1>3, <2>1, ReadyI DEF r, Runnable
<1>7. /\ y.k = r /\ y.s_cnt = x.s_cnt /\ y.vt = x.vt /\ y.call = x.call
      /\ y.p_u = [x.p_u EXCEPT ![t] = "RDY_RESET"]
      /\ y.s_queue = [x.s_queue EXCEPT ![sp] = q]
      /\ y.s_queue[sp] = q
  BY <1>1, <1>5 DEF KernelStates
<1>8. y \in KernelStates
  <2>1. /\ [x.s_queue EXCEPT ![sp] = q] \in [Sems -> Seq(AllThreads)]
        /\ [x.p_u EXCEPT ![t] = "RDY_RESET"]
              \in [AllThreads -> Sems \cup RdyMsgs \cup {NULL}]
    BY <1>1, <1>4 DEF RdyMsgs
  <2>2. r \in SchedStates BY <1>6 DEF SchedInv
  <2> QED BY <1>5, <2>1, <2>2 DEF KernelStates
<1>9. GoodKernel(Counted(y, sp))
  <2>1. 0 - Len(q) \in Int /\ Len(q) = IF 0 - Len(q) < 0 THEN -(0 - Len(q)) ELSE 0
    BY <1>4, EmptySeq
  <2>2. Counted(y, sp) = [v EXCEPT !.k = r, !.s_cnt = [@ EXCEPT ![sp] = 0 - Len(q)],
                                   !.s_queue = [@ EXCEPT ![sp] = q],
                                   !.p_u = [@ EXCEPT ![t] = "RDY_RESET"]]
    <3>1. Counted(y, sp) = [y EXCEPT !.s_cnt = [@ EXCEPT ![sp] = 0 - Len(q)]]
      BY <1>7 DEF Counted
    <3>2. [x.s_cnt EXCEPT ![sp] = 0 - Len(q)] = [v.s_cnt EXCEPT ![sp] = 0 - Len(q)]
      BY <1>1, <1>2
    <3> DEFINE c == [v.s_cnt EXCEPT ![sp] = 0 - Len(q)]
               qs == [v.s_queue EXCEPT ![sp] = q]
               us == [v.p_u EXCEPT ![t] = "RDY_RESET"]
               z == [v EXCEPT !.k = r, !.s_cnt = c, !.s_queue = qs, !.p_u = us]
    <3>3. v \in KernelStates /\ v.vt = x.vt /\ v.call = x.call
      BY <1>2 DEF GoodKernel, KernelStates, v
    <3>4. /\ c \in [Sems -> Int] /\ qs \in [Sems -> Seq(AllThreads)]
          /\ us \in [AllThreads -> Sems \cup RdyMsgs \cup {NULL}]
          /\ r \in SchedStates
      <4>1. v.s_cnt \in [Sems -> Int] /\ 0 - Len(q) \in Int BY <2>1, <3>3, KernelTypes
      <4>2. v.s_queue = x.s_queue /\ v.p_u = x.p_u BY <1>2
      <4>3. "RDY_RESET" \in RdyMsgs BY DEF RdyMsgs
      <4>4. us \in [AllThreads -> Sems \cup RdyMsgs \cup {NULL}] BY <1>1, <4>2, <4>3
      <4>5. qs \in [Sems -> Seq(AllThreads)] BY <1>1, <1>4, <4>2
      <4> QED BY <1>6, <4>1, <4>4, <4>5 DEF SchedInv
    <3>5. c = [y.s_cnt EXCEPT ![sp] = 0 - Len(q)] BY <1>7, <3>2
    <3>6. qs = y.s_queue /\ us = y.p_u BY <1>2, <1>7
    <3> HIDE DEF c, qs, us
    <3>7. /\ z \in KernelStates /\ z.k = r /\ z.s_cnt = c /\ z.s_queue = qs
          /\ z.p_u = us /\ z.vt = v.vt /\ z.call = v.call
      BY <3>3, <3>4 DEF KernelStates
    <3> HIDE DEF z
    <3>8. /\ Counted(y, sp) \in KernelStates /\ Counted(y, sp).s_cnt = c
          /\ Counted(y, sp).k = y.k /\ Counted(y, sp).s_queue = y.s_queue
          /\ Counted(y, sp).p_u = y.p_u /\ Counted(y, sp).vt = y.vt
          /\ Counted(y, sp).call = y.call
      BY <1>8, <3>1, <3>4, <3>5 DEF KernelStates
    <3>9. Counted(y, sp) = z BY <1>7, <3>3, <3>6, <3>7, <3>8, SameKernel
    <3> QED BY <3>9 DEF z, c, qs, us
  <2>3. "RDY_RESET" \in RdyMsgs BY DEF RdyMsgs
  <2>4. /\ GoodKernel(v) /\ t \in Elems(v.s_queue[sp])
        /\ Elems(q) = Elems(v.s_queue[sp]) \ {t} /\ Keeps(v.k, r, {t})
    BY <1>2, <1>4, <1>6 DEF v
  <2> DEFINE m == 0 - Len(q)
  <2> HIDE DEF m
  <2>5. m \in Int /\ Len(q) = IF m < 0 THEN -m ELSE 0 BY <2>1 DEF m
  <2>6. GoodKernel([v EXCEPT !.k = r, !.s_cnt = [@ EXCEPT ![sp] = m],
                             !.s_queue = [@ EXCEPT ![sp] = q],
                             !.p_u = [@ EXCEPT ![t] = "RDY_RESET"]])
    BY <1>4, <1>6, <2>3, <2>4, <2>5, LeavesQueue
  <2> QED BY <2>2, <2>6 DEF m
<1> QED BY <1>4, <1>6, <1>7, <1>8, <1>9 DEF y, t, q

\* What a reset changes.
ResetEffect(v, x, sp, n) ==
    /\ GoodKernel(x)
    /\ x.s_cnt = [v.s_cnt EXCEPT ![sp] = n]
    /\ x.s_queue = [v.s_queue EXCEPT ![sp] = <<>>]
    /\ x.vt = v.vt /\ x.call = v.call
    /\ x.k.r_current = v.k.r_current
    /\ Keeps(v.k, x.k, Elems(v.s_queue[sp]))
    /\ \A u \in AllThreads :
         IF u \in Elems(v.s_queue[sp])
         THEN x.k.p_state[u] \in Runnable /\ x.p_u[u] = "RDY_RESET"
         ELSE x.p_u[u] = v.p_u[u]

\* chSemResetI(): every waiter of sp is runnable with RDY_RESET, the counter is
\* n, and no other wait changes.
LEMMA ResetI ==
    ASSUME NEW v, GoodKernel(v), NEW sp \in Sems, NEW n \in Nat, KernelAssumption
    PROVE  ResetEffect(v, chSemResetI(v, sp, n), sp, n)
<1> DEFINE q == v.s_queue[sp]
           l == IF v.s_cnt[sp] < 0 THEN -v.s_cnt[sp] ELSE 0
           x0 == [v EXCEPT !.s_cnt[sp] = n]
           Body(x) == WakeLast(x, sp)
           Ready(x) == GoodKernel(Counted(x, sp)) /\ x.s_queue[sp] # <<>>
           Turn(x) == IF Ready(x) THEN Body(x) ELSE x
           F == [p \in (1..l) \X KernelStates |-> Turn(p[2])]
           Loop(b) == b = [i \in 0..l |-> IF i = 0 THEN x0 ELSE Body(b[i - 1])]
           b == CHOOSE b : Loop(b)
<1>1. /\ v \in KernelStates /\ v.s_cnt \in [Sems -> Int]
      /\ v.s_queue \in [Sems -> Seq(AllThreads)] /\ q \in Seq(AllThreads)
      /\ v.p_u \in [AllThreads -> Sems \cup RdyMsgs \cup {NULL}]
  BY KernelTypes DEF GoodKernel
<1>2. l = Len(q) /\ l \in Nat
  <2>1. Len(q) = IF v.s_cnt[sp] < 0 THEN -v.s_cnt[sp] ELSE 0
    BY DEF GoodKernel, SemConsistent
  <2> QED BY <1>1, <2>1
<1>3. chSemResetI(v, sp, n) = b[l] BY DEF chSemResetI, WakeLast
<1>4. /\ x0 \in KernelStates
      /\ x0.s_cnt = [v.s_cnt EXCEPT ![sp] = n]
      /\ x0.s_queue = v.s_queue /\ x0.p_u = v.p_u /\ x0.k = v.k
      /\ x0.vt = v.vt /\ x0.call = v.call
  <2>1. [v.s_cnt EXCEPT ![sp] = n] \in [Sems -> Int] BY <1>1
  <2> QED BY <1>1, <2>1 DEF KernelStates
<1>5. GoodKernel(Counted(x0, sp))
  <2>1. CASE v.s_cnt[sp] < 0
    <3>1. 0 - Len(q) = v.s_cnt[sp] BY <1>1, <1>2, <2>1
    <3>2. Counted(x0, sp) = v BY <1>1, <1>4, <3>1 DEF Counted, KernelStates
    <3> QED BY <3>2
  <2>2. CASE ~(v.s_cnt[sp] < 0)
    <3>1. 0 - Len(q) = 0 /\ v.s_cnt[sp] >= 0 BY <1>1, <1>2, <2>2
    <3>2. Counted(x0, sp) = [v EXCEPT !.s_cnt[sp] = 0]
      BY <1>1, <1>4, <3>1 DEF Counted, KernelStates
    <3> QED BY <3>1, <3>2, CountChanges
  <2> QED BY <2>1, <2>2
<1> HIDE DEF x0, Body, l
<1> DEFINE OK(x, i) ==
             /\ x \in KernelStates /\ GoodKernel(Counted(x, sp))
             /\ Len(x.s_queue[sp]) = l - i
             /\ x.s_queue = [v.s_queue EXCEPT ![sp] = x.s_queue[sp]]
             /\ x.s_cnt = [v.s_cnt EXCEPT ![sp] = n]
             /\ x.vt = v.vt /\ x.call = v.call
             /\ x.k.r_current = v.k.r_current
             /\ Elems(x.s_queue[sp]) \subseteq Elems(q)
             /\ Keeps(v.k, x.k, Elems(q) \ Elems(x.s_queue[sp]))
             /\ \A u \in AllThreads :
                  IF u \in Elems(q) \ Elems(x.s_queue[sp])
                  THEN x.k.p_state[u] \in Runnable /\ x.p_u[u] = "RDY_RESET"
                  ELSE x.p_u[u] = v.p_u[u]
<1>6. OK(x0, 0)
  <2>1. v.s_queue = [v.s_queue EXCEPT ![sp] = v.s_queue[sp]] BY <1>1
  <2>2. Keeps(v.k, v.k, Elems(q) \ Elems(q)) BY DEF Keeps
  <2>3. Len(q) = l - 0 BY <1>2
  <2> QED BY <1>4, <1>5, <2>1, <2>2, <2>3
<1>7. ASSUME NEW x, NEW i \in 1..l, OK(x, i - 1)
      PROVE  x.s_queue[sp] # <<>> /\ Ready(x) /\ OK(Body(x), i)
  <2> DEFINE y == Body(x)
             t == Last(x.s_queue[sp])
  <2>1. x.s_queue[sp] # <<>>
    <3>1. Len(x.s_queue[sp]) # 0 BY <1>2, <1>7
    <3> QED BY <3>1
  <2>2. x.k.p_state \in [AllThreads -> ThreadStates] BY <1>7, KernelTypes
  <2>3. /\ y \in KernelStates /\ GoodKernel(Counted(y, sp))
        /\ t \in Elems(x.s_queue[sp])
        /\ y.s_cnt = x.s_cnt /\ y.vt = x.vt /\ y.call = x.call
        /\ y.k.r_current = x.k.r_current
        /\ Keeps(x.k, y.k, {t}) /\ y.k.p_state[t] \in Runnable
        /\ y.p_u = [x.p_u EXCEPT ![t] = "RDY_RESET"]
        /\ y.s_queue = [x.s_queue EXCEPT ![sp] = Front(@)]
        /\ Len(y.s_queue[sp]) = Len(x.s_queue[sp]) - 1
        /\ Elems(y.s_queue[sp]) = Elems(x.s_queue[sp]) \ {t}
    <3> HIDE DEF t
    <3> QED BY <1>7, <2>1, WakeLastOK DEF Body, t
  <2> HIDE DEF y, t
  <2>4. Len(y.s_queue[sp]) = l - i
    <3>1. Len(x.s_queue[sp]) = l - (i - 1) BY <1>7
    <3>2. Len(y.s_queue[sp]) = Len(x.s_queue[sp]) - 1 BY <2>3
    <3> QED BY <1>2, <3>1, <3>2
  <2>5. y.s_queue = [v.s_queue EXCEPT ![sp] = y.s_queue[sp]]
    BY <1>1, <1>7, <2>3
  <2>6. /\ t \in Elems(q) /\ t \in AllThreads
        /\ Elems(q) \ Elems(y.s_queue[sp]) = (Elems(q) \ Elems(x.s_queue[sp])) \cup {t}
        /\ Elems(y.s_queue[sp]) \subseteq Elems(q)
    <3>1. t \in Elems(x.s_queue[sp]) /\ Elems(y.s_queue[sp]) = Elems(x.s_queue[sp]) \ {t}
      BY <2>3
    <3>2. Elems(x.s_queue[sp]) \subseteq Elems(q) BY <1>7
    <3>3. Elems(q) \subseteq AllThreads BY <1>1 DEF Elems
    <3> QED BY <3>1, <3>2, <3>3
  <2>7. \A u \in AllThreads \ {t} :
           /\ y.p_u[u] = x.p_u[u]
           /\ y.k.p_state[u] \in Runnable <=> x.k.p_state[u] \in Runnable
    <3>1. x.p_u \in [AllThreads -> Sems \cup RdyMsgs \cup {NULL}] BY <1>7, KernelTypes
    <3> QED BY <2>3, <3>1 DEF Keeps
  <2>8. y.p_u[t] = "RDY_RESET"
    <3>1. x.p_u \in [AllThreads -> Sems \cup RdyMsgs \cup {NULL}] BY <1>7, KernelTypes
    <3> QED BY <2>3, <2>6, <3>1
  <2>9. Keeps(v.k, y.k, Elems(q) \ Elems(y.s_queue[sp]))
    BY <1>7, <2>3, <2>6 DEF Keeps
  <2>10. \A u \in AllThreads :
            IF u \in Elems(q) \ Elems(y.s_queue[sp])
            THEN y.k.p_state[u] \in Runnable /\ y.p_u[u] = "RDY_RESET"
            ELSE y.p_u[u] = v.p_u[u]
    BY <1>7, <2>3, <2>6, <2>7, <2>8
  <2>11. OK(y, i) BY <1>7, <2>3, <2>4, <2>5, <2>6, <2>9, <2>10
  <2> HIDE DEF OK
  <2>12. Ready(x) BY <1>7, <2>1 DEF OK
  <2> QED BY <2>1, <2>11, <2>12 DEF y
<1> HIDE DEF OK, Ready
<1>8. \A x \in KernelStates : Turn(x) \in KernelStates
  BY WakeLastOK DEF Ready, Body
<1>9. F \in [(1..l) \X KernelStates -> KernelStates] BY <1>8
<1>10. \E f \in [0..l -> KernelStates] : IsIteration(f, l, x0, F)
  <2> HIDE DEF F
  <2>1. x0 \in KernelStates BY <1>4
  <2>2. l \in Nat BY <1>2
  <2> QED BY <1>9, <2>1, <2>2, Iteration
<1>11. ASSUME NEW f, f[0] = x0,
              \A i \in 1..l : Ready(f[i - 1]) => f[i] = Body(f[i - 1])
       PROVE  \A i \in 0..l : OK(f[i], i)
  <2> DEFINE Good == {i \in 0..l : OK(f[i], i)}
  <2>1. 0 \in Good BY <1>2, <1>6, <1>11
  <2>2. \A i \in 1..l : i - 1 \in Good => i \in Good BY <1>7, <1>11
  <2> HIDE DEF Good
  <2>3. \A i \in 0..l : i \in Good BY <1>2, <2>1, <2>2, TurnInduction
  <2> QED BY <2>3 DEF Good
<1>12. \E f : Loop(f)
  <2>1. PICK f \in [0..l -> KernelStates] : IsIteration(f, l, x0, F) BY <1>10
  <2>2. \A i \in 0..l : f[i] \in KernelStates OBVIOUS
  <2>3. f[0] = x0 /\ \A i \in 1..l : f[i] = F[<<i, f[i - 1]>>]
    <3> HIDE DEF F
    <3> QED BY <1>2, <2>1 DEF IsIteration
  <2>4. \A i \in 1..l : f[i] = Turn(f[i - 1])
    <3> TAKE i \in 1..l
    <3>1. f[i - 1] \in KernelStates BY <1>2, <2>2
    <3> QED BY <2>3, <3>1
  <2>5. \A i \in 0..l : OK(f[i], i) BY <1>11, <2>3, <2>4
  <2>6. \A i \in 1..l : Ready(f[i - 1])
    <3> TAKE i \in 1..l
    <3>1. OK(f[i - 1], i - 1) BY <1>2, <2>5
    <3> QED BY <1>7, <3>1
  <2>7. \A i \in 0..l : f[i] = IF i = 0 THEN x0 ELSE Body(f[i - 1])
    BY <1>2, <2>3, <2>4, <2>6
  <2> HIDE DEF F
  <2>8. f = [i \in 0..l |-> IF i = 0 THEN x0 ELSE Body(f[i - 1])]
    BY <2>7
  <2> QED BY <2>8
<1>13. Loop(b)
  <2> HIDE DEF Loop
  <2> QED BY <1>12
<1> HIDE DEF b
<1>14. b[0] = x0 /\ \A i \in 1..l : b[i] = Body(b[i - 1])
  <2>1. \A i \in 0..l : b[i] = IF i = 0 THEN x0 ELSE Body(b[i - 1]) BY <1>13
  <2> HIDE DEF Loop
  <2> QED BY <1>2, <2>1
<1>15. OK(b[l], l) BY <1>2, <1>11, <1>14
<1> DEFINE x == b[l]
<1> HIDE DEF x
<1>16. /\ x \in KernelStates /\ GoodKernel(Counted(x, sp))
       /\ Len(x.s_queue[sp]) = 0 /\ x.s_queue[sp] \in Seq(AllThreads)
       /\ x.s_queue = [v.s_queue EXCEPT ![sp] = x.s_queue[sp]]
       /\ x.s_cnt = [v.s_cnt EXCEPT ![sp] = n]
       /\ x.s_cnt \in [Sems -> Int]
  <2>1. x \in KernelStates BY <1>15 DEF OK, x
  <2>2. Len(x.s_queue[sp]) = l - l BY <1>15 DEF OK, x
  <2>3. x.s_queue[sp] \in Seq(AllThreads) /\ x.s_cnt \in [Sems -> Int]
    BY <2>1, KernelTypes
  <2> QED BY <1>2, <1>15, <2>1, <2>2, <2>3 DEF OK, x
<1>17. x.s_queue[sp] = <<>> /\ Elems(x.s_queue[sp]) = {}
  BY <1>16, EmptySeq DEF Elems
<1>18. GoodKernel(x)
  <2>1. Counted(x, sp).s_cnt = [x.s_cnt EXCEPT ![sp] = 0]
    <3>0. Len(x.s_queue[sp]) = 0 BY <1>16
    <3>1. 0 - Len(x.s_queue[sp]) = 0 BY <3>0
    <3> QED BY <1>16, <3>1 DEF Counted, KernelStates
  <2>2. x = [Counted(x, sp) EXCEPT !.s_cnt[sp] = n]
    BY <1>1, <1>16 DEF Counted, KernelStates
  <2>3. Counted(x, sp).s_cnt[sp] >= 0 BY <1>16, <2>1
  <2> QED BY <1>16, <2>2, <2>3, CountChanges
<1>19. /\ x.vt = v.vt /\ x.call = v.call /\ x.k.r_current = v.k.r_current
       /\ Keeps(v.k, x.k, Elems(q))
       /\ \A u \in AllThreads :
            IF u \in Elems(q)
            THEN x.k.p_state[u] \in Runnable /\ x.p_u[u] = "RDY_RESET"
            ELSE x.p_u[u] = v.p_u[u]
  <2>1. Elems(q) \ Elems(x.s_queue[sp]) = Elems(q) BY <1>17
  <2> QED BY <1>15, <2>1 DEF OK, x
<1> QED BY <1>3, <1>16, <1>17, <1>18, <1>19 DEF x, ResetEffect

----------------------------------------------------------------------------
(* Timers *)

\* A sleeping thread becomes runnable with the message msg.
LEMMA SleeperWakes ==
    ASSUME NEW v, GoodKernel(v), NEW t \in AllThreads, v.k.p_state[t] = "SLEEPING",
           NEW r, SchedInv(r), Keeps(v.k, r, {t}), r.p_state[t] \in Runnable,
           NEW msg \in RdyMsgs
    PROVE  GoodKernel([v EXCEPT !.k = r, !.p_u = [@ EXCEPT ![t] = msg]])
<1> DEFINE x == [v EXCEPT !.k = r, !.p_u = [@ EXCEPT ![t] = msg]]
<1>1. /\ v \in KernelStates /\ r \in SchedStates
      /\ v.p_u \in [AllThreads -> Sems \cup RdyMsgs \cup {NULL}]
  BY KernelTypes DEF GoodKernel, SchedInv
<1>2. /\ x.k = r /\ x.s_cnt = v.s_cnt /\ x.s_queue = v.s_queue
      /\ x.p_u = [v.p_u EXCEPT ![t] = msg] /\ x.vt = v.vt /\ x.call = v.call
  BY <1>1 DEF KernelStates
<1>3. x \in KernelStates
  <2>1. [v.p_u EXCEPT ![t] = msg] \in [AllThreads -> Sems \cup RdyMsgs \cup {NULL}]
    BY <1>1
  <2> QED BY <1>1, <2>1 DEF KernelStates
<1> HIDE DEF x
<1>4. \A u \in AllThreads \ {t} :
         /\ r.p_state[u] = "WTSEM" <=> v.k.p_state[u] = "WTSEM"
         /\ r.p_state[u] = "SLEEPING" <=> v.k.p_state[u] = "SLEEPING"
         /\ r.p_state[u] \in Runnable <=> v.k.p_state[u] \in Runnable
         /\ x.p_u[u] = v.p_u[u]
  <2>1. \A u \in AllThreads \ {t} :
           \/ r.p_state[u] = v.k.p_state[u]
           \/ r.p_state[u] \in Runnable /\ v.k.p_state[u] \in Runnable
    BY DEF Keeps
  <2> QED BY <1>1, <1>2, <2>1 DEF Runnable
<1>5. x.p_u[t] = msg /\ r.p_state[t] # "WTSEM" /\ r.p_state[t] # "SLEEPING"
  BY <1>1, <1>2 DEF Runnable
<1>6. SemConsistent(x)
  <2>1. \A o \in Sems :
           {u \in AllThreads : x.k.p_state[u] = "WTSEM" /\ x.p_u[u] = o} =
             {u \in AllThreads : v.k.p_state[u] = "WTSEM" /\ v.p_u[u] = o}
    BY <1>2, <1>4, <1>5
  <2> QED BY <1>2, <2>1 DEF GoodKernel, SemConsistent
<1>7. CallsMatchStates(x)
  <2>1. \A u \in AllThreads \ {t} :
           /\ x.k.p_state[u] \in Runnable \cup {"WTSEM", "SLEEPING"}
           /\ x.k.p_state[u] = "SLEEPING" => x.call[u] = "sleep"
           /\ x.k.p_state[u] = "WTSEM" =>
                x.call[u] \notin {"none", "sleep"} /\ x.p_u[u] \in Sems
           /\ x.k.p_state[u] \in Runnable /\ x.call[u] \notin {"none", "sleep"} =>
                x.p_u[u] \in RdyMsgs
    BY <1>2, <1>4 DEF GoodKernel, CallsMatchStates
  <2> QED BY <1>2, <1>5, <2>1 DEF CallsMatchStates
<1>8. TimersOnLiveStacks(x) BY <1>2 DEF GoodKernel, TimersOnLiveStacks
<1> QED BY <1>2, <1>3, <1>6, <1>7, <1>8 DEF GoodKernel, x

\* The timer callback of a thread that does not run: a thread which was granted
\* its wait in the meantime is left alone, a waiter leaves its queue, a sleeper
\* wakes up.
LEMMA WakeupOK ==
    ASSUME NEW v, GoodKernel(v), NEW t \in AllThreads, v.vt[t] = "fired",
           ~Locked(v), KernelAssumption
    PROVE  LET x == wakeup(v, t)
               o == v.p_u[t]
           IN /\ GoodKernel(x)
              /\ x.vt = [v.vt EXCEPT ![t] = "off"] /\ x.call = v.call
              /\ x.k.r_current = v.k.r_current
              /\ \/ /\ v.k.p_state[t] = "READY"
                    /\ x.s_cnt = v.s_cnt /\ x.s_queue = v.s_queue
                    /\ x.p_u = v.p_u /\ x.k = v.k
                 \/ /\ v.k.p_state[t] = "WTSEM"
                    /\ o \in Sems /\ v.s_cnt[o] < 0 /\ t \in Elems(v.s_queue[o])
                    /\ x.s_cnt = [v.s_cnt EXCEPT ![o] = @ + 1]
                    /\ x.s_queue = [v.s_queue EXCEPT ![o] = dequeue(@, t)]
                    /\ x.p_u = [v.p_u EXCEPT ![t] = "RDY_TIMEOUT"]
                    /\ Keeps(v.k, x.k, {t}) /\ x.k.p_state[t] \in Runnable
                 \/ /\ v.k.p_state[t] = "SLEEPING"
                    /\ x.s_cnt = v.s_cnt /\ x.s_queue = v.s_queue
                    /\ x.p_u = [v.p_u EXCEPT ![t] = "RDY_TIMEOUT"]
                    /\ Keeps(v.k, x.k, {t}) /\ x.k.p_state[t] \in Runnable
<1> DEFINE x == wakeup(v, t)
           o == v.p_u[t]
           off == [v EXCEPT !.vt[t] = "off"]
           r == chSchReadyI(v.k, t)
<1>1. /\ v \in KernelStates
      /\ v.s_cnt \in [Sems -> Int] /\ v.s_queue \in [Sems -> Seq(AllThreads)]
      /\ v.p_u \in [AllThreads -> Sems \cup RdyMsgs \cup {NULL}]
      /\ v.vt \in [AllThreads -> TimerStates]
      /\ v.k.p_state \in [AllThreads -> ThreadStates]
  BY KernelTypes DEF GoodKernel
<1>2. v.call[t] # "none" BY DEF GoodKernel, TimersOnLiveStacks
<1>3. t # v.k.r_current BY <1>2 DEF Locked
<1>4. v.k.p_state[t] \in {"READY", "WTSEM", "SLEEPING"}
  <2>1. v.k.p_state[t] # "CURRENT" BY <1>3 DEF GoodKernel, SchedInv, ReadyListMembers
  <2> QED BY <2>1 DEF GoodKernel, CallsMatchStates, Runnable
<1>5. /\ off.k = v.k /\ off.s_cnt = v.s_cnt /\ off.s_queue = v.s_queue
      /\ off.p_u = v.p_u /\ off.call = v.call
      /\ off.vt = [v.vt EXCEPT ![t] = "off"]
  BY <1>1 DEF KernelStates
<1>6. GoodKernel(off)
  <2>1. "off" \in TimerStates BY DEF TimerStates
  <2> QED BY <2>1, TimerChanges
<1>7. off \in KernelStates BY <1>6 DEF GoodKernel
<1>8. "RDY_TIMEOUT" \in RdyMsgs BY DEF RdyMsgs
<1> HIDE DEF x, off, r
<1>9. CASE v.k.p_state[t] = "READY"
  <2>1. x = off BY <1>9 DEF wakeup, x, off
  <2> QED BY <1>5, <1>6, <1>9, <2>1 DEF x
<1>10. ASSUME v.k.p_state[t] # "READY"
       PROVE  /\ SchedInv(r) /\ Keeps(v.k, r, {t}) /\ r.p_state[t] \in Runnable
              /\ r.r_current = v.k.r_current
  <2>1. v.k.p_state[t] \notin Runnable BY <1>4, <1>10 DEF Runnable
  <2>2. SchedInv(v.k) BY DEF GoodKernel
  <2> QED BY <2>1, <2>2, ReadyI DEF r, Runnable
<1>11. CASE v.k.p_state[t] = "SLEEPING"
  <2>1. x = [off EXCEPT !.k = r, !.p_u = [@ EXCEPT ![t] = "RDY_TIMEOUT"]]
    BY <1>5, <1>7, <1>11 DEF wakeup, x, off, ReadyMsg, r, KernelStates
  <2>2. GoodKernel(x) BY <1>5, <1>6, <1>8, <1>10, <1>11, <2>1, SleeperWakes
  <2>3. /\ x.k = r /\ x.s_cnt = off.s_cnt /\ x.s_queue = off.s_queue
        /\ x.p_u = [off.p_u EXCEPT ![t] = "RDY_TIMEOUT"] /\ x.vt = off.vt
        /\ x.call = off.call
    BY <1>7, <2>1 DEF KernelStates
  <2> QED BY <1>5, <1>10, <1>11, <2>2, <2>3 DEF x
<1>12. CASE v.k.p_state[t] = "WTSEM"
  <2> DEFINE q == dequeue(v.s_queue[o], t)
             n == v.s_cnt[o] + 1
  <2>1. o \in Sems BY <1>12 DEF GoodKernel, CallsMatchStates
  <2>2. /\ v.s_queue[o] \in Seq(AllThreads) /\ NoDuplicates(v.s_queue[o])
        /\ Elems(v.s_queue[o]) =
              {u \in AllThreads : v.k.p_state[u] = "WTSEM" /\ v.p_u[u] = o}
        /\ Len(v.s_queue[o]) = IF v.s_cnt[o] < 0 THEN -v.s_cnt[o] ELSE 0
        /\ v.s_cnt[o] \in Int
    BY <1>1, <2>1 DEF GoodKernel, SemConsistent
  <2>3. t \in Elems(v.s_queue[o]) BY <1>12, <2>2
  <2>4. /\ q \in Seq(AllThreads) /\ Len(q) = Len(v.s_queue[o]) - 1
        /\ NoDuplicates(q) /\ Elems(q) = Elems(v.s_queue[o]) \ {t}
    BY <2>2, <2>3, Dequeue
  <2>5. v.s_cnt[o] < 0
    <3>1. Len(v.s_queue[o]) # 0 BY <2>3 DEF Elems
    <3> QED BY <2>2, <3>1
  <2>6. n \in Int /\ Len(q) = IF n < 0 THEN -n ELSE 0 BY <2>2, <2>4, <2>5
  <2>7. x = [off EXCEPT !.k = r, !.s_cnt = [@ EXCEPT ![o] = n],
                        !.s_queue = [@ EXCEPT ![o] = q],
                        !.p_u = [@ EXCEPT ![t] = "RDY_TIMEOUT"]]
    BY <1>5, <1>7, <1>12, <2>1 DEF wakeup, x, off, ReadyMsg, r, KernelStates
  <2> HIDE DEF o, q, n
  <2>8. GoodKernel(x)
    BY <1>5, <1>6, <1>8, <1>10, <1>12, <2>1, <2>3, <2>4, <2>6, <2>7, LeavesQueue
  <2>9. /\ x.k = r /\ x.s_cnt = [off.s_cnt EXCEPT ![o] = n]
        /\ x.s_queue = [off.s_queue EXCEPT ![o] = q]
        /\ x.p_u = [off.p_u EXCEPT ![t] = "RDY_TIMEOUT"] /\ x.vt = off.vt
        /\ x.call = off.call
    BY <1>7, <2>7 DEF KernelStates
  <2>10. /\ x.s_cnt = [v.s_cnt EXCEPT ![o] = v.s_cnt[o] + 1]
         /\ x.s_queue = [v.s_queue EXCEPT ![o] = dequeue(v.s_queue[o], t)]
    BY <1>5, <2>9 DEF n, q
  <2> QED BY <1>5, <1>10, <1>12, <2>1, <2>3, <2>5, <2>8, <2>9, <2>10 DEF x, o
<1> QED BY <1>4, <1>9, <1>11, <1>12

\* chSchRescheduleS() behind a service, and the epilogue of an interrupt.
LEMMA RescheduleOK ==
    ASSUME NEW v, GoodKernel(v),
           NEW x, \/ x = Reschedule(v) \/ x = [v EXCEPT !.k = IrqEpilogue(@)]
    PROVE  /\ GoodKernel(x)
           /\ x.s_cnt = v.s_cnt /\ x.s_queue = v.s_queue /\ x.p_u = v.p_u
           /\ x.vt = v.vt /\ x.call = v.call
           /\ Keeps(v.k, x.k, {})
<1>1. v \in KernelStates /\ SchedInv(v.k) BY DEF GoodKernel
<1>2. PICK r : /\ x = [v EXCEPT !.k = r]
               /\ SchedInv(r) /\ Keeps(v.k, r, {})
  <2>1. CASE x = Reschedule(v)
    <3> WITNESS chSchRescheduleS(v.k)
    <3> QED BY <1>1, <2>1, RescheduleS DEF Reschedule
  <2>2. CASE x = [v EXCEPT !.k = IrqEpilogue(@)]
    <3> WITNESS IrqEpilogue(v.k)
    <3> QED BY <1>1, <2>2, Epilogue
  <2> QED BY <2>1, <2>2
<1>3. GoodKernel(x) BY <1>2, SchedStep
<1>4. /\ x.s_cnt = v.s_cnt /\ x.s_queue = v.s_queue /\ x.p_u = v.p_u
      /\ x.vt = v.vt /\ x.call = v.call /\ x.k = r
  BY <1>1, <1>2 DEF KernelStates
<1> QED BY <1>2, <1>3, <1>4

----------------------------------------------------------------------------
(* Threads, timers and interrupts of every system on these operators *)

\* Between two steps the kernel state is good, interrupts are served only while
\* no thread is inside a kernel call it resumed in, and a timer is between its
\* removal and its callback only while its interrupt is served.
KernelInv ==
    /\ GoodKernel(w)
    /\ isr \in BOOLEAN
    /\ isr => ~Locked(w)
    /\ \A t \in AllThreads : w.vt[t] = "fired" => isr

\* A thread that goes on inside a call is not interrupted.
LEMMA NobodyIsInterrupted ==
    ASSUME KernelInv, Locked(w) \/ ~isr
    PROVE  ~isr /\ w.k.r_current \in AllThreads /\ w.vt[w.k.r_current] # "fired"
<1>1. w.k.r_current \in AllThreads BY KernelTypes DEF KernelInv, GoodKernel
<1> QED BY <1>1 DEF KernelInv

\* A thread runs a service: its result is a good kernel state, in which no timer
\* has fired.
LEMMA ThreadStep ==
    ASSUME KernelInv, ThreadCode, GoodKernel(w'), UNCHANGED isr,
           \A t \in AllThreads : w'.vt[t] = w.vt[t] \/ w'.vt[t] # "fired"
    PROVE  KernelInv'
BY DEF KernelInv, ThreadCode

\* An interrupt handler runs a service: it lets the running thread run, and no
\* timer starts.
LEMMA IsrStep ==
    ASSUME KernelInv, IsrCode, GoodKernel(w'), isr' = TRUE,
           w'.call = w.call, w'.k.r_current = w.k.r_current
    PROVE  KernelInv'
BY DEF KernelInv, IsrCode, Locked

\* The counters of all semaphores change by the callback of a timer only, and
\* then stay below 1.
CountsStay(v, x) ==
    \A sp \in Sems : x.s_cnt[sp] = v.s_cnt[sp] \/ x.s_cnt[sp] <= 0

\* The steps of the kernel keep the invariant.
LEMMA KernelSteps ==
    ASSUME KernelInv, KernelAssumption, Idle \notin Threads,
           \/ chThdSleep
           \/ \E t \in Threads : TimerExpires(t) \/ TimerCallback(t)
           \/ IrqExit
    PROVE  /\ KernelInv' /\ CountsStay(w, w')
           /\ \A t \in AllThreads : w'.call[t] \in {w.call[t], "sleep"}
<1>1. /\ GoodKernel(w) /\ w \in KernelStates
      /\ w.s_cnt \in [Sems -> Int] /\ w.call \in [AllThreads -> Calls]
      /\ w.vt \in [AllThreads -> TimerStates]
      /\ currp \in AllThreads
  BY KernelTypes DEF KernelInv, GoodKernel, currp
<1>2. CASE chThdSleep
  <2>1. ~Locked(w) /\ w.k.r_current # Idle /\ w' = chThdSleepS(w) /\ UNCHANGED isr
    BY <1>2 DEF chThdSleep, ThreadCode, currp
  <2>2. /\ GoodKernel(w') /\ w'.s_cnt = w.s_cnt
        /\ w'.vt = [w.vt EXCEPT ![currp] = "armed"]
        /\ w'.call = [w.call EXCEPT ![currp] = "sleep"]
    BY <1>1, <2>1, SleepOK DEF currp
  <2>3. KernelInv'
    <3>1. \A t \in AllThreads : w'.vt[t] = w.vt[t] \/ w'.vt[t] # "fired"
      BY <1>1, <2>2
    <3> QED BY <1>2, <2>1, <2>2, <3>1, ThreadStep DEF chThdSleep
  <2> QED BY <1>1, <2>2, <2>3 DEF CountsStay
<1>3. CASE \E t \in Threads : TimerExpires(t)
  <2>1. PICK t \in Threads : TimerExpires(t) BY <1>3
  <2>2. /\ IsrCode /\ w.vt[t] = "armed" /\ t \in AllThreads
        /\ w' = [w EXCEPT !.vt[t] = "fired"] /\ isr' = TRUE
    BY <2>1 DEF TimerExpires, MayExpire, Expire, AllThreads
  <2>3. GoodKernel(w')
    <3>1. "fired" \in TimerStates /\ w.call[t] # "none"
      BY <1>1, <2>2 DEF TimerStates, GoodKernel, TimersOnLiveStacks
    <3> QED BY <1>1, <2>2, <3>1, TimerChanges
  <2>4. w'.k = w.k /\ w'.s_cnt = w.s_cnt /\ w'.call = w.call
    BY <1>1, <2>2 DEF KernelStates
  <2>5. KernelInv' BY <2>2, <2>3, <2>4, IsrStep
  <2> QED BY <2>4, <2>5 DEF CountsStay
<1>4. CASE \E t \in Threads : TimerCallback(t)
  <2>1. PICK t \in Threads : TimerCallback(t) BY <1>4
  <2>2. /\ w.vt[t] = "fired" /\ t \in AllThreads
        /\ w' = wakeup(w, t) /\ UNCHANGED isr
    BY <2>1 DEF TimerCallback, AllThreads
  <2>3. isr /\ ~Locked(w) BY <2>2 DEF KernelInv
  <2>4. /\ GoodKernel(w') /\ w'.call = w.call
        /\ w'.k.r_current = w.k.r_current
        /\ CountsStay(w, w')
    <3> DEFINE x == wakeup(w, t)
               o == w.p_u[t]
    <3>1. /\ GoodKernel(x) /\ x.call = w.call /\ x.k.r_current = w.k.r_current
          /\ \/ x.s_cnt = w.s_cnt
             \/ /\ o \in Sems /\ w.s_cnt[o] < 0
                /\ x.s_cnt = [w.s_cnt EXCEPT ![o] = @ + 1]
      BY <1>1, <2>2, <2>3, WakeupOK
    <3> HIDE DEF x, o
    <3>2. CountsStay(w, x) BY <1>1, <3>1 DEF CountsStay
    <3> QED BY <2>2, <3>1, <3>2 DEF x
  <2>5. KernelInv' BY <2>2, <2>3, <2>4, IsrStep DEF IsrCode
  <2> QED BY <2>4, <2>5
<1>5. CASE IrqExit
  <2>1. /\ isr' = FALSE /\ \A t \in AllThreads : w.vt[t] # "fired"
        /\ w' = [w EXCEPT !.k = IrqEpilogue(@)]
    BY <1>5 DEF IrqExit
  <2>2. GoodKernel(w') /\ w'.s_cnt = w.s_cnt /\ w'.vt = w.vt /\ w'.call = w.call
    BY <1>1, <2>1, RescheduleOK
  <2> QED BY <2>1, <2>2 DEF KernelInv, CountsStay
<1> QED BY <1>2, <1>3, <1>4, <1>5

\* The initial state is good: everybody sleeps.
LEMMA KernelInitInv ==
    ASSUME NEW counts \in [Sems -> Nat], KernelInit(counts), KernelAssumption,
           SchedAssumption, InitPrio \in [Threads -> UserPrios]
    PROVE  KernelInv /\ w.s_cnt = counts
           /\ \A t \in AllThreads : w.call[t] \in {"none", "sleep"}
<1> DEFINE s == w.k
<1>1. /\ w.s_cnt = counts /\ w.s_queue = [sp \in Sems |-> <<>>]
      /\ w.p_u = [t \in AllThreads |-> NULL]
      /\ w.vt = [t \in AllThreads |-> IF t = Idle THEN "off" ELSE "armed"]
      /\ w.call = [t \in AllThreads |-> IF t = Idle THEN "none" ELSE "sleep"]
      /\ isr = FALSE
  BY DEF KernelInit, AllAsleep
<1>2. /\ s.r_current = Idle /\ s.r_queue = <<>>
      /\ s.p_state = [t \in AllThreads |-> IF t = Idle THEN "CURRENT" ELSE "SLEEPING"]
      /\ s.p_prio = [t \in AllThreads |-> IF t = Idle THEN IDLEPRIO ELSE InitPrio[t]]
      /\ s.p_preempt = [t \in AllThreads |-> CH_TIME_QUANTUM]
      /\ s = [r_current |-> s.r_current, r_queue |-> s.r_queue, p_state |-> s.p_state,
              p_prio |-> s.p_prio, p_preempt |-> s.p_preempt]
  BY DEF KernelInit, AllAsleep
<1>3. w = [k |-> w.k, s_cnt |-> w.s_cnt, s_queue |-> w.s_queue, p_u |-> w.p_u,
           vt |-> w.vt, call |-> w.call]
  BY DEF KernelInit, AllAsleep
<1> HIDE DEF s
<1>4. s \in SchedStates
  <2>1. s.p_state \in [AllThreads -> ThreadStates] BY <1>2 DEF ThreadStates
  <2>2. s.p_prio \in [AllThreads -> Prios]
    <3>1. IDLEPRIO \in Prios /\ UserPrios \subseteq Prios
      BY SchedAssumption DEF Prios, UserPrios, IDLEPRIO, LOWPRIO
    <3> QED BY <1>2, <3>1 DEF AllThreads
  <2>3. s.p_preempt \in [AllThreads -> 0..CH_TIME_QUANTUM] BY <1>2, SchedAssumption
  <2>4. s.r_current \in AllThreads /\ s.r_queue \in Seq(AllThreads)
    BY <1>2 DEF AllThreads
  <2> QED BY <1>2, <2>1, <2>2, <2>3, <2>4 DEF SchedStates
<1>5. SchedInv(s)
  <2>1. Elems(s.r_queue) = {} /\ NoDuplicates(s.r_queue)
    BY <1>2 DEF Elems, NoDuplicates
  <2> QED BY <1>2, <1>4, <2>1 DEF SchedInv, ReadyListMembers, Runnable, AllThreads
<1>6. w \in KernelStates
  <2>1. w.s_cnt \in [Sems -> Int] BY <1>1
  <2>2. w.s_queue \in [Sems -> Seq(AllThreads)] BY <1>1
  <2>3. w.p_u \in [AllThreads -> Sems \cup RdyMsgs \cup {NULL}] BY <1>1
  <2>4. /\ w.vt \in [AllThreads -> TimerStates]
        /\ w.call \in [AllThreads -> Calls]
    BY <1>1 DEF TimerStates, KernelAssumption
  <2> QED BY <1>3, <1>4, <2>1, <2>2, <2>3, <2>4 DEF KernelStates, s
<1>7. SemConsistent(w)
  <2> SUFFICES ASSUME NEW sp \in Sems
               PROVE  /\ Len(w.s_queue[sp]) = IF w.s_cnt[sp] < 0 THEN -w.s_cnt[sp] ELSE 0
                      /\ NoDuplicates(w.s_queue[sp])
                      /\ Elems(w.s_queue[sp]) =
                            {u \in AllThreads : w.k.p_state[u] = "WTSEM" /\ w.p_u[u] = sp}
    BY DEF SemConsistent
  <2>1. w.s_queue[sp] = <<>> /\ w.s_cnt[sp] = counts[sp] /\ counts[sp] \in Nat
    BY <1>1
  <2>2. \A u \in AllThreads : w.k.p_state[u] # "WTSEM" BY <1>2 DEF s
  <2> QED BY <2>1, <2>2 DEF Elems, NoDuplicates
<1>8. CallsMatchStates(w)
  BY <1>1, <1>2 DEF CallsMatchStates, Runnable, s
<1>9. TimersOnLiveStacks(w) BY <1>1 DEF TimersOnLiveStacks
<1> QED BY <1>1, <1>5, <1>6, <1>7, <1>8, <1>9 DEF KernelInv, GoodKernel, s

\* As many distinct threads wait in a queue as there are threads, at most.
LEMMA QueueFits ==
    ASSUME NEW v, GoodKernel(v), NEW sp \in Sems, IsFiniteSet(Threads)
    PROVE  v.s_cnt[sp] \in Int /\ v.s_cnt[sp] >= -Cardinality(Threads)
<1> DEFINE q == v.s_queue[sp]
           c == v.s_cnt[sp]
<1>1. c \in Int /\ q \in Seq(AllThreads) BY KernelTypes DEF GoodKernel
<1>2. /\ Len(q) = IF c < 0 THEN -c ELSE 0
      /\ NoDuplicates(q)
      /\ Elems(q) = {t \in AllThreads : v.k.p_state[t] = "WTSEM" /\ v.p_u[t] = sp}
  BY DEF GoodKernel, SemConsistent
<1> HIDE DEF q, c
<1>3. \A i \in 1..Len(q) : q[i] \in Threads
  <2>1. v.k.p_state[Idle] # "WTSEM" BY DEF GoodKernel, SchedInv, Runnable
  <2> QED BY <1>2, <2>1 DEF Elems, AllThreads
<1>4. Cardinality(Threads) \in Nat BY FS_CardinalityType
<1>5. ~(Len(q) > Cardinality(Threads))
  <2> SUFFICES ASSUME Len(q) > Cardinality(Threads) PROVE FALSE OBVIOUS
  <2> DEFINE n == Len(q)
  <2>1. n \in Nat BY <1>1
  <2>2. IsFiniteSet(1..Len(q)) /\ Cardinality(1..Len(q)) = Len(q)
    <3> HIDE DEF n
    <3>1. IsFiniteSet(1..n) /\ Cardinality(1..n) = IF 1 > n THEN 0 ELSE n - 1 + 1
      BY <2>1, FS_Interval
    <3>2. Cardinality(1..n) = n BY <2>1, <3>1
    <3> QED BY <3>1, <3>2 DEF n
  <2> DEFINE f == [i \in 1..Len(q) |-> q[i]]
  <2>3. f \in [1..Len(q) -> Threads] BY <1>3
  <2> HIDE DEF f
  <2>4. \E i, j \in 1..Len(q) : i # j /\ f[i] = f[j]
    BY <2>2, <2>3, FS_PigeonHole
  <2> QED BY <1>2, <2>4 DEF NoDuplicates, f
<1>6. c >= -Cardinality(Threads)
  <2>1. Len(q) \in Nat /\ Len(q) <= Cardinality(Threads) BY <1>1, <1>4, <1>5
  <2> QED BY <1>1, <1>2, <1>4, <2>1
<1> QED BY <1>1, <1>6 DEF c

----------------------------------------------------------------------------
(* The semaphores of ChSem *)

\* The inductive invariant of the system.
SemInv ==
    /\ KernelInv
    /\ \A sp \in Sems : w.s_cnt[sp] <= MaxCnt
    /\ \A t \in AllThreads : w.call[t] \in {"none", "sleep", "semwait"}

LEMMA SemKernel ==
    /\ KernelAssumption
    /\ "semwait" \in Calls \ {"none", "sleep"}
    /\ IsFiniteSet(Threads) /\ Idle \notin Threads
    /\ MaxCnt \in Nat
BY SemBounds, SchedAssumption DEF KernelAssumption

LEMMA SemInitInv == ASSUME SemInit PROVE SemInv
<1>1. InitCounts \in [Sems -> Nat] /\ \A sp \in Sems : InitCounts[sp] <= MaxCnt
  BY SemBounds
<1>2. /\ KernelInv /\ w.s_cnt = InitCounts
      /\ \A t \in AllThreads : w.call[t] \in {"none", "sleep"}
  BY <1>1, SemKernel, SemBounds, SchedAssumption, KernelInitInv DEF SemInit
<1> QED BY <1>1, <1>2 DEF SemInv

\* The parts of the invariant that the steps use.
LEMMA SemTypes ==
    ASSUME SemInv
    PROVE  /\ KernelInv /\ GoodKernel(w) /\ currp \in AllThreads /\ currp = w.k.r_current
           /\ w.s_cnt \in [Sems -> Int] /\ w.call \in [AllThreads -> Calls]
           /\ w.vt \in [AllThreads -> TimerStates]
           /\ \A sp \in Sems : w.s_cnt[sp] <= MaxCnt
           /\ \A t \in AllThreads : w.call[t] \in {"none", "sleep", "semwait"}
BY KernelTypes DEF SemInv, KernelInv, GoodKernel, currp

\* A thread queues on a semaphore of the kernel state v, which has come out of
\* the state w without a call starting or a timer firing.
LEMMA SleepInv ==
    ASSUME SemInv, ThreadCode, NEW v, GoodKernel(v), ~Locked(v),
           v.k.r_current = currp, v.call = w.call, v.vt = w.vt,
           \A sp \in Sems : v.s_cnt[sp] <= MaxCnt,
           NEW sp \in Sems, v.s_cnt[sp] - 1 < 0, NEW timed \in BOOLEAN,
           w' = SleepOnSem(v, sp, timed, "semwait"), UNCHANGED isr
    PROVE  SemInv'
<1>1. v.s_cnt \in [Sems -> Int] BY KernelTypes DEF GoodKernel
<1>2. currp # Idle /\ "semwait" \in Calls \ {"none", "sleep"} /\ KernelAssumption
  BY SemKernel DEF ThreadCode
<1>3. /\ GoodKernel(w')
      /\ w'.s_cnt = [v.s_cnt EXCEPT ![sp] = @ - 1]
      /\ w'.vt = [v.vt EXCEPT ![currp] = IF timed THEN "armed" ELSE @]
      /\ w'.call = [v.call EXCEPT ![currp] = "semwait"]
  <2>1. v.k.r_current # Idle BY <1>2
  <2>2. SleepEffect(v, SleepOnSem(v, sp, timed, "semwait"), sp, timed, "semwait")
    BY <1>2, <2>1, SleepOnSemOK
  <2>3. SleepEffect(v, w', sp, timed, "semwait") BY <2>2
  <2> QED BY <2>3 DEF SleepEffect
<1>4. KernelInv'
  <2>1. \A t \in AllThreads : w'.vt[t] = w.vt[t] \/ w'.vt[t] # "fired"
    BY <1>3, SemTypes
  <2> QED BY <1>3, <2>1, SemTypes, ThreadStep
<1>5. \A o \in Sems : w'.s_cnt[o] <= MaxCnt BY <1>1, <1>3, SemKernel
<1>6. \A t \in AllThreads : w'.call[t] \in {"none", "sleep", "semwait"}
  BY <1>3, SemTypes
<1> QED BY <1>4, <1>5, <1>6 DEF SemInv

LEMMA WaitInv ==
    ASSUME SemInv, NEW sp \in Sems, NEW timed \in BOOLEAN,
           chSemWaitTimeout(sp, timed) \/ chSemWaitImmediate(sp)
    PROVE  SemInv'
<1>1. CASE w.s_cnt[sp] - 1 >= 0 /\ w' = chSemFastWaitI(w, sp)
  <2>1. /\ GoodKernel(w') /\ w'.s_cnt = [w.s_cnt EXCEPT ![sp] = @ - 1]
        /\ w'.vt = w.vt /\ w'.call = w.call
    BY <1>1, SemTypes, FastWaitOK
  <2>2. ThreadCode /\ UNCHANGED isr BY DEF chSemWaitTimeout, chSemWaitImmediate
  <2>3. KernelInv' BY <2>1, <2>2, SemTypes, ThreadStep
  <2>4. \A o \in Sems : w'.s_cnt[o] <= MaxCnt BY <2>1, SemTypes, SemKernel
  <2> QED BY <2>1, <2>3, <2>4, SemTypes DEF SemInv
<1>2. CASE w.s_cnt[sp] - 1 < 0 /\ w' = SleepOnSem(w, sp, timed, "semwait")
           /\ ThreadCode /\ UNCHANGED isr
  BY <1>2, SemTypes, SleepInv DEF ThreadCode
<1> QED BY <1>1, <1>2 DEF chSemWaitTimeout, chSemWaitImmediate

LEMMA SignalInv ==
    ASSUME SemInv, NEW sp \in Sems, SignalFromThread(sp) PROVE SemInv'
<1>1. /\ ThreadCode /\ UNCHANGED isr /\ w.s_cnt[sp] < MaxCnt
      /\ w' = chSemSignal(w, sp)
  BY DEF SignalFromThread
<1>2. /\ GoodKernel(w') /\ w'.s_cnt = [w.s_cnt EXCEPT ![sp] = @ + 1]
      /\ w'.vt = w.vt /\ w'.call = w.call
  BY <1>1, SemTypes, SemKernel, SignalS DEF SignalEffect
<1>3. KernelInv' BY <1>1, <1>2, SemTypes, ThreadStep
<1>4. \A o \in Sems : w'.s_cnt[o] <= MaxCnt BY <1>1, <1>2, SemTypes, SemKernel
<1> QED BY <1>2, <1>3, <1>4, SemTypes DEF SemInv

LEMMA ResetInv ==
    ASSUME SemInv, NEW sp \in Sems, NEW n \in ResetCounts,
           chSemReset(sp, n) \/ ResetFromIsr(sp, n)
    PROVE  SemInv'
<1> DEFINE v == chSemResetI(w, sp, n)
<1>1. n \in Nat /\ n <= MaxCnt BY SemBounds
<1>2. /\ GoodKernel(v) /\ v.s_cnt = [w.s_cnt EXCEPT ![sp] = n]
      /\ v.vt = w.vt /\ v.call = w.call /\ v.k.r_current = w.k.r_current
  <2>1. GoodKernel(w) /\ KernelAssumption BY SemTypes, SemKernel
  <2>2. ResetEffect(w, v, sp, n) BY <1>1, <2>1, ResetI
  <2> HIDE DEF v
  <2> QED BY <2>2 DEF ResetEffect
<1> HIDE DEF v
<1>3. \A o \in Sems : v.s_cnt[o] <= MaxCnt BY <1>1, <1>2, SemTypes
<1>4. CASE chSemReset(sp, n)
  <2>1. ThreadCode /\ UNCHANGED isr /\ w' = Reschedule(v)
    BY <1>4 DEF chSemReset, v
  <2>2. /\ GoodKernel(w') /\ w'.s_cnt = v.s_cnt
        /\ w'.vt = v.vt /\ w'.call = v.call
    BY <1>2, <2>1, RescheduleOK
  <2>3. KernelInv' BY <1>2, <2>1, <2>2, SemTypes, ThreadStep
  <2> QED BY <1>2, <1>3, <2>2, <2>3, SemTypes DEF SemInv
<1>5. CASE ResetFromIsr(sp, n)
  <2>1. IsrCode /\ isr' = TRUE /\ w' = v BY <1>5 DEF ResetFromIsr, v
  <2>2. KernelInv' BY <1>2, <2>1, SemTypes, IsrStep
  <2> QED BY <1>2, <1>3, <2>1, <2>2, SemTypes DEF SemInv
<1> QED BY <1>4, <1>5

LEMMA SignalWaitInv ==
    ASSUME SemInv, NEW sps \in Sems, NEW spw \in Sems, chSemSignalWait(sps, spw)
    PROVE  SemInv'
<1> DEFINE v == chSemSignalI(w, sps)
<1>1. /\ ThreadCode /\ UNCHANGED isr /\ w.s_cnt[sps] < MaxCnt
      /\ \/ /\ v.s_cnt[spw] - 1 < 0
            /\ w' = SleepOnSem(v, spw, FALSE, "semwait")
         \/ /\ v.s_cnt[spw] - 1 >= 0
            /\ w' = Reschedule(chSemFastWaitI(v, spw))
  BY DEF chSemSignalWait
<1>2. /\ GoodKernel(v) /\ v.s_cnt = [w.s_cnt EXCEPT ![sps] = @ + 1]
      /\ v.vt = w.vt /\ v.call = w.call /\ v.k.r_current = w.k.r_current
  BY SemTypes, SemKernel, SignalI DEF SignalEffect
<1> HIDE DEF v
<1>3. \A o \in Sems : v.s_cnt[o] <= MaxCnt BY <1>1, <1>2, SemTypes, SemKernel
<1>4. CASE v.s_cnt[spw] - 1 < 0 /\ w' = SleepOnSem(v, spw, FALSE, "semwait")
  <2>1. ~Locked(v) /\ v.k.r_current = currp
    BY <1>1, <1>2, SemTypes DEF Locked, ThreadCode
  <2> QED BY <1>1, <1>2, <1>3, <1>4, <2>1, SleepInv
<1>5. CASE v.s_cnt[spw] - 1 >= 0 /\ w' = Reschedule(chSemFastWaitI(v, spw))
  <2> DEFINE x == chSemFastWaitI(v, spw)
  <2>1. /\ GoodKernel(x) /\ x.s_cnt = [v.s_cnt EXCEPT ![spw] = @ - 1]
        /\ x.vt = v.vt /\ x.call = v.call
    BY <1>2, <1>5, FastWaitOK
  <2>2. w' = Reschedule(x) BY <1>5
  <2> HIDE DEF x
  <2>3. /\ GoodKernel(w') /\ w'.s_cnt = x.s_cnt
        /\ w'.vt = x.vt /\ w'.call = x.call
    BY <2>1, <2>2, RescheduleOK
  <2>4. KernelInv' BY <1>1, <1>2, <2>1, <2>3, SemTypes, ThreadStep
  <2>5. \A o \in Sems : w'.s_cnt[o] <= MaxCnt
    <3>1. v.s_cnt \in [Sems -> Int] BY <1>2, KernelTypes DEF GoodKernel
    <3> QED BY <1>3, <2>1, <2>3, <3>1, SemKernel
  <2> QED BY <1>2, <2>1, <2>3, <2>4, <2>5, SemTypes DEF SemInv
<1> QED BY <1>1, <1>4, <1>5

LEMMA ReturnInv == ASSUME SemInv, ReturnFromCall PROVE SemInv'
<1>1. Locked(w) /\ w' = Resume(w) /\ UNCHANGED isr BY DEF ReturnFromCall
<1>2. ~isr /\ w.vt[w.k.r_current] # "fired"
  BY <1>1, SemTypes, NobodyIsInterrupted
<1>3. /\ GoodKernel(w') /\ w'.s_cnt = w.s_cnt
      /\ w'.vt = [w.vt EXCEPT ![currp] = "off"]
      /\ w'.call = [w.call EXCEPT ![currp] = "none"]
  BY <1>1, <1>2, SemTypes, SemKernel, ResumeOK DEF currp
<1>4. KernelInv' BY <1>1, <1>2, <1>3, SemTypes DEF KernelInv
<1> QED BY <1>3, <1>4, SemTypes DEF SemInv

LEMMA IsrSignalInv ==
    ASSUME SemInv, NEW sp \in Sems, NEW n \in 1..2, SignalFromIsr(sp, n) PROVE SemInv'
<1>1. /\ IsrCode /\ isr' = TRUE /\ w.s_cnt[sp] + n <= MaxCnt
      /\ w' = chSemAddCounterI(w, sp, n)
  BY DEF SignalFromIsr
<1>2. /\ GoodKernel(w') /\ w'.s_cnt = [w.s_cnt EXCEPT ![sp] = @ + n]
      /\ w'.vt = w.vt /\ w'.call = w.call /\ w'.k.r_current = w.k.r_current
  BY <1>1, SemTypes, SemKernel, AddCounterI
<1>3. KernelInv' BY <1>1, <1>2, SemTypes, IsrStep
<1>4. \A o \in Sems : w'.s_cnt[o] <= MaxCnt BY <1>1, <1>2, SemTypes
<1> QED BY <1>2, <1>3, <1>4, SemTypes DEF SemInv

LEMMA SemKernelInv ==
    ASSUME SemInv, \/ chThdSleep
                   \/ \E t \in Threads : TimerExpires(t) \/ TimerCallback(t)
                   \/ IrqExit
    PROVE  SemInv'
<1>1. /\ KernelInv' /\ CountsStay(w, w')
      /\ \A t \in AllThreads : w'.call[t] \in {w.call[t], "sleep"}
  BY SemTypes, SemKernel, KernelSteps
<1>2. \A sp \in Sems : w'.s_cnt[sp] <= MaxCnt
  <2>1. w'.s_cnt \in [Sems -> Int] BY <1>1, KernelTypes DEF KernelInv, GoodKernel
  <2> QED BY <1>1, <2>1, SemTypes, SemKernel DEF CountsStay
<1> QED BY <1>1, <1>2, SemTypes DEF SemInv

LEMMA SemStepInv == ASSUME SemInv, [SemNext]_kernelvars PROVE SemInv'
<1>1. CASE UNCHANGED kernelvars
  BY <1>1 DEF SemInv, KernelInv, kernelvars
<1>2. CASE SemNext
  BY <1>2, WaitInv, SignalInv, ResetInv, SignalWaitInv, ReturnInv, IsrSignalInv,
     SemKernelInv DEF SemNext
<1> QED BY <1>1, <1>2

LEMMA SemInvariant == SemSpec => []SemInv
<1>1. SemInit => SemInv BY SemInitInv
<1>2. SemInv /\ [SemNext]_kernelvars => SemInv' BY SemStepInv
<1> QED BY <1>1, <1>2, PTL DEF SemSpec

\* Counter and queue of every semaphore agree between any two steps: as many
\* threads are queued as the counter is below zero, once each, and exactly those
\* that wait for it; and no counter exceeds what the signals make of it.
THEOREM CountersAlwaysMatch == SemSpec => []CountersMatchQueues
<1>1. SemInv => CountersMatchQueues
  <2> SUFFICES ASSUME SemInv PROVE CountersMatchQueues OBVIOUS
  <2>1. \A sp \in Sems : w.s_cnt[sp] \in -Cardinality(Threads)..MaxCnt
    <3> TAKE sp \in Sems
    <3>1. w.s_cnt[sp] \in Int /\ w.s_cnt[sp] >= -Cardinality(Threads)
      BY SemTypes, SemKernel, QueueFits
    <3>2. Cardinality(Threads) \in Nat BY SemKernel, FS_CardinalityType
    <3> QED BY <3>1, <3>2, SemTypes, SemKernel
  <2> QED BY <2>1 DEF SemInv, KernelInv, GoodKernel, CountersMatchQueues, SemTypeOK
<1> QED BY <1>1, SemInvariant, PTL

\* A timer is on the list only while its thread is inside the call whose stack
\* frame holds it.
THEOREM NoTimerDangles == SemSpec => []NoDanglingTimer
<1>1. SemInv => NoDanglingTimer
  BY DEF SemInv, KernelInv, GoodKernel, NoDanglingTimer
<1> QED BY <1>1, SemInvariant, PTL

----------------------------------------------------------------------------
(* What the users of the semaphores see *)

Entries == [who : AllThreads, timed : BOOLEAN]
Outcomes == {"none", "waiting", NULL} \cup Sems \cup RdyMsgs
Views == [avail : [Sems -> Nat], line : [Sems -> Seq(Entries)],
          outcome : [Threads -> Outcomes]]

LEMMA SameView ==
    ASSUME NEW x \in Views, NEW y \in Views,
           x.avail = y.avail, x.line = y.line, x.outcome = y.outcome
    PROVE  x = y
<1> DEFINE A == [Sems -> Nat]
           B == [Sems -> Seq(Entries)]
           C == [Threads -> Outcomes]
           R == [avail : A, line : B, outcome : C]
<1>1. x \in R /\ y \in R BY DEF Views
<1> HIDE DEF A, B, C
<1> QED BY <1>1

LEMMA SameSeq ==
    ASSUME NEW S, NEW p \in Seq(S), NEW q \in Seq(S), Len(p) = Len(q),
           \A i \in 1..Len(p) : p[i] = q[i]
    PROVE  p = q
BY SeqEqual

LEMMA ViewTypes ==
    ASSUME NEW v \in KernelStates
    PROVE  /\ Promised(v) \in Views
           /\ Promised(v).avail = [sp \in Sems |-> IF v.s_cnt[sp] < 0 THEN 0 ELSE v.s_cnt[sp]]
           /\ Promised(v).line = [sp \in Sems |-> line(v, sp)]
           /\ Promised(v).outcome = outcome(v)
           /\ \A sp \in Sems :
                /\ line(v, sp) \in Seq(Entries) /\ Len(line(v, sp)) = Len(v.s_queue[sp])
                /\ \A i \in 1..Len(v.s_queue[sp]) :
                     /\ line(v, sp)[i].who = v.s_queue[sp][i]
                     /\ line(v, sp)[i].timed = (v.vt[v.s_queue[sp][i]] # "off")
<1>1. /\ v.s_cnt \in [Sems -> Int] /\ v.s_queue \in [Sems -> Seq(AllThreads)]
      /\ v.p_u \in [AllThreads -> Sems \cup RdyMsgs \cup {NULL}]
      /\ v.vt \in [AllThreads -> TimerStates]
  BY KernelTypes
<1>2. ASSUME NEW sp \in Sems
      PROVE  /\ line(v, sp) \in Seq(Entries) /\ Len(line(v, sp)) = Len(v.s_queue[sp])
             /\ \A i \in 1..Len(v.s_queue[sp]) :
                  /\ line(v, sp)[i].who = v.s_queue[sp][i]
                  /\ line(v, sp)[i].timed = (v.vt[v.s_queue[sp][i]] # "off")
  <2> DEFINE q == v.s_queue[sp]
             e(i) == [who |-> q[i], timed |-> v.vt[q[i]] # "off"]
             l == [i \in 1..Len(q) |-> e(i)]
  <2>1. q \in Seq(AllThreads) /\ Len(q) \in Nat BY <1>1
  <2>2. line(v, sp) = l BY DEF line
  <2> HIDE DEF q
  <2>3. \A i \in 1..Len(q) : e(i) \in Entries BY <2>1 DEF Entries
  <2>4. \A i \in 1..Len(q) : e(i).who = q[i] /\ e(i).timed = (v.vt[q[i]] # "off")
    OBVIOUS
  <2> HIDE DEF e
  <2>5. l \in Seq(Entries) /\ Len(l) = Len(q) BY <2>1, <2>3, IsASeq, LenProperties
  <2> QED BY <2>2, <2>4, <2>5 DEF q
<1>3. outcome(v) \in [Threads -> Outcomes]
  BY <1>1 DEF outcome, Outcomes, AllThreads
<1>4. [sp \in Sems |-> IF v.s_cnt[sp] < 0 THEN 0 ELSE v.s_cnt[sp]] \in [Sems -> Nat]
  BY <1>1
<1>5. [sp \in Sems |-> line(v, sp)] \in [Sems -> Seq(Entries)] BY <1>2
<1> QED BY <1>2, <1>3, <1>4, <1>5 DEF Promised, Views

----------------------------------------------------------------------------
(* The abstract services *)

Served(s, sp, n) == IF n < Len(s.line[sp]) THEN n ELSE Len(s.line[sp])

GiveEffect(s, g, sp, n) ==
    LET m == Served(s, sp, n)
        l == s.line[sp]
    IN /\ g \in Views /\ m \in 0..Len(l) /\ m <= n
       /\ g.avail = [s.avail EXCEPT ![sp] = s.avail[sp] + n - m]
       /\ g.line = [s.line EXCEPT ![sp] = SubSeq(l, m + 1, Len(l))]
       /\ g.outcome = [t \in Threads |->
            IF \E i \in 1..m : l[i].who = t THEN "RDY_OK" ELSE s.outcome[t]]

LEMMA GiveFields ==
    ASSUME NEW s \in Views, NEW sp \in Sems, NEW n \in Nat
    PROVE  GiveEffect(s, Promise!Give(s, sp, n), sp, n)
<1> DEFINE g == Promise!Give(s, sp, n)
           m == Served(s, sp, n)
           l == s.line[sp]
           av == [s.avail EXCEPT ![sp] = s.avail[sp] + n - m]
           li == [s.line EXCEPT ![sp] = SubSeq(l, m + 1, Len(l))]
           ou == [t \in Threads |-> IF \E i \in 1..m : l[i].who = t
                                    THEN "RDY_OK" ELSE s.outcome[t]]
<1>1. /\ s.avail \in [Sems -> Nat] /\ s.line \in [Sems -> Seq(Entries)]
      /\ s.outcome \in [Threads -> Outcomes]
      /\ l \in Seq(Entries) /\ Len(l) \in Nat
  BY DEF Views
<1>2. m \in 0..Len(l) /\ m <= n BY <1>1 DEF Served
<1>3. g = [s EXCEPT !.avail = av, !.line = li, !.outcome = ou]
  BY <1>1 DEF Promise!Give, Served, Views
<1>4. av \in [Sems -> Nat] BY <1>1, <1>2
<1>5. li \in [Sems -> Seq(Entries)]
  <2> HIDE DEF l, m
  <2>1. SubSeq(l, m + 1, Len(l)) \in Seq(Entries)
    <3>1. \A i \in m + 1..Len(l) : l[i] \in Entries BY <1>1, <1>2
    <3> QED BY <1>1, <1>2, <3>1, SubSeqProperties
  <2> QED BY <1>1, <2>1
<1>6. ou \in [Threads -> Outcomes] BY <1>1 DEF Outcomes, RdyMsgs
<1> HIDE DEF g, av, li, ou
<1>7. g \in Views /\ g.avail = av /\ g.line = li /\ g.outcome = ou
  BY <1>3, <1>4, <1>5, <1>6 DEF Views
<1> QED BY <1>2, <1>7 DEF g, av, li, ou, GiveEffect

\* n + 1 units are n units and then one more.
LEMMA GiveMore ==
    ASSUME NEW s \in Views, NEW sp \in Sems, NEW n \in Nat
    PROVE  Promise!Give(Promise!Give(s, sp, n), sp, 1) = Promise!Give(s, sp, n + 1)
<1> DEFINE g == Promise!Give(s, sp, n)
           h == Promise!Give(g, sp, 1)
           f == Promise!Give(s, sp, n + 1)
           l == s.line[sp]
           m == Served(s, sp, n)
           k == Served(g, sp, 1)
           o == Served(s, sp, n + 1)
<1>1. /\ s.avail \in [Sems -> Nat] /\ s.line \in [Sems -> Seq(Entries)]
      /\ l \in Seq(Entries) /\ Len(l) \in Nat
  BY DEF Views
<1>2. /\ g \in Views /\ m \in 0..Len(l) /\ m <= n
      /\ g.avail = [s.avail EXCEPT ![sp] = s.avail[sp] + n - m]
      /\ g.line = [s.line EXCEPT ![sp] = SubSeq(l, m + 1, Len(l))]
      /\ g.outcome = [t \in Threads |->
                        IF \E i \in 1..m : l[i].who = t THEN "RDY_OK" ELSE s.outcome[t]]
  <2>1. GiveEffect(s, g, sp, n) BY GiveFields
  <2> HIDE DEF g
  <2> QED BY <2>1 DEF GiveEffect
<1>3. /\ f \in Views /\ o \in 0..Len(l)
      /\ f.avail = [s.avail EXCEPT ![sp] = s.avail[sp] + (n + 1) - o]
      /\ f.line = [s.line EXCEPT ![sp] = SubSeq(l, o + 1, Len(l))]
      /\ f.outcome = [t \in Threads |->
                        IF \E i \in 1..o : l[i].who = t THEN "RDY_OK" ELSE s.outcome[t]]
  <2>1. n + 1 \in Nat OBVIOUS
  <2>2. GiveEffect(s, f, sp, n + 1) BY <2>1, GiveFields
  <2> HIDE DEF f
  <2> QED BY <2>2 DEF GiveEffect
<1> DEFINE r == g.line[sp]
<1>4. /\ h \in Views
      /\ h.avail = [g.avail EXCEPT ![sp] = g.avail[sp] + 1 - k]
      /\ h.line = [g.line EXCEPT ![sp] = SubSeq(r, k + 1, Len(r))]
      /\ h.outcome = [t \in Threads |->
                        IF \E i \in 1..k : r[i].who = t THEN "RDY_OK" ELSE g.outcome[t]]
  <2> HIDE DEF g
  <2>1. g \in Views BY <1>2
  <2>2. GiveEffect(g, h, sp, 1) BY <2>1, GiveFields
  <2> HIDE DEF h
  <2> QED BY <2>2 DEF GiveEffect
<1>5. /\ k = IF 1 < Len(r) THEN 1 ELSE Len(r)
      /\ o = IF n + 1 < Len(l) THEN n + 1 ELSE Len(l)
      /\ m = IF n < Len(l) THEN n ELSE Len(l)
  BY DEF Served
<1> HIDE DEF g, h, f, k, m, o
<1>6. r = SubSeq(l, m + 1, Len(l)) BY <1>1, <1>2
<1> HIDE DEF l, r
<1>7. /\ r \in Seq(Entries) /\ Len(r) = Len(l) - m
      /\ \A i \in 1..Len(r) : r[i] = l[m + i]
  <2>1. \A i \in m + 1..Len(l) : l[i] \in Entries BY <1>1, <1>2
  <2>2. /\ r \in Seq(Entries)
        /\ Len(r) = IF m + 1 <= Len(l) THEN Len(l) - (m + 1) + 1 ELSE 0
        /\ \A i \in 1..Len(l) - (m + 1) + 1 : r[i] = l[m + 1 + i - 1]
    BY <1>1, <1>2, <1>6, <2>1, SubSeqProperties
  <2> QED BY <1>1, <1>2, <2>2
<1>8. m + k = o /\ k \in 0..1 /\ k \in 0..Len(r)
  <2>1. CASE n < Len(l)
    <3>1. m = n /\ o = n + 1 /\ Len(r) \in Nat /\ Len(r) >= 1
      BY <1>1, <1>5, <1>7, <2>1
    <3>2. k = 1
      <4>1. CASE 1 < Len(r) BY <1>5, <4>1
      <4>2. CASE ~(1 < Len(r))
        <5> DEFINE d == Len(r)
        <5>0. d \in Nat /\ d >= 1 /\ ~(1 < d) BY <3>1, <4>2
        <5> HIDE DEF d
        <5>1. d = 1 BY <5>0
        <5> USE DEF d
        <5> QED BY <1>5, <4>2, <5>1
      <4> QED BY <4>1, <4>2
    <3> QED BY <3>1, <3>2
  <2>2. CASE ~(n < Len(l))
    <3>1. m = Len(l) /\ o = Len(l) /\ Len(r) = 0 BY <1>1, <1>5, <1>7, <2>2
    <3>2. k = 0 BY <1>5, <3>1
    <3> QED BY <1>1, <3>1, <3>2
  <2> QED BY <2>1, <2>2
<1>9. h.avail = f.avail
  <2>1. g.avail[sp] = s.avail[sp] + n - m BY <1>1, <1>2
  <2>2. /\ h.avail = [s.avail EXCEPT ![sp] = g.avail[sp] + 1 - k]
        /\ g.avail[sp] + 1 - k = s.avail[sp] + (n + 1) - o
    <3>1. s.avail[sp] \in Nat /\ m \in Nat /\ k \in Nat BY <1>1, <1>2, <1>8
    <3>2. g.avail[sp] + 1 - k = s.avail[sp] + (n + 1) - o BY <1>8, <2>1, <3>1
    <3> QED BY <1>1, <1>2, <1>4, <3>2
  <2> QED BY <1>3, <2>2
<1>10. SubSeq(r, k + 1, Len(r)) = SubSeq(l, o + 1, Len(l))
  <2>1. \A i \in k + 1..Len(r) : r[i] \in Entries BY <1>7, <1>8
  <2>2. \A i \in o + 1..Len(l) : l[i] \in Entries BY <1>1, <1>3
  <2> DEFINE p == SubSeq(r, k + 1, Len(r))
             q == SubSeq(l, o + 1, Len(l))
  <2>3. /\ p \in Seq(Entries)
        /\ Len(p) = IF k + 1 <= Len(r) THEN Len(r) - (k + 1) + 1 ELSE 0
        /\ \A i \in 1..Len(r) - (k + 1) + 1 : p[i] = r[k + 1 + i - 1]
    BY <1>7, <1>8, <2>1, SubSeqProperties
  <2>4. /\ q \in Seq(Entries)
        /\ Len(q) = IF o + 1 <= Len(l) THEN Len(l) - (o + 1) + 1 ELSE 0
        /\ \A i \in 1..Len(l) - (o + 1) + 1 : q[i] = l[o + 1 + i - 1]
    BY <1>1, <1>3, <2>2, SubSeqProperties
  <2> HIDE DEF p, q
  <2>5. Len(p) = Len(r) - k /\ Len(q) = Len(l) - o /\ Len(p) = Len(q)
    <3> DEFINE lr == Len(r)
               ll == Len(l)
    <3>1. /\ lr \in Nat /\ k \in Nat /\ k <= lr
          /\ ll \in Nat /\ o \in Nat /\ o <= ll
      BY <1>1, <1>3, <1>7, <1>8
    <3>2. lr = ll - m /\ o = m + k /\ m \in Nat BY <1>2, <1>7, <1>8
    <3>3. /\ Len(p) = IF k + 1 <= lr THEN lr - (k + 1) + 1 ELSE 0
          /\ Len(q) = IF o + 1 <= ll THEN ll - (o + 1) + 1 ELSE 0
      BY <2>3, <2>4
    <3> HIDE DEF lr, ll
    <3>4. Len(p) = lr - k BY <3>1, <3>3
    <3>5. Len(q) = ll - o BY <3>1, <3>3
    <3>6. lr - k = ll - o BY <3>1, <3>2
    <3> QED BY <3>4, <3>5, <3>6 DEF lr, ll
  <2>6. \A i \in 1..Len(p) : p[i] = q[i]
    <3> TAKE i \in 1..Len(p)
    <3>1. p[i] = r[k + i] /\ k + i \in 1..Len(r) BY <1>7, <1>8, <2>3, <2>5
    <3>2. r[k + i] = l[m + (k + i)] BY <1>7, <3>1
    <3>3. q[i] = l[o + i] BY <1>1, <1>3, <2>4, <2>5
    <3>4. m + (k + i) = o + i BY <1>2, <1>8, <1>1
    <3> QED BY <3>1, <3>2, <3>3, <3>4
  <2> QED BY <2>3, <2>4, <2>5, <2>6, SameSeq DEF p, q
<1>11. h.line = f.line
  <2>1. h.line = [g.line EXCEPT ![sp] = SubSeq(l, o + 1, Len(l))] BY <1>4, <1>10
  <2> DEFINE p == SubSeq(l, m + 1, Len(l))
             q == SubSeq(l, o + 1, Len(l))
  <2>2. /\ h.line = [g.line EXCEPT ![sp] = q]
        /\ g.line = [s.line EXCEPT ![sp] = p]
        /\ f.line = [s.line EXCEPT ![sp] = q]
    BY <1>2, <1>3, <2>1
  <2> HIDE DEF p, q
  <2> QED BY <1>1, <2>2
<1>12. h.outcome = f.outcome
  <2> SUFFICES ASSUME NEW t \in Threads PROVE h.outcome[t] = f.outcome[t]
    BY <1>3, <1>4
  <2>1. (\E i \in 1..o : l[i].who = t)
          <=> \/ \E i \in 1..m : l[i].who = t
              \/ \E i \in 1..k : r[i].who = t
    <3>1. ASSUME NEW i \in 1..o, l[i].who = t, ~(i \in 1..m)
          PROVE  \E j \in 1..k : r[j].who = t
      <4>1. i - m \in 1..k /\ i - m \in 1..Len(r) /\ m + (i - m) = i
        BY <1>2, <1>3, <1>8, <1>7, <3>1
      <4>2. r[i - m] = l[i] BY <1>7, <4>1
      <4> QED BY <3>1, <4>1, <4>2
    <3>2. \A i \in 1..m : i \in 1..o BY <1>2, <1>3, <1>8
    <3>3. ASSUME NEW i \in 1..k, r[i].who = t PROVE \E j \in 1..o : l[j].who = t
      <4>1. m + i \in 1..o /\ i \in 1..Len(r) BY <1>2, <1>3, <1>7, <1>8
      <4> QED BY <1>7, <3>3, <4>1
    <3> QED BY <3>1, <3>2, <3>3
  <2>2. h.outcome[t] = IF \E i \in 1..k : r[i].who = t THEN "RDY_OK" ELSE g.outcome[t]
    BY <1>4
  <2>3. g.outcome[t] = IF \E i \in 1..m : l[i].who = t THEN "RDY_OK" ELSE s.outcome[t]
    BY <1>2
  <2>4. f.outcome[t] = IF \E i \in 1..o : l[i].who = t THEN "RDY_OK" ELSE s.outcome[t]
    BY <1>3
  <2> QED BY <2>1, <2>2, <2>3, <2>4
<1>13. h = f BY <1>3, <1>4, <1>9, <1>11, <1>12, SameView
<1> QED BY <1>13 DEF h, g, f

\* No units change nothing.
LEMMA GiveNone ==
    ASSUME NEW s \in Views, NEW sp \in Sems PROVE Promise!Give(s, sp, 0) = s
<1> DEFINE g == Promise!Give(s, sp, 0)
           m == Served(s, sp, 0)
           l == s.line[sp]
<1>1. /\ s.avail \in [Sems -> Nat] /\ s.line \in [Sems -> Seq(Entries)]
      /\ s.outcome \in [Threads -> Outcomes]
      /\ l \in Seq(Entries) /\ Len(l) \in Nat
  BY DEF Views
<1>2. GiveEffect(s, g, sp, 0) BY GiveFields
<1> HIDE DEF g
<1>3. /\ g \in Views /\ m \in 0..Len(l) /\ m <= 0
      /\ g.avail = [s.avail EXCEPT ![sp] = s.avail[sp] + 0 - m]
      /\ g.line = [s.line EXCEPT ![sp] = SubSeq(l, m + 1, Len(l))]
      /\ g.outcome = [t \in Threads |->
           IF \E i \in 1..m : l[i].who = t THEN "RDY_OK" ELSE s.outcome[t]]
  BY <1>2 DEF GiveEffect
<1> HIDE DEF m
<1>4. m = 0 BY <1>1, <1>3
<1>5. SubSeq(l, 1, Len(l)) = l
  <2> DEFINE p == SubSeq(l, 1, Len(l))
  <2> HIDE DEF l
  <2>1. \A i \in 1..Len(l) : l[i] \in Entries BY <1>1
  <2>2. /\ p \in Seq(Entries) /\ Len(p) = IF 1 <= Len(l) THEN Len(l) - 1 + 1 ELSE 0
        /\ \A i \in 1..Len(l) - 1 + 1 : p[i] = l[1 + i - 1]
    BY <1>1, <2>1, SubSeqProperties
  <2> HIDE DEF p
  <2>3. Len(p) = Len(l) BY <1>1, <2>2
  <2>4. \A i \in 1..Len(p) : p[i] = l[i] BY <1>1, <2>2, <2>3
  <2> QED BY <1>1, <2>2, <2>3, <2>4, SameSeq DEF p
<1>6. g.avail = s.avail /\ g.line = s.line
  <2>1. g.avail = s.avail
    <3>1. s.avail[sp] \in Nat BY <1>1
    <3>2. s.avail[sp] + 0 - m = s.avail[sp] BY <1>4, <3>1
    <3>3. g.avail = [s.avail EXCEPT ![sp] = s.avail[sp]] BY <1>3, <3>2
    <3> QED BY <1>1, <3>3
  <2>2. g.line = [s.line EXCEPT ![sp] = l] BY <1>3, <1>4, <1>5
  <2> QED BY <1>1, <2>1, <2>2
<1>7. g.outcome = s.outcome BY <1>1, <1>3, <1>4
<1>8. g = s BY <1>3, <1>6, <1>7, SameView
<1> QED BY <1>8 DEF g

\* Asking for a unit.
AskEffect(s, x, t, sp, timed) ==
    /\ x \in Views
    /\ s.avail[sp] > 0 =>
         /\ x.avail = [s.avail EXCEPT ![sp] = s.avail[sp] - 1]
         /\ x.line = s.line /\ x.outcome = s.outcome
    /\ ~(s.avail[sp] > 0) =>
         /\ x.avail = s.avail
         /\ x.line = [s.line EXCEPT ![sp] =
              Append(s.line[sp], [who |-> t, timed |-> timed])]
         /\ x.outcome = [s.outcome EXCEPT ![t] = "waiting"]

LEMMA AskFields ==
    ASSUME NEW s \in Views, NEW t \in Threads, NEW sp \in Sems, NEW timed \in BOOLEAN
    PROVE  AskEffect(s, Promise!Ask(s, t, sp, timed), t, sp, timed)
<1> DEFINE x == Promise!Ask(s, t, sp, timed)
           l == Append(s.line[sp], [who |-> t, timed |-> timed])
<1>1. /\ s.avail \in [Sems -> Nat] /\ s.line \in [Sems -> Seq(Entries)]
      /\ s.outcome \in [Threads -> Outcomes] /\ s.line[sp] \in Seq(Entries)
  BY DEF Views
<1>2. CASE s.avail[sp] > 0
  <2> DEFINE av == [s.avail EXCEPT ![sp] = s.avail[sp] - 1]
  <2>1. av \in [Sems -> Nat] BY <1>1, <1>2
  <2>2. x = [s EXCEPT !.avail = av] BY <1>1, <1>2 DEF Promise!Ask, Views
  <2> HIDE DEF x, av
  <2>3. x \in Views /\ x.avail = av /\ x.line = s.line /\ x.outcome = s.outcome
    BY <2>1, <2>2 DEF Views
  <2> QED BY <1>2, <2>3 DEF x, av, AskEffect
<1>3. CASE ~(s.avail[sp] > 0)
  <2> DEFINE li == [s.line EXCEPT ![sp] = l]
             ou == [s.outcome EXCEPT ![t] = "waiting"]
  <2>1. l \in Seq(Entries)
    <3>1. [who |-> t, timed |-> timed] \in Entries BY DEF Entries, AllThreads
    <3> QED BY <1>1, <3>1, AppendProperties
  <2>2. x = [s EXCEPT !.line = li, !.outcome = ou]
    BY <1>1, <1>3 DEF Promise!Ask, Views
  <2> HIDE DEF x, l
  <2>3. li \in [Sems -> Seq(Entries)] /\ ou \in [Threads -> Outcomes]
    BY <1>1, <2>1 DEF Outcomes
  <2> HIDE DEF li, ou
  <2>4. x \in Views /\ x.avail = s.avail /\ x.line = li /\ x.outcome = ou
    BY <2>2, <2>3 DEF Views
  <2> QED BY <1>3, <2>4 DEF x, l, li, ou, AskEffect
<1> QED BY <1>2, <1>3

----------------------------------------------------------------------------
(* The services, as their users see them *)

SemCalls(v) == \A t \in AllThreads : v.call[t] \in {"none", "sleep", "semwait"}

LEMMA LineIs ==
    ASSUME NEW x \in KernelStates, NEW sp \in Sems, NEW l \in Seq(Entries),
           Len(l) = Len(x.s_queue[sp]),
           \A i \in 1..Len(l) : /\ l[i].who = x.s_queue[sp][i]
                                /\ l[i].timed = (x.vt[x.s_queue[sp][i]] # "off")
    PROVE  line(x, sp) = l
<1>1. /\ line(x, sp) \in Seq(Entries) /\ Len(line(x, sp)) = Len(x.s_queue[sp])
      /\ \A i \in 1..Len(x.s_queue[sp]) :
           /\ line(x, sp)[i].who = x.s_queue[sp][i]
           /\ line(x, sp)[i].timed = (x.vt[x.s_queue[sp][i]] # "off")
  BY ViewTypes
<1>2. ASSUME NEW i \in 1..Len(l) PROVE line(x, sp)[i] = l[i]
  <2> DEFINE d == line(x, sp)[i]
             e == l[i]
  <2>1. d \in Entries /\ e \in Entries BY <1>1
  <2>2. d.who = e.who /\ d.timed = e.timed BY <1>1
  <2> HIDE DEF d, e
  <2>3. d = e BY <2>1, <2>2 DEF Entries
  <2> QED BY <2>3 DEF d, e
<1> QED BY <1>1, <1>2, SameSeq

LEMMA ViewIs ==
    ASSUME NEW x \in KernelStates, NEW y \in Views,
           \A o \in Sems : y.avail[o] = IF x.s_cnt[o] < 0 THEN 0 ELSE x.s_cnt[o],
           \A o \in Sems : y.line[o] = line(x, o),
           \A t \in Threads : y.outcome[t] = outcome(x)[t]
    PROVE  Promised(x) = y
<1>1. /\ Promised(x) \in Views
      /\ Promised(x).avail = [o \in Sems |-> IF x.s_cnt[o] < 0 THEN 0 ELSE x.s_cnt[o]]
      /\ Promised(x).line = [o \in Sems |-> line(x, o)]
      /\ Promised(x).outcome = outcome(x)
  BY ViewTypes
<1>2. /\ y.avail \in [Sems -> Nat] /\ y.line \in [Sems -> Seq(Entries)]
      /\ y.outcome \in [Threads -> Outcomes]
      /\ Promised(x).outcome \in [Threads -> Outcomes]
  BY <1>1 DEF Views
<1>3. y.avail = Promised(x).avail BY <1>1, <1>2
<1>4. y.line = Promised(x).line BY <1>1, <1>2
<1>5. y.outcome = Promised(x).outcome BY <1>1, <1>2
<1> QED BY <1>1, <1>3, <1>4, <1>5, SameView

\* Nothing the users see has changed.
LEMMA SameForUsers ==
    ASSUME NEW v \in KernelStates, NEW x \in KernelStates,
           x.s_cnt = v.s_cnt, x.s_queue = v.s_queue,
           \A o \in Sems : \A t \in Elems(v.s_queue[o]) :
               (x.vt[t] # "off") = (v.vt[t] # "off"),
           \A t \in Threads : outcome(x)[t] = outcome(v)[t]
    PROVE  Promised(x) = Promised(v)
<1>1. /\ Promised(v) \in Views
      /\ Promised(v).avail = [o \in Sems |-> IF v.s_cnt[o] < 0 THEN 0 ELSE v.s_cnt[o]]
      /\ Promised(v).line = [o \in Sems |-> line(v, o)]
      /\ Promised(v).outcome = outcome(v)
  BY ViewTypes
<1>2. ASSUME NEW o \in Sems PROVE line(x, o) = line(v, o)
  <2> DEFINE l == line(v, o)
  <2>1. /\ l \in Seq(Entries) /\ Len(l) = Len(v.s_queue[o])
        /\ \A i \in 1..Len(v.s_queue[o]) :
             /\ l[i].who = v.s_queue[o][i]
             /\ l[i].timed = (v.vt[v.s_queue[o][i]] # "off")
    BY ViewTypes
  <2> HIDE DEF l
  <2>2. \A i \in 1..Len(l) : l[i].timed = (x.vt[x.s_queue[o][i]] # "off")
    <3> TAKE i \in 1..Len(l)
    <3>1. v.s_queue[o][i] \in Elems(v.s_queue[o]) BY <2>1 DEF Elems
    <3> QED BY <2>1, <3>1
  <2>3. line(x, o) = l BY <2>1, <2>2, LineIs
  <2> QED BY <2>3 DEF l
<1> HIDE DEF Promised
<1>3. /\ \A o \in Sems : Promised(v).avail[o] = IF x.s_cnt[o] < 0 THEN 0 ELSE x.s_cnt[o]
      /\ \A o \in Sems : Promised(v).line[o] = line(x, o)
      /\ \A t \in Threads : Promised(v).outcome[t] = outcome(x)[t]
  BY <1>1, <1>2
<1> QED BY <1>1, <1>3, ViewIs

\* A signal gives a unit.
LEMMA SignalView ==
    ASSUME NEW v, GoodKernel(v), SemCalls(v), NEW sp \in Sems, NEW x,
           SignalEffect(v, x, sp)
    PROVE  Promised(x) = Promise!Give(Promised(v), sp, 1)
<1> DEFINE s == Promised(v)
           y == Promise!Give(s, sp, 1)
           m == Served(s, sp, 1)
           l == s.line[sp]
           q == v.s_queue[sp]
<1>1. /\ v \in KernelStates /\ x \in KernelStates
      /\ v.s_cnt \in [Sems -> Int] /\ v.s_queue \in [Sems -> Seq(AllThreads)]
      /\ v.p_u \in [AllThreads -> Sems \cup RdyMsgs \cup {NULL}]
      /\ x.s_cnt = [v.s_cnt EXCEPT ![sp] = v.s_cnt[sp] + 1]
      /\ x.vt = v.vt /\ x.call = v.call /\ x.s_cnt \in [Sems -> Int]
      /\ q \in Seq(AllThreads) /\ v.s_cnt[sp] \in Int
  BY KernelTypes DEF GoodKernel, SignalEffect
<1>2. /\ s \in Views
      /\ s.avail = [o \in Sems |-> IF v.s_cnt[o] < 0 THEN 0 ELSE v.s_cnt[o]]
      /\ s.line = [o \in Sems |-> line(v, o)]
      /\ s.outcome = outcome(v)
      /\ \A o \in Sems :
           /\ line(v, o) \in Seq(Entries) /\ Len(line(v, o)) = Len(v.s_queue[o])
           /\ \A i \in 1..Len(v.s_queue[o]) :
                /\ line(v, o)[i].who = v.s_queue[o][i]
                /\ line(v, o)[i].timed = (v.vt[v.s_queue[o][i]] # "off")
  BY <1>1, ViewTypes
<1> HIDE DEF s
<1>3. GiveEffect(s, y, sp, 1) BY <1>2, GiveFields
<1> HIDE DEF y
<1>4. /\ y \in Views
      /\ y.avail = [s.avail EXCEPT ![sp] = s.avail[sp] + 1 - m]
      /\ y.line = [s.line EXCEPT ![sp] = SubSeq(l, m + 1, Len(l))]
      /\ y.outcome = [t \in Threads |->
           IF \E i \in 1..m : l[i].who = t THEN "RDY_OK" ELSE s.outcome[t]]
  BY <1>3 DEF GiveEffect
<1>5. /\ l = line(v, sp) /\ l \in Seq(Entries) /\ Len(l) = Len(q)
      /\ s.line \in [Sems -> Seq(Entries)] /\ s.avail \in [Sems -> Nat]
  BY <1>2 DEF Views
<1>6. Len(q) = IF v.s_cnt[sp] < 0 THEN -v.s_cnt[sp] ELSE 0
  BY DEF GoodKernel, SemConsistent
<1>7. m = IF 1 < Len(l) THEN 1 ELSE Len(l) BY DEF Served
<1> HIDE DEF l, m
<1>8. \A o \in Sems \ {sp} :
         /\ y.avail[o] = IF x.s_cnt[o] < 0 THEN 0 ELSE x.s_cnt[o]
         /\ y.line[o] = line(v, o)
  BY <1>1, <1>2, <1>4, <1>5
<1>9. /\ y.avail[sp] = s.avail[sp] + 1 - m
      /\ y.line[sp] = SubSeq(l, m + 1, Len(l))
      /\ x.s_cnt[sp] = v.s_cnt[sp] + 1
  BY <1>1, <1>4, <1>5
<1>10. CASE FirstWaits(v, sp)
  <2> DEFINE h == Head(q)
  <2>1. /\ x.s_queue = [v.s_queue EXCEPT ![sp] = Tail(q)]
        /\ x.p_u = [v.p_u EXCEPT ![h] = "RDY_OK"]
        /\ Keeps(v.k, x.k, {h}) /\ x.k.p_state[h] \in Runnable
    BY <1>10 DEF SignalEffect
  <2>2. /\ h \in AllThreads /\ v.call[h] \notin {"none", "sleep"} /\ q # <<>>
        /\ Tail(q) \in Seq(AllThreads)
    BY <1>10, FirstWaiter
  <2>3. v.s_cnt[sp] < 0 /\ Len(q) \in Nat /\ Len(q) >= 1
    BY <1>1, <1>6, <1>10 DEF FirstWaits
  <2>4. m = 1
    <3> DEFINE d == Len(q)
    <3>1. d \in Nat /\ d >= 1 /\ m = IF 1 < d THEN 1 ELSE d BY <1>5, <1>7, <2>3
    <3> HIDE DEF d
    <3> QED BY <3>1
  <2>5. h = q[1] /\ Len(Tail(q)) = Len(q) - 1
        /\ \A i \in 1..Len(q) - 1 : Tail(q)[i] = q[i + 1]
    BY <1>1, <2>2, HeadTailProperties
  <2>6. y.avail[sp] = IF x.s_cnt[sp] < 0 THEN 0 ELSE x.s_cnt[sp]
    <3>1. s.avail[sp] = 0 BY <1>2, <2>3
    <3> QED BY <1>1, <1>9, <1>10, <2>4, <3>1 DEF FirstWaits
  <2> HIDE DEF q
  <2>7. line(x, sp) = y.line[sp]
    <3> DEFINE p == SubSeq(l, 2, Len(l))
    <3>1. y.line[sp] = p BY <1>9, <2>4
    <3>2. \A i \in 2..Len(l) : l[i] \in Entries BY <1>5
    <3>3. /\ p \in Seq(Entries)
          /\ Len(p) = IF 2 <= Len(l) THEN Len(l) - 2 + 1 ELSE 0
          /\ \A i \in 1..Len(l) - 2 + 1 : p[i] = l[2 + i - 1]
      BY <1>5, <2>3, <3>2, SubSeqProperties
    <3> HIDE DEF p
    <3>4. Len(p) = Len(q) - 1 BY <1>5, <2>3, <3>3
    <3>5. x.s_queue[sp] = Tail(q) BY <1>1, <2>1 DEF q
    <3>6. \A i \in 1..Len(p) : /\ p[i].who = x.s_queue[sp][i]
                               /\ p[i].timed = (x.vt[x.s_queue[sp][i]] # "off")
      <4> TAKE i \in 1..Len(p)
      <4>1. p[i] = l[i + 1] /\ Tail(q)[i] = q[i + 1] /\ i + 1 \in 1..Len(q)
        BY <1>5, <2>3, <2>5, <3>3, <3>4
      <4>2. l[i + 1].who = q[i + 1] /\ l[i + 1].timed = (v.vt[q[i + 1]] # "off")
        BY <1>2, <1>5, <4>1 DEF q
      <4> QED BY <1>1, <3>5, <4>1, <4>2
    <3>7. Len(p) = Len(x.s_queue[sp]) BY <2>5, <3>4, <3>5
    <3>8. line(x, sp) = p BY <1>1, <3>3, <3>6, <3>7, LineIs
    <3> QED BY <3>1, <3>8
  <2>8. \A o \in Sems \ {sp} : line(x, o) = line(v, o)
    BY <1>1, <2>1 DEF line
  <2>9. \A t \in Threads : y.outcome[t] = outcome(x)[t]
    <3> TAKE t \in Threads
    <3>1. t \in AllThreads BY DEF AllThreads
    <3>2. l[1].who = h BY <1>2, <1>5, <2>3, <2>5 DEF q
    <3>3. y.outcome[t] = IF h = t THEN "RDY_OK" ELSE s.outcome[t]
      BY <1>4, <2>4, <3>2
    <3>4. CASE t = h
      <4>1. x.call[t] = "semwait" BY <1>1, <2>2, <3>1, <3>4 DEF SemCalls
      <4>2. x.k.p_state[t] # "WTSEM" BY <2>1, <3>4 DEF Runnable
      <4>3. x.p_u[t] = "RDY_OK" BY <1>1, <2>1, <3>1, <3>4
      <4> QED BY <3>3, <3>4, <4>1, <4>2, <4>3 DEF outcome
    <3>5. CASE t # h
      <4>1. x.p_u[t] = v.p_u[t] BY <1>1, <2>1, <3>1, <3>5
      <4>2. x.k.p_state[t] = "WTSEM" <=> v.k.p_state[t] = "WTSEM"
        BY <2>1, <3>1, <3>5 DEF Keeps, Runnable
      <4>3. outcome(x)[t] = outcome(v)[t] BY <1>1, <4>1, <4>2 DEF outcome
      <4> QED BY <1>2, <3>3, <3>5, <4>3
    <3> QED BY <3>4, <3>5
  <2>10. /\ \A o \in Sems : y.avail[o] = IF x.s_cnt[o] < 0 THEN 0 ELSE x.s_cnt[o]
         /\ \A o \in Sems : y.line[o] = line(x, o)
    BY <1>8, <2>6, <2>7, <2>8
  <2> QED BY <1>1, <1>4, <2>9, <2>10, ViewIs DEF y, s
<1>11. CASE ~FirstWaits(v, sp)
  <2>1. x.s_queue = v.s_queue /\ x.p_u = v.p_u /\ x.k = v.k
    BY <1>11 DEF SignalEffect
  <2>2. v.s_cnt[sp] >= 0 BY <1>1, <1>11 DEF FirstWaits
  <2>3. Len(q) = 0 /\ Len(l) = 0 /\ m = 0 BY <1>1, <1>5, <1>6, <1>7, <2>2
  <2>4. y.avail[sp] = IF x.s_cnt[sp] < 0 THEN 0 ELSE x.s_cnt[sp]
    <3>1. s.avail[sp] = v.s_cnt[sp] BY <1>1, <1>2, <2>2
    <3> QED BY <1>1, <1>9, <2>2, <2>3, <3>1
  <2>5. \A o \in Sems : line(x, o) = line(v, o) BY <1>1, <2>1 DEF line
  <2>6. y.line[sp] = line(v, sp)
    <3> DEFINE p == SubSeq(l, 1, 0)
    <3>1. y.line[sp] = p BY <1>9, <2>3
    <3>2. p \in Seq(Entries) /\ Len(p) = 0
      <4>1. \A i \in 1..0 : l[i] \in Entries OBVIOUS
      <4> QED BY <4>1, SubSeqProperties
    <3> HIDE DEF p
    <3>3. p = l BY <1>5, <2>3, <3>2, SameSeq
    <3> QED BY <1>5, <3>1, <3>3
  <2>7. \A t \in Threads : y.outcome[t] = outcome(x)[t]
    <3> TAKE t \in Threads
    <3>1. y.outcome[t] = s.outcome[t] BY <1>4, <2>3
    <3>2. outcome(x)[t] = outcome(v)[t] BY <1>1, <2>1 DEF outcome
    <3> QED BY <1>2, <3>1, <3>2
  <2>8. /\ \A o \in Sems : y.avail[o] = IF x.s_cnt[o] < 0 THEN 0 ELSE x.s_cnt[o]
        /\ \A o \in Sems : y.line[o] = line(x, o)
    BY <1>8, <2>4, <2>5, <2>6
  <2> QED BY <1>1, <1>4, <2>7, <2>8, ViewIs DEF y, s
<1> QED BY <1>10, <1>11

\* So n signals give n units.
LEMMA AddCounterView ==
    ASSUME NEW v, GoodKernel(v), SemCalls(v), NEW sp \in Sems, NEW n \in Nat,
           KernelAssumption
    PROVE  Promised(chSemAddCounterI(v, sp, n)) = Promise!Give(Promised(v), sp, n)
<1> DEFINE x == chSemAddCounterI(v, sp, n)
           s == Promised(v)
<1>1. PICK b : /\ b[0] = v /\ b[n] = x
               /\ \A i \in 0..n : GoodKernel(b[i])
               /\ \A i \in 1..n : b[i] = chSemSignalI(b[i - 1], sp)
  BY AddCounterSignals
<1>2. s \in Views BY ViewTypes DEF GoodKernel
<1> HIDE DEF x, s
<1> DEFINE OK(i) == Promised(b[i]) = Promise!Give(s, sp, i) /\ SemCalls(b[i])
           Good == {i \in 0..n : OK(i)}
<1>3. OK(0)
  <2>1. Promised(b[0]) = s BY <1>1 DEF s
  <2>2. Promise!Give(s, sp, 0) = s BY <1>2, GiveNone
  <2> QED BY <1>1, <2>1, <2>2
<1>4. ASSUME NEW i \in 1..n, OK(i - 1) PROVE OK(i)
  <2> DEFINE y == b[i - 1]
             z == b[i]
  <2>1. GoodKernel(y) /\ SemCalls(y) /\ z = chSemSignalI(y, sp) BY <1>1, <1>4
  <2>2. i - 1 \in Nat /\ i - 1 + 1 = i OBVIOUS
  <2>3. Promised(y) = Promise!Give(s, sp, i - 1) BY <1>4
  <2> HIDE DEF y, z
  <2>4. SignalEffect(y, z, sp) BY <2>1, SignalI
  <2>5. Promised(z) = Promise!Give(Promised(y), sp, 1) BY <2>1, <2>4, SignalView
  <2>6. Promised(z) = Promise!Give(s, sp, i) BY <1>2, <2>2, <2>3, <2>5, GiveMore
  <2>7. SemCalls(z) BY <2>1, <2>4 DEF SignalEffect, SemCalls
  <2> QED BY <2>6, <2>7 DEF z
<1>5. OK(n)
  <2> HIDE DEF OK
  <2>1. 0 \in Good BY <1>3
  <2>2. \A i \in 1..n : i - 1 \in Good => i \in Good BY <1>4
  <2> HIDE DEF Good
  <2>3. n \in Good BY <2>1, <2>2, TurnInduction
  <2> QED BY <2>3 DEF Good
<1> QED BY <1>1, <1>5 DEF x, s

\* A wait that finds a unit takes it.
LEMMA FastWaitView ==
    ASSUME NEW v, GoodKernel(v), NEW x \in KernelStates, NEW sp \in Sems,
           v.s_cnt[sp] - 1 >= 0, x.s_cnt = [v.s_cnt EXCEPT ![sp] = v.s_cnt[sp] - 1],
           x.s_queue = v.s_queue, x.vt = v.vt, x.call = v.call, x.p_u = v.p_u,
           Keeps(v.k, x.k, {}), NEW t \in Threads, NEW timed \in BOOLEAN
    PROVE  Promised(x) = Promise!Ask(Promised(v), t, sp, timed)
<1> DEFINE s == Promised(v)
           y == Promise!Ask(s, t, sp, timed)
<1>1. /\ v \in KernelStates /\ v.s_cnt \in [Sems -> Int] /\ v.s_cnt[sp] \in Int
      /\ x.s_cnt \in [Sems -> Int]
  BY KernelTypes DEF GoodKernel
<1>2. /\ s \in Views
      /\ s.avail = [o \in Sems |-> IF v.s_cnt[o] < 0 THEN 0 ELSE v.s_cnt[o]]
      /\ s.line = [o \in Sems |-> line(v, o)]
      /\ s.outcome = outcome(v)
  BY <1>1, ViewTypes
<1> HIDE DEF s
<1>3. AskEffect(s, y, t, sp, timed) BY <1>2, AskFields
<1> HIDE DEF y
<1>4. s.avail[sp] = v.s_cnt[sp] /\ s.avail[sp] > 0 BY <1>1, <1>2
<1>5. /\ y \in Views /\ y.avail = [s.avail EXCEPT ![sp] = s.avail[sp] - 1]
      /\ y.line = s.line /\ y.outcome = s.outcome
  BY <1>3, <1>4 DEF AskEffect
<1>6. \A o \in Sems : y.avail[o] = IF x.s_cnt[o] < 0 THEN 0 ELSE x.s_cnt[o]
  BY <1>1, <1>2, <1>4, <1>5
<1>7. \A o \in Sems : y.line[o] = line(x, o) BY <1>2, <1>5 DEF line
<1>8. \A u \in Threads : y.outcome[u] = outcome(x)[u]
  <2>1. \A u \in Threads : x.k.p_state[u] = "WTSEM" <=> v.k.p_state[u] = "WTSEM"
    BY DEF Keeps, Runnable, AllThreads
  <2> QED BY <1>2, <1>5, <2>1 DEF outcome
<1> QED BY <1>5, <1>6, <1>7, <1>8, ViewIs DEF y, s

\* A wait that finds none joins the line.
LEMMA SleepView ==
    ASSUME NEW v, GoodKernel(v), NEW x, NEW sp \in Sems, NEW timed \in BOOLEAN,
           v.s_cnt[sp] - 1 < 0, ~Locked(v), v.k.r_current # Idle,
           SleepEffect(v, x, sp, timed, "semwait")
    PROVE  Promised(x) = Promise!Ask(Promised(v), v.k.r_current, sp, timed)
<1> DEFINE s == Promised(v)
           t == v.k.r_current
           y == Promise!Ask(s, t, sp, timed)
           q == v.s_queue[sp]
           e == [who |-> t, timed |-> timed]
           l == s.line[sp]
<1>1. /\ v \in KernelStates /\ v.s_cnt \in [Sems -> Int] /\ v.s_cnt[sp] \in Int
      /\ v.s_queue \in [Sems -> Seq(AllThreads)] /\ q \in Seq(AllThreads)
      /\ v.vt \in [AllThreads -> TimerStates] /\ v.call \in [AllThreads -> Calls]
      /\ v.p_u \in [AllThreads -> Sems \cup RdyMsgs \cup {NULL}]
      /\ t \in AllThreads
  BY KernelTypes DEF GoodKernel
<1>2. t \in Threads BY <1>1 DEF AllThreads
<1>3. /\ x \in KernelStates
      /\ x.s_cnt = [v.s_cnt EXCEPT ![sp] = v.s_cnt[sp] - 1]
      /\ x.s_queue = [v.s_queue EXCEPT ![sp] = Append(q, t)]
      /\ x.vt = [v.vt EXCEPT ![t] = IF timed THEN "armed" ELSE v.vt[t]]
      /\ x.call = [v.call EXCEPT ![t] = "semwait"]
      /\ x.p_u = [v.p_u EXCEPT ![t] = sp]
      /\ Keeps(v.k, x.k, {t}) /\ x.k.p_state[t] = "WTSEM"
  BY DEF SleepEffect, GoodKernel
<1>4. /\ s \in Views
      /\ s.avail = [o \in Sems |-> IF v.s_cnt[o] < 0 THEN 0 ELSE v.s_cnt[o]]
      /\ s.line = [o \in Sems |-> line(v, o)]
      /\ s.outcome = outcome(v)
      /\ \A o \in Sems :
           /\ line(v, o) \in Seq(Entries) /\ Len(line(v, o)) = Len(v.s_queue[o])
           /\ \A i \in 1..Len(v.s_queue[o]) :
                /\ line(v, o)[i].who = v.s_queue[o][i]
                /\ line(v, o)[i].timed = (v.vt[v.s_queue[o][i]] # "off")
  BY <1>1, ViewTypes
<1>5. v.k.p_state[t] = "CURRENT" /\ v.vt[t] = "off"
  BY <1>1 DEF GoodKernel, SchedInv, ReadyListMembers, Locked, TimersOnLiveStacks
<1>6. \A o \in Sems : \A i \in 1..Len(v.s_queue[o]) : v.s_queue[o][i] # t
  BY <1>5 DEF GoodKernel, SemConsistent, Elems
<1> HIDE DEF s, t
<1>7. AskEffect(s, y, t, sp, timed) BY <1>2, <1>4, AskFields
<1> HIDE DEF y
<1>8. s.avail[sp] = 0 BY <1>1, <1>4
<1>9. /\ y \in Views /\ y.avail = s.avail
      /\ y.line = [s.line EXCEPT ![sp] = Append(l, e)]
      /\ y.outcome = [s.outcome EXCEPT ![t] = "waiting"]
  BY <1>7, <1>8 DEF AskEffect
<1>10. \A o \in Sems : y.avail[o] = IF x.s_cnt[o] < 0 THEN 0 ELSE x.s_cnt[o]
  BY <1>1, <1>3, <1>4, <1>9
<1>11. ASSUME NEW o \in Sems \ {sp} PROVE y.line[o] = line(x, o)
  <2> DEFINE r == line(v, o)
  <2>1. /\ r \in Seq(Entries) /\ Len(r) = Len(v.s_queue[o])
        /\ \A i \in 1..Len(v.s_queue[o]) :
             /\ r[i].who = v.s_queue[o][i]
             /\ r[i].timed = (v.vt[v.s_queue[o][i]] # "off")
    BY <1>4
  <2>2. x.s_queue[o] = v.s_queue[o] BY <1>1, <1>3
  <2>3. y.line[o] = r BY <1>4, <1>9
  <2> HIDE DEF r
  <2>4. \A i \in 1..Len(r) : /\ r[i].who = x.s_queue[o][i]
                             /\ r[i].timed = (x.vt[x.s_queue[o][i]] # "off")
    <3> TAKE i \in 1..Len(r)
    <3>1. v.s_queue[o][i] \in AllThreads \ {t} BY <1>1, <1>6, <2>1
    <3>2. x.vt[v.s_queue[o][i]] = v.vt[v.s_queue[o][i]] BY <1>1, <1>3, <3>1
    <3> QED BY <2>1, <2>2, <3>2
  <2>5. Len(r) = Len(x.s_queue[o]) BY <2>1, <2>2
  <2>6. line(x, o) = r BY <1>3, <2>1, <2>4, <2>5, LineIs
  <2> QED BY <2>3, <2>6
<1>12. y.line[sp] = line(x, sp)
  <2> DEFINE p == Append(l, e)
             r == Append(q, t)
  <2>1. /\ l \in Seq(Entries) /\ Len(l) = Len(q) /\ e \in Entries
        /\ \A i \in 1..Len(q) : l[i].who = q[i] /\ l[i].timed = (v.vt[q[i]] # "off")
    <3>1. l = line(v, sp) BY <1>4
    <3>2. e \in Entries BY <1>1 DEF Entries
    <3> HIDE DEF l, e
    <3> QED BY <1>4, <3>1, <3>2
  <2>2. y.line[sp] = p BY <1>4, <1>9 DEF Views
  <2>3. x.s_queue[sp] = r BY <1>1, <1>3
  <2>4. e.who = t /\ e.timed = timed OBVIOUS
  <2>5. \A i \in 1..Len(q) : q[i] \in AllThreads \ {t} BY <1>1, <1>6
  <2> HIDE DEF l, e, q
  <2>6. /\ p \in Seq(Entries) /\ Len(p) = Len(l) + 1 /\ p[Len(l) + 1] = e
        /\ \A i \in 1..Len(l) : p[i] = l[i]
    BY <2>1, AppendProperties
  <2>7. /\ r \in Seq(AllThreads) /\ Len(r) = Len(q) + 1 /\ r[Len(q) + 1] = t
        /\ \A i \in 1..Len(q) : r[i] = q[i]
    BY <1>1, AppendProperties
  <2> HIDE DEF p, r
  <2>8. (x.vt[t] # "off") = timed BY <1>1, <1>3, <1>5
  <2>9. \A i \in 1..Len(p) : p[i].who = r[i] /\ p[i].timed = (x.vt[r[i]] # "off")
    <3> TAKE i \in 1..Len(p)
    <3>1. CASE i \in 1..Len(q)
      <4>1. p[i] = l[i] /\ r[i] = q[i] BY <2>1, <2>6, <2>7, <3>1
      <4>2. x.vt[q[i]] = v.vt[q[i]] BY <1>1, <1>3, <2>5, <3>1
      <4> QED BY <2>1, <3>1, <4>1, <4>2
    <3>2. CASE i = Len(q) + 1
      <4>1. p[i] = e /\ r[i] = t BY <2>1, <2>6, <2>7, <3>2
      <4> QED BY <2>4, <2>8, <4>1
    <3>3. Len(q) \in Nat BY <1>1
    <3> QED BY <2>1, <2>6, <3>1, <3>2, <3>3
  <2>10. Len(p) = Len(x.s_queue[sp]) BY <2>1, <2>3, <2>6, <2>7
  <2>11. \A i \in 1..Len(p) : /\ p[i].who = x.s_queue[sp][i]
                              /\ p[i].timed = (x.vt[x.s_queue[sp][i]] # "off")
    BY <2>3, <2>9
  <2>12. line(x, sp) = p BY <1>3, <2>6, <2>10, <2>11, LineIs
  <2> QED BY <2>2, <2>12
<1>13. \A u \in Threads : y.outcome[u] = outcome(x)[u]
  <2> TAKE u \in Threads
  <2>1. s.outcome \in [Threads -> Outcomes] BY <1>4 DEF Views
  <2>2. u \in AllThreads BY DEF AllThreads
  <2>3. CASE u = t
    <3>1. x.call[u] = "semwait" BY <1>1, <1>3, <2>3
    <3> QED BY <1>3, <1>9, <2>1, <2>3, <3>1 DEF outcome
  <2>4. CASE u # t
    <3>1. x.call[u] = v.call[u] /\ x.p_u[u] = v.p_u[u] BY <1>1, <1>3, <2>2, <2>4
    <3>2. x.k.p_state[u] = "WTSEM" <=> v.k.p_state[u] = "WTSEM"
      BY <1>3, <2>2, <2>4 DEF Keeps, Runnable
    <3> QED BY <1>4, <1>9, <2>1, <2>4, <3>1, <3>2 DEF outcome
  <2> QED BY <2>3, <2>4
<1>14. \A o \in Sems : y.line[o] = line(x, o) BY <1>11, <1>12
<1> QED BY <1>3, <1>9, <1>10, <1>13, <1>14, ViewIs DEF y, s, t

\* An element leaves a sequence.
LEMMA Removed ==
    ASSUME NEW S, NEW q \in Seq(S), NEW i \in 1..Len(q)
    PROVE  /\ RemoveAt(q, i) \in Seq(S) /\ Len(RemoveAt(q, i)) = Len(q) - 1
           /\ \A j \in 1..Len(q) - 1 :
                RemoveAt(q, i)[j] = q[IF j < i THEN j ELSE j + 1]
<1> DEFINE a == SubSeq(q, 1, i - 1)
           b == SubSeq(q, i + 1, Len(q))
           r == a \o b
<1>1. Len(q) \in Nat /\ \A j \in 1..Len(q) : q[j] \in S OBVIOUS
<1>2. /\ a \in Seq(S) /\ Len(a) = i - 1 /\ \A j \in 1..i - 1 : a[j] = q[j]
  <2>1. \A j \in 1..i - 1 : q[j] \in S BY <1>1
  <2>2. /\ a \in Seq(S) /\ Len(a) = IF 1 <= i - 1 THEN i - 1 - 1 + 1 ELSE 0
        /\ \A j \in 1..i - 1 - 1 + 1 : a[j] = q[1 + j - 1]
    BY <1>1, <2>1, SubSeqProperties
  <2> HIDE DEF a
  <2> QED BY <2>2
<1>3. /\ b \in Seq(S) /\ Len(b) = Len(q) - i /\ \A j \in 1..Len(q) - i : b[j] = q[i + j]
  <2>1. \A j \in i + 1..Len(q) : q[j] \in S BY <1>1
  <2>2. /\ b \in Seq(S) /\ Len(b) = IF i + 1 <= Len(q) THEN Len(q) - (i + 1) + 1 ELSE 0
        /\ \A j \in 1..Len(q) - (i + 1) + 1 : b[j] = q[i + 1 + j - 1]
    BY <1>1, <2>1, SubSeqProperties
  <2> HIDE DEF b
  <2> QED BY <1>1, <2>2
<1> HIDE DEF a, b
<1>4. /\ r \in Seq(S) /\ Len(r) = Len(a) + Len(b)
      /\ \A j \in 1..Len(a) + Len(b) : r[j] = IF j <= Len(a) THEN a[j] ELSE b[j - Len(a)]
  BY <1>2, <1>3, ConcatProperties
<1>5. RemoveAt(q, i) = r BY DEF RemoveAt, a, b
<1> HIDE DEF r
<1>6. Len(r) = Len(q) - 1 BY <1>1, <1>2, <1>3, <1>4
<1>7. \A j \in 1..Len(q) - 1 : r[j] = q[IF j < i THEN j ELSE j + 1]
  <2> TAKE j \in 1..Len(q) - 1
  <2>1. CASE j < i
    <3>1. j <= Len(a) /\ j \in 1..i - 1 /\ j \in 1..Len(a) + Len(b)
      BY <1>1, <1>2, <1>3, <2>1
    <3> QED BY <1>2, <1>4, <2>1, <3>1
  <2>2. CASE ~(j < i)
    <3>1. /\ ~(j <= Len(a)) /\ j - Len(a) \in 1..Len(q) - i
          /\ i + (j - Len(a)) = j + 1 /\ j \in 1..Len(a) + Len(b)
      BY <1>1, <1>2, <1>3, <2>2
    <3> QED BY <1>3, <1>4, <2>2, <3>1
  <2> QED BY <2>1, <2>2
<1> QED BY <1>4, <1>5, <1>6, <1>7

\* What the callback of the timer of a waiter changes.
TimesOut(v, x, t, o) ==
    /\ x \in KernelStates
    /\ v.k.p_state[t] = "WTSEM" /\ v.vt[t] = "fired"
    /\ o = v.p_u[t] /\ v.s_cnt[o] < 0
    /\ x.vt = [v.vt EXCEPT ![t] = "off"] /\ x.call = v.call
    /\ x.s_cnt = [v.s_cnt EXCEPT ![o] = v.s_cnt[o] + 1]
    /\ x.s_queue = [v.s_queue EXCEPT ![o] = dequeue(v.s_queue[o], t)]
    /\ x.p_u = [v.p_u EXCEPT ![t] = "RDY_TIMEOUT"]
    /\ Keeps(v.k, x.k, {t}) /\ x.k.p_state[t] \in Runnable

\* A waiter whose time is over leaves the line.
GivenUp(s, o, i) ==
    [s EXCEPT !.line[o] = RemoveAt(@, i), !.outcome[s.line[o][i].who] = "RDY_TIMEOUT"]

LEMMA TimeoutView ==
    ASSUME NEW v, GoodKernel(v), SemCalls(v), NEW x, NEW t \in Threads,
           NEW o \in Sems, TimesOut(v, x, t, o),
           NEW i \in 1..Len(v.s_queue[o]), v.s_queue[o][i] = t
    PROVE  /\ Promised(v).line[o][i].timed
           /\ Promised(x) = GivenUp(Promised(v), o, i)
<1> DEFINE s == Promised(v)
           q == v.s_queue[o]
           l == s.line[o]
           p == RemoveAt(l, i)
           r == dequeue(q, t)
           y == [s EXCEPT !.line = [@ EXCEPT ![o] = p],
                          !.outcome = [@ EXCEPT ![t] = "RDY_TIMEOUT"]]
<1>0. /\ v.k.p_state[t] = "WTSEM" /\ v.vt[t] = "fired" /\ o = v.p_u[t] /\ v.s_cnt[o] < 0
      /\ x.vt = [v.vt EXCEPT ![t] = "off"] /\ x.call = v.call
      /\ x.s_cnt = [v.s_cnt EXCEPT ![o] = v.s_cnt[o] + 1]
      /\ x.s_queue = [v.s_queue EXCEPT ![o] = r]
      /\ x.p_u = [v.p_u EXCEPT ![t] = "RDY_TIMEOUT"]
      /\ Keeps(v.k, x.k, {t}) /\ x.k.p_state[t] \in Runnable
  BY DEF TimesOut
<1>1. /\ v \in KernelStates /\ v.s_cnt \in [Sems -> Int] /\ v.s_cnt[o] \in Int
      /\ v.s_queue \in [Sems -> Seq(AllThreads)] /\ q \in Seq(AllThreads)
      /\ v.vt \in [AllThreads -> TimerStates]
      /\ v.p_u \in [AllThreads -> Sems \cup RdyMsgs \cup {NULL}]
      /\ t \in AllThreads /\ x \in KernelStates
  <2>1. v \in KernelStates /\ x \in KernelStates BY DEF GoodKernel, TimesOut
  <2>2. t \in AllThreads BY DEF AllThreads
  <2> QED BY <2>1, <2>2, KernelTypes
<1>2. /\ s \in Views
      /\ s.avail = [c \in Sems |-> IF v.s_cnt[c] < 0 THEN 0 ELSE v.s_cnt[c]]
      /\ s.line = [c \in Sems |-> line(v, c)]
      /\ s.outcome = outcome(v)
      /\ \A c \in Sems :
           /\ line(v, c) \in Seq(Entries) /\ Len(line(v, c)) = Len(v.s_queue[c])
           /\ \A j \in 1..Len(v.s_queue[c]) :
                /\ line(v, c)[j].who = v.s_queue[c][j]
                /\ line(v, c)[j].timed = (v.vt[v.s_queue[c][j]] # "off")
  BY <1>1, ViewTypes
<1> HIDE DEF s
<1>3. /\ l \in Seq(Entries) /\ Len(l) = Len(q)
      /\ \A j \in 1..Len(q) : l[j].who = q[j] /\ l[j].timed = (v.vt[q[j]] # "off")
  <2>1. l = line(v, o) BY <1>2
  <2> HIDE DEF l
  <2> QED BY <1>2, <2>1
<1>4. /\ s.line \in [Sems -> Seq(Entries)] /\ s.outcome \in [Threads -> Outcomes]
  BY <1>2 DEF Views
<1>5. NoDuplicates(q) /\ Len(q) \in Nat
      /\ \A c \in Sems \ {o} : \A j \in 1..Len(v.s_queue[c]) : v.s_queue[c][j] # t
  <2>1. NoDuplicates(q) /\ Len(q) \in Nat BY <1>1 DEF GoodKernel, SemConsistent
  <2>2. \A c \in Sems : Elems(v.s_queue[c]) =
                          {u \in AllThreads : v.k.p_state[u] = "WTSEM" /\ v.p_u[u] = c}
    BY DEF GoodKernel, SemConsistent
  <2> QED BY <1>0, <2>1, <2>2 DEF Elems
<1>6. l[i].timed /\ l[i].who = t BY <1>0, <1>3
<1>7. r = RemoveAt(q, i)
  <2> DEFINE k == CHOOSE k \in 1..Len(q) : q[k] = t
  <2>1. k \in 1..Len(q) /\ q[k] = t OBVIOUS
  <2>2. r = SubSeq(q, 1, k - 1) \o SubSeq(q, k + 1, Len(q)) BY DEF dequeue
  <2> HIDE DEF k
  <2>3. k = i BY <1>5, <2>1 DEF NoDuplicates
  <2> QED BY <2>2, <2>3 DEF RemoveAt
<1>8. /\ p \in Seq(Entries) /\ Len(p) = Len(q) - 1
      /\ \A j \in 1..Len(q) - 1 : p[j] = l[IF j < i THEN j ELSE j + 1]
  <2> HIDE DEF l
  <2>1. i \in 1..Len(l) BY <1>3
  <2> QED BY <1>3, <2>1, Removed
<1>9. /\ Len(r) = Len(q) - 1
      /\ \A j \in 1..Len(q) - 1 : r[j] = q[IF j < i THEN j ELSE j + 1]
  <2> HIDE DEF q, r
  <2>1. i \in 1..Len(q) BY DEF q
  <2> QED BY <1>1, <1>7, <2>1, Removed
<1> HIDE DEF l, p, r
<1>10. GivenUp(s, o, i) = y BY <1>2, <1>6 DEF GivenUp, l, p, Views
<1>11. y \in Views /\ y.avail = s.avail /\ y.line = [s.line EXCEPT ![o] = p]
       /\ y.outcome = [s.outcome EXCEPT ![t] = "RDY_TIMEOUT"]
  <2>1. /\ [s.line EXCEPT ![o] = p] \in [Sems -> Seq(Entries)]
        /\ [s.outcome EXCEPT ![t] = "RDY_TIMEOUT"] \in [Threads -> Outcomes]
    BY <1>4, <1>8 DEF Outcomes, RdyMsgs
  <2> QED BY <1>2, <2>1 DEF Views
<1> HIDE DEF y
<1>12. \A c \in Sems : y.avail[c] = IF x.s_cnt[c] < 0 THEN 0 ELSE x.s_cnt[c]
  BY <1>0, <1>1, <1>2, <1>11
<1>13. \A u \in AllThreads \ {t} : x.vt[u] = v.vt[u] /\ x.p_u[u] = v.p_u[u]
  BY <1>0, <1>1
<1>14. y.line[o] = line(x, o)
  <2>1. y.line[o] = p /\ x.s_queue[o] = r BY <1>0, <1>1, <1>4, <1>11
  <2>2. ASSUME NEW j \in 1..Len(p)
        PROVE  p[j].who = r[j] /\ p[j].timed = (x.vt[r[j]] # "off")
    <3> DEFINE m == IF j < i THEN j ELSE j + 1
    <3>1. m \in 1..Len(q) /\ m # i BY <1>5, <1>8
    <3>2. p[j] = l[m] /\ r[j] = q[m] BY <1>8, <1>9
    <3> HIDE DEF m
    <3>3. q[m] \in AllThreads \ {t} BY <1>1, <1>5, <3>1 DEF NoDuplicates
    <3> QED BY <1>3, <1>13, <3>1, <3>2, <3>3
  <2>3. Len(p) = Len(x.s_queue[o]) BY <1>8, <1>9, <2>1
  <2>4. \A j \in 1..Len(p) : /\ p[j].who = x.s_queue[o][j]
                             /\ p[j].timed = (x.vt[x.s_queue[o][j]] # "off")
    BY <2>1, <2>2
  <2>5. line(x, o) = p BY <1>1, <1>8, <2>3, <2>4, LineIs
  <2> QED BY <2>1, <2>5
<1>15. ASSUME NEW c \in Sems \ {o} PROVE y.line[c] = line(x, c)
  <2> DEFINE d == line(v, c)
  <2>1. /\ d \in Seq(Entries) /\ Len(d) = Len(v.s_queue[c])
        /\ \A j \in 1..Len(v.s_queue[c]) :
             /\ d[j].who = v.s_queue[c][j]
             /\ d[j].timed = (v.vt[v.s_queue[c][j]] # "off")
    BY <1>2
  <2>2. x.s_queue[c] = v.s_queue[c] BY <1>0, <1>1
  <2>3. y.line[c] = d BY <1>2, <1>11
  <2> HIDE DEF d
  <2>4. \A j \in 1..Len(d) : /\ d[j].who = x.s_queue[c][j]
                             /\ d[j].timed = (x.vt[x.s_queue[c][j]] # "off")
    <3> TAKE j \in 1..Len(d)
    <3>1. v.s_queue[c][j] \in AllThreads \ {t} BY <1>1, <1>5, <2>1
    <3> QED BY <1>13, <2>1, <2>2, <3>1
  <2>5. Len(d) = Len(x.s_queue[c]) BY <2>1, <2>2
  <2>6. line(x, c) = d BY <1>1, <2>1, <2>4, <2>5, LineIs
  <2> QED BY <2>3, <2>6
<1>16. \A u \in Threads : y.outcome[u] = outcome(x)[u]
  <2> TAKE u \in Threads
  <2>1. u \in AllThreads BY DEF AllThreads
  <2>2. CASE u = t
    <3>1. v.call[t] \notin {"none", "sleep"} BY <1>0, <1>1 DEF GoodKernel, CallsMatchStates
    <3>2. x.call[t] = "semwait" BY <1>0, <1>1, <3>1 DEF SemCalls
    <3>3. x.p_u[t] = "RDY_TIMEOUT" /\ x.k.p_state[t] # "WTSEM" BY <1>0, <1>1 DEF Runnable
    <3> QED BY <1>4, <1>11, <2>2, <3>2, <3>3 DEF outcome
  <2>3. CASE u # t
    <3>1. x.k.p_state[u] = "WTSEM" <=> v.k.p_state[u] = "WTSEM"
      BY <1>0, <2>1, <2>3 DEF Keeps, Runnable
    <3> QED BY <1>0, <1>2, <1>4, <1>11, <1>13, <2>1, <2>3, <3>1 DEF outcome
  <2> QED BY <2>2, <2>3
<1>17. \A c \in Sems : y.line[c] = line(x, c) BY <1>14, <1>15
<1>18. Promised(x) = y BY <1>1, <1>11, <1>12, <1>16, <1>17, ViewIs
<1> QED BY <1>6, <1>10, <1>18 DEF s, l

\* A reset ends all waits and leaves n units.
Emptied(s, sp, n) ==
    [s EXCEPT !.avail[sp] = n, !.line[sp] = <<>>,
              !.outcome = [t \in Threads |->
                  IF \E i \in 1..Len(s.line[sp]) : s.line[sp][i].who = t
                  THEN "RDY_RESET" ELSE @[t]]]

LEMMA ResetView ==
    ASSUME NEW v, GoodKernel(v), SemCalls(v), NEW sp \in Sems, NEW n \in Nat, NEW x,
           ResetEffect(v, x, sp, n)
    PROVE  Promised(x) = Emptied(Promised(v), sp, n)
<1> DEFINE s == Promised(v)
           q == v.s_queue[sp]
           l == s.line[sp]
           av == [s.avail EXCEPT ![sp] = n]
           li == [s.line EXCEPT ![sp] = <<>>]
           ou == [t \in Threads |-> IF \E i \in 1..Len(l) : l[i].who = t
                                    THEN "RDY_RESET" ELSE s.outcome[t]]
           y == [s EXCEPT !.avail = av, !.line = li, !.outcome = ou]
<1>1. /\ v \in KernelStates /\ x \in KernelStates
      /\ v.s_cnt \in [Sems -> Int] /\ v.s_queue \in [Sems -> Seq(AllThreads)]
      /\ q \in Seq(AllThreads)
  <2>1. v \in KernelStates /\ x \in KernelStates BY DEF GoodKernel, ResetEffect
  <2> QED BY <2>1, KernelTypes
<1>2. /\ x.s_cnt = [v.s_cnt EXCEPT ![sp] = n]
      /\ x.s_queue = [v.s_queue EXCEPT ![sp] = <<>>]
      /\ x.vt = v.vt /\ x.call = v.call
      /\ Keeps(v.k, x.k, Elems(q))
      /\ \A u \in AllThreads :
           IF u \in Elems(q)
           THEN x.k.p_state[u] \in Runnable /\ x.p_u[u] = "RDY_RESET"
           ELSE x.p_u[u] = v.p_u[u]
  BY DEF ResetEffect
<1>3. /\ s \in Views
      /\ s.avail = [o \in Sems |-> IF v.s_cnt[o] < 0 THEN 0 ELSE v.s_cnt[o]]
      /\ s.line = [o \in Sems |-> line(v, o)]
      /\ s.outcome = outcome(v)
      /\ \A o \in Sems :
           /\ Len(line(v, o)) = Len(v.s_queue[o])
           /\ \A j \in 1..Len(v.s_queue[o]) : line(v, o)[j].who = v.s_queue[o][j]
  BY <1>1, ViewTypes
<1> HIDE DEF s
<1>4. /\ Len(l) = Len(q) /\ \A j \in 1..Len(q) : l[j].who = q[j]
      /\ s.avail \in [Sems -> Nat] /\ s.line \in [Sems -> Seq(Entries)]
      /\ s.outcome \in [Threads -> Outcomes]
  BY <1>3 DEF Views
<1> HIDE DEF l
<1>5. Emptied(s, sp, n) = y BY <1>3 DEF Emptied, l, Views
<1>6. y \in Views /\ y.avail = av /\ y.line = li /\ y.outcome = ou
  <2>1. av \in [Sems -> Nat] BY <1>4
  <2>2. <<>> \in Seq(Entries) BY EmptySeq
  <2>3. li \in [Sems -> Seq(Entries)] BY <1>4, <2>2
  <2>4. ou \in [Threads -> Outcomes] BY <1>4 DEF Outcomes, RdyMsgs
  <2> HIDE DEF av, li, ou
  <2> QED BY <1>3, <2>1, <2>3, <2>4 DEF Views
<1> HIDE DEF y
<1>7. \A o \in Sems : y.avail[o] = IF x.s_cnt[o] < 0 THEN 0 ELSE x.s_cnt[o]
  BY <1>1, <1>2, <1>3, <1>4, <1>6
<1>8. ASSUME NEW o \in Sems PROVE y.line[o] = line(x, o)
  <2>1. CASE o = sp
    <3>1. y.line[o] = <<>> /\ x.s_queue[o] = <<>> BY <1>1, <1>2, <1>4, <1>6, <2>1
    <3>2. <<>> \in Seq(Entries) /\ Len(<<>>) = 0 BY EmptySeq
    <3> DEFINE e == <<>>
    <3>3. /\ e \in Seq(Entries) /\ Len(e) = Len(x.s_queue[o])
          /\ \A i \in 1..Len(e) : /\ e[i].who = x.s_queue[o][i]
                                  /\ e[i].timed = (x.vt[x.s_queue[o][i]] # "off")
      BY <3>1, <3>2
    <3>4. y.line[o] = e BY <3>1
    <3> HIDE DEF e
    <3>5. line(x, o) = e BY <1>1, <3>3, LineIs
    <3> QED BY <3>4, <3>5
  <2>2. CASE o # sp
    <3>1. x.s_queue[o] = v.s_queue[o] BY <1>1, <1>2, <2>2
    <3>2. y.line[o] = line(v, o) BY <1>3, <1>6, <2>2
    <3> QED BY <1>2, <3>1, <3>2 DEF line
  <2> QED BY <2>1, <2>2
<1>9. \A u \in Threads : y.outcome[u] = outcome(x)[u]
  <2> TAKE u \in Threads
  <2>1. u \in AllThreads BY DEF AllThreads
  <2>2. (\E i \in 1..Len(l) : l[i].who = u) <=> u \in Elems(q)
    BY <1>1, <1>4 DEF Elems
  <2>3. CASE u \in Elems(q)
    <3>1. v.k.p_state[u] = "WTSEM" BY <2>3 DEF GoodKernel, SemConsistent
    <3>2. v.call[u] \notin {"none", "sleep"} BY <2>1, <3>1 DEF GoodKernel, CallsMatchStates
    <3>3. x.call[u] = "semwait" BY <1>2, <2>1, <3>2 DEF SemCalls
    <3>4. x.p_u[u] = "RDY_RESET" /\ x.k.p_state[u] # "WTSEM"
      BY <1>2, <2>1, <2>3 DEF Runnable
    <3> QED BY <1>6, <2>2, <2>3, <3>3, <3>4 DEF outcome
  <2>4. CASE u \notin Elems(q)
    <3>1. x.k.p_state[u] = "WTSEM" <=> v.k.p_state[u] = "WTSEM"
      BY <1>2, <2>1, <2>4 DEF Keeps, Runnable
    <3>2. outcome(x)[u] = outcome(v)[u] BY <1>2, <2>1, <2>4, <3>1 DEF outcome
    <3> QED BY <1>3, <1>6, <2>2, <2>4, <3>2
  <2> QED BY <2>3, <2>4
<1> QED BY <1>1, <1>5, <1>6, <1>7, <1>8, <1>9, ViewIs DEF s

\* A thread that no user knows to be waiting starts or ends a sleep, and the
\* scheduler runs: the users see nothing of it.
Unseen(v, x, t) ==
    /\ x.s_cnt = v.s_cnt /\ x.s_queue = v.s_queue
    /\ v.k.p_state[t] # "WTSEM" \/ x.vt[t] = v.vt[t]
    /\ \A u \in AllThreads \ {t} : x.vt[u] = v.vt[u]
    /\ \A u \in Threads : outcome(x)[u] = outcome(v)[u]

LEMMA UnseenByUsers ==
    ASSUME NEW v, GoodKernel(v), NEW x, GoodKernel(x),
           NEW t \in AllThreads, Unseen(v, x, t)
    PROVE  Promised(x) = Promised(v)
<1>1. v \in KernelStates /\ x \in KernelStates BY DEF GoodKernel
<1>2. \A o \in Sems : \A u \in Elems(v.s_queue[o]) :
         u \in AllThreads /\ v.k.p_state[u] = "WTSEM"
  BY DEF GoodKernel, SemConsistent
<1>3. \A o \in Sems : \A u \in Elems(v.s_queue[o]) : x.vt[u] = v.vt[u] BY <1>2 DEF Unseen
<1>4. \A o \in Sems : \A u \in Elems(v.s_queue[o]) : (x.vt[u] # "off") = (v.vt[u] # "off")
  BY <1>3
<1> QED BY <1>1, <1>4, SameForUsers DEF Unseen

\* So it is with the scheduler alone.
LEMMA SchedUnseen ==
    ASSUME NEW v, GoodKernel(v), NEW x, GoodKernel(x),
           x.s_cnt = v.s_cnt, x.s_queue = v.s_queue, x.p_u = v.p_u,
           x.vt = v.vt, x.call = v.call, Keeps(v.k, x.k, {})
    PROVE  Promised(x) = Promised(v)
<1>1. \A u \in Threads : outcome(x)[u] = outcome(v)[u]
  <2>1. \A u \in Threads : x.k.p_state[u] = "WTSEM" <=> v.k.p_state[u] = "WTSEM"
    BY DEF Keeps, Runnable, AllThreads
  <2> QED BY <2>1 DEF outcome
<1>2. Idle \in AllThreads BY DEF AllThreads
<1>3. Unseen(v, x, Idle) BY <1>1, <1>2 DEF Unseen
<1> QED BY <1>2, <1>3, UnseenByUsers

----------------------------------------------------------------------------
(* Every step of the semaphores is one of a counting semaphore, or none. *)

LEMMA ThreadView ==
    ASSUME SemInv, ThreadCode
    PROVE  /\ currp \in Threads /\ currp = w.k.r_current /\ currp # Idle
           /\ GoodKernel(w) /\ SemCalls(w) /\ ~Locked(w)
           /\ Promised(w).outcome[currp] = "none"
           /\ KernelAssumption /\ "semwait" \in Calls \ {"none", "sleep"}
<1>1. /\ currp \in AllThreads /\ currp # Idle /\ ~Locked(w) /\ GoodKernel(w)
      /\ SemCalls(w)
  BY SemTypes DEF ThreadCode, SemCalls
<1>2. currp \in Threads BY <1>1 DEF AllThreads
<1>3. Promised(w).outcome = outcome(w) BY <1>1, ViewTypes DEF GoodKernel
<1>4. w.call[currp] = "none" BY <1>1 DEF Locked, currp
<1> QED BY <1>1, <1>2, <1>3, <1>4, SemKernel DEF outcome, currp

LEMMA WaitStep ==
    ASSUME SemInv, NEW sp \in Sems, NEW timed \in BOOLEAN,
           chSemWaitTimeout(sp, timed) \/ chSemWaitImmediate(sp)
    PROVE  Promise!Wait(currp, sp)
<1>1. ThreadCode BY DEF chSemWaitTimeout, chSemWaitImmediate
<1>2. Promised(w') = Promise!Ask(Promised(w), currp, sp, timed)
  <2>1. CASE w.s_cnt[sp] - 1 >= 0 /\ w' = chSemFastWaitI(w, sp)
    <3> DEFINE x == chSemFastWaitI(w, sp)
    <3>1. /\ GoodKernel(x) /\ x.s_cnt = [w.s_cnt EXCEPT ![sp] = w.s_cnt[sp] - 1]
          /\ x.s_queue = w.s_queue /\ x.vt = w.vt /\ x.call = w.call
          /\ x.p_u = w.p_u /\ x.k = w.k
      BY <1>1, <2>1, ThreadView, FastWaitOK
    <3> HIDE DEF x
    <3>2. Keeps(w.k, x.k, {}) BY <3>1 DEF Keeps
    <3>3. Promised(x) = Promise!Ask(Promised(w), currp, sp, timed)
      BY <1>1, <2>1, <3>1, <3>2, ThreadView, FastWaitView DEF GoodKernel
    <3> QED BY <2>1, <3>3 DEF x
  <2>2. CASE w.s_cnt[sp] - 1 < 0 /\ w' = SleepOnSem(w, sp, timed, "semwait")
    <3>1. /\ GoodKernel(w) /\ ~Locked(w) /\ w.k.r_current # Idle /\ KernelAssumption
          /\ "semwait" \in Calls \ {"none", "sleep"} /\ currp = w.k.r_current
      BY <1>1, ThreadView
    <3>2. SleepEffect(w, SleepOnSem(w, sp, timed, "semwait"), sp, timed, "semwait")
      BY <2>2, <3>1, SleepOnSemOK
    <3>3. SleepEffect(w, w', sp, timed, "semwait") BY <2>2, <3>2
    <3> QED BY <2>2, <3>1, <3>3, SleepView
  <2> QED BY <2>1, <2>2 DEF chSemWaitTimeout, chSemWaitImmediate
<1>3. Promised(w)' = Promised(w') OBVIOUS
<1> QED BY <1>1, <1>2, <1>3, ThreadView DEF Promise!Wait

LEMMA SignalStep ==
    ASSUME SemInv, NEW sp \in Sems, SignalFromThread(sp)
    PROVE  Promise!Signal(sp, 1)
<1>1. ThreadCode /\ w' = chSemSignal(w, sp) BY DEF SignalFromThread
<1>2. SignalEffect(w, w', sp) BY <1>1, ThreadView, SignalS
<1>3. Promised(w') = Promise!Give(Promised(w), sp, 1)
  BY <1>1, <1>2, ThreadView, SignalView
<1> QED BY <1>3 DEF Promise!Signal

LEMMA IsrSignalStep ==
    ASSUME SemInv, NEW sp \in Sems, NEW n \in 1..2, SignalFromIsr(sp, n)
    PROVE  Promise!Signal(sp, n)
<1>1. w' = chSemAddCounterI(w, sp, n) BY DEF SignalFromIsr
<1>2. GoodKernel(w) /\ SemCalls(w) /\ KernelAssumption
  BY SemTypes, SemKernel DEF SemCalls
<1>3. Promised(w') = Promise!Give(Promised(w), sp, n)
  BY <1>1, <1>2, AddCounterView
<1> QED BY <1>3 DEF Promise!Signal

LEMMA ResetStep ==
    ASSUME SemInv, NEW sp \in Sems, NEW n \in ResetCounts,
           chSemReset(sp, n) \/ ResetFromIsr(sp, n)
    PROVE  Promise!Reset(sp, n)
<1> DEFINE v == chSemResetI(w, sp, n)
<1>1. n \in Nat BY SemBounds
<1>2. GoodKernel(w) /\ SemCalls(w) /\ KernelAssumption
  BY SemTypes, SemKernel DEF SemCalls
<1>3. ResetEffect(w, v, sp, n) BY <1>1, <1>2, ResetI
<1>4. w' = v \/ w' = Reschedule(v) BY DEF chSemReset, ResetFromIsr
<1> HIDE DEF v
<1>5. GoodKernel(v) BY <1>3 DEF ResetEffect
<1>6. Promised(w') = Promised(v)
  <2>1. CASE w' = Reschedule(v)
    <3>1. /\ GoodKernel(w') /\ w'.s_cnt = v.s_cnt /\ w'.s_queue = v.s_queue
          /\ w'.p_u = v.p_u /\ w'.vt = v.vt /\ w'.call = v.call
          /\ Keeps(v.k, w'.k, {})
      BY <1>5, <2>1, RescheduleOK
    <3> QED BY <1>5, <3>1, SchedUnseen
  <2> QED BY <1>4, <2>1
<1>7. Promised(v) = Emptied(Promised(w), sp, n) BY <1>1, <1>2, <1>3, ResetView
<1> QED BY <1>6, <1>7 DEF Promise!Reset, Emptied

LEMMA SignalWaitStep ==
    ASSUME SemInv, NEW sps \in Sems, NEW spw \in Sems, chSemSignalWait(sps, spw)
    PROVE  Promise!SignalAndWait(currp, sps, spw)
<1> DEFINE v == chSemSignalI(w, sps)
<1>1. /\ ThreadCode
      /\ \/ /\ v.s_cnt[spw] - 1 < 0
            /\ w' = SleepOnSem(v, spw, FALSE, "semwait")
         \/ /\ v.s_cnt[spw] - 1 >= 0
            /\ w' = Reschedule(chSemFastWaitI(v, spw))
  BY DEF chSemSignalWait
<1>2. /\ GoodKernel(w) /\ SemCalls(w) /\ ~Locked(w) /\ currp = w.k.r_current
      /\ currp \in Threads /\ currp # Idle /\ Promised(w).outcome[currp] = "none"
      /\ KernelAssumption /\ "semwait" \in Calls \ {"none", "sleep"}
  BY <1>1, ThreadView
<1>3. SignalEffect(w, v, sps) /\ v.k.r_current = currp BY <1>2, SignalI
<1> HIDE DEF v
<1>4. GoodKernel(v) /\ ~Locked(v) BY <1>2, <1>3 DEF SignalEffect, Locked
<1>5. Promised(v) = Promise!Give(Promised(w), sps, 1) BY <1>2, <1>3, SignalView
<1>6. Promised(w') = Promise!Ask(Promised(v), currp, spw, FALSE)
  <2>1. CASE v.s_cnt[spw] - 1 < 0 /\ w' = SleepOnSem(v, spw, FALSE, "semwait")
    <3>1. v.k.r_current # Idle /\ FALSE \in BOOLEAN BY <1>2, <1>3
    <3>2. SleepEffect(v, SleepOnSem(v, spw, FALSE, "semwait"), spw, FALSE, "semwait")
      BY <1>2, <1>4, <2>1, <3>1, SleepOnSemOK
    <3>3. SleepEffect(v, w', spw, FALSE, "semwait") BY <2>1, <3>2
    <3> QED BY <1>3, <1>4, <2>1, <3>1, <3>3, SleepView
  <2>2. CASE v.s_cnt[spw] - 1 >= 0 /\ w' = Reschedule(chSemFastWaitI(v, spw))
    <3> DEFINE x == chSemFastWaitI(v, spw)
    <3>1. /\ GoodKernel(x) /\ x.s_cnt = [v.s_cnt EXCEPT ![spw] = v.s_cnt[spw] - 1]
          /\ x.s_queue = v.s_queue /\ x.vt = v.vt /\ x.call = v.call
          /\ x.p_u = v.p_u /\ x.k = v.k
      BY <1>4, <2>2, FastWaitOK
    <3>2. w' = Reschedule(x) BY <2>2
    <3> HIDE DEF x
    <3>3. Keeps(v.k, x.k, {}) /\ x \in KernelStates BY <3>1 DEF Keeps, GoodKernel
    <3>4. Promised(x) = Promise!Ask(Promised(v), currp, spw, FALSE)
      BY <1>2, <1>4, <2>2, <3>1, <3>3, FastWaitView
    <3>5. /\ GoodKernel(w') /\ w'.s_cnt = x.s_cnt /\ w'.s_queue = x.s_queue
          /\ w'.p_u = x.p_u /\ w'.vt = x.vt /\ w'.call = x.call
          /\ Keeps(x.k, w'.k, {})
      BY <3>1, <3>2, RescheduleOK
    <3>6. Promised(w') = Promised(x) BY <3>1, <3>5, SchedUnseen
    <3> QED BY <3>4, <3>6
  <2> QED BY <1>1, <2>1, <2>2
<1> QED BY <1>2, <1>5, <1>6 DEF Promise!SignalAndWait

\* The outcome of the wait that a thread returns from is RDY_OK, RDY_TIMEOUT or
\* RDY_RESET.
LEMMA ReturnStep ==
    ASSUME SemInv, ReturnFromCall
    PROVE  (\E t \in Threads : Promise!Leave(t)) \/ Promised(w') = Promised(w)
<1> DEFINE t == w.k.r_current
<1>1. Locked(w) /\ w' = Resume(w) BY DEF ReturnFromCall
<1>2. /\ GoodKernel(w) /\ t \in AllThreads /\ SemCalls(w) /\ KernelAssumption
      /\ w.vt[t] # "fired"
  BY <1>1, SemTypes, SemKernel, NobodyIsInterrupted DEF SemCalls
<1>3. /\ GoodKernel(w') /\ w'.s_cnt = w.s_cnt /\ w'.s_queue = w.s_queue
      /\ w'.p_u = w.p_u /\ w'.k = w.k
      /\ w'.vt = [w.vt EXCEPT ![t] = "off"]
      /\ w'.call = [w.call EXCEPT ![t] = "none"]
  BY <1>1, <1>2, ResumeOK
<1>4. /\ w \in KernelStates /\ w' \in KernelStates
      /\ w.vt \in [AllThreads -> TimerStates] /\ w.call \in [AllThreads -> Calls]
  BY <1>2, <1>3, KernelTypes DEF GoodKernel
<1>5. w.k.p_state[t] = "CURRENT" BY <1>2 DEF GoodKernel, SchedInv, ReadyListMembers
<1>6. CASE w.call[t] = "semwait" /\ t \in Threads
  <2>1. outcome(w)[t] \in RdyMsgs
    <3>1. w.p_u[t] \in RdyMsgs
      BY <1>2, <1>5, <1>6 DEF GoodKernel, CallsMatchStates, Runnable
    <3> QED BY <1>5, <1>6, <3>1 DEF outcome
  <2>2. Promised(w).outcome = outcome(w) /\ Promised(w) \in Views BY <1>4, ViewTypes
  <2> DEFINE s == Promised(w)
             y == [s EXCEPT !.outcome = [@ EXCEPT ![t] = "none"]]
  <2>3. Promised(w') = y
    <3> DEFINE x == w'
               ou == [s.outcome EXCEPT ![t] = "none"]
    <3>1. /\ s.avail = [o \in Sems |-> IF w.s_cnt[o] < 0 THEN 0 ELSE w.s_cnt[o]]
          /\ s.line = [o \in Sems |-> line(w, o)] /\ s.outcome = outcome(w)
      BY <1>4, ViewTypes
    <3>2. s \in Views /\ s.outcome \in [Threads -> Outcomes] BY <2>2 DEF Views
    <3> HIDE DEF s
    <3>3. y \in Views /\ y.avail = s.avail /\ y.line = s.line /\ y.outcome = ou
      <4>1. ou \in [Threads -> Outcomes] BY <3>2 DEF Outcomes
      <4> QED BY <3>2, <4>1 DEF Views
    <3>4. \A o \in Sems : line(x, o) = line(w, o)
      <4>1. \A o \in Sems : \A i \in 1..Len(w.s_queue[o]) :
               w.s_queue[o][i] \in AllThreads \ {t}
        BY <1>2, <1>5 DEF GoodKernel, SemConsistent, Elems
      <4>2. \A u \in AllThreads \ {t} : w'.vt[u] = w.vt[u] BY <1>3, <1>4
      <4> QED BY <1>3, <4>1, <4>2 DEF line
    <3>5. \A u \in Threads : y.outcome[u] = outcome(x)[u]
      <4> TAKE u \in Threads
      <4>1. u \in AllThreads BY DEF AllThreads
      <4>2. CASE u = t BY <1>3, <1>4, <3>2, <3>3, <4>1, <4>2 DEF outcome
      <4>3. CASE u # t
        <5>1. w'.call[u] = w.call[u] BY <1>4, <1>3, <4>1, <4>3
        <5> QED BY <1>3, <3>1, <3>2, <3>3, <4>3, <5>1 DEF outcome
      <4> QED BY <4>2, <4>3
    <3>6. /\ \A o \in Sems : y.avail[o] = IF x.s_cnt[o] < 0 THEN 0 ELSE x.s_cnt[o]
          /\ \A o \in Sems : y.line[o] = line(x, o)
      BY <1>3, <3>1, <3>3, <3>4
    <3> HIDE DEF y
    <3> QED BY <1>4, <3>3, <3>5, <3>6, ViewIs
  <2>4. y = [s EXCEPT !.outcome[t] = "none"] BY <2>2 DEF Views
  <2>5. s.outcome[t] \notin {"none", "waiting"} BY <2>1, <2>2 DEF RdyMsgs
  <2>6. Promise!Leave(t) BY <2>3, <2>4, <2>5 DEF Promise!Leave
  <2> QED BY <1>6, <2>6
<1>7. CASE ~(w.call[t] = "semwait" /\ t \in Threads)
  <2>1. \A u \in AllThreads \ {t} : w'.vt[u] = w.vt[u] BY <1>3, <1>4
  <2>2. \A u \in Threads : outcome(w')[u] = outcome(w)[u]
    <3> TAKE u \in Threads
    <3>1. u \in AllThreads BY DEF AllThreads
    <3>2. CASE u = t BY <1>3, <1>4, <1>7, <3>1, <3>2 DEF outcome
    <3>3. CASE u # t
      <4>1. w'.call[u] = w.call[u] BY <1>3, <1>4, <3>1, <3>3
      <4> QED BY <1>3, <4>1 DEF outcome
    <3> QED BY <3>2, <3>3
  <2>3. w.k.p_state[t] # "WTSEM" BY <1>5
  <2>4. Unseen(w, w', t) BY <1>3, <2>1, <2>2, <2>3 DEF Unseen
  <2> QED BY <1>2, <1>3, <2>4, UnseenByUsers
<1> QED BY <1>6, <1>7

LEMMA SleepStep ==
    ASSUME SemInv, chThdSleep PROVE Promised(w') = Promised(w)
<1>1. ThreadCode /\ w' = chThdSleepS(w) BY DEF chThdSleep
<1>2. /\ GoodKernel(w) /\ ~Locked(w) /\ currp = w.k.r_current /\ currp # Idle
      /\ currp \in AllThreads /\ KernelAssumption
  BY <1>1, ThreadView DEF AllThreads
<1>3. /\ w.vt \in [AllThreads -> TimerStates] /\ w.call \in [AllThreads -> Calls]
      /\ w.call[currp] = "none"
  BY <1>2, KernelTypes DEF GoodKernel, Locked
<1>4. /\ GoodKernel(w') /\ w'.s_cnt = w.s_cnt /\ w'.s_queue = w.s_queue
      /\ w'.p_u = w.p_u
      /\ w'.vt = [w.vt EXCEPT ![currp] = "armed"]
      /\ w'.call = [w.call EXCEPT ![currp] = "sleep"]
      /\ Keeps(w.k, w'.k, {currp})
  BY <1>1, <1>2, SleepOK
<1>5. w.k.p_state[currp] # "WTSEM"
  BY <1>2 DEF GoodKernel, SchedInv, ReadyListMembers
<1>6. \A u \in AllThreads \ {currp} : w'.vt[u] = w.vt[u] /\ w'.call[u] = w.call[u]
  BY <1>3, <1>4
<1>7. \A u \in Threads : outcome(w')[u] = outcome(w)[u]
  <2> TAKE u \in Threads
  <2>1. u \in AllThreads BY DEF AllThreads
  <2>2. CASE u = currp BY <1>3, <1>4, <2>1, <2>2 DEF outcome
  <2>3. CASE u # currp
    <3>1. w'.k.p_state[u] = "WTSEM" <=> w.k.p_state[u] = "WTSEM"
      BY <1>4, <2>1, <2>3 DEF Keeps, Runnable
    <3> QED BY <1>4, <1>6, <2>1, <2>3, <3>1 DEF outcome
  <2> QED BY <2>2, <2>3
<1>8. \A u \in AllThreads \ {currp} : w'.vt[u] = w.vt[u] BY <1>6
<1>9. Unseen(w, w', currp) BY <1>4, <1>5, <1>7, <1>8 DEF Unseen
<1> QED BY <1>2, <1>4, <1>9, UnseenByUsers

LEMMA ExpiryStep ==
    ASSUME SemInv, NEW t \in Threads, TimerExpires(t)
    PROVE  Promised(w') = Promised(w)
<1>1. /\ GoodKernel(w) /\ w \in KernelStates /\ t \in AllThreads
      /\ w.vt[t] = "armed" /\ w' = [w EXCEPT !.vt[t] = "fired"]
      /\ w.vt \in [AllThreads -> TimerStates]
  BY SemTypes DEF TimerExpires, MayExpire, Expire, AllThreads, GoodKernel
<1>2. GoodKernel(w')
  <2>1. "fired" \in TimerStates /\ w.call[t] # "none"
    BY <1>1 DEF TimerStates, GoodKernel, TimersOnLiveStacks
  <2> QED BY <1>1, <2>1, TimerChanges
<1>3. /\ w'.k = w.k /\ w'.s_cnt = w.s_cnt /\ w'.s_queue = w.s_queue
      /\ w'.p_u = w.p_u /\ w'.call = w.call
      /\ w'.vt = [w.vt EXCEPT ![t] = "fired"]
  BY <1>1 DEF KernelStates
<1>4. \A u \in AllThreads : (w'.vt[u] # "off") = (w.vt[u] # "off") BY <1>1, <1>3
<1>5. \A o \in Sems : \A u \in Elems(w.s_queue[o]) :
         (w'.vt[u] # "off") = (w.vt[u] # "off")
  <2>1. \A o \in Sems : \A u \in Elems(w.s_queue[o]) : u \in AllThreads
    BY <1>1 DEF GoodKernel, SemConsistent
  <2> QED BY <1>4, <2>1
<1>6. \A u \in Threads : outcome(w')[u] = outcome(w)[u] BY <1>3 DEF outcome
<1>7. w' \in KernelStates BY <1>2 DEF GoodKernel
<1> QED BY <1>1, <1>3, <1>5, <1>6, <1>7, SameForUsers

LEMMA CallbackStep ==
    ASSUME SemInv, NEW t \in Threads, TimerCallback(t)
    PROVE  \/ \E sp \in Sems : \E i \in 1..Len(Promised(w).line[sp]) :
                Promise!GiveUp(sp, i)
           \/ Promised(w') = Promised(w)
<1> DEFINE o == w.p_u[t]
<1>1. w.vt[t] = "fired" /\ w' = wakeup(w, t) BY DEF TimerCallback
<1>2. /\ GoodKernel(w) /\ t \in AllThreads /\ SemCalls(w) /\ KernelAssumption
  BY SemTypes, SemKernel DEF SemCalls, AllThreads
<1>3. ~Locked(w) BY <1>1, <1>2, SemTypes DEF KernelInv
<1>4. /\ w \in KernelStates /\ w.vt \in [AllThreads -> TimerStates]
      /\ w.s_queue \in [Sems -> Seq(AllThreads)]
      /\ w.p_u \in [AllThreads -> Sems \cup RdyMsgs \cup {NULL}]
  BY <1>2, KernelTypes DEF GoodKernel
<1>5. /\ GoodKernel(w') /\ w'.vt = [w.vt EXCEPT ![t] = "off"] /\ w'.call = w.call
      /\ \/ /\ w.k.p_state[t] = "READY"
            /\ w'.s_cnt = w.s_cnt /\ w'.s_queue = w.s_queue
            /\ w'.p_u = w.p_u /\ w'.k = w.k
         \/ /\ w.k.p_state[t] = "WTSEM"
            /\ o \in Sems /\ w.s_cnt[o] < 0 /\ t \in Elems(w.s_queue[o])
            /\ w'.s_cnt = [w.s_cnt EXCEPT ![o] = w.s_cnt[o] + 1]
            /\ w'.s_queue = [w.s_queue EXCEPT ![o] = dequeue(w.s_queue[o], t)]
            /\ w'.p_u = [w.p_u EXCEPT ![t] = "RDY_TIMEOUT"]
            /\ Keeps(w.k, w'.k, {t}) /\ w'.k.p_state[t] \in Runnable
         \/ /\ w.k.p_state[t] = "SLEEPING"
            /\ w'.s_cnt = w.s_cnt /\ w'.s_queue = w.s_queue
            /\ w'.p_u = [w.p_u EXCEPT ![t] = "RDY_TIMEOUT"]
            /\ Keeps(w.k, w'.k, {t}) /\ w'.k.p_state[t] \in Runnable
  BY <1>1, <1>2, <1>3, WakeupOK
<1>6. \A u \in AllThreads \ {t} : w'.vt[u] = w.vt[u] BY <1>4, <1>5
<1> HIDE DEF o
<1>7. CASE w.k.p_state[t] = "WTSEM"
  <2>1. /\ o \in Sems /\ TimesOut(w, w', t, o) /\ t \in Elems(w.s_queue[o])
    BY <1>1, <1>5, <1>7 DEF TimesOut, GoodKernel, o
  <2>2. PICK i \in 1..Len(w.s_queue[o]) : w.s_queue[o][i] = t BY <2>1 DEF Elems
  <2>3. Promised(w).line[o][i].timed /\ Promised(w') = GivenUp(Promised(w), o, i)
    BY <1>2, <2>1, <2>2, TimeoutView
  <2>4. i \in 1..Len(Promised(w).line[o])
    <3>1. Promised(w).line = [c \in Sems |-> line(w, c)] BY <1>4, ViewTypes
    <3>2. Len(line(w, o)) = Len(w.s_queue[o]) BY <1>4, <2>1, ViewTypes
    <3> QED BY <2>1, <2>2, <3>1, <3>2
  <2>5. Promise!GiveUp(o, i)
    <3> DEFINE s == Promised(w)
    <3>1. s' = Promised(w') OBVIOUS
    <3>2. /\ s.line[o][i].timed
          /\ s' = [s EXCEPT !.line[o] = Promise!RemoveAt(@, i),
                            !.outcome[s.line[o][i].who] = "RDY_TIMEOUT"]
      BY <2>3, <3>1 DEF GivenUp, Promise!RemoveAt, RemoveAt
    <3> QED BY <3>2 DEF Promise!GiveUp
  <2> QED BY <2>1, <2>4, <2>5
<1>8. CASE w.k.p_state[t] = "READY"
  <2>1. \A u \in Threads : outcome(w')[u] = outcome(w)[u] BY <1>5, <1>8 DEF outcome
  <2>2. Unseen(w, w', t) BY <1>5, <1>6, <1>8, <2>1 DEF Unseen
  <2> QED BY <1>2, <1>5, <2>2, UnseenByUsers
<1>9. CASE w.k.p_state[t] = "SLEEPING"
  <2>1. \A u \in Threads : outcome(w')[u] = outcome(w)[u]
    <3> TAKE u \in Threads
    <3>1. u \in AllThreads BY DEF AllThreads
    <3>2. CASE u = t
      <4>1. w.call[t] = "sleep" BY <1>2, <1>9 DEF GoodKernel, CallsMatchStates
      <4> QED BY <1>5, <3>2, <4>1 DEF outcome
    <3>3. CASE u # t
      <4>1. w'.k.p_state[u] = "WTSEM" <=> w.k.p_state[u] = "WTSEM"
        BY <1>5, <1>9, <3>1, <3>3 DEF Keeps, Runnable
      <4>2. w'.p_u[u] = w.p_u[u] BY <1>4, <1>5, <1>9, <3>1, <3>3
      <4> QED BY <1>5, <4>1, <4>2 DEF outcome
    <3> QED BY <3>2, <3>3
  <2>2. Unseen(w, w', t) BY <1>5, <1>6, <1>9, <2>1 DEF Unseen
  <2> QED BY <1>2, <1>5, <2>2, UnseenByUsers
<1> QED BY <1>5, <1>7, <1>8, <1>9

LEMMA EpilogueStep ==
    ASSUME SemInv, IrqExit PROVE Promised(w') = Promised(w)
<1>1. GoodKernel(w) /\ w' = [w EXCEPT !.k = IrqEpilogue(@)] BY SemTypes DEF IrqExit
<1>2. /\ GoodKernel(w') /\ w'.s_cnt = w.s_cnt /\ w'.s_queue = w.s_queue
      /\ w'.p_u = w.p_u /\ w'.vt = w.vt /\ w'.call = w.call /\ Keeps(w.k, w'.k, {})
  BY <1>1, RescheduleOK
<1> QED BY <1>1, <1>2, SchedUnseen

LEMMA InitialView == ASSUME SemInit PROVE Promise!CountingInit
<1>1. SemInv BY SemInitInv
<1>2. w = AllAsleep(InitPrio, InitCounts) /\ InitCounts \in [Sems -> Nat]
  BY SemBounds DEF SemInit, KernelInit
<1>3. /\ w.s_cnt = InitCounts /\ w.s_queue = [sp \in Sems |-> <<>>]
      /\ w.call = [t \in AllThreads |-> IF t = Idle THEN "none" ELSE "sleep"]
  BY <1>2 DEF AllAsleep
<1>4. [sp \in Sems |-> IF w.s_cnt[sp] < 0 THEN 0 ELSE w.s_cnt[sp]] = InitCounts
  BY <1>2, <1>3
<1>5. [sp \in Sems |-> line(w, sp)] = [sp \in Sems |-> <<>>]
  <2> SUFFICES ASSUME NEW sp \in Sems PROVE line(w, sp) = <<>> OBVIOUS
  <2>1. /\ line(w, sp) \in Seq(Entries) /\ Len(line(w, sp)) = Len(w.s_queue[sp])
    BY <1>1, SemTypes, ViewTypes DEF GoodKernel
  <2>2. w.s_queue[sp] = <<>> BY <1>3
  <2> QED BY <2>1, <2>2, EmptySeq
<1>6. outcome(w) = [t \in Threads |-> "none"] BY <1>3 DEF outcome, AllThreads
<1> QED BY <1>4, <1>5, <1>6 DEF Promise!CountingInit, Promised

LEMMA StepView ==
    ASSUME SemInv, [SemNext]_kernelvars
    PROVE  Promise!CountingNext \/ Promised(w') = Promised(w)
<1>1. CASE UNCHANGED kernelvars BY <1>1 DEF kernelvars
<1>2. CASE \E sp \in Sems, timed \in BOOLEAN : chSemWaitTimeout(sp, timed)
  <2>1. PICK sp \in Sems, timed \in BOOLEAN : chSemWaitTimeout(sp, timed) BY <1>2
  <2>2. currp \in Threads BY <2>1, ThreadView DEF chSemWaitTimeout
  <2> QED BY <2>1, <2>2, WaitStep DEF Promise!CountingNext
<1>3. CASE \E sp \in Sems : chSemWaitImmediate(sp) \/ SignalFromThread(sp)
  <2>1. PICK sp \in Sems : chSemWaitImmediate(sp) \/ SignalFromThread(sp) BY <1>3
  <2>2. CASE chSemWaitImmediate(sp)
    <3>1. currp \in Threads BY <2>2, ThreadView DEF chSemWaitImmediate
    <3>2. Promise!Wait(currp, sp) BY <2>2, WaitStep
    <3> QED BY <3>1, <3>2 DEF Promise!CountingNext
  <2>3. CASE SignalFromThread(sp)
    BY <2>3, SignalStep DEF Promise!CountingNext
  <2> QED BY <2>1, <2>2, <2>3
<1>4. CASE \E sp \in Sems, n \in ResetCounts : chSemReset(sp, n) \/ ResetFromIsr(sp, n)
  BY <1>4, ResetStep DEF Promise!CountingNext
<1>5. CASE \E sps, spw \in Sems : chSemSignalWait(sps, spw)
  <2>1. PICK sps \in Sems, spw \in Sems : chSemSignalWait(sps, spw) BY <1>5
  <2>2. currp \in Threads BY <2>1, ThreadView DEF chSemSignalWait
  <2> QED BY <2>1, <2>2, SignalWaitStep DEF Promise!CountingNext
<1>6. CASE chThdSleep \/ IrqExit BY <1>6, SleepStep, EpilogueStep
<1>7. CASE ReturnFromCall BY <1>7, ReturnStep DEF Promise!CountingNext
<1>8. CASE \E sp \in Sems, n \in 1..2 : SignalFromIsr(sp, n)
  BY <1>8, IsrSignalStep DEF Promise!CountingNext
<1>9. CASE \E t \in Threads : TimerExpires(t) \/ TimerCallback(t)
  BY <1>9, ExpiryStep, CallbackStep DEF Promise!CountingNext
<1> QED BY <1>1, <1>2, <1>3, <1>4, <1>5, <1>6, <1>7, <1>8, <1>9 DEF SemNext

\* The semaphores of chsem.c are counting semaphores, whatever threads, interrupt
\* handlers and timers do to them: every step gives units to the first in the
\* line, takes one, queues, times out only a wait limited in time, resets, or
\* returns an outcome, and nothing else.
THEOREM SemaphoresCount == SemSpec => CountingSemaphore
<1>1. SemInit => Promise!CountingInit BY InitialView
<1>2. SemInv /\ [SemNext]_kernelvars => [Promise!CountingNext]_(Promised(w))
  <2>1. Promised(w)' = Promised(w') OBVIOUS
  <2> QED BY <2>1, StepView
<1> QED BY <1>1, <1>2, SemInvariant, PTL
      DEF SemSpec, CountingSemaphore, Promise!CountingSpec

----------------------------------------------------------------------------
(* Units: what a semaphore still gives, with what it has granted to calls  *)
(* that did not go on since.                                               *)

IsGranted(v, t, sp) ==
    /\ v.k.p_state[t] \in Runnable
    /\ v.call[t] # "none"
    /\ Granted(v.call[t], v.p_u[t])
    /\ Needs(v.call[t]) = sp

Grantees(v, sp) == {t \in Threads : IsGranted(v, t, sp)}

Units(v, sp) ==
    (IF v.s_cnt[sp] > 0 THEN v.s_cnt[sp] ELSE 0) + Cardinality(Grantees(v, sp))

MailCall == {"post", "ahead", "fetch"}

\* Every wait of a thread is that of its call, and the idle thread makes none.
MailCalls(v) ==
    /\ v.call[Idle] = "none"
    /\ \A t \in AllThreads :
          /\ v.call[t] \in {"none", "sleep"} \cup MailCall
          /\ v.k.p_state[t] = "WTSEM" => Needs(v.call[t]) = v.p_u[t]

\* A unit has moved as a finished call c moves it.
Flow(v, x, c) ==
    /\ GoodKernel(x) /\ MailCalls(x)
    /\ Units(x, Needs(c)) = Units(v, Needs(c)) - 1
    /\ Units(x, Gives(c)) = Units(v, Gives(c)) + 1

\* No unit moves.
Still(v, x) ==
    /\ GoodKernel(x) /\ MailCalls(x)
    /\ \A o \in Sems : Units(x, o) = Units(v, o)

LEMMA MailConstants ==
    /\ KernelAssumption
    /\ MailCall \subseteq Calls \ {"none", "sleep"}
    /\ IsFiniteSet(Threads) /\ Idle \notin Threads
    /\ Sems = {"empty", "full"}
    /\ Size \in Nat /\ Size > 0
    /\ Cardinality(Threads) \in Nat
    /\ InitPrio \in [Threads -> UserPrios]
<1>1. /\ SemAssumption /\ {"none", "sleep", "post", "ahead", "fetch"} \subseteq Calls
      /\ Sems = {"empty", "full"} /\ Size \in Nat \ {0}
      /\ InitPrio \in [Threads -> UserPrios]
  BY MailboxAssumption
<1>2. IsFiniteSet(Threads) /\ Idle \notin Threads BY SchedAssumption
<1> QED BY <1>1, <1>2, FS_CardinalityType DEF KernelAssumption, MailCall

LEMMA CallSems ==
    ASSUME NEW c \in MailCall
    PROVE  /\ Needs(c) \in Sems /\ Gives(c) \in Sems /\ Needs(c) # Gives(c)
           /\ c = "fetch" => Needs(c) = "full" /\ Gives(c) = "empty"
           /\ c # "fetch" => Needs(c) = "empty" /\ Gives(c) = "full"
BY MailConstants DEF MailCall, Needs, Gives

LEMMA UnitTypes ==
    ASSUME NEW v, GoodKernel(v), NEW sp \in Sems
    PROVE  /\ v.s_cnt[sp] \in Int
           /\ IsFiniteSet(Grantees(v, sp))
           /\ Cardinality(Grantees(v, sp)) \in Nat
           /\ Cardinality(Grantees(v, sp)) <= Cardinality(Threads)
           /\ Units(v, sp) \in Nat
<1>1. v.s_cnt[sp] \in Int BY KernelTypes DEF GoodKernel
<1>2. /\ IsFiniteSet(Grantees(v, sp))
      /\ Cardinality(Grantees(v, sp)) <= Cardinality(Threads)
  <2>1. Grantees(v, sp) \subseteq Threads BY DEF Grantees
  <2> QED BY <2>1, MailConstants, FS_Subset
<1>3. Cardinality(Grantees(v, sp)) \in Nat BY <1>2, FS_CardinalityType
<1> QED BY <1>1, <1>2, <1>3 DEF Units

\* The state of every thread but u is that before, as far as grants go.
SameBut(v, x, u) ==
    \A t \in Threads \ {u} :
        \/ v.k.p_state[t] \notin Runnable /\ x.k.p_state[t] \notin Runnable
        \/ /\ v.k.p_state[t] \in Runnable /\ x.k.p_state[t] \in Runnable
           /\ x.call[t] = v.call[t] /\ x.p_u[t] = v.p_u[t]

\* The grants after a step in which at most those of u change.
LEMMA GrantsChange ==
    ASSUME NEW v, GoodKernel(v), NEW x, NEW u, SameBut(v, x, u), NEW sp \in Sems
    PROVE  /\ (u \in Threads => (IsGranted(x, u, sp) <=> IsGranted(v, u, sp))) =>
                 Cardinality(Grantees(x, sp)) = Cardinality(Grantees(v, sp))
           /\ u \in Threads /\ ~IsGranted(v, u, sp) /\ IsGranted(x, u, sp) =>
                 Cardinality(Grantees(x, sp)) = Cardinality(Grantees(v, sp)) + 1
           /\ u \in Threads /\ IsGranted(v, u, sp) /\ ~IsGranted(x, u, sp) =>
                 Cardinality(Grantees(x, sp)) = Cardinality(Grantees(v, sp)) - 1
<1>1. \A t \in Threads \ {u} : IsGranted(x, t, sp) <=> IsGranted(v, t, sp)
  BY DEF SameBut, IsGranted
<1>2. IsFiniteSet(Grantees(v, sp)) /\ Cardinality(Grantees(v, sp)) \in Nat BY UnitTypes
<1>3. ASSUME u \in Threads => (IsGranted(x, u, sp) <=> IsGranted(v, u, sp))
      PROVE  Cardinality(Grantees(x, sp)) = Cardinality(Grantees(v, sp))
  <2>1. Grantees(x, sp) = Grantees(v, sp) BY <1>1, <1>3 DEF Grantees
  <2> QED BY <2>1
<1>4. ASSUME u \in Threads, ~IsGranted(v, u, sp), IsGranted(x, u, sp)
      PROVE  Cardinality(Grantees(x, sp)) = Cardinality(Grantees(v, sp)) + 1
  <2>1. Grantees(x, sp) = Grantees(v, sp) \cup {u} /\ u \notin Grantees(v, sp)
    BY <1>1, <1>4 DEF Grantees
  <2> QED BY <1>2, <2>1, FS_AddElement
<1>5. ASSUME u \in Threads, IsGranted(v, u, sp), ~IsGranted(x, u, sp)
      PROVE  Cardinality(Grantees(x, sp)) = Cardinality(Grantees(v, sp)) - 1
  <2>1. Grantees(x, sp) = Grantees(v, sp) \ {u} /\ u \in Grantees(v, sp)
    BY <1>1, <1>5 DEF Grantees
  <2> QED BY <1>2, <2>1, FS_RemoveElement
<1> QED BY <1>3, <1>4, <1>5

\* No thread but u blocks or wakes, changes its call or gets a message.
OnlyMoves(v, x, u) ==
    /\ Keeps(v.k, x.k, {u})
    /\ \A t \in AllThreads \ {u} : x.call[t] = v.call[t] /\ x.p_u[t] = v.p_u[t]

CallFits(x, u) ==
    /\ x.call[u] \in {"none", "sleep"} \cup MailCall
    /\ x.k.p_state[u] = "WTSEM" => Needs(x.call[u]) = x.p_u[u]
    /\ u = Idle => x.call[u] = "none"

\* The others keep their grants ...
LEMMA KeptIsSame ==
    ASSUME NEW v, NEW x, NEW u, OnlyMoves(v, x, u)
    PROVE  SameBut(v, x, u)
<1>1. \A t \in AllThreads \ {u} :
         /\ \/ x.k.p_state[t] = v.k.p_state[t]
            \/ x.k.p_state[t] \in Runnable /\ v.k.p_state[t] \in Runnable
         /\ x.call[t] = v.call[t] /\ x.p_u[t] = v.p_u[t]
  BY DEF OnlyMoves, Keeps
<1> QED BY <1>1 DEF SameBut, AllThreads

\* ... and their waits.
LEMMA KeptCalls ==
    ASSUME NEW v, MailCalls(v), NEW x, NEW u \in AllThreads, OnlyMoves(v, x, u),
           CallFits(x, u)
    PROVE  MailCalls(x)
<1>1. \A t \in AllThreads \ {u} :
         /\ x.call[t] \in {"none", "sleep"} \cup MailCall
         /\ x.k.p_state[t] = "WTSEM" => Needs(x.call[t]) = x.p_u[t]
  BY DEF OnlyMoves, Keeps, MailCalls, Runnable
<1>2. x.call[Idle] = "none" BY DEF OnlyMoves, CallFits, MailCalls, AllThreads
<1> QED BY <1>1, <1>2 DEF CallFits, MailCalls

----------------------------------------------------------------------------
(* What the services do to the units *)

\* A step of the scheduler, or one that changes timers only.
LEMMA NothingMoves ==
    ASSUME NEW v, GoodKernel(v), MailCalls(v), NEW x, GoodKernel(x),
           Keeps(v.k, x.k, {}), x.call = v.call, x.p_u = v.p_u, x.s_cnt = v.s_cnt
    PROVE  Still(v, x)
<1>1. OnlyMoves(v, x, NULL) BY DEF Keeps, OnlyMoves
<1>2. NULL \notin AllThreads BY SchedAssumption
<1>3. SameBut(v, x, NULL) BY <1>1, KeptIsSame
<1>4. MailCalls(x) BY DEF MailCalls, Keeps, Runnable
<1>5. \A o \in Sems : Units(x, o) = Units(v, o)
  <2> TAKE o \in Sems
  <2>1. Cardinality(Grantees(x, o)) = Cardinality(Grantees(v, o))
    BY <1>2, <1>3, GrantsChange DEF AllThreads
  <2> QED BY <2>1 DEF Units
<1> QED BY <1>4, <1>5 DEF Still

\* The running thread takes a unit that is there.
LEMMA TakeUnit ==
    ASSUME NEW v, GoodKernel(v), MailCalls(v), NEW sp \in Sems, v.s_cnt[sp] - 1 >= 0
    PROVE  LET x == chSemFastWaitI(v, sp)
           IN /\ GoodKernel(x) /\ MailCalls(x)
              /\ x.k = v.k /\ x.call = v.call /\ x.vt = v.vt
              /\ \A o \in Sems : Units(x, o) = Units(v, o) - (IF o = sp THEN 1 ELSE 0)
<1> DEFINE x == chSemFastWaitI(v, sp)
<1>1. /\ GoodKernel(x)
      /\ x.s_cnt = [v.s_cnt EXCEPT ![sp] = @ - 1]
      /\ x.s_queue = v.s_queue /\ x.vt = v.vt /\ x.call = v.call
      /\ x.p_u = v.p_u /\ x.k = v.k
  BY FastWaitOK
<1> HIDE DEF x
<1>2. MailCalls(x) BY <1>1 DEF MailCalls
<1>3. \A o \in Sems : Grantees(x, o) = Grantees(v, o)
  BY <1>1 DEF Grantees, IsGranted
<1>4. \A o \in Sems : Units(x, o) = Units(v, o) - (IF o = sp THEN 1 ELSE 0)
  <2> TAKE o \in Sems
  <2> DEFINE g == Cardinality(Grantees(v, o))
  <2>1. v.s_cnt[o] \in Int /\ g \in Nat BY UnitTypes
  <2>2. x.s_cnt[o] = IF o = sp THEN v.s_cnt[o] - 1 ELSE v.s_cnt[o]
    <3>1. v.s_cnt \in [Sems -> Int] BY KernelTypes DEF GoodKernel
    <3> QED BY <1>1, <3>1
  <2>3. /\ Units(v, o) = (IF v.s_cnt[o] > 0 THEN v.s_cnt[o] ELSE 0) + g
        /\ Units(x, o) = (IF x.s_cnt[o] > 0 THEN x.s_cnt[o] ELSE 0) + g
    BY <1>3 DEF Units
  <2> HIDE DEF g
  <2> QED BY <2>1, <2>2, <2>3
<1> QED BY <1>1, <1>2, <1>4 DEF x

\* A signal adds a unit to the semaphore, or grants it to the first waiter.
LEMMA GiveUnit ==
    ASSUME NEW v, GoodKernel(v), MailCalls(v), NEW sp \in Sems
    PROVE  LET x == chSemSignalI(v, sp)
           IN /\ GoodKernel(x) /\ MailCalls(x)
              /\ x.k.r_current = v.k.r_current /\ x.call = v.call /\ x.vt = v.vt
              /\ \A o \in Sems : Units(x, o) = Units(v, o) + (IF o = sp THEN 1 ELSE 0)
<1> DEFINE x == chSemSignalI(v, sp)
<1>1. SignalEffect(v, x, sp) /\ x.k.r_current = v.k.r_current
  BY MailConstants, SignalI
<1> HIDE DEF x
<1>2. /\ GoodKernel(x) /\ x.s_cnt = [v.s_cnt EXCEPT ![sp] = @ + 1]
      /\ x.vt = v.vt /\ x.call = v.call
  BY <1>1 DEF SignalEffect
<1>3. /\ v.s_cnt \in [Sems -> Int]
      /\ v.p_u \in [AllThreads -> Sems \cup RdyMsgs \cup {NULL}]
  BY KernelTypes DEF GoodKernel
<1>4. CASE ~FirstWaits(v, sp)
  <2>1. x.s_queue = v.s_queue /\ x.p_u = v.p_u /\ x.k = v.k
    BY <1>1, <1>4 DEF SignalEffect
  <2>2. MailCalls(x) BY <1>2, <2>1 DEF MailCalls
  <2>3. \A o \in Sems : Grantees(x, o) = Grantees(v, o)
    BY <1>2, <2>1 DEF Grantees, IsGranted
  <2>4. \A o \in Sems : Units(x, o) = Units(v, o) + (IF o = sp THEN 1 ELSE 0)
    <3> TAKE o \in Sems
    <3> DEFINE g == Cardinality(Grantees(v, o))
    <3>1. v.s_cnt[o] \in Int /\ g \in Nat BY UnitTypes
    <3>2. x.s_cnt[o] = IF o = sp THEN v.s_cnt[o] + 1 ELSE v.s_cnt[o] BY <1>2, <1>3
    <3>3. /\ Units(v, o) = (IF v.s_cnt[o] > 0 THEN v.s_cnt[o] ELSE 0) + g
          /\ Units(x, o) = (IF x.s_cnt[o] > 0 THEN x.s_cnt[o] ELSE 0) + g
      BY <2>3 DEF Units
    <3>4. o = sp => v.s_cnt[o] >= 0 BY <1>4, <3>1 DEF FirstWaits
    <3> HIDE DEF g
    <3> QED BY <3>1, <3>2, <3>3, <3>4
  <2> QED BY <1>1, <1>2, <2>2, <2>4 DEF x
<1>5. CASE FirstWaits(v, sp)
  <2> DEFINE t == Head(v.s_queue[sp])
  <2>1. /\ t \in AllThreads /\ v.k.p_state[t] = "WTSEM" /\ v.p_u[t] = sp
        /\ v.call[t] \notin {"none", "sleep"}
    BY <1>5, FirstWaiter
  <2>2. /\ x.p_u = [v.p_u EXCEPT ![t] = "RDY_OK"]
        /\ Keeps(v.k, x.k, {t}) /\ x.k.p_state[t] \in Runnable
    BY <1>1, <1>5 DEF SignalEffect
  <2> HIDE DEF t
  <2>3. t \in Threads /\ t # Idle
    <3>1. t # Idle BY <2>1 DEF MailCalls
    <3> QED BY <2>1, <3>1 DEF AllThreads
  <2>4. /\ x.p_u[t] = "RDY_OK" /\ x.call[t] = v.call[t]
        /\ \A u \in AllThreads \ {t} : x.call[u] = v.call[u] /\ x.p_u[u] = v.p_u[u]
    BY <1>2, <1>3, <2>1, <2>2
  <2>5. OnlyMoves(v, x, t) BY <2>2, <2>4 DEF OnlyMoves
  <2>6. MailCalls(x)
    <3>1. CallFits(x, t) BY <2>1, <2>2, <2>3, <2>4 DEF MailCalls, CallFits, Runnable
    <3> QED BY <2>1, <2>5, <3>1, KeptCalls
  <2>7. SameBut(v, x, t) BY <2>5, KeptIsSame
  <2>8. Needs(v.call[t]) = sp BY <2>1 DEF MailCalls
  <2>9. \A o \in Sems : /\ ~IsGranted(v, t, o)
                        /\ IsGranted(x, t, o) <=> o = sp
    BY <2>1, <2>2, <2>4, <2>8 DEF IsGranted, Granted, Runnable
  <2>10. \A o \in Sems : Units(x, o) = Units(v, o) + (IF o = sp THEN 1 ELSE 0)
    <3> TAKE o \in Sems
    <3> DEFINE g == Cardinality(Grantees(v, o))
               h == Cardinality(Grantees(x, o))
    <3>1. v.s_cnt[o] \in Int /\ g \in Nat BY UnitTypes
    <3>2. x.s_cnt[o] = IF o = sp THEN v.s_cnt[o] + 1 ELSE v.s_cnt[o] BY <1>2, <1>3
    <3>3. /\ Units(v, o) = (IF v.s_cnt[o] > 0 THEN v.s_cnt[o] ELSE 0) + g
          /\ Units(x, o) = (IF x.s_cnt[o] > 0 THEN x.s_cnt[o] ELSE 0) + h
      BY DEF Units
    <3>4. o = sp => v.s_cnt[o] + 1 <= 0 BY <1>5 DEF FirstWaits
    <3>5. h = g + (IF o = sp THEN 1 ELSE 0)
      <4>1. CASE o = sp
        <5>1. ~IsGranted(v, t, o) /\ IsGranted(x, t, o) BY <2>9, <4>1
        <5>2. h = g + 1 BY <2>3, <2>7, <5>1, GrantsChange
        <5> QED BY <4>1, <5>2
      <4>2. CASE o # sp
        <5>1. ~IsGranted(v, t, o) /\ ~IsGranted(x, t, o) BY <2>9, <4>2
        <5>2. h = g BY <2>7, <5>1, GrantsChange
        <5> QED BY <3>1, <4>2, <5>2
      <4> QED BY <4>1, <4>2
    <3> HIDE DEF g, h
    <3> QED BY <3>1, <3>2, <3>3, <3>4, <3>5
  <2> QED BY <1>1, <1>2, <2>6, <2>10 DEF x
<1> QED BY <1>4, <1>5

\* The running thread, which was granted nothing, blocks in a call.
LEMMA BlockingKeepsUnits ==
    ASSUME NEW v, GoodKernel(v), MailCalls(v), ~Locked(v), v.k.r_current # Idle,
           NEW sp \in Sems, v.s_cnt[sp] - 1 < 0, NEW timed \in BOOLEAN,
           NEW c \in MailCall, Needs(c) = sp
    PROVE  LET x == SleepOnSem(v, sp, timed, c)
           IN /\ Still(v, x)
              /\ x.vt = [v.vt EXCEPT ![v.k.r_current] = IF timed THEN "armed" ELSE @]
              /\ x.call = [v.call EXCEPT ![v.k.r_current] = c]
<1> DEFINE x == SleepOnSem(v, sp, timed, c)
           t == v.k.r_current
<1>1. SleepEffect(v, x, sp, timed, c) BY MailConstants, SleepOnSemOK
<1> HIDE DEF x
<1>2. /\ GoodKernel(x)
      /\ x.s_cnt = [v.s_cnt EXCEPT ![sp] = @ - 1]
      /\ x.vt = [v.vt EXCEPT ![t] = IF timed THEN "armed" ELSE @]
      /\ x.call = [v.call EXCEPT ![t] = c]
      /\ x.p_u = [v.p_u EXCEPT ![t] = sp]
      /\ Keeps(v.k, x.k, {t}) /\ x.k.p_state[t] = "WTSEM"
  BY <1>1 DEF SleepEffect
<1>3. /\ v.s_cnt \in [Sems -> Int] /\ t \in AllThreads
      /\ v.p_u \in [AllThreads -> Sems \cup RdyMsgs \cup {NULL}]
      /\ v.call \in [AllThreads -> Calls]
  BY KernelTypes DEF GoodKernel
<1>4. v.call[t] = "none" BY DEF Locked
<1> HIDE DEF t
<1>5. /\ x.call[t] = c /\ x.p_u[t] = sp
      /\ \A u \in AllThreads \ {t} : x.call[u] = v.call[u] /\ x.p_u[u] = v.p_u[u]
  BY <1>2, <1>3
<1>6. OnlyMoves(v, x, t) /\ CallFits(x, t)
  <2>1. t # Idle BY DEF t
  <2> QED BY <1>2, <1>5, <2>1 DEF OnlyMoves, CallFits
<1>7. MailCalls(x) /\ SameBut(v, x, t) BY <1>3, <1>6, KeptCalls, KeptIsSame
<1>8. \A o \in Sems : ~IsGranted(v, t, o) /\ ~IsGranted(x, t, o)
  BY <1>2, <1>4 DEF IsGranted, Runnable
<1>9. \A o \in Sems : Units(x, o) = Units(v, o)
  <2> TAKE o \in Sems
  <2>1. Cardinality(Grantees(x, o)) = Cardinality(Grantees(v, o))
    BY <1>7, <1>8, GrantsChange
  <2>2. /\ v.s_cnt[o] \in Int
        /\ x.s_cnt[o] = IF o = sp THEN v.s_cnt[o] - 1 ELSE v.s_cnt[o]
    BY <1>2, <1>3
  <2>3. x.s_cnt[o] = v.s_cnt[o] \/ (x.s_cnt[o] <= 0 /\ v.s_cnt[o] <= 0)
    BY <2>2
  <2>4. (IF x.s_cnt[o] > 0 THEN x.s_cnt[o] ELSE 0)
           = (IF v.s_cnt[o] > 0 THEN v.s_cnt[o] ELSE 0)
    BY <2>2, <2>3
  <2> QED BY <2>1, <2>4 DEF Units
<1> QED BY <1>2, <1>7, <1>9 DEF Still, x, t

\* The running thread leaves its wait and uses the unit it was granted, if any.
LEMMA ResumeUsesUnit ==
    ASSUME NEW v, GoodKernel(v), MailCalls(v), v.vt[v.k.r_current] # "fired", Locked(v)
    PROVE  LET x == Resume(v)
               t == v.k.r_current
               c == v.call[t]
           IN /\ GoodKernel(x) /\ MailCalls(x) /\ ~Locked(x)
              /\ x.k = v.k /\ x.vt = [v.vt EXCEPT ![t] = "off"]
              /\ x.call = [v.call EXCEPT ![t] = "none"]
              /\ Granted(c, v.p_u[t]) =>
                   \A o \in Sems : Units(x, o) = Units(v, o) - (IF o = Needs(c) THEN 1 ELSE 0)
              /\ ~Granted(c, v.p_u[t]) => \A o \in Sems : Units(x, o) = Units(v, o)
<1> DEFINE x == Resume(v)
           t == v.k.r_current
           c == v.call[t]
<1>1. /\ GoodKernel(x)
      /\ x.s_cnt = v.s_cnt /\ x.s_queue = v.s_queue /\ x.p_u = v.p_u
      /\ x.k = v.k
      /\ x.vt = [v.vt EXCEPT ![t] = "off"]
      /\ x.call = [v.call EXCEPT ![t] = "none"]
  BY MailConstants, ResumeOK
<1>2. t \in AllThreads /\ v.call \in [AllThreads -> Calls]
  BY KernelTypes DEF GoodKernel
<1>3. v.k.p_state[t] = "CURRENT" /\ c # "none"
  BY <1>2 DEF GoodKernel, SchedInv, ReadyListMembers, Locked
<1>4. ~Locked(x) BY <1>1, <1>2 DEF Locked
<1> HIDE DEF x, t
<1>5. t \in Threads
  <2>1. t # Idle BY <1>3 DEF MailCalls
  <2> QED BY <1>2, <2>1 DEF AllThreads
<1>6. /\ x.call[t] = "none"
      /\ \A u \in AllThreads \ {t} : x.call[u] = v.call[u] /\ x.p_u[u] = v.p_u[u]
  BY <1>1, <1>2
<1>7. OnlyMoves(v, x, t) BY <1>1, <1>6 DEF OnlyMoves, Keeps
<1>8. MailCalls(x)
  <2>1. CallFits(x, t) BY <1>1, <1>3, <1>6 DEF CallFits
  <2> QED BY <1>2, <1>7, <2>1, KeptCalls
<1>9. SameBut(v, x, t) BY <1>7, KeptIsSame
<1>10. \A o \in Sems : /\ ~IsGranted(x, t, o)
                       /\ IsGranted(v, t, o) <=> Granted(c, v.p_u[t]) /\ o = Needs(c)
  BY <1>3, <1>6 DEF IsGranted, Runnable
<1> HIDE DEF c
<1>11. \A o \in Sems : Units(x, o) = Units(v, o) - (IF IsGranted(v, t, o) THEN 1 ELSE 0)
  <2> TAKE o \in Sems
  <2> DEFINE g == Cardinality(Grantees(v, o))
             h == Cardinality(Grantees(x, o))
  <2>1. h = g - (IF IsGranted(v, t, o) THEN 1 ELSE 0)
    <3>1. CASE IsGranted(v, t, o)
      <4>1. h = g - 1 BY <1>5, <1>9, <1>10, <3>1, GrantsChange
      <4> QED BY <3>1, <4>1
    <3>2. CASE ~IsGranted(v, t, o)
      <4>1. h = g BY <1>9, <1>10, <3>2, GrantsChange
      <4>2. g \in Nat BY UnitTypes
      <4> QED BY <3>2, <4>1, <4>2
    <3> QED BY <3>1, <3>2
  <2>2. g \in Nat /\ v.s_cnt[o] \in Int BY UnitTypes
  <2>3. /\ Units(v, o) = (IF v.s_cnt[o] > 0 THEN v.s_cnt[o] ELSE 0) + g
        /\ Units(x, o) = (IF v.s_cnt[o] > 0 THEN v.s_cnt[o] ELSE 0) + h
    BY <1>1 DEF Units
  <2> HIDE DEF g, h
  <2> QED BY <2>1, <2>2, <2>3
<1>12. Granted(c, v.p_u[t]) =>
         \A o \in Sems : Units(x, o) = Units(v, o) - (IF o = Needs(c) THEN 1 ELSE 0)
  BY <1>10, <1>11
<1>13. ~Granted(c, v.p_u[t]) => \A o \in Sems : Units(x, o) = Units(v, o)
  <2> SUFFICES ASSUME ~Granted(c, v.p_u[t]), NEW o \in Sems
               PROVE  Units(x, o) = Units(v, o)
    OBVIOUS
  <2>1. ~IsGranted(v, t, o) BY <1>10
  <2> QED BY <1>11, <2>1, UnitTypes
<1> QED BY <1>1, <1>4, <1>8, <1>12, <1>13 DEF x, t, c

\* A reset sets the units that a semaphore gives, and revokes no grant.
ResetUnitsEffect(v, x, sp, n) ==
    /\ GoodKernel(x) /\ MailCalls(x)
    /\ x.k.r_current = v.k.r_current /\ x.call = v.call /\ x.vt = v.vt
    /\ \A o \in Sems : /\ Cardinality(Grantees(x, o)) = Cardinality(Grantees(v, o))
                       /\ x.s_cnt[o] = IF o = sp THEN n ELSE v.s_cnt[o]

LEMMA ResetUnits ==
    ASSUME NEW v, GoodKernel(v), MailCalls(v), NEW sp \in Sems, NEW n \in Nat
    PROVE  ResetUnitsEffect(v, chSemResetI(v, sp, n), sp, n)
<1> DEFINE x == chSemResetI(v, sp, n)
           q == v.s_queue[sp]
<1>1. ResetEffect(v, x, sp, n) BY MailConstants, ResetI
<1> HIDE DEF x
<1>2. /\ GoodKernel(x)
      /\ x.s_cnt = [v.s_cnt EXCEPT ![sp] = n]
      /\ x.vt = v.vt /\ x.call = v.call
      /\ x.k.r_current = v.k.r_current
      /\ Keeps(v.k, x.k, Elems(q))
      /\ \A u \in AllThreads :
           IF u \in Elems(q)
           THEN x.k.p_state[u] \in Runnable /\ x.p_u[u] = "RDY_RESET"
           ELSE x.p_u[u] = v.p_u[u]
  BY <1>1 DEF ResetEffect
<1>3. v.s_cnt \in [Sems -> Int] BY KernelTypes DEF GoodKernel
<1>4. \A u \in Elems(q) : v.k.p_state[u] = "WTSEM"
  BY DEF GoodKernel, SemConsistent
<1> HIDE DEF q
<1>5. \A u \in AllThreads :
         \/ /\ u \in Elems(q)
            /\ v.k.p_state[u] \notin Runnable
            /\ x.k.p_state[u] \in Runnable /\ x.p_u[u] = "RDY_RESET"
         \/ /\ \/ x.k.p_state[u] = v.k.p_state[u]
               \/ x.k.p_state[u] \in Runnable /\ v.k.p_state[u] \in Runnable
            /\ x.p_u[u] = v.p_u[u]
  BY <1>2, <1>4 DEF Keeps, Runnable
<1>6. MailCalls(x) BY <1>2, <1>5 DEF MailCalls, Runnable
<1>7. \A o \in Sems : Grantees(x, o) = Grantees(v, o)
  <2> TAKE o \in Sems
  <2>1. \A u \in AllThreads : IsGranted(x, u, o) <=> IsGranted(v, u, o)
    BY <1>2, <1>5 DEF IsGranted, Granted
  <2> QED BY <2>1 DEF Grantees, AllThreads
<1>8. \A o \in Sems : x.s_cnt[o] = IF o = sp THEN n ELSE v.s_cnt[o] BY <1>2, <1>3
<1> QED BY <1>2, <1>6, <1>7, <1>8 DEF ResetUnitsEffect, x

\* chThdSleep(), the expiry of a timer, its callback and the epilogue of an
\* interrupt: a waiter that times out was granted nothing and is granted nothing.
LEMMA KernelKeepsUnits ==
    ASSUME KernelInv, MailCalls(w),
           \/ chThdSleep
           \/ \E t \in Threads : TimerExpires(t) \/ TimerCallback(t)
           \/ IrqExit
    PROVE  KernelInv' /\ Still(w, w')
<1>1. KernelInv' BY MailConstants, KernelSteps
<1>2. /\ GoodKernel(w) /\ w \in KernelStates /\ GoodKernel(w')
      /\ w.s_cnt \in [Sems -> Int] /\ w.call \in [AllThreads -> Calls]
      /\ w.p_u \in [AllThreads -> Sems \cup RdyMsgs \cup {NULL}]
      /\ currp \in AllThreads
  BY <1>1, KernelTypes DEF KernelInv, GoodKernel, currp
<1>3. CASE chThdSleep
  <2>1. ~Locked(w) /\ w.k.r_current # Idle /\ w' = chThdSleepS(w)
    BY <1>3 DEF chThdSleep, ThreadCode, currp
  <2>2. /\ w'.s_cnt = w.s_cnt /\ w'.p_u = w.p_u
        /\ w'.call = [w.call EXCEPT ![currp] = "sleep"]
        /\ Keeps(w.k, w'.k, {currp}) /\ w'.k.p_state[currp] = "SLEEPING"
    BY <1>2, <2>1, MailConstants, SleepOK DEF currp
  <2>3. /\ w'.call[currp] = "sleep"
        /\ \A u \in AllThreads \ {currp} : w'.call[u] = w.call[u] /\ w'.p_u[u] = w.p_u[u]
    BY <1>2, <2>2
  <2>4. OnlyMoves(w, w', currp) /\ CallFits(w', currp)
    BY <2>1, <2>2, <2>3 DEF OnlyMoves, CallFits, currp
  <2>5. MailCalls(w') /\ SameBut(w, w', currp) BY <1>2, <2>4, KeptCalls, KeptIsSame
  <2>6. w.call[currp] = "none" BY <2>1 DEF Locked, currp
  <2>7. \A o \in Sems : ~IsGranted(w, currp, o) /\ ~IsGranted(w', currp, o)
    BY <2>2, <2>6 DEF IsGranted, Runnable
  <2>8. \A o \in Sems : Units(w', o) = Units(w, o)
    <3> TAKE o \in Sems
    <3>1. Cardinality(Grantees(w', o)) = Cardinality(Grantees(w, o))
      BY <1>2, <2>5, <2>7, GrantsChange
    <3> QED BY <2>2, <3>1 DEF Units
  <2> QED BY <1>1, <1>2, <2>5, <2>8 DEF Still
<1>4. CASE \E t \in Threads : TimerExpires(t)
  <2>1. PICK t \in Threads : TimerExpires(t) BY <1>4
  <2>2. w' = [w EXCEPT !.vt[t] = "fired"] BY <2>1 DEF TimerExpires, Expire
  <2>3. w'.k = w.k /\ w'.s_cnt = w.s_cnt /\ w'.call = w.call /\ w'.p_u = w.p_u
    BY <1>2, <2>2 DEF KernelStates
  <2>4. Keeps(w.k, w'.k, {}) BY <2>3 DEF Keeps
  <2>5. Still(w, w') BY <1>2, <2>3, <2>4, NothingMoves
  <2> QED BY <1>1, <2>5
<1>5. CASE \E t \in Threads : TimerCallback(t)
  <2>1. PICK t \in Threads : TimerCallback(t) BY <1>5
  <2>2. /\ w.vt[t] = "fired" /\ t \in AllThreads /\ t # Idle
        /\ w' = wakeup(w, t)
    BY <2>1, MailConstants DEF TimerCallback, AllThreads
  <2>3. ~Locked(w) BY <2>2 DEF KernelInv
  <2> DEFINE o == w.p_u[t]
  <2>4. /\ w'.call = w.call
        /\ \/ w'.s_cnt = w.s_cnt /\ w'.p_u = w.p_u /\ w'.k = w.k
           \/ /\ w.k.p_state[t] \in {"WTSEM", "SLEEPING"}
              /\ \/ w'.s_cnt = w.s_cnt
                 \/ /\ o \in Sems /\ w.s_cnt[o] < 0
                    /\ w'.s_cnt = [w.s_cnt EXCEPT ![o] = @ + 1]
              /\ w'.p_u = [w.p_u EXCEPT ![t] = "RDY_TIMEOUT"]
              /\ Keeps(w.k, w'.k, {t}) /\ w'.k.p_state[t] \in Runnable
    BY <1>2, <2>2, <2>3, MailConstants, WakeupOK
  <2> HIDE DEF o
  <2>5. CASE w'.s_cnt = w.s_cnt /\ w'.p_u = w.p_u /\ w'.k = w.k
    <3>1. Keeps(w.k, w'.k, {}) BY <2>5 DEF Keeps
    <3>2. Still(w, w') BY <1>2, <2>4, <2>5, <3>1, NothingMoves
    <3> QED BY <1>1, <3>2
  <2>6. CASE /\ w.k.p_state[t] \in {"WTSEM", "SLEEPING"}
             /\ \/ w'.s_cnt = w.s_cnt
                \/ /\ o \in Sems /\ w.s_cnt[o] < 0
                   /\ w'.s_cnt = [w.s_cnt EXCEPT ![o] = @ + 1]
             /\ w'.p_u = [w.p_u EXCEPT ![t] = "RDY_TIMEOUT"]
             /\ Keeps(w.k, w'.k, {t}) /\ w'.k.p_state[t] \in Runnable
    <3>1. /\ w'.p_u[t] = "RDY_TIMEOUT"
          /\ \A u \in AllThreads \ {t} : w'.p_u[u] = w.p_u[u]
      BY <1>2, <2>2, <2>6
    <3>2. OnlyMoves(w, w', t) BY <2>4, <2>6, <3>1 DEF OnlyMoves
    <3>3. CallFits(w', t) BY <2>2, <2>4, <2>6 DEF CallFits, MailCalls, Runnable
    <3>4. MailCalls(w') /\ SameBut(w, w', t)
      BY <2>2, <3>2, <3>3, KeptCalls, KeptIsSame
    <3>5. \A p \in Sems : ~IsGranted(w, t, p) /\ ~IsGranted(w', t, p)
      BY <2>6, <3>1 DEF IsGranted, Granted, Runnable
    <3>6. \A p \in Sems : Units(w', p) = Units(w, p)
      <4> TAKE p \in Sems
      <4>1. Cardinality(Grantees(w', p)) = Cardinality(Grantees(w, p))
        BY <1>2, <3>4, <3>5, GrantsChange
      <4>2. w.s_cnt[p] \in Int
            /\ (w'.s_cnt[p] = w.s_cnt[p]
                \/ (w.s_cnt[p] < 0 /\ w'.s_cnt[p] = w.s_cnt[p] + 1))
        BY <1>2, <2>6
      <4>3. (IF w'.s_cnt[p] > 0 THEN w'.s_cnt[p] ELSE 0)
               = (IF w.s_cnt[p] > 0 THEN w.s_cnt[p] ELSE 0)
        BY <4>2
      <4> QED BY <4>1, <4>3 DEF Units
    <3> QED BY <1>1, <1>2, <3>4, <3>6 DEF Still
  <2> QED BY <2>4, <2>5, <2>6
<1>6. CASE IrqExit
  <2>1. w' = [w EXCEPT !.k = IrqEpilogue(@)] BY <1>6 DEF IrqExit
  <2>2. /\ w'.s_cnt = w.s_cnt /\ w'.p_u = w.p_u /\ w'.call = w.call
        /\ Keeps(w.k, w'.k, {})
    BY <1>2, <2>1, RescheduleOK
  <2>3. Still(w, w') BY <1>2, <2>2, NothingMoves
  <2> QED BY <1>1, <2>3
<1> QED BY <1>3, <1>4, <1>5, <1>6

----------------------------------------------------------------------------
(* The ring buffer *)

Msgs == Messages \cup {NULL}

Rings == [mb_buffer : [0..Size - 1 -> Msgs],
          mb_wrptr : 0..Size - 1, mb_rdptr : 0..Size - 1]

\* The write pointer is u slots ahead of the read pointer.
InStep(b, u) == b.mb_wrptr = (b.mb_rdptr + u) % Size

\* The u messages from the read pointer on.
Content(b, u) == [i \in 1..u |-> b.mb_buffer[(b.mb_rdptr + i - 1) % Size]]

\* Where a position around the ring lies.
LEMMA Around ==
    ASSUME NEW x \in 0..Size - 1, NEW j \in 0..Size
    PROVE  /\ (x + j) % Size = IF x + j < Size THEN x + j ELSE x + j - Size
           /\ (x + j) % Size \in 0..Size - 1
<1>1. Size \in Nat /\ Size > 0 /\ x \in Int /\ j \in Int BY MailConstants
<1>2. ASSUME NEW a \in 0..Size - 1 PROVE a % Size = a BY <1>1
<1>3. ASSUME NEW a \in Size..2 * Size - 1 PROVE a % Size = a - Size BY <1>1
<1>4. CASE x + j < Size
  <2>1. x + j \in 0..Size - 1 BY <1>1, <1>4
  <2> QED BY <1>2, <1>4, <2>1
<1>5. CASE ~(x + j < Size)
  <2>1. x + j \in Size..2 * Size - 1 BY <1>1, <1>5
  <2>2. (x + j) % Size = x + j - Size BY <1>1, <1>3, <2>1
  <2>3. x + j - Size \in 0..Size - 1 BY <1>1, <1>5
  <2> QED BY <1>5, <2>2, <2>3
<1> QED BY <1>4, <1>5

LEMMA RingTypes ==
    ASSUME NEW b \in Rings
    PROVE  /\ b.mb_buffer \in [0..Size - 1 -> Msgs]
           /\ b.mb_wrptr \in 0..Size - 1 /\ b.mb_rdptr \in 0..Size - 1
           /\ b = [mb_buffer |-> b.mb_buffer, mb_wrptr |-> b.mb_wrptr,
                   mb_rdptr |-> b.mb_rdptr]
BY DEF Rings

LEMMA ContentType ==
    ASSUME NEW b \in Rings, NEW u \in 0..Size
    PROVE  /\ Content(b, u) \in Seq(Msgs) /\ Len(Content(b, u)) = u
           /\ \A i \in 1..u :
                 /\ (b.mb_rdptr + (i - 1)) % Size \in 0..Size - 1
                 /\ Content(b, u)[i] = b.mb_buffer[(b.mb_rdptr + (i - 1)) % Size]
<1>1. Size \in Nat BY MailConstants
<1>2. \A i \in 1..u : /\ i - 1 \in 0..Size
                      /\ b.mb_rdptr + i - 1 = b.mb_rdptr + (i - 1)
  BY <1>1, RingTypes
<1>3. \A i \in 1..u : (b.mb_rdptr + (i - 1)) % Size \in 0..Size - 1
  BY <1>2, RingTypes, Around
<1>4. \A i \in 1..u :
         Content(b, u)[i] = b.mb_buffer[(b.mb_rdptr + (i - 1)) % Size]
  BY <1>2 DEF Content
<1>5. Content(b, u) \in [1..u -> Msgs]
  <2>1. \A i \in 1..u : Content(b, u)[i] \in Msgs BY <1>3, <1>4, RingTypes
  <2> QED BY <2>1 DEF Content
<1>6. u \in Nat BY <1>1
<1>7. Content(b, u) \in Seq(Msgs) /\ Len(Content(b, u)) = u BY <1>5, <1>6
<1> QED BY <1>3, <1>4, <1>7

\* *mb_wrptr++ = msg appends a message.
LEMMA WriteAppends ==
    ASSUME NEW b \in Rings, NEW u \in 0..Size - 1, InStep(b, u), NEW msg \in Msgs
    PROVE  LET c == Write(b, msg)
           IN /\ c \in Rings /\ InStep(c, u + 1)
              /\ Content(c, u + 1) = Append(Content(b, u), msg)
<1> DEFINE c == Write(b, msg)
           n == b.mb_wrptr
           r == b.mb_rdptr
           p(j) == (r + j) % Size
<1>1. /\ Size \in Nat /\ Size > 0 /\ u \in 0..Size /\ u + 1 \in 0..Size
      /\ u \in Int /\ u >= 0 /\ u < Size
      /\ n \in 0..Size - 1 /\ r \in 0..Size - 1 /\ n = p(u)
      /\ b.mb_buffer \in [0..Size - 1 -> Msgs]
  BY MailConstants, RingTypes DEF InStep
<1>2. /\ c.mb_buffer = [b.mb_buffer EXCEPT ![n] = msg]
      /\ c.mb_wrptr = (n + 1) % Size /\ c.mb_rdptr = r
      /\ c = [mb_buffer |-> c.mb_buffer, mb_wrptr |-> c.mb_wrptr, mb_rdptr |-> c.mb_rdptr]
  <2> DEFINE k == (n + 1) % Size
             f == [b.mb_buffer EXCEPT ![n] = msg]
  <2>1. c = [b EXCEPT !.mb_buffer = f, !.mb_wrptr = k] BY RingTypes DEF Write
  <2> HIDE DEF c, k, f
  <2>2. c.mb_buffer = f /\ c.mb_wrptr = k /\ c.mb_rdptr = r
        /\ c = [mb_buffer |-> c.mb_buffer, mb_wrptr |-> c.mb_wrptr, mb_rdptr |-> c.mb_rdptr]
    BY <2>1 DEF Rings
  <2> QED BY <2>2 DEF k, f
<1>3. \A j \in 0..Size : /\ p(j) = IF r + j < Size THEN r + j ELSE r + j - Size
                         /\ p(j) \in 0..Size - 1
  BY <1>1, Around
<1>4. (n + 1) % Size = (IF n + 1 < Size THEN n + 1 ELSE n + 1 - Size)
      /\ (n + 1) % Size \in 0..Size - 1
  <2>1. 1 \in 0..Size BY <1>1
  <2> QED BY <1>1, <2>1, Around
<1> HIDE DEF c, n, r, p
<1>5. c \in Rings
  <2>1. [b.mb_buffer EXCEPT ![n] = msg] \in [0..Size - 1 -> Msgs] BY <1>1
  <2> QED BY <1>1, <1>2, <1>4, <2>1 DEF Rings
<1>6. (n + 1) % Size = p(u + 1)
  <2> DEFINE k == (n + 1) % Size
  <2>1. p(u) = IF r + u < Size THEN r + u ELSE r + u - Size BY <1>1, <1>3
  <2>2. p(u + 1) = IF r + (u + 1) < Size THEN r + (u + 1) ELSE r + (u + 1) - Size
    BY <1>1, <1>3
  <2>3. k = IF n + 1 < Size THEN n + 1 ELSE n + 1 - Size BY <1>4
  <2> HIDE DEF k
  <2>4. k = p(u + 1) BY <1>1, <2>1, <2>2, <2>3
  <2> QED BY <2>4 DEF k
<1>7. InStep(c, u + 1) BY <1>2, <1>6 DEF InStep, p, r
<1>8. \A i \in 1..u : p(i - 1) # n
  <2> TAKE i \in 1..u
  <2>1. i - 1 \in 0..Size /\ i - 1 < u /\ i \in Int BY <1>1
  <2>2. p(i - 1) = IF r + (i - 1) < Size THEN r + (i - 1) ELSE r + (i - 1) - Size
    BY <1>3, <2>1
  <2>3. n = IF r + u < Size THEN r + u ELSE r + u - Size BY <1>1, <1>3
  <2> QED BY <1>1, <2>1, <2>2, <2>3
<1>9. \A i \in 1..u : c.mb_buffer[p(i - 1)] = b.mb_buffer[p(i - 1)]
  <2> TAKE i \in 1..u
  <2>1. i - 1 \in 0..Size BY <1>1
  <2>2. p(i - 1) \in 0..Size - 1 /\ p(i - 1) # n BY <1>3, <1>8, <2>1
  <2> QED BY <1>1, <1>2, <2>2
<1>10. c.mb_buffer[p(u)] = msg BY <1>1, <1>2
<1>11. Content(c, u + 1) = Append(Content(b, u), msg)
  <2> DEFINE s == Content(b, u)
             z == Content(c, u + 1)
  <2>1. /\ s \in Seq(Msgs) /\ Len(s) = u
        /\ \A i \in 1..u : s[i] = b.mb_buffer[p(i - 1)]
    BY <1>1, ContentType DEF p, r
  <2>2. /\ z \in Seq(Msgs) /\ Len(z) = u + 1
        /\ \A i \in 1..u + 1 : z[i] = c.mb_buffer[p(i - 1)]
    <3>1. /\ z \in Seq(Msgs) /\ Len(z) = u + 1
          /\ \A i \in 1..u + 1 : z[i] = c.mb_buffer[(c.mb_rdptr + (i - 1)) % Size]
      BY <1>1, <1>5, ContentType
    <3> HIDE DEF z
    <3> QED BY <1>2, <3>1 DEF p
  <2> HIDE DEF s, z
  <2>3. Append(s, msg) \in Seq(Msgs) /\ Len(Append(s, msg)) = u + 1
        /\ \A i \in 1..u : Append(s, msg)[i] = s[i]
        /\ Append(s, msg)[u + 1] = msg
    BY <2>1, AppendProperties
  <2>4. \A i \in 1..u : z[i] = s[i]
    <3> TAKE i \in 1..u
    <3>1. i \in 1..u + 1 BY <1>1
    <3> QED BY <1>9, <2>1, <2>2, <3>1
  <2>5. z[u + 1] = msg
    <3>1. u + 1 \in 1..u + 1 /\ (u + 1) - 1 = u BY <1>1
    <3> QED BY <1>10, <2>2, <3>1
  <2>6. \A i \in 1..u + 1 : z[i] = Append(s, msg)[i]
    <3> TAKE i \in 1..u + 1
    <3>1. i \in 1..u \/ i = u + 1 BY <1>1
    <3> QED BY <2>3, <2>4, <2>5, <3>1
  <2>7. z = Append(s, msg) BY <2>2, <2>3, <2>6, SameSeq
  <2> QED BY <2>7 DEF s, z
<1> QED BY <1>5, <1>7, <1>11 DEF c

\* *--mb_rdptr = msg puts a message in front.
LEMMA WriteAheadPrepends ==
    ASSUME NEW b \in Rings, NEW u \in 0..Size - 1, InStep(b, u), NEW msg \in Msgs
    PROVE  LET c == WriteAhead(b, msg)
           IN /\ c \in Rings /\ InStep(c, u + 1)
              /\ Content(c, u + 1) = <<msg>> \o Content(b, u)
<1> DEFINE c == WriteAhead(b, msg)
           n == b.mb_wrptr
           r == b.mb_rdptr
           k == (r + Size - 1) % Size
           p(j) == (r + j) % Size
           p2(j) == (k + j) % Size
<1>1. /\ Size \in Nat /\ Size > 0 /\ u \in 0..Size /\ u + 1 \in 0..Size
      /\ u \in Int /\ u >= 0 /\ u < Size /\ 0 \in 0..Size
      /\ n \in 0..Size - 1 /\ r \in 0..Size - 1 /\ n = p(u)
      /\ b.mb_buffer \in [0..Size - 1 -> Msgs]
  BY MailConstants, RingTypes DEF InStep
<1>2. k = (IF r = 0 THEN Size - 1 ELSE r - 1) /\ k \in 0..Size - 1
  <2>1. Size - 1 \in 0..Size /\ r + (Size - 1) = r + Size - 1 BY <1>1
  <2>2. /\ k = IF r + (Size - 1) < Size THEN r + (Size - 1) ELSE r + (Size - 1) - Size
        /\ k \in 0..Size - 1
    BY <1>1, <2>1, Around
  <2> HIDE DEF k
  <2> QED BY <1>1, <2>2
<1>3. /\ c.mb_buffer = [b.mb_buffer EXCEPT ![k] = msg]
      /\ c.mb_wrptr = n /\ c.mb_rdptr = k
      /\ c = [mb_buffer |-> c.mb_buffer, mb_wrptr |-> c.mb_wrptr, mb_rdptr |-> c.mb_rdptr]
  <2> DEFINE f == [b.mb_buffer EXCEPT ![k] = msg]
  <2>1. c = [b EXCEPT !.mb_buffer = f, !.mb_rdptr = k] BY RingTypes DEF WriteAhead
  <2> HIDE DEF c, k, f
  <2>2. c.mb_buffer = f /\ c.mb_wrptr = n /\ c.mb_rdptr = k
        /\ c = [mb_buffer |-> c.mb_buffer, mb_wrptr |-> c.mb_wrptr, mb_rdptr |-> c.mb_rdptr]
    BY <2>1 DEF Rings
  <2> QED BY <2>2 DEF f
<1>4. \A j \in 0..Size : /\ p(j) = IF r + j < Size THEN r + j ELSE r + j - Size
                         /\ p(j) \in 0..Size - 1
  BY <1>1, Around
<1> HIDE DEF k
<1>5. \A j \in 0..Size : /\ p2(j) = IF k + j < Size THEN k + j ELSE k + j - Size
                         /\ p2(j) \in 0..Size - 1
  BY <1>2, Around
<1> HIDE DEF c, n, r, p, p2
<1>6. c \in Rings
  <2>1. [b.mb_buffer EXCEPT ![k] = msg] \in [0..Size - 1 -> Msgs] BY <1>1
  <2> QED BY <1>1, <1>2, <1>3, <2>1 DEF Rings
<1>7. \A j \in 0..u : p2(j + 1) = p(j)
  <2> TAKE j \in 0..u
  <2>1. j \in Int /\ 0 <= j /\ j <= u /\ j \in 0..Size /\ j + 1 \in 0..Size BY <1>1
  <2>2. p(j) = IF r + j < Size THEN r + j ELSE r + j - Size BY <1>4, <2>1
  <2>3. p2(j + 1) = IF k + (j + 1) < Size THEN k + (j + 1) ELSE k + (j + 1) - Size
    BY <1>5, <2>1
  <2> QED BY <1>1, <1>2, <2>1, <2>2, <2>3
<1>8. InStep(c, u + 1)
  <2>1. p2(u + 1) = n
    <3>1. u \in 0..u BY <1>1
    <3> QED BY <1>1, <1>7, <3>1
  <2> QED BY <1>3, <2>1 DEF InStep, p2, n
<1>9. \A i \in 1..u : p(i - 1) \in 0..Size - 1 /\ p(i - 1) # k
  <2> TAKE i \in 1..u
  <2>1. i - 1 \in 0..Size /\ i - 1 < u /\ i \in Int BY <1>1
  <2>2. p(i - 1) = IF r + (i - 1) < Size THEN r + (i - 1) ELSE r + (i - 1) - Size
    BY <1>4, <2>1
  <2>3. p(i - 1) \in 0..Size - 1 BY <1>4, <2>1
  <2> QED BY <1>1, <1>2, <2>1, <2>2, <2>3
<1>10. p2(0) = k BY <1>1, <1>2, <1>5
<1>11. Content(c, u + 1) = <<msg>> \o Content(b, u)
  <2> DEFINE s == Content(b, u)
             z == Content(c, u + 1)
             y == <<msg>> \o s
  <2>1. /\ s \in Seq(Msgs) /\ Len(s) = u
        /\ \A i \in 1..u : s[i] = b.mb_buffer[p(i - 1)]
    BY <1>1, ContentType DEF p, r
  <2>2. /\ z \in Seq(Msgs) /\ Len(z) = u + 1
        /\ \A i \in 1..u + 1 : z[i] = c.mb_buffer[p2(i - 1)]
    <3>1. /\ z \in Seq(Msgs) /\ Len(z) = u + 1
          /\ \A i \in 1..u + 1 : z[i] = c.mb_buffer[(c.mb_rdptr + (i - 1)) % Size]
      BY <1>1, <1>6, ContentType
    <3> HIDE DEF z
    <3> QED BY <1>3, <3>1 DEF p2
  <2> HIDE DEF s, z
  <2>3. /\ y \in Seq(Msgs) /\ Len(y) = u + 1 /\ y[1] = msg
        /\ \A i \in 2..u + 1 : y[i] = s[i - 1]
    <3>1. /\ <<msg>> \in Seq(Msgs) /\ Len(<<msg>>) = 1 /\ <<msg>>[1] = msg OBVIOUS
    <3>2. /\ y \in Seq(Msgs) /\ Len(y) = 1 + u
          /\ \A i \in 1..1 + u : y[i] = IF i <= 1 THEN <<msg>>[i] ELSE s[i - 1]
      BY <2>1, <3>1, ConcatProperties
    <3> HIDE DEF y
    <3> QED BY <1>1, <3>1, <3>2
  <2> HIDE DEF y
  <2>4. z[1] = msg
    <3>1. 1 \in 1..u + 1 /\ 1 - 1 = 0 BY <1>1
    <3>2. z[1] = c.mb_buffer[p2(0)] BY <2>2, <3>1
    <3> QED BY <1>1, <1>2, <1>3, <1>10, <3>2
  <2>5. \A i \in 2..u + 1 : z[i] = y[i]
    <3> TAKE i \in 2..u + 1
    <3>1. /\ i \in 1..u + 1 /\ i - 1 \in 1..u /\ i - 2 \in 0..u
          /\ (i - 2) + 1 = i - 1 /\ (i - 1) - 1 = i - 2
      BY <1>1
    <3>2. z[i] = c.mb_buffer[p2(i - 1)] BY <2>2, <3>1
    <3>3. p2(i - 1) = p(i - 2) BY <1>7, <3>1
    <3>4. p(i - 2) \in 0..Size - 1 /\ p(i - 2) # k BY <1>9, <3>1
    <3>5. c.mb_buffer[p(i - 2)] = b.mb_buffer[p(i - 2)] BY <1>1, <1>3, <3>4
    <3>6. y[i] = s[i - 1] BY <2>3
    <3>7. s[i - 1] = b.mb_buffer[p(i - 2)] BY <2>1, <3>1
    <3> QED BY <3>2, <3>3, <3>5, <3>6, <3>7
  <2>6. \A i \in 1..u + 1 : z[i] = y[i]
    <3> TAKE i \in 1..u + 1
    <3>1. i = 1 \/ i \in 2..u + 1 BY <1>1
    <3> QED BY <2>3, <2>4, <2>5, <3>1
  <2>7. z = y BY <2>2, <2>3, <2>6, SameSeq
  <2> QED BY <2>7 DEF s, z, y
<1> QED BY <1>6, <1>8, <1>11 DEF c

\* *mb_rdptr++ takes the first message.
LEMMA ReadTakes ==
    ASSUME NEW b \in Rings, NEW u \in 1..Size, InStep(b, u)
    PROVE  LET c == ReadNext(b)
           IN /\ c \in Rings /\ InStep(c, u - 1)
              /\ b.mb_buffer[b.mb_rdptr] \in Msgs
              /\ Content(b, u) # <<>>
              /\ b.mb_buffer[b.mb_rdptr] = Head(Content(b, u))
              /\ Content(c, u - 1) = Tail(Content(b, u))
<1> DEFINE c == ReadNext(b)
           n == b.mb_wrptr
           r == b.mb_rdptr
           k == (r + 1) % Size
           p(j) == (r + j) % Size
           p2(j) == (k + j) % Size
<1>1. /\ Size \in Nat /\ Size > 0 /\ u \in 0..Size /\ u - 1 \in 0..Size
      /\ u \in Int /\ u >= 1 /\ u <= Size /\ 0 \in 0..Size /\ 1 \in 0..Size
      /\ n \in 0..Size - 1 /\ r \in 0..Size - 1 /\ n = p(u)
      /\ b.mb_buffer \in [0..Size - 1 -> Msgs]
  BY MailConstants, RingTypes DEF InStep
<1>2. k = (IF r + 1 < Size THEN r + 1 ELSE r + 1 - Size) /\ k \in 0..Size - 1
  BY <1>1, Around
<1>3. /\ c.mb_buffer = b.mb_buffer
      /\ c.mb_wrptr = n /\ c.mb_rdptr = k
      /\ c = [mb_buffer |-> c.mb_buffer, mb_wrptr |-> c.mb_wrptr, mb_rdptr |-> c.mb_rdptr]
  <2>1. c = [b EXCEPT !.mb_rdptr = k] BY RingTypes DEF ReadNext
  <2> HIDE DEF c, k
  <2> QED BY <2>1 DEF Rings
<1>4. \A j \in 0..Size : /\ p(j) = IF r + j < Size THEN r + j ELSE r + j - Size
                         /\ p(j) \in 0..Size - 1
  BY <1>1, Around
<1> HIDE DEF k
<1>5. \A j \in 0..Size : /\ p2(j) = IF k + j < Size THEN k + j ELSE k + j - Size
                         /\ p2(j) \in 0..Size - 1
  BY <1>2, Around
<1> HIDE DEF c, n, r, p, p2
<1>6. c \in Rings BY <1>1, <1>2, <1>3 DEF Rings
<1>7. \A j \in 0..u - 1 : p2(j) = p(j + 1)
  <2> TAKE j \in 0..u - 1
  <2>1. j \in Int /\ 0 <= j /\ j < u /\ j \in 0..Size /\ j + 1 \in 0..Size BY <1>1
  <2>2. p2(j) = IF k + j < Size THEN k + j ELSE k + j - Size BY <1>5, <2>1
  <2>3. p(j + 1) = IF r + (j + 1) < Size THEN r + (j + 1) ELSE r + (j + 1) - Size
    BY <1>4, <2>1
  <2> QED BY <1>1, <1>2, <2>1, <2>2, <2>3
<1>8. InStep(c, u - 1)
  <2>1. p2(u - 1) = n
    <3>1. u - 1 \in 0..u - 1 /\ (u - 1) + 1 = u BY <1>1
    <3> QED BY <1>1, <1>7, <3>1
  <2> QED BY <1>3, <2>1 DEF InStep, p2, n
<1> DEFINE s == Content(b, u)
           z == Content(c, u - 1)
<1>9. /\ s \in Seq(Msgs) /\ Len(s) = u
      /\ \A i \in 1..u : s[i] = b.mb_buffer[p(i - 1)]
  BY <1>1, ContentType DEF p, r
<1>10. /\ z \in Seq(Msgs) /\ Len(z) = u - 1
       /\ \A i \in 1..u - 1 : z[i] = c.mb_buffer[p2(i - 1)]
  <2>1. /\ z \in Seq(Msgs) /\ Len(z) = u - 1
        /\ \A i \in 1..u - 1 : z[i] = c.mb_buffer[(c.mb_rdptr + (i - 1)) % Size]
    BY <1>1, <1>6, ContentType
  <2> HIDE DEF z
  <2> QED BY <1>3, <2>1 DEF p2
<1> HIDE DEF s, z
<1>11. s # <<>> /\ Head(s) = s[1] BY <1>1, <1>9
<1>12. Head(s) = b.mb_buffer[r]
  <2>1. p(0) = r
    <3>1. p(0) = IF r + 0 < Size THEN r + 0 ELSE r + 0 - Size BY <1>1, <1>4
    <3> QED BY <1>1, <3>1
  <2>2. 1 \in 1..u /\ 1 - 1 = 0 BY <1>1
  <2>3. s[1] = b.mb_buffer[p(0)] BY <1>9, <2>2
  <2> QED BY <1>11, <2>1, <2>3
<1>13. z = Tail(s)
  <2>1. /\ Tail(s) \in Seq(Msgs) /\ Len(Tail(s)) = u - 1
        /\ \A i \in 1..u - 1 : Tail(s)[i] = s[i + 1]
    BY <1>9, <1>11, HeadTailProperties
  <2>2. \A i \in 1..u - 1 : z[i] = Tail(s)[i]
    <3> TAKE i \in 1..u - 1
    <3>1. /\ i + 1 \in 1..u /\ i - 1 \in 0..u - 1 /\ (i + 1) - 1 = i /\ (i - 1) + 1 = i
      BY <1>1
    <3>2. z[i] = b.mb_buffer[p2(i - 1)] BY <1>3, <1>10
    <3>3. p2(i - 1) = p(i) BY <1>7, <3>1
    <3>4. Tail(s)[i] = s[i + 1] BY <2>1
    <3>5. s[i + 1] = b.mb_buffer[p(i)] BY <1>9, <3>1
    <3> QED BY <3>2, <3>3, <3>4, <3>5
  <2>3. \A i \in 1..Len(z) : z[i] = Tail(s)[i] BY <1>10, <2>2
  <2> QED BY <1>10, <2>1, <2>3, SameSeq
<1>14. b.mb_buffer[r] \in Msgs BY <1>1
<1> QED BY <1>6, <1>8, <1>11, <1>12, <1>13, <1>14 DEF c, s, z, r

\* The pointers are some number of slots apart, which need not be the counted one.
LEMMA SomeFill ==
    ASSUME NEW b \in Rings
    PROVE  (\E u \in 0..Size - 1 : InStep(b, u)) /\ (\E u \in 1..Size : InStep(b, u))
<1> DEFINE n == b.mb_wrptr
           r == b.mb_rdptr
           u == IF n >= r THEN n - r ELSE n - r + Size
           m == IF u = 0 THEN Size ELSE u
<1>1. n \in 0..Size - 1 /\ r \in 0..Size - 1 /\ Size \in Nat /\ Size > 0
  BY RingTypes, MailConstants
<1>2. /\ u \in 0..Size - 1 /\ u \in 0..Size
      /\ n = IF r + u < Size THEN r + u ELSE r + u - Size
  BY <1>1
<1>3. /\ m \in 1..Size /\ m \in 0..Size
      /\ n = IF r + m < Size THEN r + m ELSE r + m - Size
  BY <1>1, <1>2
<1>4. InStep(b, u) BY <1>1, <1>2, Around DEF InStep
<1>5. InStep(b, m) BY <1>1, <1>3, Around DEF InStep
<1> QED BY <1>2, <1>3, <1>4, <1>5

----------------------------------------------------------------------------
(* The invariant *)

\* A posting call has a message.
MsgFits(c, msg) == IF c = "fetch" THEN msg = NULL ELSE msg \in Messages

ArgsFit ==
    /\ arg \in [Threads -> Msgs]
    /\ \A t \in Threads : w.call[t] \in MailCall => MsgFits(w.call[t], arg[t])

MailInv ==
    /\ KernelInv
    /\ MailCalls(w)
    /\ ArgsFit
    /\ mb \in Rings /\ got \in Msgs /\ torn \in BOOLEAN
    /\ Units(w, "empty") + Units(w, "full") <= Size + Cardinality(Threads)
    /\ ~torn => /\ Units(w, "empty") + Units(w, "full") = Size
                /\ InStep(mb, Units(w, "full"))

LEMMA UsedIsUnits == Used = Units(w, "full") /\ Used' = Units(w', "full")
BY DEF Used, Positive, Pending, Units, Grantees, IsGranted

\* What the abstract queue holds.
Queued == Content(mb, Used)

\* A step of the mailbox maps to a step of the queue or to none.
Simulates == Queue!QueueStep \/ UNCHANGED <<Queued, got, torn>>

\* The access of a call that has its slot or message.
LEMMA AccessTypes ==
    ASSUME mb \in Rings, got \in Msgs, NEW c \in MailCall, NEW msg \in Msgs, Access(c, msg)
    PROVE  mb' \in Rings /\ got' \in Msgs
<1>1. PICK u \in 0..Size - 1 : InStep(mb, u) BY SomeFill
<1>2. PICK m \in 1..Size : InStep(mb, m) BY SomeFill
<1>3. CASE c = "post"
  BY <1>1, <1>3, WriteAppends DEF Access
<1>4. CASE c = "ahead"
  BY <1>1, <1>4, WriteAheadPrepends DEF Access
<1>5. CASE c = "fetch"
  BY <1>2, <1>5, ReadTakes DEF Access
<1> QED BY <1>3, <1>4, <1>5 DEF MailCall

LEMMA FlowStep ==
    ASSUME MailInv, NEW c \in MailCall, NEW msg, MsgFits(c, msg),
           Access(c, msg), Flow(w, w', c), KernelInv', ArgsFit', UNCHANGED torn
    PROVE  MailInv' /\ Simulates
<1> DEFINE e == Units(w, "empty")
           f == Units(w, "full")
           e2 == Units(w', "empty")
           f2 == Units(w', "full")
<1>1. /\ e \in Nat /\ f \in Nat /\ e2 \in Nat /\ f2 \in Nat
      /\ Size \in Nat /\ Cardinality(Threads) \in Nat
  BY UnitTypes, MailConstants DEF MailInv, KernelInv, Flow
<1>2. c = "fetch" => e2 = e + 1 /\ f2 = f - 1 BY CallSems DEF Flow
<1>3. c # "fetch" => e2 = e - 1 /\ f2 = f + 1 BY CallSems DEF Flow
<1>4. /\ e + f <= Size + Cardinality(Threads)
      /\ ~torn => e + f = Size /\ InStep(mb, f)
      /\ mb \in Rings /\ got \in Msgs /\ torn \in BOOLEAN
  BY DEF MailInv
<1>5. msg \in Msgs BY DEF MsgFits, Msgs
<1>6. mb' \in Rings /\ got' \in Msgs BY <1>4, <1>5, AccessTypes
<1> DEFINE a == Content(mb, f)
           z == Content(mb', f2)
<1>7. Queued = a /\ Queued' = z
  BY UsedIsUnits DEF Queued
<1> HIDE DEF e, f, e2, f2, a, z
<1>8. e2 + f2 = e + f BY <1>1, <1>2, <1>3
<1>9. ASSUME ~torn
      PROVE  /\ InStep(mb', f2)
             /\ \/ /\ Len(a) < Size /\ got' = got
                   /\ msg \in Messages /\ (z = Append(a, msg) \/ z = <<msg>> \o a)
                \/ a # <<>> /\ got' = Head(a) /\ z = Tail(a)
  <2>1. InStep(mb, f) /\ e + f = Size BY <1>4, <1>9
  <2>2. CASE c = "post"
    <3>1. f \in 0..Size - 1 /\ f \in 0..Size /\ f2 = f + 1 BY <1>1, <1>3, <2>1, <2>2
    <3>2. mb' = Write(mb, msg) /\ got' = got BY <2>2 DEF Access
    <3>3. InStep(mb', f2) /\ z = Append(a, msg)
      BY <1>4, <1>5, <2>1, <3>1, <3>2, WriteAppends DEF a, z
    <3>4. Len(a) = f BY <1>4, <3>1, ContentType DEF a
    <3>5. Len(a) < Size /\ msg \in Messages BY <1>1, <2>2, <3>1, <3>4 DEF MsgFits
    <3> QED BY <3>2, <3>3, <3>5
  <2>3. CASE c = "ahead"
    <3>1. f \in 0..Size - 1 /\ f \in 0..Size /\ f2 = f + 1 BY <1>1, <1>3, <2>1, <2>3
    <3>2. mb' = WriteAhead(mb, msg) /\ got' = got BY <2>3 DEF Access
    <3>3. InStep(mb', f2) /\ z = <<msg>> \o a
      BY <1>4, <1>5, <2>1, <3>1, <3>2, WriteAheadPrepends DEF a, z
    <3>4. Len(a) = f BY <1>4, <3>1, ContentType DEF a
    <3>5. Len(a) < Size /\ msg \in Messages BY <1>1, <2>3, <3>1, <3>4 DEF MsgFits
    <3> QED BY <3>2, <3>3, <3>5
  <2>4. CASE c = "fetch"
    <3>1. f \in 1..Size /\ f2 = f - 1 BY <1>1, <1>2, <2>1, <2>4
    <3>2. mb' = ReadNext(mb) /\ got' = mb.mb_buffer[mb.mb_rdptr] BY <2>4 DEF Access
    <3> QED BY <1>4, <2>1, <3>1, <3>2, ReadTakes DEF a, z
  <2> QED BY <2>2, <2>3, <2>4 DEF MailCall
<1>10. MailInv'
  <2>1. e2 + f2 <= Size + Cardinality(Threads) BY <1>4, <1>8
  <2>2. MailCalls(w') /\ torn' = torn BY DEF Flow
  <2>3. ~torn => e2 + f2 = Size /\ InStep(mb', f2) BY <1>4, <1>8, <1>9
  <2> QED BY <1>4, <1>6, <2>1, <2>2, <2>3 DEF MailInv, e2, f2
<1>11. Simulates
  <2>1. CASE torn BY <2>1 DEF Simulates, Queue!QueueStep
  <2>2. CASE ~torn
    <3>1. \/ /\ Len(Queued) < Size /\ UNCHANGED got
             /\ msg \in Messages
             /\ Queued' = Append(Queued, msg) \/ Queued' = <<msg>> \o Queued
          \/ Queued # <<>> /\ got' = Head(Queued) /\ Queued' = Tail(Queued)
      BY <1>7, <1>9, <2>2
    <3>2. Queue!Put \/ Queue!Take
      BY <3>1 DEF Queue!Put, Queue!Take, Queued, Content
    <3> QED BY <3>2 DEF Simulates, Queue!QueueStep
  <2> QED BY <2>1, <2>2
<1> QED BY <1>10, <1>11

LEMMA StillStep ==
    ASSUME MailInv, Still(w, w'), KernelInv', ArgsFit', UNCHANGED <<mb, got, torn>>
    PROVE  MailInv' /\ Simulates
<1>1. Units(w', "empty") = Units(w, "empty") /\ Units(w', "full") = Units(w, "full")
  BY MailConstants DEF Still
<1>2. MailCalls(w') BY DEF Still
<1>3. MailInv' BY <1>1, <1>2 DEF MailInv
<1>4. Queued' = Queued BY <1>1, UsedIsUnits DEF Queued, Content
<1> QED BY <1>3, <1>4 DEF Simulates

----------------------------------------------------------------------------
(* The steps *)

\* The unit taken from the one semaphore is given to the other.
LEMMA GiveBack ==
    ASSUME NEW v, NEW c \in MailCall,
           NEW u, GoodKernel(u), MailCalls(u),
           \A o \in Sems : Units(u, o) = Units(v, o) - (IF o = Needs(c) THEN 1 ELSE 0),
           \A o \in Sems : Units(v, o) \in Nat
    PROVE  LET x == chSemSignalI(u, Gives(c))
           IN Flow(v, x, c) /\ x.k.r_current = u.k.r_current
                /\ x.call = u.call /\ x.vt = u.vt
<1> DEFINE x == chSemSignalI(u, Gives(c))
<1>1. Needs(c) \in Sems /\ Gives(c) \in Sems /\ Needs(c) # Gives(c) BY CallSems
<1>2. /\ GoodKernel(x) /\ MailCalls(x)
      /\ x.k.r_current = u.k.r_current /\ x.call = u.call /\ x.vt = u.vt
      /\ \A o \in Sems : Units(x, o) = Units(u, o) + (IF o = Gives(c) THEN 1 ELSE 0)
  BY <1>1, GiveUnit
<1> HIDE DEF x
<1>3. /\ Units(x, Needs(c)) = Units(u, Needs(c)) + 0
      /\ Units(x, Gives(c)) = Units(u, Gives(c)) + 1
      /\ Units(u, Needs(c)) = Units(v, Needs(c)) - 1
      /\ Units(u, Gives(c)) = Units(v, Gives(c)) - 0
  BY <1>1, <1>2
<1>4. /\ Units(v, Needs(c)) \in Nat /\ Units(v, Gives(c)) \in Nat BY <1>1
<1>5. Flow(v, x, c) BY <1>2, <1>3, <1>4 DEF Flow
<1> QED BY <1>2, <1>5 DEF x

\* A service that ends with a switch moves no further units.
LEMMA SwitchMovesNothing ==
    ASSUME NEW v, GoodKernel(v), MailCalls(v), NEW x, x = Reschedule(v)
    PROVE  Still(v, x) /\ x.call = v.call /\ x.vt = v.vt
<1>1. /\ GoodKernel(x)
      /\ x.s_cnt = v.s_cnt /\ x.p_u = v.p_u
      /\ x.vt = v.vt /\ x.call = v.call
      /\ Keeps(v.k, x.k, {})
  BY RescheduleOK
<1>2. Still(v, x) BY <1>1, NothingMoves
<1> QED BY <1>1, <1>2

LEMMA FlowThenSwitch ==
    ASSUME NEW v, NEW c \in MailCall, NEW u, Flow(v, u, c), NEW x, x = Reschedule(u)
    PROVE  Flow(v, x, c) /\ x.call = u.call /\ x.vt = u.vt
<1>1. GoodKernel(u) /\ MailCalls(u) BY DEF Flow
<1>2. Still(u, x) /\ x.call = u.call /\ x.vt = u.vt BY <1>1, SwitchMovesNothing
<1> QED BY <1>2, CallSems DEF Flow, Still

LEMMA MailTypes ==
    ASSUME MailInv
    PROVE  /\ GoodKernel(w) /\ MailCalls(w) /\ KernelInv
           /\ currp \in AllThreads /\ currp = w.k.r_current
           /\ w.call \in [AllThreads -> Calls] /\ w.vt \in [AllThreads -> TimerStates]
           /\ w.s_cnt \in [Sems -> Int]
           /\ arg \in [Threads -> Msgs]
           /\ \A o \in Sems : Units(w, o) \in Nat
BY KernelTypes, UnitTypes DEF MailInv, KernelInv, GoodKernel, currp, ArgsFit

LEMMA RequestStep ==
    ASSUME MailInv, NEW c \in MailCall, NEW msg, MsgFits(c, msg), NEW timed \in BOOLEAN,
           Request(c, msg, timed)
    PROVE  MailInv' /\ Simulates
<1>1. ThreadCode /\ UNCHANGED <<isr, torn>> BY DEF Request
<1>2. ~Locked(w) /\ currp # Idle BY <1>1 DEF ThreadCode
<1>3. Needs(c) \in Sems BY CallSems
<1>4. CASE /\ w.s_cnt[Needs(c)] - 1 >= 0
           /\ Access(c, msg)
           /\ w' = Reschedule(chSemSignalI(chSemFastWaitI(w, Needs(c)), Gives(c)))
           /\ UNCHANGED arg
  <2> DEFINE u == chSemFastWaitI(w, Needs(c))
             x == chSemSignalI(u, Gives(c))
  <2>1. /\ GoodKernel(u) /\ MailCalls(u)
        /\ u.k = w.k /\ u.call = w.call /\ u.vt = w.vt
        /\ \A o \in Sems : Units(u, o) = Units(w, o) - (IF o = Needs(c) THEN 1 ELSE 0)
    BY <1>3, <1>4, MailTypes, TakeUnit
  <2> HIDE DEF u
  <2>2. Flow(w, x, c) /\ x.call = w.call /\ x.vt = w.vt
    BY <2>1, MailTypes, GiveBack
  <2> HIDE DEF x
  <2>3. Flow(w, w', c) /\ w'.call = w.call /\ w'.vt = w.vt
    <3>1. w' = Reschedule(x) BY <1>4 DEF x, u
    <3> QED BY <2>2, <3>1, FlowThenSwitch
  <2>4. KernelInv'
    <3>1. GoodKernel(w') BY <2>3 DEF Flow
    <3> QED BY <1>1, <2>3, <3>1, MailTypes, ThreadStep
  <2>5. ArgsFit' BY <1>4, <2>3 DEF MailInv, ArgsFit
  <2> QED BY <1>1, <1>4, <2>3, <2>4, <2>5, FlowStep
<1>5. CASE /\ w.s_cnt[Needs(c)] - 1 < 0
           /\ w' = SleepOnSem(w, Needs(c), timed, c)
           /\ arg' = [arg EXCEPT ![currp] = msg]
           /\ UNCHANGED <<mb, got>>
  <2> DEFINE x == SleepOnSem(w, Needs(c), timed, c)
  <2>1. /\ Still(w, x)
        /\ x.vt = [w.vt EXCEPT ![currp] = IF timed THEN "armed" ELSE @]
        /\ x.call = [w.call EXCEPT ![currp] = c]
    <3>1. w.k.r_current # Idle BY <1>2 DEF currp
    <3> QED BY <1>2, <1>3, <1>5, <3>1, MailTypes, BlockingKeepsUnits
  <2> HIDE DEF x
  <2>2. w' = x BY <1>5 DEF x
  <2>3. KernelInv'
    <3>1. GoodKernel(w') BY <2>1, <2>2 DEF Still
    <3>2. \A t \in AllThreads : w'.vt[t] = w.vt[t] \/ w'.vt[t] # "fired"
      BY <2>1, <2>2, MailTypes
    <3> QED BY <1>1, <3>1, <3>2, MailTypes, ThreadStep
  <2>4. ArgsFit'
    <3>1. currp \in Threads BY <1>2, MailTypes DEF AllThreads
    <3>2. msg \in Msgs BY DEF MsgFits, Msgs
    <3>3. \A t \in Threads : /\ t \in AllThreads
                             /\ w'.call[t] = IF t = currp THEN c ELSE w.call[t]
                             /\ arg'[t] = IF t = currp THEN msg ELSE arg[t]
      BY <1>5, <2>1, <2>2, MailTypes DEF AllThreads
    <3>4. arg' \in [Threads -> Msgs] BY <1>5, <3>1, <3>2, MailTypes
    <3> QED BY <3>3, <3>4 DEF MailInv, ArgsFit
  <2> QED BY <1>1, <1>5, <2>1, <2>2, <2>3, <2>4, StillStep
<1> QED BY <1>4, <1>5 DEF Request

LEMMA ContinueStep ==
    ASSUME MailInv, Continue
    PROVE  MailInv' /\ Simulates
<1> DEFINE t == currp
           c == w.call[t]
           u == Resume(w)
<1>1. Locked(w) /\ arg' = [arg EXCEPT ![t] = NULL] /\ UNCHANGED <<isr, torn>>
  BY DEF Continue
<1>2. ~isr /\ w.vt[w.k.r_current] # "fired"
  BY <1>1, MailTypes, NobodyIsInterrupted
<1>3. /\ GoodKernel(u) /\ MailCalls(u) /\ ~Locked(u)
      /\ u.k = w.k /\ u.vt = [w.vt EXCEPT ![t] = "off"]
      /\ u.call = [w.call EXCEPT ![t] = "none"]
      /\ Granted(c, w.p_u[t]) =>
           \A o \in Sems : Units(u, o) = Units(w, o) - (IF o = Needs(c) THEN 1 ELSE 0)
      /\ ~Granted(c, w.p_u[t]) => \A o \in Sems : Units(u, o) = Units(w, o)
  BY <1>1, <1>2, MailTypes, ResumeUsesUnit DEF currp
<1>4. t \in Threads /\ t \in AllThreads
  <2>1. c # "none" BY <1>1, MailTypes DEF Locked
  <2> QED BY <2>1, MailTypes DEF MailCalls, AllThreads
<1> HIDE DEF t, u
<1>5. ASSUME GoodKernel(w'), w'.call = u.call, w'.vt = u.vt PROVE KernelInv' /\ ArgsFit'
  <2>1. \A s \in AllThreads : w'.vt[s] # "fired" BY <1>2, <1>3, <1>5, MailTypes DEF KernelInv
  <2>2. KernelInv' BY <1>1, <1>2, <1>5, <2>1, MailTypes DEF KernelInv
  <2>3. \A s \in Threads : /\ s \in AllThreads
                           /\ w'.call[s] = IF s = t THEN "none" ELSE w.call[s]
                           /\ arg'[s] = IF s = t THEN NULL ELSE arg[s]
    BY <1>1, <1>3, <1>5, MailTypes DEF AllThreads
  <2>4. arg' \in [Threads -> Msgs] BY <1>1, MailTypes DEF Msgs
  <2>5. "none" \notin MailCall BY DEF MailCall
  <2>6. ArgsFit' BY <2>3, <2>4, <2>5 DEF MailInv, ArgsFit
  <2> QED BY <2>2, <2>6
<1>6. CASE Granted(c, w.p_u[t])
  <2>1. Access(c, arg[t]) /\ w' = Reschedule(chSemSignalI(u, Gives(c)))
    BY <1>6 DEF Continue, t, u
  <2>2. c \in MailCall
    <3>1. c \notin {"none", "sleep"} BY <1>1, <1>6 DEF Granted, Locked, t, currp
    <3> QED BY <1>4, <3>1, MailTypes DEF MailCalls
  <2>3. MsgFits(c, arg[t]) BY <1>4, <2>2 DEF MailInv, ArgsFit
  <2> DEFINE x == chSemSignalI(u, Gives(c))
  <2> HIDE DEF c
  <2>4. Flow(w, x, c) /\ x.call = u.call /\ x.vt = u.vt
    <3>1. \A o \in Sems : Units(u, o) = Units(w, o) - (IF o = Needs(c) THEN 1 ELSE 0)
      BY <1>3, <1>6
    <3>2. \A o \in Sems : Units(w, o) \in Nat BY MailTypes
    <3>3. GoodKernel(u) /\ MailCalls(u) BY <1>3
    <3> QED BY <2>2, <3>1, <3>2, <3>3, GiveBack
  <2> HIDE DEF x
  <2>5. Flow(w, w', c) /\ w'.call = u.call /\ w'.vt = u.vt
    <3>1. w' = Reschedule(x) BY <2>1 DEF x
    <3> QED BY <2>2, <2>4, <3>1, FlowThenSwitch
  <2>6. KernelInv' /\ ArgsFit' BY <1>5, <2>5 DEF Flow
  <2> QED BY <1>1, <2>1, <2>2, <2>3, <2>5, <2>6, FlowStep
<1>7. CASE ~Granted(c, w.p_u[t])
  <2>1. w' = u /\ UNCHANGED <<mb, got>> BY <1>7 DEF Continue, t, u
  <2>2. Still(w, w') BY <1>3, <1>7, <2>1 DEF Still
  <2>3. KernelInv' /\ ArgsFit' BY <1>3, <1>5, <2>1
  <2> QED BY <1>1, <2>1, <2>2, <2>3, StillStep
<1> QED BY <1>6, <1>7

LEMMA RequestIStep ==
    ASSUME MailInv, NEW c \in MailCall, NEW msg, MsgFits(c, msg), RequestI(c, msg)
    PROVE  MailInv' /\ Simulates
<1> DEFINE u == chSemFastWaitI(w, Needs(c))
           x == chSemSignalI(u, Gives(c))
<1>1. /\ IsrCode /\ w.s_cnt[Needs(c)] > 0 /\ Access(c, msg)
      /\ w' = x /\ isr' = TRUE /\ UNCHANGED <<arg, torn>>
  BY DEF RequestI
<1>2. Needs(c) \in Sems /\ w.s_cnt[Needs(c)] - 1 >= 0
  <2>1. Needs(c) \in Sems BY CallSems
  <2>2. w.s_cnt[Needs(c)] \in Int BY <2>1, MailTypes
  <2> QED BY <1>1, <2>1, <2>2
<1>3. /\ GoodKernel(u) /\ MailCalls(u)
      /\ u.k = w.k /\ u.call = w.call /\ u.vt = w.vt
      /\ \A o \in Sems : Units(u, o) = Units(w, o) - (IF o = Needs(c) THEN 1 ELSE 0)
  BY <1>2, MailTypes, TakeUnit
<1> HIDE DEF u
<1>4. Flow(w, x, c) /\ x.call = w.call /\ x.k.r_current = w.k.r_current
  BY <1>3, MailTypes, GiveBack
<1> HIDE DEF x
<1>5. KernelInv'
  <2>1. GoodKernel(w') BY <1>1, <1>4 DEF Flow
  <2> QED BY <1>1, <1>4, <2>1, MailTypes, IsrStep
<1>6. ArgsFit' BY <1>1, <1>4 DEF MailInv, ArgsFit
<1> QED BY <1>1, <1>4, <1>5, <1>6, FlowStep

\* A reset takes all messages, and the units granted before it are on top of
\* those it sets.
LEMMA MailResetStep ==
    ASSUME MailInv, chMBReset
    PROVE  MailInv' /\ Simulates
<1> DEFINE u == chSemResetI(w, "empty", Size)
           x == chSemResetI(u, "full", 0)
           ge == Cardinality(Grantees(w, "empty"))
           gf == Cardinality(Grantees(w, "full"))
<1>1. /\ ThreadCode /\ UNCHANGED <<isr, arg, got>>
      /\ mb' = [mb EXCEPT !.mb_wrptr = 0, !.mb_rdptr = 0]
      /\ w' = Reschedule(x)
      /\ torn' = (torn \/ \E sp \in Sems : Pending(sp) # {})
  BY DEF chMBReset, ResetSems
<1>2. /\ "empty" \in Sems /\ "full" \in Sems /\ Sems = {"empty", "full"}
      /\ Size \in Nat /\ Size > 0 /\ 0 \in Nat /\ Cardinality(Threads) \in Nat
  BY MailConstants
<1>3. ResetUnitsEffect(w, u, "empty", Size) BY <1>2, MailTypes, ResetUnits
<1>4. ResetUnitsEffect(u, x, "full", 0)
  <2>1. GoodKernel(u) /\ MailCalls(u) BY <1>3 DEF ResetUnitsEffect
  <2> HIDE DEF u
  <2> QED BY <1>2, <2>1, ResetUnits
<1> HIDE DEF u, x
<1>5. /\ GoodKernel(x) /\ MailCalls(x) /\ x.call = w.call /\ x.vt = w.vt
      /\ Cardinality(Grantees(x, "empty")) = ge /\ Cardinality(Grantees(x, "full")) = gf
      /\ x.s_cnt["empty"] = Size /\ x.s_cnt["full"] = 0
  BY <1>2, <1>3, <1>4 DEF ResetUnitsEffect
<1>6. Still(x, w') /\ w'.call = w.call /\ w'.vt = w.vt
  BY <1>1, <1>5, SwitchMovesNothing
<1>7. Units(w', "empty") = Size + ge /\ Units(w', "full") = gf
  <2>1. ge \in Nat /\ gf \in Nat BY <1>2, MailTypes, UnitTypes
  <2>2. Units(x, "empty") = Size + ge /\ Units(x, "full") = 0 + gf
    BY <1>2, <1>5 DEF Units
  <2> HIDE DEF ge, gf
  <2> QED BY <1>2, <1>6, <2>1, <2>2 DEF Still
<1>8. ge \in Nat /\ gf \in Nat /\ ge + gf <= Cardinality(Threads)
  <2> DEFINE E == Grantees(w, "empty")
             F == Grantees(w, "full")
  <2>1. IsFiniteSet(E) /\ IsFiniteSet(F) /\ ge \in Nat /\ gf \in Nat
    BY <1>2, MailTypes, UnitTypes
  <2>2. E \cap F = {} /\ E \cup F \subseteq Threads BY DEF Grantees, IsGranted
  <2> HIDE DEF E, F
  <2>3. Cardinality(E \cup F) <= Cardinality(Threads) BY <2>2, MailConstants, FS_Subset
  <2>4. Cardinality(E \cup F) = Cardinality(E) + Cardinality(F) - Cardinality(E \cap F)
    BY <2>1, FS_Union
  <2>5. Cardinality(E \cap F) = 0 BY <2>2, FS_EmptySet
  <2> QED BY <2>1, <2>3, <2>4, <2>5 DEF E, F
<1>9. KernelInv'
  <2>1. GoodKernel(w') BY <1>6 DEF Still
  <2> QED BY <1>1, <1>6, <2>1, MailTypes, ThreadStep
<1>10. ArgsFit' BY <1>1, <1>6 DEF MailInv, ArgsFit
<1>11. /\ mb' \in Rings /\ mb'.mb_wrptr = 0 /\ mb'.mb_rdptr = 0
  <2>1. mb \in Rings /\ 0 \in 0..Size - 1 BY <1>2 DEF MailInv
  <2> QED BY <1>1, <2>1 DEF Rings
<1>12. got' \in Msgs /\ torn' \in BOOLEAN BY <1>1 DEF MailInv
<1>13. ~torn' => ~torn /\ ge = 0 /\ gf = 0
  <2> SUFFICES ASSUME ~torn' PROVE ~torn /\ ge = 0 /\ gf = 0
    OBVIOUS
  <2>1. \A sp \in Sems : Pending(sp) = Grantees(w, sp) BY DEF Pending, Grantees, IsGranted
  <2>2. Grantees(w, "empty") = {} /\ Grantees(w, "full") = {} BY <1>1, <1>2, <2>1
  <2> QED BY <1>1, <2>2, FS_EmptySet
<1> HIDE DEF ge, gf
<1>14. InStep(mb', 0)
  <2>1. 0 \in 0..Size - 1 /\ 0 \in 0..Size BY <1>2
  <2>2. (0 + 0) % Size = 0 BY <1>2, <2>1, Around
  <2> QED BY <1>11, <2>2 DEF InStep
<1>15. MailInv'
  <2>1. MailCalls(w') BY <1>6 DEF Still
  <2>2. Units(w', "empty") + Units(w', "full") <= Size + Cardinality(Threads)
    BY <1>2, <1>7, <1>8
  <2>3. ~torn' => /\ Units(w', "empty") + Units(w', "full") = Size
                  /\ InStep(mb', Units(w', "full"))
    BY <1>2, <1>7, <1>13, <1>14
  <2> QED BY <1>9, <1>10, <1>11, <1>12, <2>1, <2>2, <2>3 DEF MailInv
<1>16. Simulates
  <2>1. CASE torn' BY <2>1 DEF Simulates, Queue!QueueStep
  <2>2. CASE ~torn'
    <3>1. Used' = 0 BY <1>7, <1>13, <2>2, UsedIsUnits
    <3>2. Queued' = <<>> BY <3>1 DEF Queued, Content
    <3>3. Queue!Reset BY <1>1, <3>2 DEF Queue!Reset, Queued, Content
    <3>4. torn' = torn BY <1>13, <2>2, <1>12 DEF MailInv
    <3> QED BY <3>3, <3>4 DEF Simulates, Queue!QueueStep
  <2> QED BY <2>1, <2>2
<1> QED BY <1>15, <1>16

\* The steps of the kernel that belong to no call.
LEMMA MailKernelStep ==
    ASSUME MailInv,
           \/ chThdSleep
           \/ \E t \in Threads : TimerExpires(t) \/ TimerCallback(t)
           \/ IrqExit,
           UNCHANGED <<mb, arg, got, torn>>
    PROVE  MailInv' /\ Simulates
<1>1. KernelInv /\ MailCalls(w) BY DEF MailInv
<1>2. KernelInv' /\ Still(w, w') BY <1>1, KernelKeepsUnits
<1>3. \A t \in AllThreads : w'.call[t] \in {w.call[t], "sleep"}
  BY <1>1, MailConstants, KernelSteps
<1>4. "sleep" \notin MailCall BY DEF MailCall
<1>5. ArgsFit' BY <1>3, <1>4 DEF MailInv, ArgsFit, AllThreads
<1> QED BY <1>2, <1>5, StillStep

LEMMA MailInitInv == MailboxInit => MailInv /\ Queue!QueueInit
<1> SUFFICES ASSUME MailboxInit PROVE MailInv /\ Queue!QueueInit
  OBVIOUS
<1> DEFINE counts == [sp \in Sems |-> IF sp = "empty" THEN Size ELSE 0]
<1>1. /\ KernelInit(counts)
      /\ mb = [mb_buffer |-> [i \in 0..Size - 1 |-> NULL], mb_wrptr |-> 0, mb_rdptr |-> 0]
      /\ arg = [t \in Threads |-> NULL] /\ got = NULL /\ torn = FALSE
  BY DEF MailboxInit
<1>2. /\ "empty" \in Sems /\ "full" \in Sems /\ Sems = {"empty", "full"}
      /\ Size \in Nat /\ Size > 0 /\ Cardinality(Threads) \in Nat
  BY MailConstants
<1>3. counts \in [Sems -> Nat] /\ counts["empty"] = Size /\ counts["full"] = 0 BY <1>2
<1> HIDE DEF counts
<1>4. /\ KernelInv /\ w.s_cnt = counts
      /\ \A t \in AllThreads : w.call[t] \in {"none", "sleep"}
  BY <1>1, <1>3, MailConstants, SchedAssumption, KernelInitInv
<1>5. MailCalls(w)
  <2>1. /\ w.k.p_state = [t \in AllThreads |-> IF t = Idle THEN "CURRENT" ELSE "SLEEPING"]
        /\ w.call = [t \in AllThreads |-> IF t = Idle THEN "none" ELSE "sleep"]
    BY <1>1 DEF KernelInit, AllAsleep
  <2>2. \A t \in AllThreads : w.k.p_state[t] # "WTSEM" BY <2>1
  <2>3. w.call[Idle] = "none" BY <2>1 DEF AllThreads
  <2> QED BY <1>4, <2>2, <2>3 DEF MailCalls
<1>6. \A sp \in Sems : Grantees(w, sp) = {}
  BY <1>4 DEF Grantees, IsGranted, Granted, AllThreads
<1>7. Units(w, "empty") = Size /\ Units(w, "full") = 0
  BY <1>2, <1>3, <1>4, <1>6, FS_EmptySet DEF Units
<1>8. ArgsFit
  BY <1>1, <1>4 DEF ArgsFit, Msgs, MailCall, AllThreads
<1>9. mb \in Rings
  <2>1. [i \in 0..Size - 1 |-> NULL] \in [0..Size - 1 -> Msgs] BY DEF Msgs
  <2>2. 0 \in 0..Size - 1 BY <1>2
  <2> QED BY <1>1, <2>1, <2>2 DEF Rings
<1>10. InStep(mb, 0)
  <2>1. 0 \in 0..Size - 1 /\ 0 \in 0..Size BY <1>2
  <2>2. (0 + 0) % Size = 0 BY <1>2, <2>1, Around
  <2> QED BY <1>1, <2>2 DEF InStep
<1>11. MailInv
  <2>1. /\ Units(w, "empty") + Units(w, "full") = Size
        /\ Size <= Size + Cardinality(Threads)
        /\ InStep(mb, Units(w, "full"))
    BY <1>2, <1>7, <1>10
  <2>2. got \in Msgs /\ torn \in BOOLEAN BY <1>1 DEF Msgs
  <2> QED BY <1>4, <1>5, <1>8, <1>9, <2>1, <2>2 DEF MailInv
<1>12. Queue!QueueInit
  <2>1. Used = 0 BY <1>7, UsedIsUnits
  <2>2. Queued = <<>> BY <2>1 DEF Queued, Content
  <2> QED BY <1>1, <2>2 DEF Queue!QueueInit, Queued, Content
<1> QED BY <1>11, <1>12

LEMMA MailStepInv == MailInv /\ [MailboxNext]_mbvars => MailInv' /\ Simulates
<1> SUFFICES ASSUME MailInv, [MailboxNext]_mbvars PROVE MailInv' /\ Simulates
  OBVIOUS
<1>1. ASSUME NEW timed \in BOOLEAN, NEW msg \in Messages,
             chMBPost(msg, timed) \/ chMBPostAhead(msg, timed)
      PROVE  MailInv' /\ Simulates
  <2>1. PICK c \in {"post", "ahead"} : Request(c, msg, timed)
    BY <1>1 DEF chMBPost, chMBPostAhead
  <2>2. c \in MailCall /\ MsgFits(c, msg) BY DEF MailCall, MsgFits
  <2> QED BY <2>1, <2>2, RequestStep
<1>2. ASSUME NEW timed \in BOOLEAN, chMBFetch(timed)
      PROVE  MailInv' /\ Simulates
  <2>1. Request("fetch", NULL, timed) BY <1>2 DEF chMBFetch
  <2>2. "fetch" \in MailCall /\ MsgFits("fetch", NULL) BY DEF MailCall, MsgFits
  <2> QED BY <2>1, <2>2, RequestStep
<1>3. CASE Continue BY <1>3, ContinueStep
<1>4. CASE chMBReset BY <1>4, MailResetStep
<1>5. ASSUME NEW msg \in Messages, RequestI("post", msg) \/ RequestI("ahead", msg)
      PROVE  MailInv' /\ Simulates
  <2>1. PICK c \in {"post", "ahead"} : RequestI(c, msg) BY <1>5
  <2>2. c \in MailCall /\ MsgFits(c, msg) BY DEF MailCall, MsgFits
  <2> QED BY <2>1, <2>2, RequestIStep
<1>6. CASE RequestI("fetch", NULL)
  <2>1. "fetch" \in MailCall /\ MsgFits("fetch", NULL) BY DEF MailCall, MsgFits
  <2> QED BY <1>6, <2>1, RequestIStep
<1>7. CASE /\ \/ chThdSleep
              \/ \E t \in Threads : TimerExpires(t) \/ TimerCallback(t)
              \/ IrqExit
           /\ UNCHANGED <<mb, arg, got, torn>>
  BY <1>7, MailKernelStep
<1>8. CASE UNCHANGED mbvars
  <2>1. w' = w /\ isr' = isr /\ UNCHANGED <<mb, arg, got, torn>>
    BY <1>8 DEF mbvars, kernelvars
  <2>2. KernelInv' BY <2>1 DEF MailInv, KernelInv
  <2>3. Still(w, w') BY <2>1 DEF MailInv, KernelInv, Still
  <2>4. ArgsFit' BY <2>1 DEF MailInv, ArgsFit
  <2> QED BY <2>1, <2>2, <2>3, <2>4, StillStep
<1> QED BY <1>1, <1>2, <1>3, <1>4, <1>5, <1>6, <1>7, <1>8 DEF MailboxNext

LEMMA MailInvariant == MailboxSpec => []MailInv
<1>1. MailboxInit => MailInv BY MailInitInv
<1>2. MailInv /\ [MailboxNext]_mbvars => MailInv' BY MailStepInv
<1> QED BY <1>1, <1>2, PTL DEF MailboxSpec

----------------------------------------------------------------------------
(* The theorems *)

\* Every slot of a mailbox is empty, holds a message, or belongs to one call
\* that was granted it and has not run since, and the write pointer is as many
\* slots ahead of the read pointer as there are messages, through all posts,
\* fetches and timeouts of threads and interrupts, for any number of threads,
\* messages and slots, until chMBReset() comes between a grant and the access
\* that chMBPostS(), chMBPostAheadS() and chMBFetchS() make after it. Both
\* semaphores are consistent even then.
THEOREM SlotsAlwaysConserved == MailboxSpec => []SlotsConserved
<1>1. MailInv => SlotsConserved
  <2> SUFFICES ASSUME MailInv PROVE SlotsConserved
    OBVIOUS
  <2> DEFINE n == Cardinality(Threads)
             e == w.s_cnt["empty"]
             f == w.s_cnt["full"]
             ge == Cardinality(Grantees(w, "empty"))
             gf == Cardinality(Grantees(w, "full"))
  <2>1. /\ Sems = {"empty", "full"} /\ Size \in Nat /\ n \in Nat
    BY MailConstants
  <2>2. /\ e \in Int /\ e >= -n /\ f \in Int /\ f >= -n
        /\ ge \in Nat /\ gf \in Nat
    BY <2>1, MailTypes, MailConstants, QueueFits, UnitTypes
  <2>3. /\ Pending("empty") = Grantees(w, "empty")
        /\ Pending("full") = Grantees(w, "full")
    BY DEF Pending, Grantees, IsGranted
  <2>4. /\ Units(w, "empty") = (IF e > 0 THEN e ELSE 0) + ge
        /\ Units(w, "full") = (IF f > 0 THEN f ELSE 0) + gf
    BY DEF Units
  <2>5. /\ Used = (IF f > 0 THEN f ELSE 0) + gf
        /\ Positive("empty") = IF e > 0 THEN e ELSE 0
        /\ Cardinality(Pending("empty")) = ge
    BY <2>3 DEF Used, Positive
  <2>6. /\ Units(w, "empty") + Units(w, "full") <= Size + n
        /\ ~torn => /\ Units(w, "empty") + Units(w, "full") = Size
                    /\ InStep(mb, Units(w, "full"))
    BY DEF MailInv
  <2>7. /\ w \in KernelStates /\ SemConsistent(w) /\ isr \in BOOLEAN
        /\ mb \in Rings /\ arg \in [Threads -> Msgs] /\ got \in Msgs /\ torn \in BOOLEAN
    BY DEF MailInv, KernelInv, GoodKernel, ArgsFit
  <2>8. \A sp \in Sems : w.s_cnt[sp] \in -n..Size + n
    <3>1. e \in -n..Size + n /\ f \in -n..Size + n
      <4> HIDE DEF n, e, f, ge, gf
      <4> QED BY <2>1, <2>2, <2>4, <2>6
    <3> QED BY <2>1, <3>1
  <2>9. MailboxTypeOK BY <2>7, <2>8 DEF MailboxTypeOK, Rings, Msgs
  <2>10. ~torn => /\ Used + Positive("empty") + Cardinality(Pending("empty")) = Size
                  /\ mb.mb_wrptr = (mb.mb_rdptr + Used) % Size
    <3>1. Used = Units(w, "full") BY <2>4, <2>5
    <3>2. ~torn => mb.mb_wrptr = (mb.mb_rdptr + Used) % Size BY <2>6, <3>1 DEF InStep
    <3>3. ~torn => Used + Positive("empty") + Cardinality(Pending("empty")) = Size
      <4> HIDE DEF n, e, f, ge, gf
      <4> QED BY <2>1, <2>2, <2>4, <2>5, <2>6
    <3> QED BY <3>2, <3>3
  <2> QED BY <2>7, <2>9, <2>10 DEF SlotsConserved
<1> QED BY <1>1, MailInvariant, PTL

\* A mailbox is a bounded queue, for any number of threads, messages and slots:
\* chMBPost() and chMBPostAhead() add a message at one of its ends, chMBFetch()
\* takes the one at its front, at the step at which the call accesses the
\* buffer, and chMBReset() empties it, as long as no reset tears a call.
THEOREM MailboxesQueue == MailboxSpec => MailboxIsQueue
<1>1. MailboxInit => Queue!QueueInit BY MailInitInv
<1>2. Simulates =>
        [Queue!QueueStep]_<<[i \in 1..Used |->
             mb.mb_buffer[(mb.mb_rdptr + i - 1) % Size]], got, torn>>
  BY DEF Simulates, Queued, Content
<1>3. MailInv /\ [MailboxNext]_mbvars => Simulates BY MailStepInv
<1> QED BY <1>1, <1>2, <1>3, MailInvariant, PTL
        DEF MailboxSpec, MailboxIsQueue, Queue!QueueSpec
=============================================================================
