--------------------------- MODULE ChMutexProofs ---------------------------
(***************************************************************************)
(* Theorems about ChMutex, for every number of threads, mutexes and        *)
(* priorities: type correctness, mutex ownership, wait queue consistency   *)
(* and the priority order of every queue; in the second part, that no      *)
(* inherited priority outlives the mutex it was inherited through, and     *)
(* that the CPU always goes to the highest priority. The third part is     *)
(* about ChCond: all this stays true with condition variables, no timer of *)
(* a wait outlives it, and a wait ends with its mutex. The last part is    *)
(* the lower bound of the inheritance: an owner has at least the priority  *)
(* of every thread that waits for its mutexes, unless it lowers its own.   *)
(***************************************************************************)
EXTENDS ChCond, ChSchedProofs, FiniteSetTheorems

\* What the wait states say about wtobjp.
WaitsForObject ==
    \A t \in AllThreads :
        /\ k.p_state[t] = "WTMTX" => wtobjp[t] \in Mutexes
        /\ k.p_state[t] = "WTCOND" => wtobjp[t] \in CondVars

\* The inductive invariant: the ready list, the wait queues, the wait states and
\* the ownership of the mutexes only hold together.
MutexInv ==
    /\ MutexTypeOK
    /\ SchedInv(k)
    /\ WaitsForObject
    /\ Ownership
    /\ Queued
    /\ QueuesSorted

\* The initial state, all threads asleep.
LEMMA InitInv == Init => MutexInv
<1> SUFFICES ASSUME Init PROVE MutexInv OBVIOUS
<1> USE SchedAssumption, MutexAssumption DEF Init
<1>1. PrioAtStart \in [AllThreads -> Prios]
  BY DEF PrioAtStart, AllThreads, Prios, UserPrios, IDLEPRIO, LOWPRIO
<1>2. k \in SchedStates
  BY <1>1 DEF SchedStates, AllThreads, ThreadStates
<1>3. MutexTypeOK
  <2>1. p_mtxlist \in [AllThreads -> Seq(Mutexes)] /\ waitq \in [WaitObjects -> Seq(AllThreads)]
    OBVIOUS
  <2> QED BY <1>1, <1>2, <2>1 DEF MutexTypeOK
<1>4. Len(<<>>) = 0 OBVIOUS
<1>5. Elems(<<>>) = {} BY <1>4 DEF Elems
<1>6. NoDuplicates(<<>>) /\ \A prio : SortedByPrio(<<>>, prio)
  BY <1>4 DEF NoDuplicates, SortedByPrio
<1>7. SchedInv(k) /\ ReadyListOK(k)
  BY <1>2, <1>5, <1>6 DEF SchedInv, ReadyListMembers, ReadyListOK, Runnable, AllThreads
<1>8. WaitsForObject BY DEF WaitsForObject, AllThreads
<1>9. Ownership BY <1>5, <1>6 DEF Ownership, WaitObjects
<1>10. Queued BY <1>5, <1>6 DEF Queued
<1>11. QueuesSorted BY <1>6, <1>7 DEF QueuesSorted
<1> QED BY <1>3, <1>7, <1>8, <1>9, <1>10, <1>11 DEF MutexInv

----------------------------------------------------------------------------
(* Frames: what a step that leaves something alone preserves. *)

\* What the invariant says of the types.
LEMMA Types ==
    ASSUME MutexInv
    PROVE  /\ k \in SchedStates /\ currp \in AllThreads
           /\ k.r_queue \in Seq(AllThreads)
           /\ k.p_state \in [AllThreads -> ThreadStates]
           /\ k.p_prio \in [AllThreads -> Prios]
           /\ k.p_prio \in [AllThreads -> Int]
           /\ p_realprio \in [AllThreads -> Prios]
           /\ p_mtxlist \in [AllThreads -> Seq(Mutexes)]
           /\ m_owner \in [Mutexes -> AllThreads \cup {NULL}]
           /\ waitq \in [WaitObjects -> Seq(AllThreads)]
           /\ wtobjp \in [AllThreads -> WaitObjects \cup {NULL}]
           /\ isr \in BOOLEAN
           /\ NULL \notin AllThreads
BY PriosAreInts, SchedAssumption DEF MutexInv, MutexTypeOK, SchedStates, currp

\* The running thread is in no queue.
LEMMA CurrentNotQueued ==
    ASSUME MutexInv
    PROVE  /\ k.p_state[currp] = "CURRENT"
           /\ currp \notin Elems(k.r_queue)
           /\ \A o \in WaitObjects : currp \notin Elems(waitq[o])
<1>1. k.p_state[currp] = "CURRENT"
  BY Types DEF MutexInv, SchedInv, ReadyListMembers, currp
<1>2. currp \notin Elems(k.r_queue)
  BY <1>1 DEF MutexInv, SchedInv, ReadyListMembers
<1>3. \A o \in WaitObjects : currp \notin Elems(waitq[o])
  BY <1>1 DEF MutexInv, Queued
<1> QED BY <1>1, <1>2, <1>3

\* A step that moves no thread into or out of the wait for a mutex or a
\* condition variable keeps the wait queues consistent.
LEMMA WaitFrame ==
    ASSUME MutexInv, UNCHANGED <<waitq, wtobjp>>,
           \A u \in AllThreads :
              \/ k'.p_state[u] = k.p_state[u]
              \/ /\ k'.p_state[u] \notin {"WTMTX", "WTCOND"}
                 /\ k.p_state[u] \notin {"WTMTX", "WTCOND"}
    PROVE  WaitsForObject' /\ Queued'
<1>1. WaitsForObject' BY DEF MutexInv, WaitsForObject
<1>2. Queued'
  <2>1. \A o \in WaitObjects, u \in AllThreads :
           (k'.p_state[u] = IF o \in Mutexes THEN "WTMTX" ELSE "WTCOND")
             <=> (k.p_state[u] = IF o \in Mutexes THEN "WTMTX" ELSE "WTCOND")
    OBVIOUS
  <2> QED BY <2>1 DEF MutexInv, Queued
<1> QED BY <1>1, <1>2

\* A step that only moves threads between the CPU, the ready list and states
\* that are not a wait for a mutex keeps the whole invariant.
LEMMA SchedulerStep ==
    ASSUME MutexInv, UNCHANGED <<p_mtxlist, m_owner, waitq, wtobjp>>,
           p_realprio' \in [AllThreads -> Prios], isr' \in BOOLEAN,
           SchedInv(k'), ReadyListOK(k'),
           \A u \in AllThreads :
              \/ k'.p_state[u] = k.p_state[u]
              \/ /\ k'.p_state[u] \notin {"WTMTX", "WTCOND"}
                 /\ k.p_state[u] \notin {"WTMTX", "WTCOND"},
           \A o \in WaitObjects : \A u \in Elems(waitq[o]) : k'.p_prio[u] = k.p_prio[u]
    PROVE  MutexInv'
<1>1. MutexTypeOK' BY DEF MutexInv, MutexTypeOK, SchedInv
<1>2. WaitsForObject' /\ Queued' BY WaitFrame
<1>3. Ownership' BY DEF MutexInv, Ownership
<1>4. QueuesSorted'
  <2>1. ASSUME NEW o \in WaitObjects PROVE SortedByPrio(waitq[o], k'.p_prio)
    <3>1. SortedByPrio(waitq[o], k.p_prio) BY DEF MutexInv, QueuesSorted
    <3>2. k'.p_prio \in [AllThreads -> Int] BY PriosAreInts DEF SchedInv, SchedStates
    <3>3. waitq[o] \in Seq(AllThreads) /\ k.p_prio \in [AllThreads -> Int] BY Types
    <3>4. \A u \in Elems(waitq[o]) : k'.p_prio[u] = k.p_prio[u] OBVIOUS
    <3> HIDE DEF MutexInv
    <3> QED BY <3>1, <3>2, <3>3, <3>4, SortedCongruence
  <2> QED BY <2>1 DEF QueuesSorted
<1> QED BY <1>1, <1>2, <1>3, <1>4 DEF MutexInv

\* A thread either keeps its state or becomes runnable; only the running one
\* begins to wait, but not for a condition variable.
ThreadMoves ==
    \A t \in AllThreads :
       \/ k'.p_state[t] = k.p_state[t]
       \/ k'.p_state[t] \in Runnable
       \/ t = currp /\ k'.p_state[t] # "WTCOND"

----------------------------------------------------------------------------
(* The actions. *)

\* chThdSleep() only moves the running thread off the CPU.
LEMMA SleepInv == ASSUME MutexInv, chThdSleep PROVE MutexInv' /\ ThreadMoves
<1>1. /\ SchedInv(k) /\ ReadyListOK(k) /\ k.r_current # Idle
      /\ "SLEEPING" \in ThreadStates \ Runnable
      /\ k' = chSchGoSleepS(k, "SLEEPING")
      /\ UNCHANGED <<isr, p_realprio, p_mtxlist, m_owner, waitq, wtobjp>>
  BY DEF MutexInv, QueuesSorted, chThdSleep, ThreadCode, currp, mtxvars,
         ThreadStates, Runnable
<1>2. /\ SchedInv(k') /\ ReadyListOK(k')
      /\ Keeps(k, k', {k.r_current}) /\ k'.p_state[k.r_current] = "SLEEPING"
  BY <1>1, GoSleepS
<1>3. \A u \in AllThreads :
         \/ k'.p_state[u] = k.p_state[u]
         \/ /\ k'.p_state[u] \notin {"WTMTX", "WTCOND"}
            /\ k.p_state[u] \notin {"WTMTX", "WTCOND"}
  BY <1>2, CurrentNotQueued DEF Keeps, Runnable, currp
<1>4. ThreadMoves BY <1>2 DEF ThreadMoves, Keeps, currp
<1> QED BY <1>1, <1>2, <1>3, <1>4, Types, SchedulerStep DEF Keeps

\* The timer of a sleeping thread makes it ready.
LEMMA WakeSleeperInv ==
    ASSUME MutexInv, NEW t \in Threads, WakeSleeper(t) PROVE MutexInv' /\ ThreadMoves
<1>1. /\ SchedInv(k) /\ ReadyListOK(k) /\ t \in AllThreads
      /\ k.p_state[t] = "SLEEPING" /\ k.p_state[t] \notin Runnable
      /\ k' = chSchReadyI(k, t) /\ isr' \in BOOLEAN
      /\ UNCHANGED <<p_realprio, p_mtxlist, m_owner, waitq, wtobjp>>
  BY DEF MutexInv, QueuesSorted, WakeSleeper, mtxvars, AllThreads, Runnable
<1>2. /\ SchedInv(k') /\ ReadyListOK(k')
      /\ Keeps(k, k', {t}) /\ k'.p_state[t] = "READY"
  BY <1>1, ReadyI
<1>3. \A u \in AllThreads :
         \/ k'.p_state[u] = k.p_state[u]
         \/ /\ k'.p_state[u] \notin {"WTMTX", "WTCOND"}
            /\ k.p_state[u] \notin {"WTMTX", "WTCOND"}
  BY <1>1, <1>2 DEF Keeps, Runnable
<1>4. ThreadMoves BY <1>2 DEF ThreadMoves, Keeps, Runnable
<1> QED BY <1>1, <1>2, <1>3, <1>4, Types, SchedulerStep DEF Keeps

\* The interrupt epilogue exchanges at most the running thread.
LEMMA IrqExitInv == ASSUME MutexInv, IrqExit PROVE MutexInv' /\ ThreadMoves
<1>1. /\ SchedInv(k) /\ ReadyListOK(k)
      /\ k' = IrqEpilogue(k) /\ isr' \in BOOLEAN
      /\ UNCHANGED <<p_realprio, p_mtxlist, m_owner, waitq, wtobjp>>
  BY DEF MutexInv, QueuesSorted, IrqExit, mtxvars
<1>2. SchedInv(k') /\ ReadyListOK(k') /\ Keeps(k, k', {})
  BY <1>1, Epilogue
<1>3. \A u \in AllThreads :
         \/ k'.p_state[u] = k.p_state[u]
         \/ /\ k'.p_state[u] \notin {"WTMTX", "WTCOND"}
            /\ k.p_state[u] \notin {"WTMTX", "WTCOND"}
  BY <1>2 DEF Keeps, Runnable
<1>4. ThreadMoves BY <1>2 DEF ThreadMoves, Keeps
<1> QED BY <1>1, <1>2, <1>3, <1>4, Types, SchedulerStep DEF Keeps

\* chThdSetPriority() changes the priority of the running thread, which is in no
\* queue, and reschedules.
LEMMA SetPriorityInv ==
    ASSUME MutexInv, NEW p \in SetPrios, chThdSetPriority(p) PROVE MutexInv' /\ ThreadMoves
<1> DEFINE raised == k.p_prio[currp] = p_realprio[currp] \/ p > k.p_prio[currp]
           s == IF raised THEN [k EXCEPT !.p_prio[currp] = p] ELSE k
<1>1. p \in Prios BY MutexAssumption DEF UserPrios, Prios, IDLEPRIO, LOWPRIO
<1>2. /\ k' = chSchRescheduleS(s) /\ isr' \in BOOLEAN
      /\ UNCHANGED <<p_mtxlist, m_owner, waitq, wtobjp>>
      /\ p_realprio' = [p_realprio EXCEPT ![currp] = p]
  BY Types DEF chThdSetPriority
<1>3. /\ SchedInv(s) /\ ReadyListOK(s) /\ s.p_state = k.p_state
      /\ \A u \in AllThreads \ {currp} : s.p_prio[u] = k.p_prio[u]
  <2>1. CASE raised
    <3>1. s = WithPrio(k, currp, p) BY <2>1 DEF WithPrio
    <3>2. SchedInv(k) /\ ReadyListOK(k) BY DEF MutexInv, QueuesSorted
    <3> HIDE DEF s
    <3>3. /\ SchedInv(s) /\ ReadyListOK(s) /\ s.p_state = k.p_state
          /\ s.p_prio = [k.p_prio EXCEPT ![currp] = p]
      BY <1>1, <3>1, <3>2, Types, CurrentNotQueued, NewPrio
    <3> QED BY <3>3, Types
  <2>2. CASE ~ raised
    <3>1. s = k BY <2>2
    <3> QED BY <3>1 DEF MutexInv, QueuesSorted
  <2> QED BY <2>1, <2>2
<1> HIDE DEF s
<1>4. SchedInv(k') /\ ReadyListOK(k') /\ Keeps(s, k', {})
  BY <1>2, <1>3, RescheduleS
<1>5. \A u \in AllThreads :
         \/ k'.p_state[u] = k.p_state[u]
         \/ /\ k'.p_state[u] \notin {"WTMTX", "WTCOND"}
            /\ k.p_state[u] \notin {"WTMTX", "WTCOND"}
  BY <1>3, <1>4 DEF Keeps, Runnable
<1>6. \A o \in WaitObjects : \A u \in Elems(waitq[o]) : k'.p_prio[u] = k.p_prio[u]
  BY <1>3, <1>4, Types, CurrentNotQueued DEF Keeps, Elems
<1>7. p_realprio' \in [AllThreads -> Prios] BY <1>1, <1>2, Types
<1>8. ThreadMoves BY <1>3, <1>4 DEF ThreadMoves, Keeps
<1> QED BY <1>2, <1>4, <1>5, <1>6, <1>7, <1>8, SchedulerStep

\* An element put in front of a sequence.
LEMMA Pushed ==
    ASSUME NEW S, NEW q \in Seq(S), NEW m \in S
    PROVE  /\ <<m>> \o q \in Seq(S)
           /\ Elems(<<m>> \o q) = Elems(q) \cup {m}
           /\ NoDuplicates(q) /\ m \notin Elems(q) => NoDuplicates(<<m>> \o q)
<1> DEFINE r == <<m>> \o q
<1>1. /\ r \in Seq(S) /\ Len(r) = Len(q) + 1
      /\ r[1] = m /\ \A i \in 2..Len(q) + 1 : r[i] = q[i - 1]
  BY ConcatProperties
<1> HIDE DEF r
<1>2. \A i \in 1..Len(q) : i + 1 \in 2..Len(q) + 1 /\ r[i + 1] = q[i] BY <1>1
<1>3. \A i \in 2..Len(q) + 1 : i - 1 \in 1..Len(q) OBVIOUS
<1>4. 1 \in 1..Len(r) BY <1>1
<1>5. Elems(r) = Elems(q) \cup {m}
  <2>1. \A i \in 1..Len(r) : i = 1 \/ i \in 2..Len(q) + 1 BY <1>1
  <2>2. \A i \in 1..Len(r) : r[i] \in Elems(q) \cup {m}
    BY <1>1, <1>3, <2>1 DEF Elems
  <2>3. \A i \in 1..Len(q) : q[i] \in Elems(r)
    <3>1. \A i \in 1..Len(q) : i + 1 \in 1..Len(r) BY <1>1
    <3> QED BY <1>2, <3>1 DEF Elems
  <2>4. m \in Elems(r) BY <1>1, <1>4 DEF Elems
  <2> QED BY <2>2, <2>3, <2>4 DEF Elems
<1>6. ASSUME NoDuplicates(q), m \notin Elems(q) PROVE NoDuplicates(r)
  <2>1. \A i \in 2..Len(q) + 1 : r[i] # m BY <1>1, <1>3, <1>6 DEF Elems
  <2>2. \A i, j \in 1..Len(q) : q[i] = q[j] => i = j BY <1>6 DEF NoDuplicates
  <2>3. \A i, j \in 2..Len(q) + 1 : r[i] = r[j] => i = j
    <3> TAKE i, j \in 2..Len(q) + 1
    <3> HAVE r[i] = r[j]
    <3>1. i - 1 = j - 1 BY <1>1, <1>3, <2>2
    <3> QED BY <3>1
  <2> SUFFICES ASSUME NEW i \in 1..Len(r), NEW j \in 1..Len(r), r[i] = r[j]
               PROVE  i = j
    BY DEF NoDuplicates
  <2>4. (i = 1 \/ i \in 2..Len(q) + 1) /\ (j = 1 \/ j \in 2..Len(q) + 1)
    BY <1>1
  <2> QED BY <1>1, <2>1, <2>3, <2>4
<1> QED BY <1>1, <1>5, <1>6 DEF r

\* The running thread takes a free mutex.
LEMMA AcquireInv ==
    ASSUME MutexInv, NEW m \in Mutexes, m_owner[m] = NULL, Acquire(m),
           UNCHANGED isr
    PROVE  MutexInv' /\ ThreadMoves
<1>1. /\ m_owner' = [m_owner EXCEPT ![m] = currp]
      /\ p_mtxlist' = [p_mtxlist EXCEPT ![currp] = <<m>> \o p_mtxlist[currp]]
      /\ UNCHANGED <<k, p_realprio, waitq, wtobjp, isr>>
  BY DEF Acquire
<1>2. \A t \in AllThreads : m \notin Elems(p_mtxlist[t])
  BY Types DEF MutexInv, Ownership
<1>3. /\ <<m>> \o p_mtxlist[currp] \in Seq(Mutexes)
      /\ Elems(<<m>> \o p_mtxlist[currp]) = Elems(p_mtxlist[currp]) \cup {m}
      /\ NoDuplicates(<<m>> \o p_mtxlist[currp])
  <2>1. p_mtxlist[currp] \in Seq(Mutexes) BY Types
  <2>2. NoDuplicates(p_mtxlist[currp]) /\ m \notin Elems(p_mtxlist[currp])
    BY <1>2, Types DEF MutexInv, Ownership
  <2> QED BY <2>1, <2>2, Pushed
<1>4. MutexTypeOK' BY <1>1, <1>3, Types DEF MutexTypeOK
<1>5. WaitsForObject' /\ Queued' BY <1>1, WaitFrame
<1>6. Ownership'
  <2>1. \A t \in AllThreads : NoDuplicates(p_mtxlist'[t])
    BY <1>1, <1>3, Types DEF MutexInv, Ownership
  <2>2. \A x \in Mutexes, t \in AllThreads :
           m_owner'[x] = t <=> x \in Elems(p_mtxlist'[t])
    <3> TAKE x \in Mutexes, t \in AllThreads
    <3>1. m_owner[x] = t <=> x \in Elems(p_mtxlist[t]) BY DEF MutexInv, Ownership
    <3>2. CASE t = currp BY <1>1, <1>3, <3>1, <3>2, Types
    <3>3. CASE t # currp BY <1>1, <1>2, <3>1, <3>3, Types
    <3> QED BY <3>2, <3>3
  <2>3. \A x \in Mutexes : m_owner'[x] = NULL => waitq'[x] = <<>>
    BY <1>1, Types DEF MutexInv, Ownership
  <2> QED BY <2>1, <2>2, <2>3 DEF Ownership
<1>7. QueuesSorted' BY <1>1 DEF MutexInv, QueuesSorted
<1>8. SchedInv(k') BY <1>1 DEF MutexInv
<1>9. ThreadMoves BY <1>1 DEF ThreadMoves
<1> QED BY <1>4, <1>5, <1>6, <1>7, <1>8, <1>9 DEF MutexInv

\* The priority an unlock falls back to is a priority, at least the thread's own
\* and at least that of every first waiter of a mutex it keeps.
LEMMA FallbackPrioOK ==
    ASSUME MutexInv, p_mtxlist[currp] # <<>>
    PROVE  /\ FallbackPrio \in Prios
           /\ FallbackPrio >= p_realprio[currp]
           /\ LET kept == Tail(p_mtxlist[currp])
              IN /\ \A i \in 1..Len(kept) : HeadPrio(kept[i]) <= FallbackPrio
                 /\ \/ FallbackPrio = p_realprio[currp]
                    \/ \E i \in 1..Len(kept) : FallbackPrio = HeadPrio(kept[i])
<1> DEFINE kept == Tail(p_mtxlist[currp])
           own == {p_realprio[currp]} \cup {HeadPrio(kept[i]) : i \in 1..Len(kept)}
<1>1. kept \in Seq(Mutexes)
  <2>1. p_mtxlist[currp] \in Seq(Mutexes) BY Types
  <2> QED BY <2>1, HeadTail
<1> HIDE DEF kept
<1>2. \A m \in Mutexes : HeadPrio(m) \in 0..HIGHPRIO
  <2> TAKE m \in Mutexes
  <2>0. HIGHPRIO \in Nat BY SchedAssumption
  <2>1. CASE waitq[m] = <<>> BY <2>0, <2>1 DEF HeadPrio
  <2>2. CASE waitq[m] # <<>>
    <3>1. waitq[m] \in Seq(AllThreads) BY Types DEF WaitObjects
    <3>2. Head(waitq[m]) \in AllThreads BY <2>2, <3>1, HeadTail
    <3>3. k.p_prio[Head(waitq[m])] \in Prios BY <3>2, Types
    <3> QED BY <2>0, <2>2, <3>3 DEF HeadPrio, Prios, IDLEPRIO
  <2> QED BY <2>1, <2>2
<1>3. p_realprio[currp] \in Prios BY Types
<1>4. own \subseteq 0..HIGHPRIO
  <2>1. \A i \in 1..Len(kept) : kept[i] \in Mutexes BY <1>1
  <2> QED BY <1>2, <1>3, <2>1, SchedAssumption DEF Prios, IDLEPRIO
<1>5. \E p \in own : \A q \in own : q <= p
  <2>1. own # {} /\ HIGHPRIO \in Nat BY SchedAssumption
  <2> HIDE DEF own
  <2> QED BY <1>4, <2>1, GreatestNat
<1>6. FallbackPrio \in own /\ \A q \in own : q <= FallbackPrio
  BY <1>5 DEF FallbackPrio, kept
<1>7. FallbackPrio >= p_realprio[currp] /\ FallbackPrio \in Prios
  BY <1>3, <1>4, <1>6 DEF Prios, IDLEPRIO
<1> QED BY <1>6, <1>7 DEF kept

\* What handing the top mutex over, or freeing it, does to the ownership.
LEMMA HandOverOwnership ==
    ASSUME MutexInv, p_mtxlist[currp] # <<>>,
           NEW m, m = Head(p_mtxlist[currp]), HandOver(m),
           \A x \in Mutexes : waitq'[x] = Unqueued(m)[x]
    PROVE  /\ m_owner' \in [Mutexes -> AllThreads \cup {NULL}]
           /\ p_mtxlist' \in [AllThreads -> Seq(Mutexes)]
           /\ Ownership'
<1>1. /\ p_mtxlist[currp] \in Seq(Mutexes) /\ NoDuplicates(p_mtxlist[currp])
      /\ \A t \in AllThreads : p_mtxlist[t] \in Seq(Mutexes) /\ NoDuplicates(p_mtxlist[t])
      /\ \A x \in Mutexes, t \in AllThreads :
            m_owner[x] = t <=> x \in Elems(p_mtxlist[t])
  BY Types DEF MutexInv, Ownership
<1> DEFINE rest == Tail(p_mtxlist[currp])
<1>2. /\ m \in Mutexes /\ rest \in Seq(Mutexes) /\ NoDuplicates(rest)
      /\ m \in Elems(p_mtxlist[currp])
      /\ Elems(rest) = Elems(p_mtxlist[currp]) \ {m}
  BY <1>1, HeadTail
<1> HIDE DEF rest
<1>3. m_owner[m] = currp /\ currp \in AllThreads BY <1>1, <1>2, Types
<1>4. CASE waitq[m] = <<>>
  <2>1. /\ m_owner' = [m_owner EXCEPT ![m] = NULL]
        /\ p_mtxlist' = [p_mtxlist EXCEPT ![currp] = rest]
        /\ \A x \in Mutexes : waitq'[x] = waitq[x]
    BY <1>4 DEF HandOver, Unqueued, rest
  <2>2. /\ m_owner' \in [Mutexes -> AllThreads \cup {NULL}]
        /\ p_mtxlist' \in [AllThreads -> Seq(Mutexes)]
    BY <1>2, <2>1, Types
  <2>3. \A t \in AllThreads : NoDuplicates(p_mtxlist'[t])
    BY <1>1, <1>2, <2>1, Types
  <2>4. \A x \in Mutexes, t \in AllThreads :
           m_owner'[x] = t <=> x \in Elems(p_mtxlist'[t])
    <3> TAKE x \in Mutexes, t \in AllThreads
    <3>1. CASE t = currp BY <1>1, <1>2, <2>1, <3>1, Types
    <3>2. CASE t # currp BY <1>1, <1>2, <1>3, <2>1, <3>2, Types
    <3> QED BY <3>1, <3>2
  <2>5. \A x \in Mutexes : m_owner'[x] = NULL => waitq'[x] = <<>>
    BY <1>4, <2>1, Types DEF MutexInv, Ownership
  <2> QED BY <2>2, <2>3, <2>4, <2>5 DEF Ownership
<1>5. CASE waitq[m] # <<>>
  <2> DEFINE tp == Head(waitq[m])
             given == <<m>> \o p_mtxlist[tp]
  <2>1. waitq[m] \in Seq(AllThreads) BY <1>2, Types DEF WaitObjects
  <2>2. tp \in AllThreads /\ tp \in Elems(waitq[m]) BY <1>5, <2>1, HeadTail
  <2> HIDE DEF tp
  <2>3. tp # currp BY <1>2, <2>2, CurrentNotQueued DEF WaitObjects
  <2>4. m \notin Elems(p_mtxlist[tp]) BY <1>1, <1>2, <1>3, <2>2, <2>3
  <2>5. /\ given \in Seq(Mutexes) /\ Elems(given) = Elems(p_mtxlist[tp]) \cup {m}
        /\ NoDuplicates(given)
    BY <1>1, <1>2, <2>2, <2>4, Pushed
  <2>6. /\ m_owner' = [m_owner EXCEPT ![m] = tp]
        /\ p_mtxlist' = [[p_mtxlist EXCEPT ![currp] = rest] EXCEPT ![tp] = given]
        /\ \A x \in Mutexes : x # m => waitq'[x] = waitq[x]
    BY <1>5, <2>2, <2>3, Types DEF HandOver, Unqueued, WaitObjects, rest, tp
  <2> HIDE DEF given
  <2>7. /\ m_owner' \in [Mutexes -> AllThreads \cup {NULL}]
        /\ p_mtxlist' \in [AllThreads -> Seq(Mutexes)]
    BY <1>2, <2>2, <2>5, <2>6, Types
  <2>8. \A t \in AllThreads : NoDuplicates(p_mtxlist'[t])
    BY <1>1, <1>2, <2>2, <2>5, <2>6, Types
  <2>9. \A x \in Mutexes, t \in AllThreads :
           m_owner'[x] = t <=> x \in Elems(p_mtxlist'[t])
    <3> TAKE x \in Mutexes, t \in AllThreads
    <3>1. CASE t = currp BY <1>1, <1>2, <2>2, <2>3, <2>6, <3>1, Types
    <3>2. CASE t = tp BY <1>1, <1>2, <2>2, <2>3, <2>5, <2>6, <3>2, Types
    <3>3. CASE t # currp /\ t # tp
      BY <1>1, <1>2, <1>3, <2>2, <2>6, <3>3, Types
    <3> QED BY <3>1, <3>2, <3>3
  <2>10. \A x \in Mutexes : m_owner'[x] = NULL => waitq'[x] = <<>>
    <3> TAKE x \in Mutexes
    <3>1. x = m => m_owner'[x] # NULL BY <1>2, <2>2, <2>6, Types
    <3>2. x # m => m_owner'[x] = m_owner[x] /\ waitq'[x] = waitq[x]
      BY <2>6, Types
    <3> QED BY <3>1, <3>2 DEF MutexInv, Ownership
  <2> QED BY <2>7, <2>8, <2>9, <2>10 DEF Ownership
<1> QED BY <1>4, <1>5

\* A waiter tp leaves the head of the queue of m and becomes runnable, nobody
\* else enters or leaves a wait: the wait queues stay consistent and ordered.
LEMMA HeadLeaves ==
    ASSUME MutexInv, NEW m \in Mutexes, waitq[m] # <<>>,
           waitq' = [waitq EXCEPT ![m] = Tail(waitq[m])], wtobjp' = wtobjp,
           SchedInv(k'), k'.p_state[Head(waitq[m])] \in Runnable,
           \A u \in AllThreads \ {Head(waitq[m])} :
              \/ k'.p_state[u] = k.p_state[u]
              \/ k'.p_state[u] \in Runnable /\ k.p_state[u] \in Runnable,
           \A u \in AllThreads \ {currp} : k'.p_prio[u] = k.p_prio[u]
    PROVE  /\ waitq' \in [WaitObjects -> Seq(AllThreads)]
           /\ WaitsForObject' /\ Queued'
           /\ \A o \in WaitObjects : SortedByPrio(waitq'[o], k'.p_prio)
<1> DEFINE tp == Head(waitq[m])
           q == Tail(waitq[m])
<1>0. /\ m \in WaitObjects
      /\ waitq[m] \in Seq(AllThreads) /\ NoDuplicates(waitq[m])
      /\ Elems(waitq[m]) = {t \in AllThreads : k.p_state[t] = "WTMTX" /\ wtobjp[t] = m}
  <2>1. m \in WaitObjects BY DEF WaitObjects
  <2> QED BY <2>1, Types DEF MutexInv, Queued
<1>1. /\ tp \in AllThreads /\ q \in Seq(AllThreads) /\ tp \in Elems(waitq[m])
      /\ NoDuplicates(q) /\ Elems(q) = Elems(waitq[m]) \ {tp}
      /\ \A prio \in [AllThreads -> Int] :
            SortedByPrio(waitq[m], prio) => SortedByPrio(q, prio)
  BY <1>0, HeadTail
<1> HIDE DEF tp, q
<1>2. /\ waitq' = [waitq EXCEPT ![m] = q]
      /\ k'.p_state[tp] \in Runnable
      /\ k.p_state[tp] = "WTMTX" /\ wtobjp[tp] = m
      /\ \A u \in AllThreads \ {tp} :
            \/ k'.p_state[u] = k.p_state[u]
            \/ k'.p_state[u] \in Runnable /\ k.p_state[u] \in Runnable
  BY <1>0, <1>1 DEF tp, q
<1>3. waitq' \in [WaitObjects -> Seq(AllThreads)] BY <1>0, <1>1, <1>2, Types
<1>4. WaitsForObject'
  BY <1>2 DEF MutexInv, WaitsForObject, Runnable
<1>5. Queued'
  <2> SUFFICES ASSUME NEW o \in WaitObjects
               PROVE  /\ NoDuplicates(waitq'[o])
                      /\ Elems(waitq'[o]) =
                           {t \in AllThreads :
                              /\ k'.p_state[t] = IF o \in Mutexes THEN "WTMTX" ELSE "WTCOND"
                              /\ wtobjp[t] = o}
    BY DEF Queued
  <2>1. /\ NoDuplicates(waitq[o])
        /\ Elems(waitq[o]) =
             {t \in AllThreads :
                /\ k.p_state[t] = IF o \in Mutexes THEN "WTMTX" ELSE "WTCOND"
                /\ wtobjp[t] = o}
    BY DEF MutexInv, Queued
  <2>2. CASE o = m
    <3>1. waitq'[o] = q /\ o \in Mutexes BY <1>0, <1>2, <2>2, Types
    <3>2. \A t \in AllThreads :
             k'.p_state[t] = "WTMTX" <=> k.p_state[t] = "WTMTX" /\ t # tp
      BY <1>2 DEF Runnable
    <3>3. Elems(q) = {t \in AllThreads : k'.p_state[t] = "WTMTX" /\ wtobjp[t] = o}
      BY <1>0, <1>1, <2>2, <3>2
    <3> QED BY <1>1, <2>2, <3>1, <3>3
  <2>3. CASE o # m
    <3>1. waitq'[o] = waitq[o] BY <1>2, <2>3, Types
    <3>2. \A t \in AllThreads :
             (/\ k'.p_state[t] = IF o \in Mutexes THEN "WTMTX" ELSE "WTCOND"
              /\ wtobjp[t] = o)
             <=> (/\ k.p_state[t] = IF o \in Mutexes THEN "WTMTX" ELSE "WTCOND"
                  /\ wtobjp[t] = o)
      BY <1>2, <2>3 DEF Runnable
    <3> QED BY <2>1, <3>1, <3>2
  <2> QED BY <2>2, <2>3
<1>6. ASSUME NEW o \in WaitObjects PROVE SortedByPrio(waitq'[o], k'.p_prio)
  <2>1. /\ k'.p_prio \in [AllThreads -> Int] /\ k.p_prio \in [AllThreads -> Int]
        /\ SortedByPrio(waitq[o], k.p_prio)
    BY PriosAreInts, Types DEF SchedInv, SchedStates, MutexInv, QueuesSorted
  <2>2. SortedByPrio(waitq'[o], k.p_prio)
    BY <1>0, <1>1, <1>2, <2>1, Types
  <2>3. Elems(waitq'[o]) \subseteq Elems(waitq[o])
    BY <1>0, <1>1, <1>2, Types
  <2>4. \A u \in Elems(waitq'[o]) : k.p_prio[u] = k'.p_prio[u]
    <3>1. \A u \in Elems(waitq[o]) : u \in AllThreads \ {currp}
      BY CurrentNotQueued DEF MutexInv, Queued
    <3> QED BY <2>3, <3>1
  <2>5. waitq'[o] \in Seq(AllThreads) BY <1>3
  <2> QED BY <2>1, <2>2, <2>4, <2>5, SortedCongruence
<1> QED BY <1>3, <1>4, <1>5, <1>6

\* chMtxUnlock(): the top mutex goes to its first waiter, who may take the CPU.
LEMMA UnlockInv == ASSUME MutexInv, Unlock PROVE MutexInv' /\ ThreadMoves
<1> DEFINE m == Head(p_mtxlist[currp])
<1>1. m \in Mutexes
  <2>1. p_mtxlist[currp] \in Seq(Mutexes) /\ p_mtxlist[currp] # <<>>
    BY Types DEF Unlock
  <2> QED BY <2>1, HeadTail
<1>2. /\ HandOver(m) /\ waitq' = Unqueued(m) /\ p_mtxlist[currp] # <<>>
      /\ UNCHANGED <<isr, p_realprio, wtobjp>>
      /\ k' = IF waitq[m] = <<>> THEN k
              ELSE chSchWakeupS(Unboosted(m), Head(waitq[m]))
  BY DEF Unlock
<1>3. /\ m_owner' \in [Mutexes -> AllThreads \cup {NULL}]
      /\ p_mtxlist' \in [AllThreads -> Seq(Mutexes)]
      /\ Ownership'
  BY <1>2, HandOverOwnership
<1> HIDE DEF m
<1>4. CASE waitq[m] = <<>>
  <2>1. UNCHANGED <<k, waitq, wtobjp>> BY <1>2, <1>4 DEF Unqueued
  <2>2. WaitsForObject' /\ Queued' BY <2>1, WaitFrame
  <2>3. MutexTypeOK' BY <1>2, <1>3, <2>1, Types DEF MutexTypeOK
  <2>4. SchedInv(k') /\ QueuesSorted' BY <2>1 DEF MutexInv, QueuesSorted
  <2>5. ThreadMoves BY <2>1 DEF ThreadMoves
  <2> QED BY <1>3, <2>2, <2>3, <2>4, <2>5 DEF MutexInv
<1>5. CASE waitq[m] # <<>>
  <2> DEFINE tp == Head(waitq[m])
             s == WithPrio(k, currp, FallbackPrio)
  <2>1. FallbackPrio \in Prios BY <1>2, FallbackPrioOK
  <2>2. k' = chSchWakeupS(s, tp) /\ waitq' = [waitq EXCEPT ![m] = Tail(waitq[m])]
    BY <1>2, <1>5 DEF Unqueued, Unboosted, WithPrio
  <2>3. SchedInv(k) /\ ReadyListOK(k) BY DEF MutexInv, QueuesSorted
  <2>4. /\ SchedInv(s) /\ ReadyListOK(s)
        /\ s.p_state = k.p_state
        /\ s.p_prio = [k.p_prio EXCEPT ![currp] = FallbackPrio]
    BY <2>1, <2>3, Types, CurrentNotQueued, NewPrio
  <2> HIDE DEF s
  <2>5. tp \in AllThreads /\ k.p_state[tp] = "WTMTX"
    <3>1. m \in WaitObjects BY <1>1 DEF WaitObjects
    <3>2. waitq[m] \in Seq(AllThreads) BY <3>1, Types
    <3>3. tp \in Elems(waitq[m]) BY <1>5, <3>2, HeadTail
    <3> QED BY <1>1, <3>1, <3>3 DEF MutexInv, Queued
  <2> HIDE DEF tp
  <2>6. /\ SchedInv(k') /\ ReadyListOK(k')
        /\ Keeps(s, k', {tp}) /\ k'.p_state[tp] \in Runnable
    <3>1. s.p_state[tp] \notin Runnable BY <2>4, <2>5 DEF Runnable
    <3> QED BY <2>2, <2>4, <2>5, <3>1, WakeupS
  <2>7. \A u \in AllThreads \ {currp} : k'.p_prio[u] = k.p_prio[u]
    BY <2>4, <2>6, Types DEF Keeps
  <2>8. \A u \in AllThreads \ {tp} :
           \/ k'.p_state[u] = k.p_state[u]
           \/ k'.p_state[u] \in Runnable /\ k.p_state[u] \in Runnable
    BY <2>4, <2>6 DEF Keeps
  <2>9. /\ waitq' \in [WaitObjects -> Seq(AllThreads)]
        /\ WaitsForObject' /\ Queued'
        /\ \A o \in WaitObjects : SortedByPrio(waitq'[o], k'.p_prio)
    BY <1>1, <1>2, <1>5, <2>2, <2>6, <2>7, <2>8, HeadLeaves DEF tp
  <2>10. MutexTypeOK' BY <1>2, <1>3, <2>6, <2>9, Types DEF MutexTypeOK, SchedInv
  <2>11. ThreadMoves BY <2>6, <2>8 DEF ThreadMoves
  <2> QED BY <1>3, <2>6, <2>9, <2>10, <2>11 DEF MutexInv, QueuesSorted
<1> QED BY <1>4, <1>5
----------------------------------------------------------------------------
(* The priority inheritance loop. *)

\* What every turn of the loop maintains: nobody changes state, every queue
\* keeps its members, and every queue is in order for the priorities so far.
BoostStates ==
    {b \in [s : SchedStates, q : [WaitObjects -> Seq(AllThreads)],
            tp : AllThreads \cup {NULL}] :
        /\ SchedInv(b.s) /\ ReadyListOK(b.s)
        /\ b.s.p_state = k.p_state /\ b.s.r_current = k.r_current
        /\ \A o \in WaitObjects : /\ NoDuplicates(b.q[o])
                                  /\ Elems(b.q[o]) = Elems(waitq[o])
                                  /\ SortedByPrio(b.q[o], b.s.p_prio)}

\* A thread that changes its priority outside a queue does not disturb it.
LEMMA Undisturbed ==
    ASSUME NEW q \in Seq(AllThreads), NEW f \in [AllThreads -> Prios],
           NEW t \in AllThreads, NEW p \in Prios,
           t \notin Elems(q), SortedByPrio(q, f)
    PROVE  SortedByPrio(q, [f EXCEPT ![t] = p])
<1> DEFINE g == [f EXCEPT ![t] = p]
<1>1. g \in [AllThreads -> Int] /\ f \in [AllThreads -> Int] BY PriosAreInts
<1>2. \A u \in Elems(q) : f[u] = g[u] BY DEF Elems
<1> HIDE DEF g
<1>3. SortedByPrio(q, g) BY <1>1, <1>2, SortedCongruence
<1> QED BY <1>3 DEF g

\* A thread that changes its priority inside a queue and is inserted again.
LEMMA Requeued ==
    ASSUME NEW q \in Seq(AllThreads), NEW f \in [AllThreads -> Prios],
           NEW t \in Elems(q), NEW p \in Prios, NoDuplicates(q)
    PROVE  LET g == [f EXCEPT ![t] = p]
               r == prio_insert(dequeue(q, t), g, t)
           IN /\ r \in Seq(AllThreads) /\ NoDuplicates(r)
              /\ Elems(r) = Elems(q)
              /\ SortedByPrio(q, f) => SortedByPrio(r, g)
<1> DEFINE g == [f EXCEPT ![t] = p]
           d == dequeue(q, t)
           r == prio_insert(d, g, t)
<1>1. t \in AllThreads BY DEF Elems
<1>2. g \in [AllThreads -> Prios] /\ g \in [AllThreads -> Int]
      /\ f \in [AllThreads -> Int]
  BY PriosAreInts
<1>3. /\ d \in Seq(AllThreads) /\ Elems(d) = Elems(q) \ {t} /\ NoDuplicates(d)
      /\ SortedByPrio(q, f) => SortedByPrio(d, f)
  BY <1>2, Dequeue
<1> HIDE DEF d
<1>4. SortedByPrio(q, f) => SortedByPrio(d, g)
  BY <1>1, <1>3, Undisturbed
<1> HIDE DEF g
<1>5. /\ r \in Seq(AllThreads) /\ Elems(r) = Elems(d) \cup {t}
      /\ NoDuplicates(r)
      /\ SortedByPrio(d, g) => SortedByPrio(r, g)
  <2>1. d \in Seq(AllThreads) /\ g \in [AllThreads -> Int] BY <1>2, <1>3
  <2>2. /\ prio_insert(d, g, t) \in Seq(AllThreads)
        /\ Elems(prio_insert(d, g, t)) = Elems(d) \cup {t}
        /\ NoDuplicates(d) /\ t \notin Elems(d)
             => NoDuplicates(prio_insert(d, g, t))
        /\ SortedByPrio(d, g) => SortedByPrio(prio_insert(d, g, t), g)
    BY <1>1, <2>1, PrioInsert
  <2>3. NoDuplicates(d) /\ t \notin Elems(d) BY <1>3
  <2> QED BY <2>2, <2>3
<1>6. Elems(r) = Elems(q) BY <1>3, <1>5
<1> QED BY <1>4, <1>5, <1>6 DEF g, d

\* What a state of the loop consists of.
LEMMA BoostState ==
    ASSUME NEW s, SchedInv(s), ReadyListOK(s), s.p_state = k.p_state,
           s.r_current = k.r_current,
           NEW q \in [WaitObjects -> Seq(AllThreads)],
           \A o \in WaitObjects : /\ NoDuplicates(q[o])
                                  /\ Elems(q[o]) = Elems(waitq[o])
                                  /\ SortedByPrio(q[o], s.p_prio),
           NEW n \in AllThreads \cup {NULL}
    PROVE  [s |-> s, q |-> q, tp |-> n] \in BoostStates
BY DEF BoostStates, SchedInv

\* One turn of the loop.
LEMMA BoostStepOK ==
    ASSUME MutexInv, NEW b \in BoostStates, NEW prio \in Prios
    PROVE  BoostStep(b, prio) \in BoostStates
<1> DEFINE t  == b.tp
           o  == wtobjp[t]
           s1 == WithPrio(b.s, t, prio)
           q1 == [b.q EXCEPT ![o] = prio_insert(dequeue(b.q[o], t), s1.p_prio, t)]
<1>1. /\ b \in [s : SchedStates, q : [WaitObjects -> Seq(AllThreads)],
                tp : AllThreads \cup {NULL}]
      /\ SchedInv(b.s) /\ ReadyListOK(b.s)
      /\ b.s.p_state = k.p_state /\ b.s.r_current = k.r_current
      /\ \A x \in WaitObjects : /\ NoDuplicates(b.q[x])
                                /\ Elems(b.q[x]) = Elems(waitq[x])
                                /\ SortedByPrio(b.q[x], b.s.p_prio)
  BY DEF BoostStates
<1>2. CASE t = NULL \/ b.s.p_prio[t] >= prio
  <2>1. BoostStep(b, prio) = [b EXCEPT !.tp = NULL] BY <1>2 DEF BoostStep
  <2>2. [b EXCEPT !.tp = NULL] = [s |-> b.s, q |-> b.q, tp |-> NULL] BY <1>1
  <2> QED BY <1>1, <2>1, <2>2 DEF BoostStates
<1>3. CASE ~ (t = NULL \/ b.s.p_prio[t] >= prio)
  <2>1. t \in AllThreads /\ b.s.p_prio \in [AllThreads -> Prios]
    BY <1>1, <1>3 DEF SchedStates
  <2>3. \A x \in WaitObjects :
           t \in Elems(waitq[x]) =>
             /\ k.p_state[t] = IF x \in Mutexes THEN "WTMTX" ELSE "WTCOND"
             /\ wtobjp[t] = x
    BY DEF MutexInv, Queued
  <2>4. t \in Elems(b.s.r_queue) <=> k.p_state[t] = "READY"
    BY <1>1, <2>1 DEF SchedInv, ReadyListMembers
  <2>5. \A x \in WaitObjects : t \notin Elems(b.q[x]) =>
           SortedByPrio(b.q[x], [b.s.p_prio EXCEPT ![t] = prio])
    BY <1>1, <2>1, Undisturbed
  <2>6. k.p_state[t] # "READY" =>
           /\ SchedInv(s1) /\ ReadyListOK(s1) /\ s1 \in SchedStates
           /\ s1.p_state = k.p_state /\ s1.r_current = k.r_current
           /\ s1.p_prio = [b.s.p_prio EXCEPT ![t] = prio]
    BY <1>1, <2>1, <2>4, NewPrio DEF SchedInv
  <2>7. CASE k.p_state[t] = "WTMTX" \/ k.p_state[t] = "WTCOND"
    <3>0. /\ o \in WaitObjects /\ t \in Elems(b.q[o])
      <4>1. o \in WaitObjects /\ (o \in Mutexes <=> k.p_state[t] = "WTMTX")
        BY <2>1, <2>7, MutexAssumption DEF MutexInv, WaitsForObject, WaitObjects
      <4>2. t \in Elems(waitq[o]) BY <2>1, <2>7, <4>1 DEF MutexInv, Queued
      <4> QED BY <1>1, <4>1, <4>2
    <3>1. b.q[o] \in Seq(AllThreads) /\ NoDuplicates(b.q[o]) BY <1>1, <3>0
    <3> DEFINE r == prio_insert(dequeue(b.q[o], t), [b.s.p_prio EXCEPT ![t] = prio], t)
    <3>2. /\ r \in Seq(AllThreads) /\ NoDuplicates(r) /\ Elems(r) = Elems(b.q[o])
          /\ SortedByPrio(b.q[o], b.s.p_prio)
               => SortedByPrio(r, [b.s.p_prio EXCEPT ![t] = prio])
      BY <2>1, <3>0, <3>1, Requeued
    <3>3. q1 = [b.q EXCEPT ![o] = r] BY <2>6, <2>7
    <3> HIDE DEF r
    <3> HIDE DEF q1
    <3>4. q1 \in [WaitObjects -> Seq(AllThreads)] BY <1>1, <3>0, <3>2, <3>3
    <3>5. \A x \in WaitObjects : /\ NoDuplicates(q1[x])
                                 /\ Elems(q1[x]) = Elems(waitq[x])
                                 /\ SortedByPrio(q1[x], [b.s.p_prio EXCEPT ![t] = prio])
      <4> TAKE x \in WaitObjects
      <4>1. CASE x = o BY <1>1, <3>0, <3>2, <3>3, <4>1
      <4>2. CASE x # o
        <5>1. q1[x] = b.q[x] BY <1>1, <3>3, <4>2
        <5>2. t \notin Elems(b.q[x])
          <6>1. t \notin Elems(waitq[x]) BY <2>3, <4>2
          <6> QED BY <1>1, <6>1
        <5> QED BY <1>1, <2>5, <5>1, <5>2
      <4> QED BY <4>1, <4>2
    <3>6. \E n \in AllThreads \cup {NULL} :
             BoostStep(b, prio) = [s |-> s1, q |-> q1, tp |-> n]
      <4>1. CASE k.p_state[t] = "WTMTX"
        <5>1. o \in Mutexes BY <2>1, <4>1 DEF MutexInv, WaitsForObject
        <5>2. m_owner[o] \in AllThreads \cup {NULL} BY <5>1, Types
        <5>3. BoostStep(b, prio) = [s |-> s1, q |-> q1, tp |-> m_owner[o]]
          BY <1>1, <1>3, <4>1 DEF BoostStep, WithPrio, q1
        <5> QED BY <5>2, <5>3
      <4>2. CASE k.p_state[t] = "WTCOND"
        <5>1. BoostStep(b, prio) = [s |-> s1, q |-> q1, tp |-> NULL]
          BY <1>1, <1>3, <4>2 DEF BoostStep, WithPrio, q1
        <5> QED BY <5>1
      <4> QED BY <2>7, <4>1, <4>2
    <3>7. PICK n \in AllThreads \cup {NULL} :
             BoostStep(b, prio) = [s |-> s1, q |-> q1, tp |-> n]
      BY <3>6
    <3> HIDE DEF s1
    <3>8. /\ SchedInv(s1) /\ ReadyListOK(s1) /\ s1 \in SchedStates
          /\ s1.p_state = k.p_state /\ s1.r_current = k.r_current
          /\ s1.p_prio = [b.s.p_prio EXCEPT ![t] = prio]
      BY <2>6, <2>7
    <3>9. \A x \in WaitObjects : /\ NoDuplicates(q1[x])
                                 /\ Elems(q1[x]) = Elems(waitq[x])
                                 /\ SortedByPrio(q1[x], s1.p_prio)
      BY <3>5, <3>8
    <3>10. [s |-> s1, q |-> q1, tp |-> n] \in BoostStates
      BY <3>4, <3>8, <3>9, BoostState
    <3> QED BY <3>7, <3>10
  <2>8. CASE k.p_state[t] = "READY"
    <3> DEFINE r == prio_insert(dequeue(b.s.r_queue, t), [b.s.p_prio EXCEPT ![t] = prio], t)
               s2 == chSchReadyI([s1 EXCEPT !.r_queue = dequeue(@, t)], t)
    <3>1. BoostStep(b, prio) = [s |-> s2, q |-> b.q, tp |-> NULL]
      BY <1>1, <1>3, <2>8 DEF BoostStep, WithPrio
    <3>2. b.s \in SchedStates /\ b.s.r_queue \in Seq(AllThreads)
          /\ NoDuplicates(b.s.r_queue) /\ SortedByPrio(b.s.r_queue, b.s.p_prio)
      BY <1>1 DEF SchedStates, ReadyListOK, ReadyListMembers
    <3>3. /\ r \in Seq(AllThreads) /\ NoDuplicates(r)
          /\ Elems(r) = Elems(b.s.r_queue)
          /\ SortedByPrio(r, [b.s.p_prio EXCEPT ![t] = prio])
      BY <2>1, <2>4, <2>8, <3>2, Requeued
    <3>4. /\ s2.r_queue = r
          /\ s2.p_prio = [b.s.p_prio EXCEPT ![t] = prio]
          /\ s2.p_state = [b.s.p_state EXCEPT ![t] = "READY"]
          /\ s2.r_current = b.s.r_current
          /\ s2.p_preempt = b.s.p_preempt
          /\ s2 = [b.s EXCEPT !.r_queue = s2.r_queue, !.p_prio = s2.p_prio,
                              !.p_state = s2.p_state]
      BY <3>2 DEF chSchReadyI, WithPrio, SchedStates
    <3> HIDE DEF r, s2
    <3>5. [b.s.p_prio EXCEPT ![t] = prio] \in [AllThreads -> Prios] BY <2>1
    <3>6. s2.p_state = b.s.p_state
      BY <1>1, <2>1, <2>8, <3>2, <3>4 DEF SchedStates
    <3>7. s2 \in SchedStates
      BY <3>2, <3>3, <3>4, <3>5, <3>6 DEF SchedStates
    <3>8. SchedInv(s2) /\ ReadyListOK(s2)
      BY <1>1, <3>3, <3>4, <3>6, <3>7 DEF SchedInv, ReadyListOK, ReadyListMembers
    <3>9. \A x \in WaitObjects : t \notin Elems(b.q[x])
      BY <1>1, <2>3, <2>8
    <3>10. \A x \in WaitObjects : /\ NoDuplicates(b.q[x])
                                  /\ Elems(b.q[x]) = Elems(waitq[x])
                                  /\ SortedByPrio(b.q[x], s2.p_prio)
      BY <1>1, <2>5, <3>4, <3>9
    <3>11. /\ s2.p_state = k.p_state /\ s2.r_current = k.r_current
           /\ b.q \in [WaitObjects -> Seq(AllThreads)]
      BY <1>1, <3>4, <3>6
    <3> QED BY <3>1, <3>8, <3>10, <3>11, BoostState
  <2>9. CASE k.p_state[t] \notin {"READY", "WTMTX", "WTCOND"}
    <3>1. BoostStep(b, prio) = [s |-> s1, q |-> b.q, tp |-> NULL]
      BY <1>1, <1>3, <2>9 DEF BoostStep, WithPrio
    <3>2. \A x \in WaitObjects : t \notin Elems(b.q[x])
      BY <1>1, <2>3, <2>9
    <3> HIDE DEF s1
    <3>3. /\ SchedInv(s1) /\ ReadyListOK(s1) /\ s1 \in SchedStates
          /\ s1.p_state = k.p_state /\ s1.r_current = k.r_current
          /\ s1.p_prio = [b.s.p_prio EXCEPT ![t] = prio]
      BY <2>6, <2>9
    <3>4. \A x \in WaitObjects : /\ NoDuplicates(b.q[x])
                                 /\ Elems(b.q[x]) = Elems(waitq[x])
                                 /\ SortedByPrio(b.q[x], s1.p_prio)
      BY <1>1, <2>5, <3>2, <3>3
    <3>5. b.q \in [WaitObjects -> Seq(AllThreads)] BY <1>1
    <3>6. [s |-> s1, q |-> b.q, tp |-> NULL] \in BoostStates
      BY <3>3, <3>4, <3>5, BoostState
    <3> QED BY <3>1, <3>6
  <2> QED BY <2>7, <2>8, <2>9
<1> QED BY <1>2, <1>3

\* f holds the states of the loop after each of its turns.
IsBoostRun(f, owner, prio) ==
    /\ f[0] = [s |-> k, q |-> waitq, tp |-> owner]
    /\ \A i \in 1..Cardinality(AllThreads) : f[i] = BoostStep(f[i - 1], prio)
    /\ \A i \in 0..Cardinality(AllThreads) : f[i] \in BoostStates
    /\ Boost(owner, prio) = f[Cardinality(AllThreads)]

\* The loop has such a sequence of states.
LEMMA BoostTurns ==
    ASSUME MutexInv, NEW owner \in AllThreads \cup {NULL}, NEW prio \in Prios
    PROVE  /\ Cardinality(AllThreads) \in Nat
           /\ \E f : IsBoostRun(f, owner, prio)
<1> DEFINE n == Cardinality(AllThreads)
           x0 == [s |-> k, q |-> waitq, tp |-> owner]
           F == [p \in (1..n) \X BoostStates |-> BoostStep(p[2], prio)]
           Loop(b) == b = [i \in 0..n |-> IF i = 0 THEN x0 ELSE BoostStep(b[i - 1], prio)]
           b == CHOOSE b : Loop(b)
<1>1. n \in Nat
  <2>1. IsFiniteSet(AllThreads)
    BY SchedAssumption, FS_AddElement DEF AllThreads
  <2> QED BY <2>1, FS_CardinalityType
<1>2. x0 \in BoostStates
  <2>1. SchedInv(k) /\ ReadyListOK(k) BY DEF MutexInv, QueuesSorted
  <2>2. \A o \in WaitObjects : /\ NoDuplicates(waitq[o])
                               /\ SortedByPrio(waitq[o], k.p_prio)
    BY DEF MutexInv, QueuesSorted, Queued
  <2>3. waitq \in [WaitObjects -> Seq(AllThreads)] BY Types
  <2> QED BY <2>1, <2>2, <2>3, BoostState
<1>3. F \in [(1..n) \X BoostStates -> BoostStates] BY BoostStepOK
<1>4. Boost(owner, prio) = b[n] BY DEF Boost
<1> HIDE DEF n, x0
<1>5. /\ \E f \in [0..n -> BoostStates] : IsIteration(f, n, x0, F)
      /\ \A f : Follows(f, n, BoostStates, x0, F)
                  => \A i \in 0..n : f[i] \in BoostStates
  <2> HIDE DEF F
  <2> QED BY <1>1, <1>2, <1>3, Iteration
<1>6. \E f : Loop(f)
  <2>1. PICK f \in [0..n -> BoostStates] : IsIteration(f, n, x0, F)
    BY <1>5
  <2>2. \A i \in 0..n : f[i] \in BoostStates
    OBVIOUS
  <2>3. \A i \in 0..n : i # 0 =>
           /\ i \in 1..n /\ i - 1 \in 0..n
           /\ F[<<i, f[i - 1]>>] = BoostStep(f[i - 1], prio)
    BY <1>1, <2>2
  <2> HIDE DEF F
  <2>4. Loop(f) BY <1>1, <2>1, <2>3 DEF IsIteration
  <2> QED BY <2>4
<1>7. Loop(b)
  <2> HIDE DEF Loop
  <2> QED BY <1>6
<1> HIDE DEF b
<1>8. /\ b[0] = x0
      /\ \A i \in 1..n : b[i] = BoostStep(b[i - 1], prio)
  BY <1>1, <1>7
<1>9. \A i \in 0..n : b[i] \in BoostStates
  <2>1. Follows(b, n, BoostStates, x0, F) BY <1>1, <1>8 DEF Follows
  <2> QED BY <1>5, <2>1
<1> HIDE DEF F
<1>10. IsBoostRun(b, owner, prio)
  BY <1>4, <1>8, <1>9 DEF n, x0, IsBoostRun
<1> QED BY <1>1, <1>10 DEF n

\* The whole inheritance loop ends in a state of the loop.
LEMMA BoostOK ==
    ASSUME MutexInv, NEW owner \in AllThreads \cup {NULL}, NEW prio \in Prios
    PROVE  Boost(owner, prio) \in BoostStates
<1>1. Cardinality(AllThreads) \in Nat BY BoostTurns
<1>2. Cardinality(AllThreads) \in 0..Cardinality(AllThreads) BY <1>1
<1>3. PICK f : IsBoostRun(f, owner, prio) BY BoostTurns
<1> QED BY <1>2, <1>3 DEF IsBoostRun

\* The running thread queues on an owned mutex after the loop.
LEMMA BlockInv ==
    ASSUME MutexInv, ThreadCode, NEW m \in Mutexes, m_owner[m] # NULL, Block(m),
           UNCHANGED isr
    PROVE  MutexInv' /\ ThreadMoves
<1> DEFINE b == Boost(m_owner[m], k.p_prio[currp])
           q == prio_insert(b.q[m], b.s.p_prio, currp)
<1>1. m_owner[m] \in AllThreads \cup {NULL} /\ k.p_prio[currp] \in Prios
  BY Types
<1>2. b \in BoostStates BY <1>1, BoostOK
<1>3. /\ waitq' = [b.q EXCEPT ![m] = q]
      /\ wtobjp' = [wtobjp EXCEPT ![currp] = m]
      /\ k' = chSchGoSleepS(b.s, "WTMTX")
      /\ UNCHANGED <<p_realprio, p_mtxlist, m_owner, isr>>
  BY DEF Block
<1> HIDE DEF b
<1>4. /\ b.q \in [WaitObjects -> Seq(AllThreads)]
      /\ SchedInv(b.s) /\ ReadyListOK(b.s)
      /\ b.s.p_state = k.p_state /\ b.s.r_current = currp
      /\ \A o \in WaitObjects : /\ NoDuplicates(b.q[o])
                                /\ Elems(b.q[o]) = Elems(waitq[o])
                                /\ SortedByPrio(b.q[o], b.s.p_prio)
  BY <1>2 DEF BoostStates, currp
<1>5. "WTMTX" \in ThreadStates \ Runnable /\ currp # Idle
  BY DEF ThreadStates, Runnable, ThreadCode
<1>6. /\ SchedInv(k') /\ ReadyListOK(k')
      /\ Keeps(b.s, k', {currp}) /\ k'.p_state[currp] = "WTMTX"
  BY <1>3, <1>4, <1>5, GoSleepS
<1>7. m \in WaitObjects /\ m \notin CondVars
  BY MutexAssumption DEF WaitObjects
<1>8. /\ q \in Seq(AllThreads) /\ NoDuplicates(q)
      /\ Elems(q) = Elems(waitq[m]) \cup {currp}
      /\ SortedByPrio(q, b.s.p_prio)
  <2>1. b.q[m] \in Seq(AllThreads) BY <1>4, <1>7
  <2>2. b.s.p_prio \in [AllThreads -> Int]
    BY <1>4, PriosAreInts DEF SchedInv, SchedStates
  <2>3. currp \notin Elems(b.q[m]) BY <1>4, <1>7, CurrentNotQueued
  <2>4. NoDuplicates(b.q[m]) /\ SortedByPrio(b.q[m], b.s.p_prio) BY <1>4, <1>7
  <2>5. /\ q \in Seq(AllThreads) /\ Elems(q) = Elems(b.q[m]) \cup {currp}
        /\ NoDuplicates(q) /\ SortedByPrio(q, b.s.p_prio)
    <3>1. currp \in AllThreads BY Types
    <3> DEFINE qm == b.q[m]
               prio == b.s.p_prio
    <3>2. q = prio_insert(qm, prio, currp) OBVIOUS
    <3>3. qm \in Seq(AllThreads) /\ prio \in [AllThreads -> Int]
      BY <2>1, <2>2
    <3> HIDE DEF qm, prio, q
    <3>4. /\ prio_insert(qm, prio, currp) \in Seq(AllThreads)
          /\ Elems(prio_insert(qm, prio, currp)) = Elems(qm) \cup {currp}
          /\ NoDuplicates(qm) /\ currp \notin Elems(qm)
               => NoDuplicates(prio_insert(qm, prio, currp))
          /\ SortedByPrio(qm, prio) => SortedByPrio(prio_insert(qm, prio, currp), prio)
      BY <3>1, <3>3, PrioInsert
    <3> QED BY <2>3, <2>4, <3>2, <3>4 DEF qm, prio
  <2> QED BY <1>4, <1>7, <2>5
<1> HIDE DEF q
<1>9. MutexTypeOK'
  <2>1. waitq' \in [WaitObjects -> Seq(AllThreads)] BY <1>3, <1>4, <1>7, <1>8
  <2>2. wtobjp' \in [AllThreads -> WaitObjects \cup {NULL}] BY <1>3, <1>7, Types
  <2> QED BY <1>3, <1>6, <2>1, <2>2, Types DEF MutexTypeOK, SchedInv
<1>10. \A u \in AllThreads \ {currp} :
          /\ wtobjp'[u] = wtobjp[u]
          /\ \/ k'.p_state[u] = k.p_state[u]
             \/ k'.p_state[u] \in Runnable /\ k.p_state[u] \in Runnable
  BY <1>3, <1>4, <1>6, Types DEF Keeps
<1>11. wtobjp'[currp] = m BY <1>3, Types
<1>12. WaitsForObject'
  <2> SUFFICES ASSUME NEW t \in AllThreads
               PROVE  /\ k'.p_state[t] = "WTMTX" => wtobjp'[t] \in Mutexes
                      /\ k'.p_state[t] = "WTCOND" => wtobjp'[t] \in CondVars
    BY DEF WaitsForObject
  <2>1. CASE t = currp BY <1>6, <1>11, <2>1
  <2>2. CASE t # currp BY <1>10, <2>2 DEF MutexInv, WaitsForObject, Runnable
  <2> QED BY <2>1, <2>2
<1>13. Ownership'
  <2>1. \A x \in Mutexes : m_owner[x] = NULL => waitq'[x] = <<>>
    <3> TAKE x \in Mutexes
    <3> HAVE m_owner[x] = NULL
    <3>1. x # m /\ x \in WaitObjects /\ waitq[x] = <<>>
      BY DEF WaitObjects, MutexInv, Ownership
    <3>2. waitq'[x] = b.q[x] /\ b.q[x] \in Seq(AllThreads)
      BY <1>3, <1>4, <3>1
    <3>0. Len(<<>>) = 0 OBVIOUS
    <3>3. Elems(b.q[x]) = {}
      <4>1. Elems(waitq[x]) = {} BY <3>0, <3>1 DEF Elems
      <4> QED BY <1>4, <3>1, <4>1
    <3>4. Len(b.q[x]) = 0 BY <3>2, <3>3 DEF Elems
    <3> QED BY <3>2, <3>4
  <2> QED BY <1>3, <2>1 DEF MutexInv, Ownership
<1>14. Queued'
  <2> SUFFICES ASSUME NEW o \in WaitObjects
               PROVE  /\ NoDuplicates(waitq'[o])
                      /\ Elems(waitq'[o]) =
                           {t \in AllThreads :
                              /\ k'.p_state[t] = IF o \in Mutexes THEN "WTMTX" ELSE "WTCOND"
                              /\ wtobjp'[t] = o}
    BY DEF Queued
  <2>1. Elems(waitq[o]) =
          {t \in AllThreads :
             /\ k.p_state[t] = IF o \in Mutexes THEN "WTMTX" ELSE "WTCOND"
             /\ wtobjp[t] = o}
    BY DEF MutexInv, Queued
  <2>2. \A t \in AllThreads \ {currp} :
           (/\ k'.p_state[t] = IF o \in Mutexes THEN "WTMTX" ELSE "WTCOND"
            /\ wtobjp'[t] = o)
           <=> (/\ k.p_state[t] = IF o \in Mutexes THEN "WTMTX" ELSE "WTCOND"
                /\ wtobjp[t] = o)
    BY <1>10 DEF Runnable
  <2>3. currp \notin Elems(waitq[o]) BY CurrentNotQueued
  <2>4. CASE o = m
    <3>1. waitq'[o] = q BY <1>3, <1>4, <1>7, <2>4
    <3>2. Elems(q) = {t \in AllThreads : k'.p_state[t] = "WTMTX" /\ wtobjp'[t] = o}
      BY <1>6, <1>8, <1>11, <2>1, <2>2, <2>3, <2>4, Types
    <3> QED BY <1>8, <2>4, <3>1, <3>2
  <2>5. CASE o # m
    <3>1. waitq'[o] = b.q[o] BY <1>3, <1>4, <2>5
    <3>2. Elems(b.q[o]) = Elems(waitq[o]) /\ NoDuplicates(b.q[o]) BY <1>4
    <3>3. wtobjp'[currp] # o BY <1>11, <2>5
    <3>4. Elems(waitq[o]) =
            {t \in AllThreads :
               /\ k'.p_state[t] = IF o \in Mutexes THEN "WTMTX" ELSE "WTCOND"
               /\ wtobjp'[t] = o}
      BY <2>1, <2>2, <2>3, <3>3, Types
    <3> QED BY <3>1, <3>2, <3>4
  <2> QED BY <2>4, <2>5
<1>15. QueuesSorted'
  <2>1. \A o \in WaitObjects : SortedByPrio(waitq'[o], k'.p_prio)
    <3> TAKE o \in WaitObjects
    <3>1. k'.p_prio = b.s.p_prio BY <1>6 DEF Keeps
    <3>2. waitq'[o] = IF o = m THEN q ELSE b.q[o] BY <1>3, <1>4
    <3> QED BY <1>4, <1>8, <3>1, <3>2
  <2> QED BY <1>6, <2>1 DEF QueuesSorted
<1>16. ThreadMoves BY <1>6, <1>10 DEF ThreadMoves
<1> QED BY <1>6, <1>9, <1>12, <1>13, <1>14, <1>15, <1>16 DEF MutexInv

\* chMtxLock() and chMtxTryLock().
LEMMA LockInv ==
    ASSUME MutexInv, NEW m \in Mutexes, Lock(m) \/ TryLock(m) PROVE MutexInv' /\ ThreadMoves
BY AcquireInv, BlockInv DEF Lock, TryLock, chMtxLockS

----------------------------------------------------------------------------
(* chMtxUnlockAll() *)

\* The first waiters of the mutexes ms become ready, nothing else changes.
LEMMA ReadyHeadsOK ==
    ASSUME MutexInv, NEW ms \in Seq(Mutexes), NoDuplicates(ms)
    PROVE  LET r == ReadyHeads(k, ms)
           IN /\ SchedInv(r) /\ ReadyListOK(r)
              /\ r.p_prio = k.p_prio /\ r.r_current = currp
              /\ \A u \in AllThreads :
                    IF \E i \in 1..Len(ms) :
                          waitq[ms[i]] # <<>> /\ u = Head(waitq[ms[i]])
                    THEN r.p_state[u] = "READY"
                    ELSE r.p_state[u] = k.p_state[u]
<1> DEFINE n == Len(ms)
           Waits(i) == waitq[ms[i]] # <<>>
           First(i) == Head(waitq[ms[i]])
           Turn(i, s) == IF Waits(i) THEN chSchReadyI(s, First(i)) ELSE s
           F == [p \in (1..n) \X SchedStates |-> Turn(p[1], p[2])]
           Loop(b) == b = [i \in 0..n |-> IF i = 0 THEN k ELSE Turn(i, b[i - 1])]
           b == CHOOSE b : Loop(b)
<1>1. n \in Nat /\ k \in SchedStates BY Types
<1>2. \A i \in 1..n : Waits(i) =>
         /\ First(i) \in AllThreads
         /\ k.p_state[First(i)] = "WTMTX" /\ wtobjp[First(i)] = ms[i]
  <2> TAKE i \in 1..n
  <2> HAVE Waits(i)
  <2>1. ms[i] \in Mutexes /\ ms[i] \in WaitObjects BY DEF WaitObjects
  <2>2. waitq[ms[i]] \in Seq(AllThreads) BY <2>1, Types
  <2>3. First(i) \in AllThreads /\ First(i) \in Elems(waitq[ms[i]])
    BY <2>2, HeadTail
  <2> HIDE DEF First
  <2> QED BY <2>1, <2>3 DEF MutexInv, Queued
<1>3. \A i, j \in 1..n : Waits(i) /\ Waits(j) /\ First(i) = First(j) => i = j
  <2> TAKE i, j \in 1..n
  <2> HAVE Waits(i) /\ Waits(j) /\ First(i) = First(j)
  <2>1. ms[i] = ms[j]
    <3>1. wtobjp[First(i)] = ms[i] /\ wtobjp[First(j)] = ms[j] BY <1>2
    <3> QED BY <3>1
  <2> QED BY <2>1 DEF NoDuplicates
<1>4. ReadyHeads(k, ms) = b[n] BY DEF ReadyHeads
<1> HIDE DEF n, Waits, First
<1>5. F \in [(1..n) \X SchedStates -> SchedStates] BY <1>2, ReadyIType
<1>6. \E f \in [0..n -> SchedStates] : IsIteration(f, n, k, F)
  <2> HIDE DEF F
  <2> QED BY <1>1, <1>5, Iteration
<1>7. \E f : Loop(f)
  <2>1. PICK f \in [0..n -> SchedStates] : IsIteration(f, n, k, F)
    BY <1>6
  <2>2. \A i \in 0..n : f[i] \in SchedStates OBVIOUS
  <2>3. \A i \in 0..n : i # 0 =>
           /\ i \in 1..n /\ i - 1 \in 0..n
           /\ F[<<i, f[i - 1]>>] = Turn(i, f[i - 1])
    BY <1>1, <2>2
  <2> HIDE DEF F, Turn
  <2>4. Loop(f) BY <1>1, <2>1, <2>3 DEF IsIteration
  <2> QED BY <2>4
<1>8. Loop(b)
  <2> HIDE DEF Loop
  <2> QED BY <1>7
<1> HIDE DEF b
<1>9. b[0] = k /\ \A i \in 1..n : b[i] = Turn(i, b[i - 1])
  BY <1>1, <1>8
<1> DEFINE Readied(i, u) == \E j \in 1..i : Waits(j) /\ u = First(j)
           OK(i) == /\ SchedInv(b[i]) /\ ReadyListOK(b[i])
                    /\ b[i].p_prio = k.p_prio /\ b[i].r_current = currp
                    /\ \A u \in AllThreads :
                          b[i].p_state[u] = IF Readied(i, u) THEN "READY"
                                            ELSE k.p_state[u]
           Good == {i \in 0..n : OK(i)}
<1>10. OK(0) BY <1>9 DEF MutexInv, QueuesSorted, currp
<1>11. ASSUME NEW i \in 1..n, OK(i - 1) PROVE OK(i)
  <2>1. \A u \in AllThreads : Readied(i, u) <=> (Readied(i - 1, u) \/ (Waits(i) /\ u = First(i)))
    <3>1. \A j : j \in 1..i <=> j \in 1..i - 1 \/ j = i OBVIOUS
    <3> QED BY <3>1
  <2>2. CASE ~ Waits(i)
    <3>1. b[i] = b[i - 1] BY <1>9, <2>2
    <3> HIDE DEF Readied
    <3> QED BY <1>11, <2>1, <2>2, <3>1
  <2>3. CASE Waits(i)
    <3>1. b[i] = chSchReadyI(b[i - 1], First(i)) BY <1>9, <2>3
    <3>2. First(i) \in AllThreads /\ k.p_state[First(i)] = "WTMTX"
      BY <1>2, <2>3
    <3>3. ~ Readied(i - 1, First(i))
      <4> SUFFICES ASSUME NEW j \in 1..i - 1, Waits(j), First(i) = First(j)
                   PROVE  FALSE
        OBVIOUS
      <4>1. j \in 1..n /\ j # i BY <1>1
      <4> QED BY <1>3, <2>3, <4>1
    <3> HIDE DEF Readied
    <3>4. b[i - 1].p_state[First(i)] \notin Runnable
      BY <1>11, <3>2, <3>3 DEF Runnable
    <3>5. /\ SchedInv(b[i]) /\ ReadyListOK(b[i])
          /\ Keeps(b[i - 1], b[i], {First(i)})
          /\ b[i].p_state[First(i)] = "READY" /\ b[i].r_current = currp
      BY <1>11, <3>1, <3>2, <3>4, ReadyI
    <3>6. b[i].p_state = [b[i - 1].p_state EXCEPT ![First(i)] = "READY"]
      BY <1>11, <3>1 DEF chSchReadyI, SchedInv, SchedStates
    <3>7. b[i - 1].p_state \in [AllThreads -> ThreadStates]
      BY <1>11 DEF SchedInv, SchedStates
    <3> QED BY <1>11, <2>1, <2>3, <3>2, <3>5, <3>6, <3>7 DEF Keeps
  <2> QED BY <2>2, <2>3
<1>12. OK(n)
  <2>1. 0 \in Good BY <1>1, <1>10
  <2>2. \A i \in 1..n : i - 1 \in Good => i \in Good
    <3> TAKE i \in 1..n
    <3> HAVE i - 1 \in Good
    <3>1. OK(i - 1) OBVIOUS
    <3>2. OK(i)
      <4> HIDE DEF OK
      <4> QED BY <1>11, <3>1
    <3>3. i \in 0..n OBVIOUS
    <3> HIDE DEF OK
    <3> QED BY <3>2, <3>3
  <2> HIDE DEF Good
  <2>3. \A i \in 0..n : i \in Good BY <1>1, <2>1, <2>2, TurnInduction
  <2>4. n \in Good BY <1>1, <2>3
  <2> QED BY <2>4 DEF Good
<1> QED BY <1>4, <1>12 DEF n, Waits, First

\* chMtxUnlockAll(): every mutex goes to its first waiter or becomes free.
LEMMA UnlockAllInv == ASSUME MutexInv, UnlockAll PROVE MutexInv' /\ ThreadMoves
<1> DEFINE ms == p_mtxlist[currp]
           mine == Elems(ms)
           next == [m \in mine |-> IF waitq[m] = <<>> THEN NULL ELSE Head(waitq[m])]
           r == ReadyHeads(k, ms)
           s == WithPrio(r, currp, p_realprio[currp])
           Heir(u) == \E m \in mine : waitq[m] # <<>> /\ u = Head(waitq[m])
<1>1. /\ m_owner' = [m \in Mutexes |-> IF m \in mine THEN next[m] ELSE m_owner[m]]
      /\ p_mtxlist' = [t \in AllThreads |->
            IF t = currp THEN <<>>
            ELSE IF \E m \in mine : next[m] = t
                 THEN <<CHOOSE m \in mine : next[m] = t>> \o p_mtxlist[t]
                 ELSE p_mtxlist[t]]
      /\ waitq' = [o \in WaitObjects |->
            IF o \in mine /\ waitq[o] # <<>> THEN Tail(waitq[o]) ELSE waitq[o]]
      /\ k' = chSchRescheduleS(s)
      /\ UNCHANGED <<isr, p_realprio, wtobjp>>
  BY DEF UnlockAll, WithPrio
<1>2. /\ ms \in Seq(Mutexes) /\ NoDuplicates(ms)
      /\ \A m \in mine : m \in Mutexes /\ m \in WaitObjects
      /\ \A m \in Mutexes : m_owner[m] = currp <=> m \in mine
  <2>1. ms \in Seq(Mutexes) /\ currp \in AllThreads BY Types
  <2>2. NoDuplicates(ms) /\ \A m \in Mutexes : m_owner[m] = currp <=> m \in mine
    BY <2>1 DEF MutexInv, Ownership
  <2> QED BY <2>1, <2>2 DEF Elems, WaitObjects
<1>3. \A m \in mine : waitq[m] # <<>> =>
         /\ Head(waitq[m]) \in AllThreads
         /\ Head(waitq[m]) \in Elems(waitq[m])
         /\ Tail(waitq[m]) \in Seq(AllThreads)
         /\ NoDuplicates(Tail(waitq[m]))
         /\ Elems(Tail(waitq[m])) = Elems(waitq[m]) \ {Head(waitq[m])}
         /\ \A prio \in [AllThreads -> Int] :
               SortedByPrio(waitq[m], prio) => SortedByPrio(Tail(waitq[m]), prio)
         /\ k.p_state[Head(waitq[m])] = "WTMTX" /\ wtobjp[Head(waitq[m])] = m
  <2> TAKE m \in mine
  <2> HAVE waitq[m] # <<>>
  <2>1. waitq[m] \in Seq(AllThreads) /\ NoDuplicates(waitq[m])
    BY <1>2, Types DEF MutexInv, Queued
  <2>2. /\ Head(waitq[m]) \in AllThreads
        /\ Head(waitq[m]) \in Elems(waitq[m])
        /\ Tail(waitq[m]) \in Seq(AllThreads)
        /\ NoDuplicates(Tail(waitq[m]))
        /\ Elems(Tail(waitq[m])) = Elems(waitq[m]) \ {Head(waitq[m])}
        /\ \A prio \in [AllThreads -> Int] :
              SortedByPrio(waitq[m], prio) => SortedByPrio(Tail(waitq[m]), prio)
    BY <2>1, HeadTail
  <2>3. k.p_state[Head(waitq[m])] = "WTMTX" /\ wtobjp[Head(waitq[m])] = m
    BY <1>2, <2>2 DEF MutexInv, Queued
  <2> QED BY <2>2, <2>3
<1>4. /\ SchedInv(r) /\ ReadyListOK(r)
      /\ r.p_prio = k.p_prio /\ r.r_current = currp
      /\ \A u \in AllThreads :
            r.p_state[u] = IF Heir(u) THEN "READY" ELSE k.p_state[u]
  <2>1. \A u : Heir(u) <=> \E i \in 1..Len(ms) :
                              waitq[ms[i]] # <<>> /\ u = Head(waitq[ms[i]])
    BY DEF Elems
  <2> HIDE DEF Heir, mine
  <2> QED BY <1>2, <2>1, ReadyHeadsOK
<1> HIDE DEF r
<1>5. /\ SchedInv(s) /\ ReadyListOK(s) /\ s.p_state = r.p_state
      /\ s.p_prio = [k.p_prio EXCEPT ![currp] = p_realprio[currp]]
  <2>1. currp \notin Elems(r.r_queue) /\ p_realprio[currp] \in Prios /\ currp \in AllThreads
    BY <1>4, Types DEF SchedInv, ReadyListMembers
  <2> QED BY <1>4, <2>1, NewPrio
<1> HIDE DEF s
<1>6. SchedInv(k') /\ ReadyListOK(k') /\ Keeps(s, k', {})
  BY <1>1, <1>5, RescheduleS
<1>7. \A u \in AllThreads : u # currp => k'.p_prio[u] = k.p_prio[u]
  BY <1>5, <1>6, Types DEF Keeps
<1>8. \A u \in AllThreads :
         IF Heir(u) THEN k'.p_state[u] \in Runnable
         ELSE \/ k'.p_state[u] = k.p_state[u]
              \/ k'.p_state[u] \in Runnable /\ k.p_state[u] \in Runnable
  <2> HIDE DEF Heir
  <2> QED BY <1>4, <1>5, <1>6 DEF Keeps, Runnable
<1>9. waitq' \in [WaitObjects -> Seq(AllThreads)] BY <1>1, <1>2, <1>3, Types
<1>10. WaitsForObject'
  <2> HIDE DEF Heir, mine
  <2> QED BY <1>1, <1>8 DEF MutexInv, WaitsForObject, Runnable
<1>11. Queued'
  <2> SUFFICES ASSUME NEW o \in WaitObjects
               PROVE  /\ NoDuplicates(waitq'[o])
                      /\ Elems(waitq'[o]) =
                           {t \in AllThreads :
                              /\ k'.p_state[t] = IF o \in Mutexes THEN "WTMTX" ELSE "WTCOND"
                              /\ wtobjp[t] = o}
    BY <1>1 DEF Queued
  <2>1. /\ NoDuplicates(waitq[o])
        /\ Elems(waitq[o]) =
             {t \in AllThreads :
                /\ k.p_state[t] = IF o \in Mutexes THEN "WTMTX" ELSE "WTCOND"
                /\ wtobjp[t] = o}
    BY DEF MutexInv, Queued
  <2>2. CASE o \in mine /\ waitq[o] # <<>>
    <3>1. waitq'[o] = Tail(waitq[o]) /\ o \in Mutexes BY <1>1, <1>2, <2>2
    <3>2. \A t \in AllThreads : wtobjp[t] = o =>
             (k'.p_state[t] = "WTMTX" <=> k.p_state[t] = "WTMTX" /\ t # Head(waitq[o]))
      <4>1. \A t \in AllThreads : wtobjp[t] = o /\ Heir(t) => t = Head(waitq[o])
        BY <1>3
      <4>2. Heir(Head(waitq[o])) BY <2>2
      <4> HIDE DEF Heir, mine
      <4> QED BY <1>8, <4>1, <4>2 DEF Runnable
    <3>3. Elems(Tail(waitq[o])) = {t \in AllThreads : k'.p_state[t] = "WTMTX" /\ wtobjp[t] = o}
      <4>1. Elems(Tail(waitq[o])) = Elems(waitq[o]) \ {Head(waitq[o])} BY <1>3, <2>2
      <4> QED BY <2>1, <3>1, <3>2, <4>1
    <3>4. NoDuplicates(Tail(waitq[o])) BY <1>3, <2>2
    <3> QED BY <3>1, <3>3, <3>4
  <2>3. CASE ~ (o \in mine /\ waitq[o] # <<>>)
    <3>1. waitq'[o] = waitq[o] BY <1>1, <2>3
    <3>2. \A t \in AllThreads : wtobjp[t] = o => ~ Heir(t)
      BY <1>3, <2>3
    <3>3. \A t \in AllThreads :
             (/\ k'.p_state[t] = IF o \in Mutexes THEN "WTMTX" ELSE "WTCOND"
              /\ wtobjp[t] = o)
             <=> (/\ k.p_state[t] = IF o \in Mutexes THEN "WTMTX" ELSE "WTCOND"
                  /\ wtobjp[t] = o)
      <4> HIDE DEF Heir, mine
      <4> QED BY <1>8, <3>2 DEF Runnable
    <3> QED BY <2>1, <3>1, <3>3
  <2> QED BY <2>2, <2>3
<1>12. QueuesSorted'
  <2>1. ASSUME NEW o \in WaitObjects PROVE SortedByPrio(waitq'[o], k'.p_prio)
    <3>1. /\ k'.p_prio \in [AllThreads -> Int] /\ k.p_prio \in [AllThreads -> Int]
          /\ SortedByPrio(waitq[o], k.p_prio)
      BY <1>6, PriosAreInts, Types DEF SchedInv, SchedStates, MutexInv, QueuesSorted
    <3>2. /\ SortedByPrio(waitq'[o], k.p_prio)
          /\ Elems(waitq'[o]) \subseteq Elems(waitq[o])
      <4>1. CASE o \in mine /\ waitq[o] # <<>> BY <1>1, <1>3, <3>1, <4>1
      <4>2. CASE ~ (o \in mine /\ waitq[o] # <<>>) BY <1>1, <3>1, <4>2
      <4> QED BY <4>1, <4>2
    <3>3. \A u \in Elems(waitq'[o]) : k.p_prio[u] = k'.p_prio[u]
      <4>1. \A u \in Elems(waitq[o]) : u \in AllThreads /\ u # currp
        BY CurrentNotQueued DEF MutexInv, Queued
      <4> QED BY <1>7, <3>2, <4>1
    <3>4. waitq'[o] \in Seq(AllThreads) BY <1>9
    <3> QED BY <3>1, <3>2, <3>3, <3>4, SortedCongruence
  <2> QED BY <1>6, <2>1 DEF QueuesSorted
<1>13. /\ m_owner' \in [Mutexes -> AllThreads \cup {NULL}]
       /\ \A m \in mine : next[m] # currp
       /\ \A m \in mine : next[m] = NULL <=> waitq[m] = <<>>
       /\ \A m, x \in mine : next[m] = next[x] /\ next[m] # NULL => m = x
  <2>1. \A m \in mine : waitq[m] # <<>> => Head(waitq[m]) # currp
    BY <1>2, <1>3, CurrentNotQueued
  <2>2. \A m \in mine : next[m] = NULL <=> waitq[m] = <<>> BY <1>3, Types
  <2>3. \A m \in mine : next[m] # NULL => wtobjp[next[m]] = m BY <1>3
  <2>4. \A m, x \in mine : next[m] = next[x] /\ next[m] # NULL => m = x
    <3> HIDE DEF next, mine
    <3> QED BY <2>3
  <2>5. m_owner' \in [Mutexes -> AllThreads \cup {NULL}] BY <1>1, <1>3, Types
  <2>6. \A m \in mine : next[m] # currp BY <2>1, Types
  <2> QED BY <2>2, <2>4, <2>5, <2>6
<1>14. \A t \in AllThreads \ {currp} :
          /\ p_mtxlist'[t] \in Seq(Mutexes) /\ NoDuplicates(p_mtxlist'[t])
          /\ Elems(p_mtxlist'[t]) = Elems(p_mtxlist[t]) \cup {m \in mine : next[m] = t}
  <2> TAKE t \in AllThreads \ {currp}
  <2>1. /\ p_mtxlist[t] \in Seq(Mutexes) /\ NoDuplicates(p_mtxlist[t])
        /\ \A m \in Mutexes : m_owner[m] = t <=> m \in Elems(p_mtxlist[t])
    BY Types DEF MutexInv, Ownership
  <2>2. CASE \E m \in mine : next[m] = t
    <3> DEFINE x == CHOOSE m \in mine : next[m] = t
    <3>1. x \in mine /\ next[x] = t BY <2>2
    <3>2. p_mtxlist'[t] = <<x>> \o p_mtxlist[t] BY <1>1, <2>2
    <3> HIDE DEF x, next, mine
    <3>3. t # NULL BY Types
    <3>4. {m \in mine : next[m] = t} = {x} BY <1>13, <3>1, <3>3
    <3>5. x \in Mutexes /\ x \notin Elems(p_mtxlist[t])
      BY <1>2, <2>1, <3>1
    <3> HIDE DEF s
    <3>6. /\ <<x>> \o p_mtxlist[t] \in Seq(Mutexes)
          /\ Elems(<<x>> \o p_mtxlist[t]) = Elems(p_mtxlist[t]) \cup {x}
          /\ NoDuplicates(<<x>> \o p_mtxlist[t])
      BY <2>1, <3>5, Pushed
    <3> QED BY <3>2, <3>4, <3>6
  <2>3. CASE ~ \E m \in mine : next[m] = t
    <3>1. p_mtxlist'[t] = p_mtxlist[t] BY <1>1, <2>3
    <3>2. {m \in mine : next[m] = t} = {} BY <2>3
    <3> HIDE DEF next, mine
    <3> QED BY <2>1, <3>1, <3>2
  <2> QED BY <2>2, <2>3
<1>15. p_mtxlist'[currp] = <<>> /\ Elems(<<>>) = {} /\ NoDuplicates(<<>>)
  <2>1. Len(<<>>) = 0 OBVIOUS
  <2> QED BY <1>1, <2>1, Types DEF Elems, NoDuplicates
<1>16. p_mtxlist' \in [AllThreads -> Seq(Mutexes)]
  <2>1. DOMAIN p_mtxlist' = AllThreads /\ p_mtxlist' = [t \in AllThreads |-> p_mtxlist'[t]]
    BY <1>1
  <2>2. ASSUME NEW t \in AllThreads PROVE p_mtxlist'[t] \in Seq(Mutexes)
    <3>1. CASE t = currp
      <4>1. <<>> \in Seq(Mutexes) OBVIOUS
      <4> QED BY <1>15, <3>1, <4>1
    <3>2. CASE t # currp BY <1>14, <3>2
    <3> QED BY <3>1, <3>2
  <2> QED BY <2>1, <2>2
<1>17. Ownership'
  <2>1. \A t \in AllThreads : NoDuplicates(p_mtxlist'[t]) BY <1>14, <1>15
  <2>2. ASSUME NEW m \in Mutexes, NEW t \in AllThreads
        PROVE  m_owner'[m] = t <=> m \in Elems(p_mtxlist'[t])
    <3>1. m_owner'[m] = IF m \in mine THEN next[m] ELSE m_owner[m] BY <1>1
    <3>2. m_owner[m] = t <=> m \in Elems(p_mtxlist[t]) BY DEF MutexInv, Ownership
    <3> HIDE DEF next, mine
    <3>3. CASE t = currp BY <1>2, <1>13, <1>15, <3>1, <3>3
    <3>4. CASE t # currp
      <4>1. Elems(p_mtxlist'[t]) = Elems(p_mtxlist[t]) \cup {x \in mine : next[x] = t}
        BY <1>14, <3>4
      <4>2. m \in mine => m_owner[m] # t BY <1>2, <3>4
      <4> QED BY <3>1, <3>2, <4>1, <4>2
    <3> QED BY <3>3, <3>4
  <2>3. \A m \in Mutexes : m_owner'[m] = NULL => waitq'[m] = <<>>
    <3> TAKE m \in Mutexes
    <3> HAVE m_owner'[m] = NULL
    <3>1. m \in WaitObjects BY DEF WaitObjects
    <3>2. CASE m \in mine BY <1>1, <1>13, <3>1, <3>2
    <3>3. CASE m \notin mine
      <4>1. m_owner[m] = NULL /\ waitq'[m] = waitq[m] BY <1>1, <3>1, <3>3
      <4> QED BY <4>1 DEF MutexInv, Ownership
    <3> QED BY <3>2, <3>3
  <2> QED BY <2>1, <2>2, <2>3 DEF Ownership
<1>18. MutexTypeOK'
  BY <1>1, <1>6, <1>9, <1>13, <1>16, Types DEF MutexTypeOK, SchedInv
<1>19. ThreadMoves
  <2> HIDE DEF Heir
  <2> QED BY <1>8 DEF ThreadMoves
<1> QED BY <1>6, <1>10, <1>11, <1>12, <1>17, <1>18, <1>19 DEF MutexInv

----------------------------------------------------------------------------
(* The theorems. *)

\* Every step of the system keeps the inductive invariant.
LEMMA NextInv == ASSUME MutexInv, [MutexNext]_vars PROVE MutexInv' /\ ThreadMoves
<1>1. ASSUME NEW m \in Mutexes, Lock(m) \/ TryLock(m) PROVE MutexInv' /\ ThreadMoves
  BY <1>1, LockInv
<1>2. CASE Unlock BY <1>2, UnlockInv
<1>3. CASE UnlockAll BY <1>3, UnlockAllInv
<1>4. ASSUME NEW p \in SetPrios, chThdSetPriority(p) PROVE MutexInv' /\ ThreadMoves
  BY <1>4, SetPriorityInv
<1>5. CASE chThdSleep BY <1>5, SleepInv
<1>6. ASSUME NEW t \in Threads, WakeSleeper(t) PROVE MutexInv' /\ ThreadMoves
  BY <1>6, WakeSleeperInv
<1>7. CASE IrqExit BY <1>7, IrqExitInv
<1>8. CASE UNCHANGED vars
  <2>1. UNCHANGED <<k, isr, p_realprio, p_mtxlist, m_owner, waitq, wtobjp>>
    BY <1>8 DEF vars, mtxvars
  <2>2. WaitsForObject' /\ Queued' BY <2>1, WaitFrame
  <2>3. ThreadMoves BY <2>1 DEF ThreadMoves
  <2> QED BY <2>1, <2>2, <2>3
         DEF MutexInv, MutexTypeOK, Ownership, QueuesSorted
<1> QED BY <1>1, <1>2, <1>3, <1>4, <1>5, <1>6, <1>7, <1>8 DEF MutexNext

\* The inductive invariant holds in every reachable state.
THEOREM MutexInvariant == MutexSpec => []MutexInv
<1>1. Init => MutexInv BY InitInv
<1>2. MutexInv /\ [MutexNext]_vars => MutexInv' BY NextInv
<1> QED BY <1>1, <1>2, PTL DEF MutexSpec

\* Every variable keeps its type: no service leaves a thread without a priority,
\* a queue with a foreign element or the CPU without a thread.
THEOREM MutexTypeCorrect == MutexSpec => []MutexTypeOK
<1>1. MutexInv => MutexTypeOK BY DEF MutexInv
<1> QED BY <1>1, MutexInvariant, PTL

\* The owner fields and the lists of owned mutexes agree, and no thread waits
\* for a free mutex.
THEOREM OwnershipAgrees == MutexSpec => []Ownership
<1>1. MutexInv => Ownership BY DEF MutexInv
<1> QED BY <1>1, MutexInvariant, PTL

\* A thread is queued on an object exactly while its state says that it waits
\* for it.
THEOREM WaitersAreQueued == MutexSpec => []Queued
<1>1. MutexInv => Queued BY DEF MutexInv
<1> QED BY <1>1, MutexInvariant, PTL

\* The ready list and every wait queue stay in priority order, whatever the
\* inheritance loop changed in them.
THEOREM QueuesStaySorted == MutexSpec => []QueuesSorted
<1>1. MutexInv => QueuesSorted BY DEF MutexInv
<1> QED BY <1>1, MutexInvariant, PTL

\* The first waiter of a mutex has the highest priority of its waiters.
LEMMA FirstWaiter ==
    ASSUME MutexInv, NEW m \in Mutexes, waitq[m] # <<>>
    PROVE  /\ Head(waitq[m]) \in Elems(waitq[m])
           /\ \A w \in Elems(waitq[m]) : k.p_prio[w] <= k.p_prio[Head(waitq[m])]
<1>1. m \in WaitObjects BY DEF WaitObjects
<1>2. waitq[m] \in Seq(AllThreads) /\ SortedByPrio(waitq[m], k.p_prio)
  BY <1>1, Types DEF MutexInv, QueuesSorted
<1>3. k.p_prio \in [AllThreads -> Int] BY Types
<1> QED BY <1>2, <1>3, HeadTail

\* HandOffToHighest for one mutex.
HandOff(m) ==
    (m_owner[m] # m_owner'[m] /\ m_owner'[m] # NULL) =>
       IF m_owner[m] = NULL
       THEN waitq[m] = <<>> /\ m_owner'[m] = currp
       ELSE /\ m_owner'[m] \in Elems(waitq[m])
            /\ \A w \in Elems(waitq[m]) :
                 k.p_prio[w] <= k.p_prio[m_owner'[m]]

LEMMA AcquireHandOff ==
    ASSUME MutexInv, NEW x \in Mutexes, m_owner[x] = NULL, Acquire(x), NEW m \in Mutexes
    PROVE  HandOff(m)
<1>1. m_owner' = [m_owner EXCEPT ![x] = currp] BY DEF Acquire
<1>2. waitq[x] = <<>> BY DEF MutexInv, Ownership
<1> QED BY <1>1, <1>2, Types DEF HandOff

\* The top mutex of the running thread goes to its first waiter.
LEMMA TopHandOff ==
    ASSUME MutexInv, p_mtxlist[currp] # <<>>, HandOver(Head(p_mtxlist[currp])),
           NEW m \in Mutexes
    PROVE  HandOff(m)
<1> DEFINE x == Head(p_mtxlist[currp])
<1>1. p_mtxlist[currp] \in Seq(Mutexes) BY Types
<1>2. x \in Mutexes /\ x \in Elems(p_mtxlist[currp]) BY <1>1, HeadTail
<1>3. m_owner[x] = currp /\ currp # NULL
  BY <1>2, Types DEF MutexInv, Ownership
<1>4. m_owner' = [m_owner EXCEPT ![x] =
                    IF waitq[x] = <<>> THEN NULL ELSE Head(waitq[x])]
  BY DEF HandOver
<1> HIDE DEF x
<1>5. waitq[x] # <<>> =>
        /\ Head(waitq[x]) \in Elems(waitq[x])
        /\ \A w \in Elems(waitq[x]) : k.p_prio[w] <= k.p_prio[Head(waitq[x])]
  BY <1>2, FirstWaiter
<1> QED BY <1>2, <1>3, <1>4, <1>5, Types DEF HandOff

LEMMA HandOffStep ==
    ASSUME MutexInv, MutexNext, NEW m \in Mutexes
    PROVE  HandOff(m)
<1>1. ASSUME UNCHANGED m_owner PROVE HandOff(m) BY <1>1 DEF HandOff
<1>2. CASE Unlock BY <1>2, TopHandOff DEF Unlock
<1>3. CASE UnlockAll
  <2>1. currp \in AllThreads /\ currp # NULL
        /\ \A x \in Elems(p_mtxlist[currp]) : x \in Mutexes /\ m_owner[x] = currp
    <3>1. currp \in AllThreads /\ p_mtxlist[currp] \in Seq(Mutexes) /\ currp # NULL
      BY Types
    <3> QED BY <3>1 DEF MutexInv, Ownership, Elems
  <2>2. m_owner'[m] = IF m \in Elems(p_mtxlist[currp])
                      THEN IF waitq[m] = <<>> THEN NULL ELSE Head(waitq[m])
                      ELSE m_owner[m]
    BY <1>3 DEF UnlockAll
  <2>3. waitq[m] # <<>> =>
          /\ Head(waitq[m]) \in Elems(waitq[m])
          /\ \A w \in Elems(waitq[m]) : k.p_prio[w] <= k.p_prio[Head(waitq[m])]
    BY FirstWaiter
  <2> QED BY <2>1, <2>2, <2>3 DEF HandOff
<1>4. ASSUME NEW x \in Mutexes, Lock(x) \/ TryLock(x) PROVE HandOff(m)
  <2>1. (m_owner[x] = NULL /\ Acquire(x)) \/ UNCHANGED m_owner
    BY <1>4 DEF Lock, TryLock, chMtxLockS, Block
  <2> QED BY <1>1, <2>1, AcquireHandOff
<1> QED BY <1>1, <1>2, <1>3, <1>4
        DEF MutexNext, chThdSetPriority, chThdSleep, WakeSleeper, IrqExit, mtxvars

\* A mutex that is passed on goes to a waiter of the highest priority, and a free
\* one is only ever taken by the running thread.
THEOREM HandOffCorrect == MutexSpec => HandOffToHighest
<1>1. MutexInv /\ [MutexNext]_vars => [\A m \in Mutexes : HandOff(m)]_vars
  BY HandOffStep
<1>2. MutexSpec => [][\A m \in Mutexes : HandOff(m)]_vars
  BY <1>1, MutexInvariant, PTL DEF MutexSpec
<1> QED BY <1>2 DEF HandOffToHighest, HandOff

----------------------------------------------------------------------------
(* Priorities *)

\* The priority of t is that of a thread that waits for a mutex t owns.
Inherits(t) ==
    \E m \in Elems(p_mtxlist[t]) : \E w \in Elems(waitq[m]) :
        k.p_prio[t] = k.p_prio[w]

\* chMtxUnlock() does not reschedule, so that the highest priority runs behind
\* it only because the priority it takes away was inherited from the thread it
\* wakes: the two properties need each other.
PrioInv == MutexInv /\ InheritsNothingElse /\ HighestPriorityRuns

\* InheritsNothingElse in these words.
LEMMA Inheritance ==
    InheritsNothingElse <=>
        \A t \in AllThreads : k.p_prio[t] = p_realprio[t] \/ Inherits(t)
BY DEF InheritsNothingElse, Inherits

\* A thread still inherits its priority after a step that takes none of its
\* mutexes away and leaves their waiters in their queues with their priorities.
LEMMA StillInherits ==
    ASSUME MutexInv, MutexInv', NEW t \in AllThreads, Inherits(t),
           k'.p_prio[t] = k.p_prio[t],
           \A m \in Mutexes : m_owner[m] = t =>
              /\ m_owner'[m] = t
              /\ \A w \in Elems(waitq[m]) :
                    w \in Elems(waitq'[m]) /\ k'.p_prio[w] = k.p_prio[w]
    PROVE  Inherits(t)'
<1>1. PICK m \in Elems(p_mtxlist[t]) : \E w \in Elems(waitq[m]) :
                 k.p_prio[t] = k.p_prio[w]
  BY DEF Inherits
<1>2. PICK w \in Elems(waitq[m]) : k.p_prio[t] = k.p_prio[w] BY <1>1
<1>3. m \in Mutexes
  <2>1. p_mtxlist[t] \in Seq(Mutexes) BY Types
  <2> QED BY <2>1 DEF Elems
<1>4. m_owner[m] = t BY <1>3 DEF MutexInv, Ownership
<1>5. /\ m_owner'[m] = t /\ w \in Elems(waitq'[m])
      /\ k'.p_prio[w] = k.p_prio[w]
  BY <1>2, <1>3, <1>4
<1>6. m \in Elems(p_mtxlist'[t]) BY <1>3, <1>5 DEF MutexInv, Ownership
<1>7. k'.p_prio[t] = k'.p_prio[w] BY <1>2, <1>5
<1> QED BY <1>5, <1>6, <1>7 DEF Inherits

\* A step that changes no priority, no owner and no queue of a mutex keeps all
\* inheritance.
LEMMA InheritanceFrame ==
    ASSUME MutexInv, MutexInv', InheritsNothingElse, k'.p_prio = k.p_prio,
           UNCHANGED p_realprio,
           \A m \in Mutexes :
              /\ waitq'[m] = waitq[m]
              /\ m_owner[m] # NULL => m_owner'[m] = m_owner[m]
    PROVE  InheritsNothingElse'
<1> SUFFICES ASSUME NEW t \in AllThreads
             PROVE  k'.p_prio[t] = p_realprio'[t] \/ Inherits(t)'
  BY Inheritance DEF InheritsNothingElse, Inherits
<1>1. CASE k.p_prio[t] = p_realprio[t] BY <1>1
<1>2. CASE Inherits(t)
  <2>1. t # NULL BY Types
  <2>2. ASSUME NEW m \in Mutexes, m_owner[m] = t
        PROVE  /\ m_owner'[m] = t
               /\ \A w \in Elems(waitq[m]) :
                     w \in Elems(waitq'[m]) /\ k'.p_prio[w] = k.p_prio[w]
    <3>1. m_owner'[m] = t /\ waitq'[m] = waitq[m] BY <2>1, <2>2
    <3> QED BY <3>1
  <2> QED BY <1>2, <2>2, StillInherits
<1> QED BY <1>1, <1>2, Inheritance

----------------------------------------------------------------------------
(* The steps that leave the priorities alone. *)

LEMMA AcquirePrio ==
    ASSUME PrioInv, MutexInv', NEW m \in Mutexes, m_owner[m] = NULL, Acquire(m),
           UNCHANGED isr
    PROVE  PrioInv'
<1>1. /\ UNCHANGED <<k, p_realprio, waitq, isr>>
      /\ m_owner' = [m_owner EXCEPT ![m] = currp]
  BY DEF Acquire
<1>2. InheritsNothingElse' BY <1>1, InheritanceFrame, Types DEF PrioInv
<1>3. HighestPriorityRuns' BY <1>1 DEF PrioInv, HighestPriorityRuns
<1> QED BY <1>2, <1>3 DEF PrioInv

LEMMA SleepPrio == ASSUME PrioInv, MutexInv', chThdSleep PROVE PrioInv'
<1>1. /\ SchedInv(k) /\ ReadyListOK(k) /\ k.r_current # Idle
      /\ "SLEEPING" \in ThreadStates \ Runnable
      /\ k' = chSchGoSleepS(k, "SLEEPING")
      /\ UNCHANGED <<isr, p_realprio, p_mtxlist, m_owner, waitq, wtobjp>>
  BY DEF PrioInv, MutexInv, QueuesSorted, chThdSleep, ThreadCode, currp, mtxvars,
         ThreadStates, Runnable
<1>2. k'.p_prio = k.p_prio /\ HighestRuns(k') BY <1>1, GoSleepS DEF Keeps
<1>3. InheritsNothingElse' BY <1>1, <1>2, InheritanceFrame DEF PrioInv
<1>4. HighestPriorityRuns' BY <1>2 DEF HighestPriorityRuns
<1> QED BY <1>3, <1>4 DEF PrioInv

LEMMA WakeSleeperPrio ==
    ASSUME PrioInv, MutexInv', NEW t \in Threads, WakeSleeper(t) PROVE PrioInv'
<1>1. /\ SchedInv(k) /\ t \in AllThreads /\ k.p_state[t] \notin Runnable
      /\ k' = chSchReadyI(k, t) /\ isr' = TRUE
      /\ UNCHANGED <<p_realprio, p_mtxlist, m_owner, waitq, wtobjp>>
  BY DEF PrioInv, MutexInv, WakeSleeper, Runnable, AllThreads, mtxvars
<1>2. k'.p_prio = k.p_prio BY <1>1, ReadyI DEF Keeps
<1>3. InheritsNothingElse' BY <1>1, <1>2, InheritanceFrame DEF PrioInv
<1>4. HighestPriorityRuns' BY <1>1 DEF HighestPriorityRuns
<1> QED BY <1>3, <1>4 DEF PrioInv

LEMMA IrqExitPrio == ASSUME PrioInv, MutexInv', IrqExit PROVE PrioInv'
<1>1. /\ SchedInv(k) /\ ReadyListOK(k) /\ k' = IrqEpilogue(k)
      /\ UNCHANGED <<p_realprio, p_mtxlist, m_owner, waitq, wtobjp>>
  BY DEF PrioInv, MutexInv, QueuesSorted, IrqExit, mtxvars
<1>2. k'.p_prio = k.p_prio /\ HighestRuns(k') BY <1>1, Epilogue DEF Keeps
<1>3. InheritsNothingElse' BY <1>1, <1>2, InheritanceFrame DEF PrioInv
<1>4. HighestPriorityRuns' BY <1>2 DEF HighestPriorityRuns
<1> QED BY <1>3, <1>4 DEF PrioInv

----------------------------------------------------------------------------
(* The steps that take a priority away. *)

\* A step in which the running thread may change its own priority, and keeps it
\* as its own one or inherits it; the others lose no mutex and no waiter.
LEMMA OnlyCurrentChanges ==
    ASSUME MutexInv, MutexInv', InheritsNothingElse, NEW c \in AllThreads, c = currp,
           k'.p_prio[c] = p_realprio'[c] \/ Inherits(c)',
           \A t \in AllThreads : t # c =>
              k'.p_prio[t] = k.p_prio[t] /\ p_realprio'[t] = p_realprio[t],
           \A m \in Mutexes : m_owner[m] # NULL /\ m_owner[m] # c =>
              m_owner'[m] = m_owner[m] /\ Elems(waitq'[m]) = Elems(waitq[m])
    PROVE  InheritsNothingElse'
<1> SUFFICES ASSUME NEW t \in AllThreads, t # c
             PROVE  k'.p_prio[t] = p_realprio'[t] \/ Inherits(t)'
  BY DEF InheritsNothingElse, Inherits
<1>1. CASE k.p_prio[t] = p_realprio[t] BY <1>1
<1>2. CASE Inherits(t)
  <2>1. t # NULL BY Types
  <2>2. ASSUME NEW m \in Mutexes, m_owner[m] = t
        PROVE  /\ m_owner'[m] = t
               /\ \A w \in Elems(waitq[m]) :
                     w \in Elems(waitq'[m]) /\ k'.p_prio[w] = k.p_prio[w]
    <3>1. m \in WaitObjects BY DEF WaitObjects
    <3>2. \A w \in Elems(waitq[m]) : w \in AllThreads /\ w # c
      BY <3>1, CurrentNotQueued DEF MutexInv, Queued
    <3> QED BY <2>1, <2>2, <3>2
  <2> QED BY <1>2, <2>2, StillInherits
<1> QED BY <1>1, <1>2, Inheritance

\* chThdSetPriority(): an inherited priority stays as long as it is above the
\* new one.
LEMMA SetPriorityPrio ==
    ASSUME PrioInv, MutexInv', NEW p \in SetPrios, chThdSetPriority(p) PROVE PrioInv'
<1> DEFINE raised == k.p_prio[currp] = p_realprio[currp] \/ p > k.p_prio[currp]
           s == IF raised THEN WithPrio(k, currp, p) ELSE k
<1>1. p \in Prios BY MutexAssumption DEF UserPrios, Prios, IDLEPRIO, LOWPRIO
<1>2. /\ k' = chSchRescheduleS(s)
      /\ UNCHANGED <<isr, p_mtxlist, m_owner, waitq, wtobjp>>
      /\ p_realprio' = [p_realprio EXCEPT ![currp] = p]
      /\ MutexInv
  BY DEF chThdSetPriority, WithPrio, PrioInv
<1>3. /\ SchedInv(s) /\ ReadyListOK(s)
      /\ s.p_prio = IF raised THEN [k.p_prio EXCEPT ![currp] = p] ELSE k.p_prio
  <2>1. SchedInv(k) /\ ReadyListOK(k) BY <1>2 DEF MutexInv, QueuesSorted
  <2>2. CASE raised
    <3>1. /\ SchedInv(WithPrio(k, currp, p)) /\ ReadyListOK(WithPrio(k, currp, p))
          /\ WithPrio(k, currp, p).p_prio = [k.p_prio EXCEPT ![currp] = p]
      BY <1>1, <1>2, <2>1, Types, CurrentNotQueued, NewPrio
    <3> QED BY <2>2, <3>1
  <2>3. CASE ~ raised BY <2>1, <2>3
  <2> QED BY <2>2, <2>3
<1> HIDE DEF s
<1>4. k'.p_prio = s.p_prio /\ HighestRuns(k')
  BY <1>2, <1>3, RescheduleS DEF Keeps
<1>5. PICK c \in AllThreads : c = currp BY <1>2, Types
<1>6. k'.p_prio[c] = p_realprio'[c] \/ Inherits(c)'
  <2>1. CASE raised BY <1>2, <1>3, <1>4, <1>5, <2>1, Types
  <2>2. CASE ~ raised
    <3>1. k'.p_prio = k.p_prio BY <1>3, <1>4, <2>2
    <3>2. Inherits(c) BY <1>5, <2>2, Inheritance DEF PrioInv
    <3> QED BY <1>2, <1>5, <3>1, <3>2 DEF Inherits
  <2> QED BY <2>1, <2>2
<1>7. \A t \in AllThreads : t # c =>
         k'.p_prio[t] = k.p_prio[t] /\ p_realprio'[t] = p_realprio[t]
  BY <1>2, <1>3, <1>4, <1>5, Types
<1>8. InheritsNothingElse'
  BY <1>2, <1>5, <1>6, <1>7, OnlyCurrentChanges DEF PrioInv
<1>9. HighestPriorityRuns' BY <1>4 DEF HighestPriorityRuns
<1> QED BY <1>8, <1>9 DEF PrioInv

\* The priority an unlock falls back to is the thread's own or inherited through
\* a mutex it keeps.
LEMMA FallbackInherited ==
    ASSUME MutexInv, p_mtxlist[currp] # <<>>
    PROVE  \/ FallbackPrio = p_realprio[currp]
           \/ \E x \in Elems(Tail(p_mtxlist[currp])) :
                 waitq[x] # <<>> /\ FallbackPrio = k.p_prio[Head(waitq[x])]
<1> DEFINE kept == Tail(p_mtxlist[currp])
<1>1. /\ FallbackPrio \in Prios
      /\ \/ FallbackPrio = p_realprio[currp]
         \/ \E i \in 1..Len(kept) : FallbackPrio = HeadPrio(kept[i])
  BY FallbackPrioOK
<1>2. CASE FallbackPrio = p_realprio[currp] BY <1>2
<1>3. CASE \E i \in 1..Len(kept) : FallbackPrio = HeadPrio(kept[i])
  <2>1. PICK i \in 1..Len(kept) : FallbackPrio = HeadPrio(kept[i]) BY <1>3
  <2>2. FallbackPrio >= 1 BY <1>1, PriosAreInts
  <2>3. waitq[kept[i]] # <<>> /\ FallbackPrio = k.p_prio[Head(waitq[kept[i]])]
    BY <2>1, <2>2 DEF HeadPrio
  <2>4. kept[i] \in Elems(kept) BY DEF Elems
  <2> QED BY <2>3, <2>4
<1> QED BY <1>1, <1>2, <1>3

\* Handing the top mutex over, or freeing it, leaves the running thread with a
\* priority of its own or inherited through a mutex it keeps.
LEMMA HandOverPrio ==
    ASSUME MutexInv, MutexInv', InheritsNothingElse, p_mtxlist[currp] # <<>>,
           NEW m, m = Head(p_mtxlist[currp]), HandOver(m),
           \A x \in Mutexes : waitq'[x] = Unqueued(m)[x],
           k'.p_prio = Unboosted(m).p_prio, p_realprio' = p_realprio
    PROVE  InheritsNothingElse'
<1> DEFINE kept == Tail(p_mtxlist[currp])
<1>1. PICK c \in AllThreads : c = currp BY Types
<1>2. /\ m \in Mutexes /\ m \in WaitObjects
      /\ Elems(kept) = Elems(p_mtxlist[c]) \ {m}
      /\ \A x \in Elems(p_mtxlist[c]) : x \in Mutexes /\ m_owner[x] = c
      /\ m_owner[m] = c
  <2>1. p_mtxlist[c] \in Seq(Mutexes) /\ NoDuplicates(p_mtxlist[c])
    BY Types DEF MutexInv, Ownership
  <2>2. /\ m \in Mutexes /\ m \in Elems(p_mtxlist[c])
        /\ Elems(kept) = Elems(p_mtxlist[c]) \ {m}
    BY <1>1, <2>1, HeadTail
  <2>3. \A x \in Elems(p_mtxlist[c]) : x \in Mutexes BY <2>1 DEF Elems
  <2> HIDE DEF kept
  <2> QED BY <2>2, <2>3 DEF MutexInv, Ownership, WaitObjects
<1>3. \A x \in Mutexes : x # m => m_owner'[x] = m_owner[x] /\ waitq'[x] = waitq[x]
  <2>1. \A x \in Mutexes : x \in WaitObjects BY DEF WaitObjects
  <2> QED BY <2>1, Types DEF HandOver, Unqueued
<1>4. \A x \in Elems(p_mtxlist[c]) \ {m} : x \in Elems(p_mtxlist'[c]) /\ waitq'[x] = waitq[x]
  <2> TAKE x \in Elems(p_mtxlist[c]) \ {m}
  <2>1. x \in Mutexes /\ m_owner'[x] = c /\ waitq'[x] = waitq[x] BY <1>2, <1>3
  <2> QED BY <2>1 DEF MutexInv, Ownership
<1>5. \A x \in Mutexes : m_owner[x] # NULL /\ m_owner[x] # c =>
         m_owner'[x] = m_owner[x] /\ Elems(waitq'[x]) = Elems(waitq[x])
  BY <1>2, <1>3
<1>6. \A t \in AllThreads : t # c => k'.p_prio[t] = k.p_prio[t]
  BY <1>1, Types DEF Unboosted, SchedStates
<1>7. CASE waitq[m] = <<>>
  <2>1. k'.p_prio = k.p_prio BY <1>7 DEF Unboosted
  <2>2. \A w : w \notin Elems(waitq[m])
    <3>1. Len(<<>>) = 0 OBVIOUS
    <3> QED BY <1>7, <3>1 DEF Elems
  <2>3. ASSUME Inherits(c) PROVE Inherits(c)'
    <3>1. PICK x \in Elems(p_mtxlist[c]) :
                 \E w \in Elems(waitq[x]) : k.p_prio[c] = k.p_prio[w]
      BY <2>3 DEF Inherits
    <3>2. x # m BY <2>2, <3>1
    <3>3. x \in Elems(p_mtxlist'[c]) /\ waitq'[x] = waitq[x] BY <1>4, <3>2
    <3> QED BY <2>1, <3>1, <3>3 DEF Inherits
  <2>4. k'.p_prio[c] = p_realprio'[c] \/ Inherits(c)' BY <2>1, <2>3, Inheritance
  <2> QED BY <1>1, <1>5, <1>6, <2>4, OnlyCurrentChanges
<1>8. CASE waitq[m] # <<>>
  <2>1. k'.p_prio[c] = FallbackPrio
    BY <1>1, <1>8, Types DEF Unboosted, SchedStates
  <2>2. \/ FallbackPrio = p_realprio[c]
        \/ \E x \in Elems(kept) :
               waitq[x] # <<>> /\ FallbackPrio = k.p_prio[Head(waitq[x])]
    BY <1>1, FallbackInherited
  <2>3. ASSUME NEW x \in Elems(kept), waitq[x] # <<>>,
               FallbackPrio = k.p_prio[Head(waitq[x])]
        PROVE  Inherits(c)'
    <3>1. x \in Mutexes /\ x \in WaitObjects /\ x # m /\ x \in Elems(p_mtxlist[c])
      BY <1>2 DEF WaitObjects
    <3>2. Head(waitq[x]) \in Elems(waitq[x]) BY <2>3, <3>1, FirstWaiter
    <3>3. Head(waitq[x]) \in AllThreads /\ Head(waitq[x]) # c
      BY <1>1, <3>1, <3>2, CurrentNotQueued DEF MutexInv, Queued
    <3>4. k'.p_prio[Head(waitq[x])] = k.p_prio[Head(waitq[x])] BY <1>6, <3>3
    <3>5. x \in Elems(p_mtxlist'[c]) /\ Head(waitq[x]) \in Elems(waitq'[x])
      BY <1>4, <3>1, <3>2
    <3>6. k'.p_prio[c] = k'.p_prio[Head(waitq[x])] BY <2>1, <2>3, <3>4
    <3> QED BY <3>5, <3>6 DEF Inherits
  <2>4. k'.p_prio[c] = p_realprio'[c] \/ Inherits(c)' BY <2>1, <2>2, <2>3
  <2> QED BY <1>1, <1>5, <1>6, <2>4, OnlyCurrentChanges
<1> QED BY <1>7, <1>8

\* chMtxUnlock(): the priority it takes away was inherited from the thread it
\* wakes, or nobody ready is above what is left.
LEMMA UnlockPrio == ASSUME PrioInv, MutexInv', Unlock PROVE PrioInv'
<1> DEFINE m == Head(p_mtxlist[currp])
           kept == Tail(p_mtxlist[currp])
<1>1. PICK c \in AllThreads : c = currp BY Types DEF PrioInv
<1>2. /\ MutexInv /\ InheritsNothingElse /\ HighestRuns(k)
      /\ isr' = isr /\ ~isr /\ p_mtxlist[c] # <<>>
  BY <1>1 DEF PrioInv, HighestPriorityRuns, Unlock, ThreadCode
<1>3. /\ m \in Mutexes /\ m \in WaitObjects
      /\ Elems(kept) = Elems(p_mtxlist[c]) \ {m}
      /\ \A x \in Elems(p_mtxlist[c]) : x \in Mutexes
  <2>1. p_mtxlist[c] \in Seq(Mutexes) /\ NoDuplicates(p_mtxlist[c])
    BY <1>2, Types DEF MutexInv, Ownership
  <2>2. /\ m \in Mutexes /\ Elems(kept) = Elems(p_mtxlist[c]) \ {m}
    BY <1>1, <1>2, <2>1, HeadTail
  <2>3. \A x \in Elems(p_mtxlist[c]) : x \in Mutexes BY <2>1 DEF Elems
  <2> HIDE DEF m, kept
  <2> QED BY <2>2, <2>3 DEF WaitObjects
<1>4. /\ HandOver(m) /\ waitq' = Unqueued(m) /\ p_realprio' = p_realprio
      /\ k' = IF waitq[m] = <<>> THEN k
              ELSE chSchWakeupS(Unboosted(m), Head(waitq[m]))
  BY DEF Unlock
<1>5. ASSUME k'.p_prio = Unboosted(m).p_prio PROVE InheritsNothingElse'
  BY <1>1, <1>2, <1>4, <1>5, HandOverPrio
<1> HIDE DEF m
<1>6. CASE waitq[m] = <<>>
  <2>1. k' = k BY <1>4, <1>6
  <2>2. InheritsNothingElse' BY <1>5, <1>6, <2>1 DEF Unboosted
  <2>3. HighestPriorityRuns' BY <1>2, <2>1 DEF HighestPriorityRuns
  <2> QED BY <2>2, <2>3 DEF PrioInv
<1>7. CASE waitq[m] # <<>>
  <2> DEFINE tp == Head(waitq[m])
             s == WithPrio(k, c, FallbackPrio)
  <2>1. k' = chSchWakeupS(s, tp) BY <1>1, <1>4, <1>7 DEF Unboosted, WithPrio
  <2>2. /\ SchedInv(s) /\ ReadyListOK(s) /\ s.p_state = k.p_state
        /\ s.r_queue = k.r_queue /\ s.r_current = c
        /\ s.p_prio = [k.p_prio EXCEPT ![c] = FallbackPrio]
    <3>1. SchedInv(k) /\ ReadyListOK(k) BY <1>2 DEF MutexInv, QueuesSorted
    <3>2. FallbackPrio \in Prios BY <1>1, <1>2, FallbackPrioOK
    <3>3. c \notin Elems(k.r_queue) BY <1>1, <1>2, CurrentNotQueued
    <3>4. k.r_current = c BY <1>1 DEF currp
    <3> QED BY <3>1, <3>2, <3>3, <3>4, NewPrio
  <2> HIDE DEF s
  <2>3. /\ tp \in AllThreads /\ tp # c /\ k.p_state[tp] = "WTMTX"
        /\ tp \in Elems(waitq[m])
        /\ \A w \in Elems(waitq[m]) : k.p_prio[w] <= k.p_prio[tp]
    <3>1. /\ tp \in Elems(waitq[m])
          /\ \A w \in Elems(waitq[m]) : k.p_prio[w] <= k.p_prio[tp]
      BY <1>2, <1>3, <1>7, FirstWaiter
    <3>2. \A w \in Elems(waitq[m]) : w \in AllThreads /\ k.p_state[w] = "WTMTX"
      BY <1>2, <1>3 DEF MutexInv, Queued
    <3>3. k.p_state[c] = "CURRENT" BY <1>1, <1>2, CurrentNotQueued
    <3> QED BY <3>1, <3>2, <3>3
  <2> HIDE DEF tp
  <2>4. k'.p_prio = s.p_prio
    BY <2>1, <2>2, <2>3, WakeupS DEF Keeps, Runnable
  <2>5. InheritsNothingElse'
    BY <1>1, <1>5, <1>7, <2>4 DEF Unboosted, WithPrio, s
  <2>6. HighestRuns(s) \/ \A u \in Elems(s.r_queue) : s.p_prio[u] <= s.p_prio[tp]
    <3>1. /\ k.p_prio \in [AllThreads -> Int] /\ FallbackPrio \in Int
          /\ FallbackPrio >= p_realprio[c]
      <4>1. FallbackPrio \in Prios /\ FallbackPrio >= p_realprio[c]
        BY <1>1, <1>2, FallbackPrioOK
      <4> QED BY <1>2, <4>1, Types, PriosAreInts
    <3>2. \A u \in Elems(k.r_queue) :
             u \in AllThreads /\ u # c /\ k.p_prio[u] <= k.p_prio[c]
      <4>1. \A u \in Elems(k.r_queue) : u \in AllThreads
        BY <1>2 DEF MutexInv, SchedInv, ReadyListMembers
      <4>2. c \notin Elems(k.r_queue) BY <1>1, <1>2, CurrentNotQueued
      <4> QED BY <1>1, <1>2, <4>1, <4>2 DEF HighestRuns, currp
    <3>3. ASSUME k.p_prio[c] <= FallbackPrio PROVE HighestRuns(s)
      BY <2>2, <3>1, <3>2, <3>3 DEF HighestRuns
    <3>4. CASE k.p_prio[c] = p_realprio[c] BY <3>1, <3>3, <3>4
    <3>5. CASE Inherits(c)
      <4>1. PICK x \in Elems(p_mtxlist[c]) :
                   \E w \in Elems(waitq[x]) : k.p_prio[c] = k.p_prio[w]
        BY <3>5 DEF Inherits
      <4>2. PICK w \in Elems(waitq[x]) : k.p_prio[c] = k.p_prio[w] BY <4>1
      <4>3. CASE x = m
        <5>1. k.p_prio[c] <= k.p_prio[tp] BY <2>3, <4>2, <4>3
        <5> QED BY <2>2, <2>3, <3>1, <3>2, <5>1
      <4>4. CASE x # m
        <5>1. waitq[x] # <<>>
          <6>1. Len(<<>>) = 0 OBVIOUS
          <6> QED BY <6>1 DEF Elems
        <5>2. x \in Mutexes /\ x \in Elems(kept) BY <1>3, <4>4
        <5>3. PICK i \in 1..Len(kept) : x = kept[i] BY <5>2 DEF Elems
        <5>4. HeadPrio(x) <= FallbackPrio BY <1>1, <1>2, <5>3, FallbackPrioOK
        <5>5. /\ Head(waitq[x]) \in Elems(waitq[x])
              /\ k.p_prio[w] <= k.p_prio[Head(waitq[x])]
          BY <1>2, <5>1, <5>2, FirstWaiter
        <5>6. Head(waitq[x]) \in AllThreads
          BY <1>2, <5>2, <5>5 DEF MutexInv, Queued, WaitObjects
        <5>7. k.p_prio[c] <= FallbackPrio
          BY <3>1, <4>2, <5>1, <5>4, <5>5, <5>6 DEF HeadPrio
        <5> QED BY <3>3, <5>7
      <4> QED BY <4>3, <4>4
    <3> QED BY <1>2, <3>4, <3>5, Inheritance
  <2>7. HighestRuns(k')
    BY <2>1, <2>2, <2>3, <2>6, WakeupS DEF Runnable
  <2> QED BY <2>5, <2>7 DEF PrioInv, HighestPriorityRuns
<1> QED BY <1>6, <1>7

\* chMtxUnlockAll(): the thread is left with its own priority.
LEMMA UnlockAllPrio == ASSUME PrioInv, MutexInv', UnlockAll PROVE PrioInv'
<1> DEFINE ms == p_mtxlist[currp]
           mine == Elems(ms)
           r == ReadyHeads(k, ms)
           s == WithPrio(r, currp, p_realprio[currp])
<1>1. PICK c \in AllThreads : c = currp BY Types DEF PrioInv
<1>2. /\ MutexInv /\ InheritsNothingElse
      /\ k' = chSchRescheduleS(s) /\ p_realprio' = p_realprio
      /\ m_owner' = [x \in Mutexes |->
            IF x \in mine THEN IF waitq[x] = <<>> THEN NULL ELSE Head(waitq[x])
            ELSE m_owner[x]]
      /\ waitq' = [o \in WaitObjects |->
            IF o \in mine /\ waitq[o] # <<>> THEN Tail(waitq[o]) ELSE waitq[o]]
  BY DEF PrioInv, UnlockAll, WithPrio
<1>3. /\ ms \in Seq(Mutexes) /\ NoDuplicates(ms)
      /\ \A x \in Mutexes : m_owner[x] = c <=> x \in mine
  <2>1. ms \in Seq(Mutexes) BY <1>2, Types
  <2> QED BY <1>1, <1>2, <2>1 DEF MutexInv, Ownership
<1>4. /\ SchedInv(r) /\ ReadyListOK(r) /\ r.p_prio = k.p_prio /\ r.r_current = c
      /\ c \notin Elems(r.r_queue)
  <2>1. SchedInv(r) /\ ReadyListOK(r) /\ r.p_prio = k.p_prio /\ r.r_current = currp
    <3> HIDE DEF ms
    <3> QED BY <1>2, <1>3, ReadyHeadsOK
  <2> HIDE DEF r
  <2> QED BY <1>1, <2>1 DEF SchedInv, ReadyListMembers
<1> HIDE DEF r
<1>5. /\ SchedInv(s) /\ ReadyListOK(s)
      /\ s.p_prio = [k.p_prio EXCEPT ![c] = p_realprio[c]]
  <2>1. p_realprio[c] \in Prios BY <1>2, Types
  <2> QED BY <1>1, <1>4, <2>1, NewPrio
<1> HIDE DEF s
<1>6. k'.p_prio = s.p_prio /\ HighestRuns(k')
  BY <1>2, <1>5, RescheduleS DEF Keeps
<1>7. \A x \in Mutexes : m_owner[x] # NULL /\ m_owner[x] # c =>
         m_owner'[x] = m_owner[x] /\ Elems(waitq'[x]) = Elems(waitq[x])
  <2>1. \A x \in Mutexes : x \in WaitObjects BY DEF WaitObjects
  <2> HIDE DEF mine
  <2> QED BY <1>2, <1>3, <2>1
<1>8. /\ k'.p_prio[c] = p_realprio'[c]
      /\ \A t \in AllThreads : t # c =>
            k'.p_prio[t] = k.p_prio[t] /\ p_realprio'[t] = p_realprio[t]
  BY <1>2, <1>5, <1>6, Types
<1>9. InheritsNothingElse'
  BY <1>1, <1>2, <1>7, <1>8, OnlyCurrentChanges
<1> QED BY <1>6, <1>9 DEF PrioInv, HighestPriorityRuns

----------------------------------------------------------------------------
(* The inheritance loop. *)

\* What a turn of the loop does to the priorities, and where it looks next.
LEMMA BoostEffect ==
    ASSUME MutexInv, NEW b \in BoostStates, NEW prio \in Prios
    PROVE  LET r == BoostStep(b, prio)
           IN IF b.tp = NULL \/ b.s.p_prio[b.tp] >= prio
              THEN r.s.p_prio = b.s.p_prio /\ r.tp = NULL
              ELSE /\ b.tp \in AllThreads
                   /\ r.s.p_prio = [b.s.p_prio EXCEPT ![b.tp] = prio]
                   /\ r.tp = IF k.p_state[b.tp] = "WTMTX"
                             THEN m_owner[wtobjp[b.tp]] ELSE NULL
<1> DEFINE t == b.tp
           s1 == [b.s EXCEPT !.p_prio[t] = prio]
<1>1. /\ b \in [s : SchedStates, q : [WaitObjects -> Seq(AllThreads)],
                tp : AllThreads \cup {NULL}]
      /\ b.s \in SchedStates /\ b.s.p_state = k.p_state
  BY DEF BoostStates
<1>2. CASE t = NULL \/ b.s.p_prio[t] >= prio
  <2>1. BoostStep(b, prio) = [b EXCEPT !.tp = NULL] BY <1>2 DEF BoostStep
  <2> QED BY <1>1, <1>2, <2>1
<1>3. CASE ~ (t = NULL \/ b.s.p_prio[t] >= prio)
  <2>1. t \in AllThreads BY <1>1, <1>3
  <2>2. s1.p_prio = [b.s.p_prio EXCEPT ![t] = prio] BY <1>1 DEF SchedStates
  <2>3. \A q : chSchReadyI([s1 EXCEPT !.r_queue = q], t).p_prio = s1.p_prio
    BY <1>1 DEF chSchReadyI, SchedStates
  <2>4. BoostStep(b, prio).s.p_prio = s1.p_prio
    <3>1. CASE k.p_state[t] = "READY" BY <1>1, <1>3, <2>3, <3>1 DEF BoostStep
    <3>2. CASE k.p_state[t] # "READY" BY <1>1, <1>3, <3>2 DEF BoostStep
    <3> QED BY <3>1, <3>2
  <2>5. BoostStep(b, prio).tp =
           IF k.p_state[t] = "WTMTX" THEN m_owner[wtobjp[t]] ELSE NULL
    BY <1>1, <1>3 DEF BoostStep
  <2> QED BY <1>3, <2>1, <2>2, <2>4, <2>5
<1> QED BY <1>2, <1>3

\* The threads that wait for x once the running thread waits for m.
WaitsFor(w, x, m) == w \in Elems(waitq[x]) \/ (x = m /\ w = currp)

\* A thread of priority p waits, or is about to wait, for a mutex of t; prio are
\* the priorities the loop has come to.
HasPayer(prio, m, t, p) ==
    \E x \in Mutexes : /\ m_owner[x] = t
                       /\ \E w \in AllThreads : WaitsFor(w, x, m) /\ prio[w] = p

\* The threads the loop may still boost.
Lower(prio) == {t \in AllThreads : prio[t] < k.p_prio[currp]}

\* The invariant of the loop: the thread it looks at next has a reason to be
\* boosted, and only that thread may be behind with its priority. Every turn
\* that goes on leaves fewer threads to boost.
ChainInv(prio, tp, m, i) ==
    /\ prio \in [AllThreads -> Prios]
    /\ tp \in AllThreads \cup {NULL}
    /\ prio[currp] = k.p_prio[currp]
    /\ tp # NULL => HasPayer(prio, m, tp, k.p_prio[currp])
    /\ \A t \in AllThreads :
          \/ prio[t] = p_realprio[t]
          \/ HasPayer(prio, m, t, prio[t])
          \/ t = tp /\ prio[t] < k.p_prio[currp]
    /\ tp = NULL \/ Cardinality(Lower(prio)) + i <= Cardinality(AllThreads) - 1

LEMMA LowerFinite ==
    ASSUME NEW prio
    PROVE  /\ IsFiniteSet(AllThreads) /\ Cardinality(AllThreads) \in Nat
           /\ IsFiniteSet(Lower(prio)) /\ Cardinality(Lower(prio)) \in Nat
<1>1. IsFiniteSet(AllThreads) BY SchedAssumption, FS_AddElement DEF AllThreads
<1>2. Lower(prio) \subseteq AllThreads BY DEF Lower
<1>3. IsFiniteSet(Lower(prio)) BY <1>1, <1>2, FS_Subset
<1> QED BY <1>1, <1>3, FS_CardinalityType

\* Before the first turn.
LEMMA ChainStart ==
    ASSUME MutexInv, InheritsNothingElse, NEW m \in Mutexes, m_owner[m] # NULL
    PROVE  ChainInv(k.p_prio, m_owner[m], m, 0)
<1>1. PICK c \in AllThreads : c = currp BY Types
<1>2. m_owner[m] \in AllThreads \cup {NULL} BY Types
<1>3. HasPayer(k.p_prio, m, m_owner[m], k.p_prio[currp])
  BY <1>1 DEF HasPayer, WaitsFor
<1>4. ASSUME NEW t \in AllThreads, Inherits(t)
      PROVE  HasPayer(k.p_prio, m, t, k.p_prio[t])
  <2>1. PICK x \in Elems(p_mtxlist[t]) : \E w \in Elems(waitq[x]) :
                 k.p_prio[t] = k.p_prio[w]
    BY <1>4 DEF Inherits
  <2>2. x \in Mutexes /\ x \in WaitObjects
    <3>1. p_mtxlist[t] \in Seq(Mutexes) BY Types
    <3> QED BY <3>1 DEF Elems, WaitObjects
  <2>3. m_owner[x] = t BY <2>2 DEF MutexInv, Ownership
  <2>4. \A w \in Elems(waitq[x]) : w \in AllThreads BY <2>2 DEF MutexInv, Queued
  <2> QED BY <2>1, <2>2, <2>3, <2>4 DEF HasPayer, WaitsFor
<1>5. \A t \in AllThreads :
         k.p_prio[t] = p_realprio[t] \/ HasPayer(k.p_prio, m, t, k.p_prio[t])
  BY <1>4, Inheritance
<1>6. Cardinality(Lower(k.p_prio)) + 0 <= Cardinality(AllThreads) - 1
  <2>1. k.p_prio[c] \in Int BY Types
  <2>2. c \notin Lower(k.p_prio) BY <1>1, <2>1 DEF Lower
  <2>3. Lower(k.p_prio) \subseteq AllThreads \ {c} BY <2>2 DEF Lower
  <2>4. /\ IsFiniteSet(AllThreads \ {c})
        /\ Cardinality(AllThreads \ {c}) = Cardinality(AllThreads) - 1
    BY <1>1, LowerFinite, FS_RemoveElement
  <2>5. Cardinality(Lower(k.p_prio)) <= Cardinality(AllThreads \ {c})
    BY <2>3, <2>4, FS_Subset
  <2>6. Cardinality(Lower(k.p_prio)) \in Nat /\ Cardinality(AllThreads) \in Nat
    BY LowerFinite
  <2> QED BY <2>4, <2>5, <2>6
<1> QED BY <1>2, <1>3, <1>5, <1>6, Types DEF ChainInv

\* One turn that boosts the thread t and goes on to the thread n.
LEMMA ChainStep ==
    ASSUME MutexInv, NEW prio, NEW t \in AllThreads, NEW m \in Mutexes,
           NEW i \in Nat, ChainInv(prio, t, m, i), prio[t] < k.p_prio[currp],
           NEW n, n = IF k.p_state[t] = "WTMTX" THEN m_owner[wtobjp[t]] ELSE NULL
    PROVE  ChainInv([prio EXCEPT ![t] = k.p_prio[currp]], n, m, i + 1)
<1> DEFINE P == k.p_prio[currp]
           new == [prio EXCEPT ![t] = P]
<1>1. PICK c \in AllThreads : c = currp BY Types
<1>2. /\ prio \in [AllThreads -> Prios] /\ P \in Prios /\ P \in Int
      /\ prio \in [AllThreads -> Int]
      /\ prio[c] = P /\ c # t /\ t # NULL
      /\ new \in [AllThreads -> Prios] /\ new[c] = P /\ new[t] = P
      /\ \A u \in AllThreads : u # t => new[u] = prio[u]
  <2>1. prio \in [AllThreads -> Prios] /\ P \in Prios /\ P \in Int /\ prio[c] = P
    BY <1>1, Types, PriosAreInts DEF ChainInv
  <2>2. t # NULL BY Types
  <2>3. prio[t] < P OBVIOUS
  <2> HIDE DEF P
  <2>4. c # t BY <2>1, <2>3
  <2>5. prio \in [AllThreads -> Int] BY <2>1, PriosAreInts
  <2>6. new \in [AllThreads -> Prios] /\ new[t] = P BY <2>1
  <2>7. \A u \in AllThreads : u # t => new[u] = prio[u] BY <2>1
  <2>8. new[c] = P BY <2>1, <2>4, <2>7
  <2> HIDE DEF new
  <2> QED BY <2>1, <2>2, <2>4, <2>5, <2>6, <2>7, <2>8
<1>3. n \in AllThreads \cup {NULL} /\ (n # NULL => k.p_state[t] = "WTMTX"
         /\ wtobjp[t] \in Mutexes /\ m_owner[wtobjp[t]] = n
         /\ t \in Elems(waitq[wtobjp[t]]))
  <2>1. k.p_state[t] = "WTMTX" => wtobjp[t] \in Mutexes
    BY DEF MutexInv, WaitsForObject
  <2>2. k.p_state[t] = "WTMTX" => t \in Elems(waitq[wtobjp[t]])
    BY <2>1 DEF MutexInv, Queued, WaitObjects
  <2>3. k.p_state[t] = "WTMTX" => m_owner[wtobjp[t]] \in AllThreads \cup {NULL}
    BY <2>1, Types
  <2> QED BY <2>1, <2>2, <2>3
<1> HIDE DEF P, new
<1>4. n # NULL => HasPayer(new, m, n, P)
  BY <1>2, <1>3 DEF HasPayer, WaitsFor
<1>5. ASSUME NEW u \in AllThreads
      PROVE  new[u] = p_realprio[u] \/ HasPayer(new, m, u, new[u]) \/ (u = n /\ new[u] < P)
  <2>1. CASE u = t
    <3>1. HasPayer(prio, m, t, P) BY <1>2 DEF ChainInv, P
    <3>2. PICK x \in Mutexes, w \in AllThreads :
                 m_owner[x] = t /\ WaitsFor(w, x, m) /\ prio[w] = P
      BY <3>1 DEF HasPayer
    <3>3. w # t BY <1>2, <3>2 DEF P
    <3>4. new[w] = P /\ new[u] = P BY <1>2, <2>1, <3>2, <3>3
    <3> QED BY <2>1, <3>2, <3>4 DEF HasPayer
  <2>2. CASE u # t
    <3>1. new[u] = prio[u] BY <1>2, <2>2
    <3>2. prio[u] = p_realprio[u] \/ HasPayer(prio, m, u, prio[u])
      BY <2>2 DEF ChainInv
    <3>3. ASSUME HasPayer(prio, m, u, prio[u])
          PROVE  HasPayer(new, m, u, new[u]) \/ (u = n /\ new[u] < P)
      <4>1. PICK x \in Mutexes, w \in AllThreads :
                   m_owner[x] = u /\ WaitsFor(w, x, m) /\ prio[w] = prio[u]
        BY <3>3 DEF HasPayer
      <4>2. CASE w # t BY <1>2, <3>1, <4>1, <4>2 DEF HasPayer
      <4>3. CASE w = t
        <5>1. t \in Elems(waitq[x]) BY <1>1, <1>2, <4>1, <4>3 DEF WaitsFor
        <5>2. k.p_state[t] = "WTMTX" /\ wtobjp[t] = x
          BY <5>1 DEF MutexInv, Queued, WaitObjects
        <5>3. n = u BY <4>1, <5>2
        <5>4. prio[t] < P BY DEF P
        <5> QED BY <3>1, <4>1, <4>3, <5>3, <5>4
      <4> QED BY <4>2, <4>3
    <3> QED BY <3>1, <3>2, <3>3
  <2> QED BY <2>1, <2>2
<1>6. n = NULL \/ Cardinality(Lower(new)) + (i + 1) <= Cardinality(AllThreads) - 1
  <2>1. Lower(new) = Lower(prio) \ {t}
    <3>1. ~ (new[t] < P) BY <1>2
    <3> QED BY <1>2, <3>1 DEF Lower, P
  <2>2. t \in Lower(prio) BY DEF Lower
  <2>3. Cardinality(Lower(new)) = Cardinality(Lower(prio)) - 1
    BY <2>1, <2>2, LowerFinite, FS_RemoveElement
  <2>4. Cardinality(Lower(prio)) + i <= Cardinality(AllThreads) - 1
    BY <1>2 DEF ChainInv
  <2>5. Cardinality(Lower(prio)) \in Nat /\ Cardinality(AllThreads) \in Nat
    BY LowerFinite
  <2> QED BY <2>3, <2>4, <2>5
<1>7. new[currp] = k.p_prio[currp] BY <1>1, <1>2 DEF P
<1> QED BY <1>2, <1>3, <1>4, <1>5, <1>6, <1>7 DEF ChainInv, P, new

\* A turn that ends the loop.
LEMMA ChainStop ==
    ASSUME MutexInv, NEW prio, NEW t, NEW m \in Mutexes, NEW i \in Nat,
           ChainInv(prio, t, m, i), t = NULL \/ prio[t] >= k.p_prio[currp]
    PROVE  \A j : ChainInv(prio, NULL, m, j)
<1>1. \A u \in AllThreads : ~ (u = t /\ prio[u] < k.p_prio[currp])
  <2>1. prio \in [AllThreads -> Int] /\ k.p_prio[currp] \in Int /\ NULL \notin AllThreads
    BY Types, PriosAreInts DEF ChainInv
  <2> QED BY <2>1
<1> QED BY <1>1 DEF ChainInv

\* The loop comes to its end in as many turns as there are threads, and leaves
\* every thread with its own priority or with that of a thread that waits for it.
LEMMA ChainEnd ==
    ASSUME MutexInv, InheritsNothingElse, NEW m \in Mutexes, m_owner[m] # NULL
    PROVE  LET b == Boost(m_owner[m], k.p_prio[currp])
           IN b.tp = NULL /\ ChainInv(b.s.p_prio, NULL, m, 0)
<1> DEFINE N == Cardinality(AllThreads)
           P == k.p_prio[currp]
<1>1. N \in Nat /\ P \in Prios /\ m_owner[m] \in AllThreads \cup {NULL}
  BY LowerFinite, Types
<1>2. PICK f : IsBoostRun(f, m_owner[m], P) BY <1>1, BoostTurns
<1> DEFINE Good == {i \in 0..N : ChainInv(f[i].s.p_prio, f[i].tp, m, i)}
<1>3. 0 \in Good
  <2>1. f[0].s.p_prio = k.p_prio /\ f[0].tp = m_owner[m] BY <1>2 DEF IsBoostRun
  <2> QED BY <1>1, <2>1, ChainStart
<1>4. ASSUME NEW i \in 1..N, i - 1 \in Good PROVE i \in Good
  <2> DEFINE b == f[i - 1]
             t == b.tp
  <2>1. f[i] = BoostStep(b, P) /\ b \in BoostStates /\ i - 1 \in Nat /\ i \in 0..N
    <3>1. i - 1 \in 0..N /\ i - 1 \in Nat /\ i \in 0..N BY <1>1
    <3> QED BY <1>2, <3>1 DEF IsBoostRun
  <2>2. ChainInv(b.s.p_prio, t, m, i - 1) BY <1>4
  <2>3. CASE t = NULL \/ b.s.p_prio[t] >= P
    <3>1. f[i].s.p_prio = b.s.p_prio /\ f[i].tp = NULL
      BY <1>1, <2>1, <2>3, BoostEffect
    <3>2. ChainInv(b.s.p_prio, NULL, m, i) BY <2>1, <2>2, <2>3, ChainStop
    <3> QED BY <2>1, <3>1, <3>2
  <2>4. CASE ~ (t = NULL \/ b.s.p_prio[t] >= P)
    <3>1. /\ t \in AllThreads
          /\ f[i].s.p_prio = [b.s.p_prio EXCEPT ![t] = P]
          /\ f[i].tp = IF k.p_state[t] = "WTMTX" THEN m_owner[wtobjp[t]] ELSE NULL
      BY <1>1, <2>1, <2>4, BoostEffect
    <3>2. b.s.p_prio[t] < P
      <4>1. b.s.p_prio[t] \in Int /\ P \in Int
        BY <1>1, <2>2, <3>1, PriosAreInts DEF ChainInv
      <4> QED BY <2>4, <4>1
    <3> HIDE DEF b
    <3>3. ChainInv([b.s.p_prio EXCEPT ![t] = P], f[i].tp, m, (i - 1) + 1)
      BY <2>1, <2>2, <3>1, <3>2, ChainStep
    <3>4. (i - 1) + 1 = i BY <1>1
    <3> QED BY <2>1, <3>1, <3>3, <3>4
  <2> QED BY <2>3, <2>4
<1>5. N \in Good
  <2> HIDE DEF Good
  <2>1. \A i \in 0..N : i \in Good BY <1>1, <1>3, <1>4, TurnInduction
  <2> QED BY <1>1, <2>1
<1>6. ChainInv(f[N].s.p_prio, f[N].tp, m, N) BY <1>5
<1>7. f[N].tp = NULL
  <2>1. Cardinality(Lower(f[N].s.p_prio)) \in Nat BY LowerFinite
  <2> QED BY <1>1, <1>6, <2>1 DEF ChainInv
<1>8. Boost(m_owner[m], P) = f[N] BY <1>2 DEF IsBoostRun
<1> QED BY <1>6, <1>7, <1>8 DEF ChainInv

\* The running thread queues on an owned mutex.
LEMMA BlockPrio ==
    ASSUME PrioInv, MutexInv', ThreadCode, NEW m \in Mutexes, m_owner[m] # NULL,
           Block(m)
    PROVE  PrioInv'
<1> DEFINE b == Boost(m_owner[m], k.p_prio[currp])
           q == prio_insert(b.q[m], b.s.p_prio, currp)
<1>1. PICK c \in AllThreads : c = currp BY Types DEF PrioInv
<1>2. /\ MutexInv /\ InheritsNothingElse
      /\ k.p_prio[currp] \in Prios /\ m_owner[m] \in AllThreads \cup {NULL}
      /\ k' = chSchGoSleepS(b.s, "WTMTX")
      /\ waitq' = [b.q EXCEPT ![m] = q]
      /\ UNCHANGED <<p_realprio, p_mtxlist, m_owner>>
      /\ m \in WaitObjects
  BY Types DEF PrioInv, Block, WaitObjects
<1>3. b \in BoostStates /\ ChainInv(b.s.p_prio, NULL, m, 0)
  BY <1>2, BoostOK, ChainEnd
<1> HIDE DEF b
<1>4. /\ b.q \in [WaitObjects -> Seq(AllThreads)]
      /\ SchedInv(b.s) /\ ReadyListOK(b.s) /\ b.s.r_current # Idle
      /\ b.s.p_prio \in [AllThreads -> Prios]
      /\ \A o \in WaitObjects : Elems(b.q[o]) = Elems(waitq[o])
  BY <1>3 DEF BoostStates, ChainInv, ThreadCode, currp
<1>5. k'.p_prio = b.s.p_prio /\ HighestRuns(k')
  BY <1>2, <1>4, GoSleepS DEF Keeps, ThreadStates, Runnable
<1>6. Elems(q) = Elems(waitq[m]) \cup {c}
  <2>1. b.q[m] \in Seq(AllThreads) /\ b.s.p_prio \in [AllThreads -> Int]
    BY <1>2, <1>4, PriosAreInts
  <2>2. Elems(prio_insert(b.q[m], b.s.p_prio, c)) = Elems(b.q[m]) \cup {c}
    <3> DEFINE qm == b.q[m]
               prio == b.s.p_prio
    <3> HIDE DEF qm, prio
    <3>1. qm \in Seq(AllThreads) /\ prio \in [AllThreads -> Int] BY <2>1 DEF qm, prio
    <3>2. Elems(prio_insert(qm, prio, c)) = Elems(qm) \cup {c} BY <3>1, PrioInsert
    <3> QED BY <3>2 DEF qm, prio
  <2> QED BY <1>1, <1>2, <1>4, <2>2
<1> HIDE DEF q
<1>7. \A x \in Mutexes, w \in AllThreads : WaitsFor(w, x, m) => w \in Elems(waitq'[x])
  <2> TAKE x \in Mutexes, w \in AllThreads
  <2>1. x \in WaitObjects BY DEF WaitObjects
  <2>2. CASE x = m
    <3>1. waitq'[x] = q BY <1>2, <1>4, <2>2
    <3> QED BY <1>1, <1>6, <2>2, <3>1 DEF WaitsFor
  <2>3. CASE x # m
    <3>1. waitq'[x] = b.q[x] BY <1>2, <1>4, <2>1, <2>3
    <3> QED BY <1>4, <2>1, <2>3, <3>1 DEF WaitsFor
  <2> QED BY <2>2, <2>3
<1>8. ASSUME NEW t \in AllThreads
      PROVE  k'.p_prio[t] = p_realprio'[t] \/ Inherits(t)'
  <2>1. NULL \notin AllThreads BY <1>2, Types
  <2>2. k'.p_prio[t] = p_realprio'[t] \/ HasPayer(k'.p_prio, m, t, k'.p_prio[t])
    BY <1>2, <1>3, <1>5, <2>1 DEF ChainInv
  <2>3. ASSUME HasPayer(k'.p_prio, m, t, k'.p_prio[t]) PROVE Inherits(t)'
    <3>1. PICK x \in Mutexes, w \in AllThreads :
                 /\ m_owner[x] = t /\ WaitsFor(w, x, m)
                 /\ k'.p_prio[w] = k'.p_prio[t]
      BY <2>3 DEF HasPayer
    <3>2. x \in Elems(p_mtxlist'[t]) BY <1>2, <3>1 DEF MutexInv, Ownership
    <3>3. w \in Elems(waitq'[x]) BY <1>7, <3>1
    <3> QED BY <3>1, <3>2, <3>3 DEF Inherits
  <2> QED BY <2>2, <2>3
<1>9. InheritsNothingElse' BY <1>8 DEF InheritsNothingElse, Inherits
<1> QED BY <1>5, <1>9 DEF PrioInv, HighestPriorityRuns

----------------------------------------------------------------------------
(* The theorems. *)

LEMMA InitPrioInv == Init => PrioInv
<1> SUFFICES ASSUME Init PROVE PrioInv OBVIOUS
<1>1. InheritsNothingElse BY DEF Init, InheritsNothingElse
<1>2. HighestPriorityRuns
  <2>1. Len(<<>>) = 0 OBVIOUS
  <2>2. Elems(k.r_queue) = {} BY <2>1 DEF Init, Elems
  <2> QED BY <2>2 DEF HighestPriorityRuns, HighestRuns
<1> QED BY <1>1, <1>2, InitInv DEF PrioInv

LEMMA NextPrioInv == ASSUME PrioInv, [MutexNext]_vars PROVE PrioInv'
<1>1. MutexInv' BY NextInv DEF PrioInv
<1>2. ASSUME NEW m \in Mutexes, Lock(m) PROVE PrioInv'
  <2>1. ThreadCode /\ UNCHANGED isr /\ chMtxLockS(m) BY <1>2 DEF Lock
  <2>2. CASE m_owner[m] = NULL /\ Acquire(m) BY <1>1, <2>1, <2>2, AcquirePrio
  <2>3. CASE m_owner[m] # NULL /\ Block(m) BY <1>1, <2>1, <2>3, BlockPrio
  <2> QED BY <2>1, <2>2, <2>3 DEF chMtxLockS
<1>3. ASSUME NEW m \in Mutexes, TryLock(m) PROVE PrioInv'
  BY <1>1, <1>3, AcquirePrio DEF TryLock
<1>4. CASE Unlock BY <1>1, <1>4, UnlockPrio
<1>5. CASE UnlockAll BY <1>1, <1>5, UnlockAllPrio
<1>6. ASSUME NEW p \in SetPrios, chThdSetPriority(p) PROVE PrioInv'
  BY <1>1, <1>6, SetPriorityPrio
<1>7. CASE chThdSleep BY <1>1, <1>7, SleepPrio
<1>8. ASSUME NEW t \in Threads, WakeSleeper(t) PROVE PrioInv'
  BY <1>1, <1>8, WakeSleeperPrio
<1>9. CASE IrqExit BY <1>1, <1>9, IrqExitPrio
<1>10. CASE UNCHANGED vars
  <2>1. UNCHANGED <<k, isr, p_realprio, p_mtxlist, waitq>>
    BY <1>10 DEF vars, mtxvars
  <2> QED BY <1>1, <2>1 DEF PrioInv, InheritsNothingElse, HighestPriorityRuns
<1> QED BY <1>2, <1>3, <1>4, <1>5, <1>6, <1>7, <1>8, <1>9, <1>10 DEF MutexNext

LEMMA PrioInvariant == MutexSpec => []PrioInv
<1>1. Init => PrioInv BY InitPrioInv
<1>2. PrioInv /\ [MutexNext]_vars => PrioInv' BY NextPrioInv
<1> QED BY <1>1, <1>2, PTL DEF MutexSpec

\* No thread keeps an inherited priority longer than it holds the mutex it
\* inherited it through, whatever the length of the chain it came along and
\* whatever chThdSetPriority() did meanwhile.
THEOREM InheritanceEnds == MutexSpec => []InheritsNothingElse
<1>1. PrioInv => InheritsNothingElse BY DEF PrioInv
<1> QED BY <1>1, PrioInvariant, PTL

\* No ready thread has a priority above the thread that runs, although
\* chMtxUnlock() lowers a priority without a reschedule.
THEOREM HighestAlwaysRuns == MutexSpec => []HighestPriorityRuns
<1>1. PrioInv => HighestPriorityRuns BY DEF PrioInv
<1> QED BY <1>1, PrioInvariant, PTL

----------------------------------------------------------------------------
(* Condition variables: the waits of ChCond. *)

\* How the thread u takes part in a step in which the threads X leave the wait
\* they are in and the threads J begin to wait for a condition variable.
WaitMove(u, X, J) ==
    IF u \in J
    THEN /\ k.p_state[u] \in Runnable /\ k'.p_state[u] = "WTCOND"
         /\ wtobjp'[u] \in CondVars
    ELSE /\ wtobjp'[u] = wtobjp[u]
         /\ \/ u \in X /\ k'.p_state[u] \in Runnable
            \/ /\ u \notin X
               /\ \/ k'.p_state[u] = k.p_state[u]
                  \/ k'.p_state[u] \in Runnable /\ k.p_state[u] \in Runnable

\* ... and what becomes of the queue of the object o.
QueueMove(o, X, J) ==
    /\ NoDuplicates(waitq'[o]) /\ SortedByPrio(waitq'[o], k'.p_prio)
    /\ Elems(waitq'[o]) = (Elems(waitq[o]) \ X) \cup {u \in J : wtobjp'[u] = o}

\* Such a step keeps the invariant.
LEMMA WaitersMove ==
    ASSUME MutexInv, SchedInv(k'), ReadyListOK(k'), MutexTypeOK', Ownership',
           NEW X, NEW J, J \subseteq AllThreads,
           \A u \in AllThreads : WaitMove(u, X, J),
           \A o \in WaitObjects : QueueMove(o, X, J)
    PROVE  MutexInv'
<1>1. WaitsForObject'
  <2> SUFFICES ASSUME NEW u \in AllThreads
               PROVE  /\ k'.p_state[u] = "WTMTX" => wtobjp'[u] \in Mutexes
                      /\ k'.p_state[u] = "WTCOND" => wtobjp'[u] \in CondVars
    BY DEF WaitsForObject
  <2>1. WaitMove(u, X, J) OBVIOUS
  <2> QED BY <2>1 DEF WaitMove, MutexInv, WaitsForObject, Runnable
<1>2. Queued'
  <2> SUFFICES ASSUME NEW o \in WaitObjects
               PROVE  /\ NoDuplicates(waitq'[o])
                      /\ Elems(waitq'[o]) =
                           {t \in AllThreads :
                              /\ k'.p_state[t] = IF o \in Mutexes THEN "WTMTX" ELSE "WTCOND"
                              /\ wtobjp'[t] = o}
    BY DEF Queued
  <2> DEFINE W == IF o \in Mutexes THEN "WTMTX" ELSE "WTCOND"
  <2>1. QueueMove(o, X, J) OBVIOUS
  <2>2. Elems(waitq[o]) = {t \in AllThreads : k.p_state[t] = W /\ wtobjp[t] = o}
    BY DEF MutexInv, Queued
  <2>3. ASSUME NEW t \in AllThreads
        PROVE  (k'.p_state[t] = W /\ wtobjp'[t] = o) <=>
               \/ k.p_state[t] = W /\ wtobjp[t] = o /\ t \notin X
               \/ t \in J /\ wtobjp'[t] = o
    <3>1. WaitMove(t, X, J) OBVIOUS
    <3>2. W \notin Runnable BY DEF Runnable
    <3>3. CASE t \in J
      <4>1. /\ k.p_state[t] \in Runnable /\ k'.p_state[t] = "WTCOND"
            /\ wtobjp'[t] \in CondVars
        BY <3>1, <3>3 DEF WaitMove
      <4>2. wtobjp'[t] = o => W = "WTCOND" BY <4>1, MutexAssumption
      <4> QED BY <3>2, <3>3, <4>1, <4>2
    <3>4. CASE t \notin J
      <4> HIDE DEF W
      <4> QED BY <3>1, <3>2, <3>4 DEF WaitMove
    <3> QED BY <3>3, <3>4
  <2> HIDE DEF W
  <2>4. Elems(waitq'[o]) = {t \in AllThreads : k'.p_state[t] = W /\ wtobjp'[t] = o}
    BY <2>1, <2>2, <2>3 DEF QueueMove
  <2> QED BY <2>1, <2>4 DEF QueueMove, W
<1>3. QueuesSorted'
  <2>1. \A o \in WaitObjects : SortedByPrio(waitq'[o], k'.p_prio) BY DEF QueueMove
  <2> QED BY <2>1 DEF QueuesSorted
<1> QED BY <1>1, <1>2, <1>3 DEF MutexInv

\* A step that only wakes the threads X of the condition variable c.
Wakes(c, X) ==
    /\ waitq' \in [WaitObjects -> Seq(AllThreads)]
    /\ \A o \in WaitObjects : o # c => waitq'[o] = waitq[o]
    /\ NoDuplicates(waitq'[c]) /\ Elems(waitq'[c]) = Elems(waitq[c]) \ X
    /\ SortedByPrio(waitq'[c], k.p_prio)
    /\ X \subseteq Elems(waitq[c]) /\ \A u \in X : k'.p_state[u] \in Runnable
    /\ SchedInv(k') /\ ReadyListOK(k') /\ Keeps(k, k', X)
    /\ isr' \in BOOLEAN
    /\ UNCHANGED <<p_realprio, p_mtxlist, m_owner, wtobjp>>

LEMMA WakesInv ==
    ASSUME MutexInv, NEW c \in CondVars, NEW X, Wakes(c, X) PROVE MutexInv'
<1>1. /\ waitq' \in [WaitObjects -> Seq(AllThreads)]
      /\ c \in WaitObjects /\ c \notin Mutexes
      /\ SchedInv(k') /\ ReadyListOK(k') /\ k'.p_prio = k.p_prio
      /\ UNCHANGED <<p_realprio, p_mtxlist, m_owner, wtobjp>>
  BY MutexAssumption DEF Wakes, Keeps, WaitObjects
<1>2. MutexTypeOK' BY <1>1, Types DEF MutexTypeOK, SchedInv, Wakes
<1>3. \A x \in Mutexes : waitq'[x] = waitq[x] BY <1>1 DEF Wakes, WaitObjects
<1>4. Ownership' BY <1>1, <1>3 DEF MutexInv, Ownership
<1>5. \A u \in AllThreads : WaitMove(u, X, {})
  BY <1>1 DEF Wakes, Keeps, WaitMove
<1>6. \A u \in X : wtobjp[u] = c
  BY <1>1 DEF Wakes, MutexInv, Queued
<1>7. ASSUME NEW o \in WaitObjects PROVE QueueMove(o, X, {})
  <2>1. CASE o = c BY <1>1, <2>1 DEF Wakes, QueueMove
  <2>2. CASE o # c
    <3>1. Elems(waitq[o]) \cap X = {} BY <1>6, <2>2 DEF MutexInv, Queued
    <3>2. waitq'[o] = waitq[o] BY <2>2 DEF Wakes
    <3>3. NoDuplicates(waitq[o]) /\ SortedByPrio(waitq[o], k.p_prio)
      BY DEF MutexInv, Queued, QueuesSorted
    <3> QED BY <1>1, <3>1, <3>2, <3>3 DEF QueueMove
  <2> QED BY <2>1, <2>2
<1> QED BY <1>1, <1>2, <1>4, <1>5, <1>7, WaitersMove

\* The priorities do not change and neither do the queues of the mutexes.
LEMMA WakesPrio ==
    ASSUME PrioInv, NEW c \in CondVars, NEW X, Wakes(c, X), isr' \/ HighestRuns(k')
    PROVE  PrioInv'
<1>1. MutexInv' BY WakesInv DEF PrioInv
<1>2. /\ k'.p_prio = k.p_prio /\ UNCHANGED <<p_realprio, m_owner>>
      /\ \A x \in Mutexes : waitq'[x] = waitq[x]
  BY MutexAssumption DEF Wakes, Keeps, WaitObjects
<1>3. InheritsNothingElse' BY <1>1, <1>2, InheritanceFrame DEF PrioInv
<1>4. HighestPriorityRuns' BY DEF HighestPriorityRuns
<1> QED BY <1>1, <1>3, <1>4 DEF PrioInv

\* The first waiter of a condition variable leaves its queue.
LEMMA SignalWakes ==
    ASSUME MutexInv, NEW c \in CondVars, waitq[c] # <<>>,
           waitq' = [waitq EXCEPT ![c] = Tail(waitq[c])],
           k' = chSchWakeupS(k, Head(waitq[c])) \/ k' = chSchReadyI(k, Head(waitq[c])),
           isr' \in BOOLEAN, UNCHANGED <<p_realprio, p_mtxlist, m_owner, wtobjp>>
    PROVE  /\ Wakes(c, {Head(waitq[c])})
           /\ k.p_state[Head(waitq[c])] = "WTCOND"
<1> DEFINE t == Head(waitq[c])
           q == Tail(waitq[c])
<1>1. /\ c \in WaitObjects /\ c \notin Mutexes
      /\ waitq[c] \in Seq(AllThreads) /\ NoDuplicates(waitq[c])
      /\ SortedByPrio(waitq[c], k.p_prio) /\ k.p_prio \in [AllThreads -> Int]
      /\ SchedInv(k) /\ ReadyListOK(k)
  BY MutexAssumption, Types DEF WaitObjects, MutexInv, Queued, QueuesSorted
<1>2. /\ t \in Elems(waitq[c]) /\ q \in Seq(AllThreads) /\ NoDuplicates(q)
      /\ Elems(q) = Elems(waitq[c]) \ {t} /\ SortedByPrio(q, k.p_prio)
  BY <1>1, HeadTail
<1>3. t \in AllThreads /\ k.p_state[t] = "WTCOND"
  BY <1>1, <1>2 DEF MutexInv, Queued
<1> HIDE DEF t, q
<1>4. /\ SchedInv(k') /\ ReadyListOK(k') /\ Keeps(k, k', {t})
      /\ k'.p_state[t] \in Runnable
  <2>1. k.p_state[t] \notin Runnable BY <1>3 DEF Runnable
  <2>2. CASE k' = chSchWakeupS(k, t) BY <1>1, <1>3, <2>1, <2>2, WakeupS
  <2>3. CASE k' = chSchReadyI(k, t) BY <1>1, <1>3, <2>1, <2>3, ReadyI DEF Runnable
  <2> QED BY <2>2, <2>3 DEF t
<1>5. /\ waitq' \in [WaitObjects -> Seq(AllThreads)] /\ waitq'[c] = q
      /\ \A o \in WaitObjects : o # c => waitq'[o] = waitq[o]
  BY <1>1, <1>2, Types DEF q
<1>6. Wakes(c, {t}) BY <1>1, <1>2, <1>4, <1>5 DEF Wakes
<1> QED BY <1>3, <1>6 DEF t

\* A broadcast empties the queue.
LEMMA BroadcastWakes ==
    ASSUME MutexInv, NEW c \in CondVars, waitq' = [waitq EXCEPT ![c] = <<>>],
           NEW r, r = ReadyAll(k, waitq[c]),
           k' = chSchRescheduleS(r) \/ k' = r,
           isr' \in BOOLEAN, UNCHANGED <<p_realprio, p_mtxlist, m_owner, wtobjp>>
    PROVE  /\ Wakes(c, Elems(waitq[c]))
           /\ \A t \in Elems(waitq[c]) : k.p_state[t] = "WTCOND"
           /\ k' = chSchRescheduleS(r) => HighestRuns(k')
<1> DEFINE X == Elems(waitq[c])
<1>1. /\ c \in WaitObjects /\ c \notin Mutexes
      /\ waitq[c] \in Seq(AllThreads) /\ NoDuplicates(waitq[c])
      /\ SchedInv(k) /\ ReadyListOK(k)
      /\ \A u \in X : u \in AllThreads /\ k.p_state[u] = "WTCOND"
  BY MutexAssumption, Types DEF WaitObjects, MutexInv, Queued, QueuesSorted
<1>2. /\ SchedInv(r) /\ ReadyListOK(r) /\ Keeps(k, r, X)
      /\ \A u \in X : r.p_state[u] = "READY"
  <2>1. \A u \in X : k.p_state[u] \notin Runnable BY <1>1 DEF Runnable
  <2> QED BY <1>1, <2>1, ReadyAllOK
<1> HIDE DEF X
<1>3. /\ SchedInv(k') /\ ReadyListOK(k') /\ Keeps(r, k', {})
      /\ k' = chSchRescheduleS(r) => HighestRuns(k')
  <2>1. CASE k' = r BY <1>2, <2>1, RescheduleS DEF Keeps
  <2>2. CASE k' = chSchRescheduleS(r) BY <1>2, <2>2, RescheduleS
  <2> QED BY <2>1, <2>2
<1>4. Keeps(k, k', X) /\ \A u \in X : k'.p_state[u] \in Runnable
  BY <1>1, <1>2, <1>3 DEF Keeps, Runnable
<1>5. Len(<<>>) = 0 /\ <<>> \in Seq(AllThreads) OBVIOUS
<1>6. Elems(<<>>) = {} /\ NoDuplicates(<<>>) /\ SortedByPrio(<<>>, k.p_prio)
  BY <1>5 DEF Elems, NoDuplicates, SortedByPrio
<1>7. /\ waitq' \in [WaitObjects -> Seq(AllThreads)] /\ waitq'[c] = <<>>
      /\ \A o \in WaitObjects : o # c => waitq'[o] = waitq[o]
  BY <1>1, <1>5, Types
<1>8. Wakes(c, X) BY <1>1, <1>3, <1>4, <1>6, <1>7 DEF Wakes, X
<1> QED BY <1>1, <1>3, <1>8 DEF X

\* The timer takes a waiter out of the queue, wherever it is in it.
LEMMA TimerWakes ==
    ASSUME MutexInv, NEW t \in AllThreads, k.p_state[t] = "WTCOND",
           waitq' = Dequeued(t), k' = chSchReadyI(k, t),
           UNCHANGED <<isr, p_realprio, p_mtxlist, m_owner, wtobjp>>
    PROVE  wtobjp[t] \in CondVars /\ Wakes(wtobjp[t], {t})
<1> DEFINE c == wtobjp[t]
           q == dequeue(waitq[c], t)
<1>1. /\ c \in CondVars /\ c \in WaitObjects /\ c \notin Mutexes
      /\ waitq[c] \in Seq(AllThreads) /\ NoDuplicates(waitq[c])
      /\ SortedByPrio(waitq[c], k.p_prio) /\ k.p_prio \in [AllThreads -> Int]
      /\ SchedInv(k) /\ ReadyListOK(k) /\ isr \in BOOLEAN
  <2>1. c \in CondVars BY DEF MutexInv, WaitsForObject
  <2>2. c \in WaitObjects /\ c \notin Mutexes BY <2>1, MutexAssumption DEF WaitObjects
  <2> QED BY <2>1, <2>2, Types DEF MutexInv, Queued, QueuesSorted
<1>2. t \in Elems(waitq[c]) BY <1>1 DEF MutexInv, Queued
<1>3. /\ q \in Seq(AllThreads) /\ NoDuplicates(q) /\ Elems(q) = Elems(waitq[c]) \ {t}
      /\ SortedByPrio(q, k.p_prio)
  BY <1>1, <1>2, Dequeue
<1>4. waitq' = [waitq EXCEPT ![c] = q] BY DEF Dequeued
<1> HIDE DEF c, q
<1>5. /\ SchedInv(k') /\ ReadyListOK(k') /\ Keeps(k, k', {t})
      /\ k'.p_state[t] \in Runnable
  <2>1. k.p_state[t] \notin Runnable BY DEF Runnable
  <2> QED BY <1>1, <2>1, ReadyI DEF Runnable
<1>6. /\ waitq' \in [WaitObjects -> Seq(AllThreads)] /\ waitq'[c] = q
      /\ \A o \in WaitObjects : o # c => waitq'[o] = waitq[o]
  BY <1>1, <1>3, <1>4, Types
<1>7. Wakes(c, {t}) BY <1>1, <1>2, <1>3, <1>5, <1>6 DEF Wakes
<1> QED BY <1>1, <1>7 DEF c

\* The first waiter of m, if there is one.
FirstOf(m) == IF waitq[m] = <<>> THEN {} ELSE {Head(waitq[m])}

\* The queues after the first waiter of m has left: as before but for that waiter.
LEMMA UnqueuedOK ==
    ASSUME MutexInv, NEW m \in Mutexes
    PROVE  /\ Unqueued(m) \in [WaitObjects -> Seq(AllThreads)]
           /\ \A o \in WaitObjects :
                 /\ o # m => Unqueued(m)[o] = waitq[o]
                 /\ NoDuplicates(Unqueued(m)[o])
                 /\ SortedByPrio(Unqueued(m)[o], k.p_prio)
                 /\ Elems(Unqueued(m)[o]) = Elems(waitq[o]) \ FirstOf(m)
           /\ FirstOf(m) \subseteq AllThreads
           /\ \A t \in FirstOf(m) : k.p_state[t] = "WTMTX" /\ wtobjp[t] = m
<1>1. /\ m \in WaitObjects /\ waitq \in [WaitObjects -> Seq(AllThreads)]
      /\ k.p_prio \in [AllThreads -> Int]
      /\ \A o \in WaitObjects : NoDuplicates(waitq[o]) /\ SortedByPrio(waitq[o], k.p_prio)
  BY Types DEF WaitObjects, MutexInv, Queued, QueuesSorted
<1>2. CASE waitq[m] = <<>>
  BY <1>1, <1>2 DEF Unqueued, FirstOf
<1>3. CASE waitq[m] # <<>>
  <2> DEFINE t == Head(waitq[m])
             q == Tail(waitq[m])
  <2>1. /\ t \in Elems(waitq[m]) /\ q \in Seq(AllThreads) /\ NoDuplicates(q)
        /\ Elems(q) = Elems(waitq[m]) \ {t} /\ SortedByPrio(q, k.p_prio)
    <3>1. waitq[m] \in Seq(AllThreads) BY <1>1
    <3> QED BY <1>1, <1>3, <3>1, HeadTail
  <2>2. Unqueued(m) = [waitq EXCEPT ![m] = q] /\ FirstOf(m) = {t}
    BY <1>3 DEF Unqueued, FirstOf
  <2> HIDE DEF t, q
  <2>3. t \in AllThreads /\ k.p_state[t] = "WTMTX" /\ wtobjp[t] = m
    BY <1>1, <2>1 DEF MutexInv, Queued
  <2>4. \A o \in WaitObjects : o # m => t \notin Elems(waitq[o])
    BY <2>3 DEF MutexInv, Queued
  <2> QED BY <1>1, <2>1, <2>2, <2>3, <2>4
<1> QED BY <1>2, <1>3

\* What the release of the top mutex m does to the scheduler state.
LEMMA ReleasedOK ==
    ASSUME MutexInv, p_mtxlist[currp] # <<>>, NEW m \in Mutexes
    PROVE  LET s == Released(m)
           IN /\ SchedInv(s) /\ ReadyListOK(s) /\ s.r_current = currp
              /\ s.p_prio = Unboosted(m).p_prio
              /\ \A u \in AllThreads : u # currp => s.p_prio[u] = k.p_prio[u]
              /\ \A u \in FirstOf(m) : s.p_state[u] = "READY"
              /\ \A u \in AllThreads \ FirstOf(m) :
                    \/ s.p_state[u] = k.p_state[u]
                    \/ s.p_state[u] \in Runnable /\ k.p_state[u] \in Runnable
<1>1. SchedInv(k) /\ ReadyListOK(k) BY DEF MutexInv, QueuesSorted
<1>2. CASE waitq[m] = <<>>
  BY <1>1, <1>2 DEF Released, Unboosted, FirstOf, currp
<1>3. CASE waitq[m] # <<>>
  <2> DEFINE t == Head(waitq[m])
             x == WithPrio(k, currp, FallbackPrio)
             s == Released(m)
  <2>1. FirstOf(m) = {t} BY <1>3 DEF FirstOf
  <2>2. t \in AllThreads /\ k.p_state[t] \notin Runnable
    BY <2>1, UnqueuedOK DEF Runnable
  <2>3. s = chSchReadyI(x, t) /\ Unboosted(m) = x
    BY <1>3 DEF Released, Unboosted, WithPrio
  <2>4. /\ SchedInv(x) /\ ReadyListOK(x) /\ x.r_current = currp
        /\ x.p_state = k.p_state /\ x.p_prio = [k.p_prio EXCEPT ![currp] = FallbackPrio]
    <3>1. FallbackPrio \in Prios BY FallbackPrioOK
    <3> QED BY <1>1, <3>1, Types, CurrentNotQueued, NewPrio DEF currp
  <2> HIDE DEF x, t, s
  <2>5. /\ SchedInv(s) /\ ReadyListOK(s) /\ s.r_current = currp
        /\ Keeps(x, s, {t}) /\ s.p_state[t] = "READY"
    BY <2>2, <2>3, <2>4, ReadyI
  <2>6. \A u \in AllThreads : u # currp => s.p_prio[u] = k.p_prio[u]
    BY <2>4, <2>5, Types DEF Keeps
  <2> QED BY <2>1, <2>3, <2>4, <2>5, <2>6 DEF Keeps, s
<1> QED BY <1>2, <1>3

\* The step of chCondWait() on the state of ChMutex.
WaitStep(c, m) ==
    /\ HandOver(m)
    /\ waitq' = [Unqueued(m) EXCEPT
                   ![c] = prio_insert(Unqueued(m)[c], Released(m).p_prio, currp)]
    /\ k' = chSchGoSleepS(Released(m), "WTCOND")
    /\ wtobjp' = [wtobjp EXCEPT ![currp] = c]
    /\ UNCHANGED <<isr, p_realprio>>

LEMMA WaitInv ==
    ASSUME MutexInv, ThreadCode, p_mtxlist[currp] # <<>>, NEW c \in CondVars,
           NEW m \in Mutexes, m = Head(p_mtxlist[currp]), WaitStep(c, m)
    PROVE  MutexInv'
<1> DEFINE s == Released(m)
           X == FirstOf(m)
           Q == Unqueued(m)
           q == prio_insert(Q[c], s.p_prio, currp)
<1>1. PICK p \in AllThreads : p = currp BY Types
<1>2. /\ SchedInv(s) /\ ReadyListOK(s) /\ s.r_current = p
      /\ \A u \in AllThreads : u # p => s.p_prio[u] = k.p_prio[u]
      /\ \A u \in X : s.p_state[u] = "READY"
      /\ \A u \in AllThreads \ X :
            \/ s.p_state[u] = k.p_state[u]
            \/ s.p_state[u] \in Runnable /\ k.p_state[u] \in Runnable
  BY <1>1, ReleasedOK
<1>3. /\ Q \in [WaitObjects -> Seq(AllThreads)]
      /\ \A o \in WaitObjects :
            /\ o # m => Q[o] = waitq[o]
            /\ NoDuplicates(Q[o]) /\ SortedByPrio(Q[o], k.p_prio)
            /\ Elems(Q[o]) = Elems(waitq[o]) \ X
      /\ X \subseteq AllThreads /\ \A t \in X : k.p_state[t] = "WTMTX"
  BY UnqueuedOK
<1>4. /\ waitq' = [Q EXCEPT ![c] = q] /\ k' = chSchGoSleepS(s, "WTCOND")
      /\ wtobjp' = [wtobjp EXCEPT ![p] = c]
      /\ UNCHANGED <<isr, p_realprio>> /\ HandOver(m)
  BY <1>1 DEF WaitStep
<1>5. /\ m_owner' \in [Mutexes -> AllThreads \cup {NULL}]
      /\ p_mtxlist' \in [AllThreads -> Seq(Mutexes)]
      /\ Ownership'
  <2>1. \A x \in Mutexes : waitq'[x] = Unqueued(m)[x]
    BY <1>3, <1>4, MutexAssumption DEF WaitObjects
  <2> QED BY <1>4, <2>1, HandOverOwnership
<1> HIDE DEF s, Q
<1>6. c \in WaitObjects /\ p # Idle BY <1>1 DEF WaitObjects, ThreadCode
<1>7. /\ SchedInv(k') /\ ReadyListOK(k') /\ Keeps(s, k', {p})
      /\ k'.p_state[p] = "WTCOND"
  <2>1. "WTCOND" \in ThreadStates \ Runnable BY DEF ThreadStates, Runnable
  <2> QED BY <1>2, <1>4, <1>6, <2>1, GoSleepS
<1>8. k.p_state[p] = "CURRENT" /\ \A o \in WaitObjects : p \notin Elems(waitq[o])
  BY <1>1, CurrentNotQueued
<1>9. ASSUME NEW o \in WaitObjects PROVE SortedByPrio(Q[o], k'.p_prio)
  <2>1. k.p_prio \in [AllThreads -> Int] /\ k'.p_prio \in [AllThreads -> Int]
    BY <1>7, Types, PriosAreInts DEF SchedInv, SchedStates
  <2>2. k'.p_prio = s.p_prio BY <1>7 DEF Keeps
  <2>3. Q[o] \in Seq(AllThreads) BY <1>3
  <2>4. \A u \in Elems(Q[o]) : u \in AllThreads /\ u # p
    <3>1. \A u \in Elems(Q[o]) : u \in AllThreads BY <2>3 DEF Elems
    <3>2. Elems(Q[o]) = Elems(waitq[o]) \ X BY <1>3
    <3>3. p \notin Elems(waitq[o]) BY <1>8
    <3> HIDE DEF X
    <3> QED BY <3>1, <3>2, <3>3
  <2>5. \A u \in Elems(Q[o]) : k.p_prio[u] = k'.p_prio[u] BY <1>2, <2>2, <2>4
  <2>6. SortedByPrio(Q[o], k.p_prio) BY <1>3
  <2> QED BY <2>1, <2>3, <2>5, <2>6, SortedCongruence
<1>10. /\ q \in Seq(AllThreads) /\ Elems(q) = Elems(Q[c]) \cup {p}
       /\ NoDuplicates(q) /\ SortedByPrio(q, k'.p_prio)
  <2> DEFINE qc == Q[c]
             prio == k'.p_prio
  <2>1. q = prio_insert(qc, prio, p) BY <1>1, <1>7 DEF Keeps
  <2>2. /\ qc \in Seq(AllThreads) /\ NoDuplicates(qc) /\ SortedByPrio(qc, prio)
        /\ p \notin Elems(qc)
    BY <1>3, <1>6, <1>8, <1>9
  <2>3. prio \in [AllThreads -> Int] BY <1>7, PriosAreInts DEF SchedInv, SchedStates
  <2> HIDE DEF q, qc, prio
  <2>4. /\ prio_insert(qc, prio, p) \in Seq(AllThreads)
        /\ Elems(prio_insert(qc, prio, p)) = Elems(qc) \cup {p}
        /\ NoDuplicates(qc) /\ p \notin Elems(qc) => NoDuplicates(prio_insert(qc, prio, p))
        /\ SortedByPrio(qc, prio) => SortedByPrio(prio_insert(qc, prio, p), prio)
    BY <2>2, <2>3, PrioInsert
  <2> QED BY <2>1, <2>2, <2>4 DEF qc, prio
<1> HIDE DEF q, X
<1>11. MutexTypeOK'
  <2>1. waitq' \in [WaitObjects -> Seq(AllThreads)] BY <1>3, <1>4, <1>6, <1>10
  <2>2. wtobjp' \in [AllThreads -> WaitObjects \cup {NULL}] BY <1>4, <1>6, Types
  <2> QED BY <1>4, <1>5, <1>7, <2>1, <2>2, Types DEF MutexTypeOK, SchedInv
<1>12. wtobjp'[p] = c /\ \A u \in AllThreads : u # p => wtobjp'[u] = wtobjp[u]
  BY <1>4, Types
<1>13. ASSUME NEW u \in AllThreads PROVE WaitMove(u, X, {p})
  <2>1. CASE u = p BY <1>7, <1>8, <1>12, <2>1 DEF WaitMove, Runnable
  <2>2. CASE u # p BY <1>2, <1>7, <1>12, <2>2 DEF WaitMove, Keeps, Runnable
  <2> QED BY <2>1, <2>2
<1>14. ASSUME NEW o \in WaitObjects PROVE QueueMove(o, X, {p})
  <2>1. CASE o = c
    <3>1. waitq'[o] = q BY <1>3, <1>4, <1>6, <2>1
    <3>2. {u \in {p} : wtobjp'[u] = o} = {p} BY <1>12, <2>1
    <3> QED BY <1>3, <1>10, <2>1, <3>1, <3>2 DEF QueueMove
  <2>2. CASE o # c
    <3>1. waitq'[o] = Q[o] BY <1>3, <1>4, <2>2
    <3>2. {u \in {p} : wtobjp'[u] = o} = {} BY <1>12, <2>2
    <3> QED BY <1>3, <1>9, <3>1, <3>2 DEF QueueMove
  <2> QED BY <2>1, <2>2
<1> QED BY <1>5, <1>7, <1>11, <1>13, <1>14, WaitersMove

LEMMA WaitPrio ==
    ASSUME PrioInv, ThreadCode, p_mtxlist[currp] # <<>>, NEW c \in CondVars,
           NEW m \in Mutexes, m = Head(p_mtxlist[currp]), WaitStep(c, m)
    PROVE  PrioInv'
<1>1. MutexInv /\ InheritsNothingElse /\ MutexInv' BY WaitInv DEF PrioInv
<1>2. /\ SchedInv(Released(m)) /\ ReadyListOK(Released(m))
      /\ Released(m).r_current = currp
      /\ Released(m).p_prio = Unboosted(m).p_prio
  BY <1>1, ReleasedOK
<1>3. k'.p_prio = Unboosted(m).p_prio /\ HighestRuns(k')
  <2>1. "WTCOND" \in ThreadStates \ Runnable /\ currp # Idle
    BY DEF ThreadStates, Runnable, ThreadCode
  <2> QED BY <1>2, <2>1, GoSleepS DEF WaitStep, Keeps
<1>4. \A x \in Mutexes : waitq'[x] = Unqueued(m)[x]
  BY <1>1, UnqueuedOK, MutexAssumption DEF WaitStep, WaitObjects
<1>5. InheritsNothingElse'
  BY <1>1, <1>3, <1>4, HandOverPrio DEF WaitStep
<1> QED BY <1>1, <1>3, <1>5 DEF PrioInv, HighestPriorityRuns

----------------------------------------------------------------------------
(* The threads in a wait and their timers. *)

\* Between the release of its mutex and the end of its wait a thread waits for
\* the condition variable or may run, and does not own the mutex; only such a
\* thread has a timer.
WaitFits(t) ==
    /\ vt[t] = "fired" => isr
    /\ vt[t] # "off" => relock[t] # NULL
    /\ relock[t] # NULL => /\ t # Idle /\ m_owner[relock[t]] # t
                           /\ k.p_state[t] \in Runnable \cup {"WTCOND"}
    /\ k.p_state[t] = "WTCOND" => relock[t] # NULL

\* No interrupt comes between the end of the sleep and the second lock.
CondInv ==
    /\ PrioInv
    /\ CondTypeOK
    /\ isr => ~Locked
    /\ \A t \in AllThreads : WaitFits(t)

\* What the invariant says of the types of ChCond.
LEMMA CondTypes ==
    ASSUME CondInv
    PROVE  /\ MutexInv /\ PrioInv
           /\ relock \in [AllThreads -> Mutexes \cup {NULL}]
           /\ rdymsg \in [AllThreads -> WakeMsgs \cup {NULL}]
           /\ vt \in [AllThreads -> {"off", "armed", "fired"}]
           /\ NULL \notin Mutexes /\ NULL \notin AllThreads
           /\ currp \in AllThreads /\ isr \in BOOLEAN
<1>1. MutexInv BY DEF CondInv, PrioInv
<1> QED BY <1>1, Types, MutexAssumption DEF CondInv, CondTypeOK, WaitObjects

\* A mutex stays with its owner, becomes free, or goes to the running thread or
\* to a thread that waits for a mutex.
OwnerMoves ==
    \A m \in Mutexes :
       \/ m_owner'[m] \in {m_owner[m], NULL, currp}
       \/ m_owner'[m] \in AllThreads /\ k.p_state[m_owner'[m]] = "WTMTX"

LEMMA HandOffMoves ==
    ASSUME MutexInv, \A m \in Mutexes : HandOff(m) PROVE OwnerMoves
<1> SUFFICES ASSUME NEW m \in Mutexes, m_owner'[m] # m_owner[m], m_owner'[m] # NULL,
                    m_owner[m] # NULL
             PROVE  m_owner'[m] \in AllThreads /\ k.p_state[m_owner'[m]] = "WTMTX"
  <2>1. \A m \in Mutexes : m_owner[m] = NULL /\ m_owner'[m] # NULL => m_owner'[m] = currp
    BY DEF HandOff
  <2> QED BY <2>1 DEF OwnerMoves
<1>1. m_owner'[m] \in Elems(waitq[m])
  <2>1. HandOff(m) OBVIOUS
  <2> QED BY <2>1 DEF HandOff
<1> QED BY <1>1 DEF MutexInv, Queued, WaitObjects

\* A step of the running thread, or of an interrupt, in which no other thread
\* begins a wait.
LEMMA OthersFit ==
    ASSUME CondInv, NEW p \in AllThreads, p = currp, OwnerMoves, WaitFits(p)',
           \A t \in AllThreads : t # p =>
              /\ relock'[t] = relock[t]
              /\ vt'[t] # "off" => relock[t] # NULL
              /\ vt'[t] = "fired" => isr'
              /\ k'.p_state[t] = k.p_state[t] \/ k'.p_state[t] \in Runnable
    PROVE  \A t \in AllThreads : WaitFits(t)'
<1> SUFFICES ASSUME NEW t \in AllThreads, t # p PROVE WaitFits(t)'
  OBVIOUS
<1>1. /\ relock'[t] = relock[t]
      /\ vt'[t] # "off" => relock[t] # NULL
      /\ vt'[t] = "fired" => isr'
      /\ k'.p_state[t] = k.p_state[t] \/ k'.p_state[t] \in Runnable
  OBVIOUS
<1>2. /\ relock[t] # NULL => /\ t # Idle /\ m_owner[relock[t]] # t
                             /\ k.p_state[t] \in Runnable \cup {"WTCOND"}
      /\ k.p_state[t] = "WTCOND" => relock[t] # NULL
  BY DEF CondInv, WaitFits
<1>3. ASSUME relock[t] # NULL PROVE m_owner'[relock[t]] # t
  <2>1. relock[t] \in Mutexes /\ t # NULL BY <1>3, CondTypes
  <2>2. k.p_state[t] # "WTMTX" /\ m_owner[relock[t]] # t BY <1>2, <1>3 DEF Runnable
  <2> QED BY <2>1, <2>2 DEF OwnerMoves
<1>4. k'.p_state[t] = "WTCOND" => k.p_state[t] = "WTCOND" BY <1>1 DEF Runnable
<1> QED BY <1>1, <1>2, <1>3, <1>4 DEF WaitFits

\* A step between two waits, in which no thread leaves or begins one.
LEMMA OutsideWaits ==
    ASSUME CondInv, PrioInv', CondTypeOK', ~Locked, OwnerMoves, ThreadMoves,
           relock' = relock, \A t \in AllThreads : vt'[t] # "off" => vt[t] # "off",
           \A t \in AllThreads : vt'[t] = "fired" => isr', isr' => currp' = currp
    PROVE  CondInv'
<1>1. PICK p \in AllThreads : p = currp BY CondTypes
<1>2. relock[p] = NULL BY <1>1 DEF Locked
<1>3. WaitFits(p) BY DEF CondInv
<1>4. vt[p] = "off" /\ k.p_state[p] # "WTCOND" BY <1>2, <1>3 DEF WaitFits
<1>5. k'.p_state[p] # "WTCOND" BY <1>4 DEF ThreadMoves, Runnable
<1>6. WaitFits(p)' BY <1>2, <1>4, <1>5 DEF WaitFits
<1>7. ASSUME NEW t \in AllThreads, t # p
      PROVE  /\ relock'[t] = relock[t]
             /\ vt'[t] # "off" => relock[t] # NULL
             /\ vt'[t] = "fired" => isr'
             /\ k'.p_state[t] = k.p_state[t] \/ k'.p_state[t] \in Runnable
  <2>1. vt[t] # "off" => relock[t] # NULL BY DEF CondInv, WaitFits
  <2> QED BY <1>1, <1>7, <2>1 DEF ThreadMoves
<1>8. \A t \in AllThreads : WaitFits(t)' BY <1>1, <1>6, <1>7, OthersFit
<1>9. isr' => ~Locked' BY DEF Locked
<1> QED BY <1>8, <1>9 DEF CondInv

\* The initial state: nobody waits.
LEMMA InitCondInv == CondInit => CondInv
<1> SUFFICES ASSUME CondInit PROVE CondInv OBVIOUS
<1>1. PrioInv /\ MutexTypeOK
  BY InitPrioInv DEF CondInit, PrioInv, MutexInv
<1>2. CondTypeOK BY <1>1 DEF CondInit, CondTypeOK
<1>3. ASSUME NEW t \in AllThreads PROVE WaitFits(t)
  <2>1. k.p_state[t] # "WTCOND" BY DEF CondInit, Init
  <2> QED BY <2>1 DEF CondInit, WaitFits
<1>4. ~isr BY DEF CondInit, Init
<1> QED BY <1>1, <1>2, <1>3, <1>4 DEF CondInv

\* The services of ChMutex.
LEMMA MutexStepCond == ASSUME CondInv, MutexStep PROVE CondInv'
<1>1. MutexInv /\ PrioInv BY CondTypes
<1>2. MutexNext /\ ~Locked /\ UNCHANGED <<relock, rdymsg, vt>>
  BY DEF MutexStep, MutexNext, condvars
<1>3. PrioInv' /\ MutexInv' /\ ThreadMoves
  BY <1>1, <1>2, NextInv, NextPrioInv
<1>4. OwnerMoves BY <1>1, <1>2, HandOffStep, HandOffMoves
<1>5. CondTypeOK' BY <1>2, <1>3 DEF CondInv, CondTypeOK, MutexInv
<1>6. \/ ~isr /\ ~isr'
      \/ isr' /\ currp' = currp
      \/ CallbacksDone /\ ~isr'
  <2>1. ASSUME NEW m \in Mutexes, Lock(m) \/ TryLock(m) PROVE ~isr /\ isr' = isr
    BY <2>1 DEF Lock, TryLock, ThreadCode
  <2>2. CASE Unlock \/ UnlockAll BY <2>2 DEF Unlock, UnlockAll, ThreadCode
  <2>3. ASSUME NEW q \in SetPrios, chThdSetPriority(q) PROVE ~isr /\ isr' = isr
    BY <2>3 DEF chThdSetPriority, ThreadCode
  <2>4. CASE chThdSleep BY <2>4 DEF chThdSleep, ThreadCode
  <2>5. ASSUME NEW t \in Threads, WakeSleeper(t) PROVE isr' /\ currp' = currp
    <3>1. SchedInv(k) /\ t \in AllThreads /\ k.p_state[t] \notin Runnable
      BY <1>1, <2>5 DEF MutexInv, WakeSleeper, AllThreads, Runnable
    <3> QED BY <2>5, <3>1, ReadyI DEF WakeSleeper, currp
  <2>6. CASE CallbacksDone /\ IrqExit BY <2>6 DEF IrqExit
  <2> QED BY <2>1, <2>2, <2>3, <2>4, <2>5, <2>6 DEF MutexStep
<1>7. \A t \in AllThreads : vt'[t] = "fired" => isr'
  BY <1>2, <1>6 DEF CallbacksDone, CondInv, WaitFits
<1>8. isr' => currp' = currp BY <1>6
<1> QED BY <1>2, <1>3, <1>4, <1>5, <1>7, <1>8, OutsideWaits

\* A signal, a broadcast or a timer wakes the threads X of c.
LEMMA WakesCond ==
    ASSUME CondInv, ~Locked, NEW c \in CondVars, NEW X, Wakes(c, X),
           isr' \/ HighestRuns(k'), isr' => currp' = currp, isr => isr',
           relock' = relock, rdymsg' \in [AllThreads -> WakeMsgs \cup {NULL}],
           vt' \in [AllThreads -> {"off", "armed", "fired"}],
           \A t \in AllThreads : vt'[t] = vt[t] \/ vt'[t] = "off"
    PROVE  CondInv'
<1>1. MutexInv /\ PrioInv BY CondTypes
<1>2. PrioInv' BY <1>1, WakesPrio
<1>3. CondTypeOK' BY <1>2 DEF PrioInv, MutexInv, CondInv, CondTypeOK
<1>4. OwnerMoves BY DEF Wakes, OwnerMoves
<1>5. ThreadMoves BY DEF Wakes, Keeps, ThreadMoves
<1>6. \A t \in AllThreads : vt'[t] = "fired" => isr' BY DEF CondInv, WaitFits
<1> QED BY <1>2, <1>3, <1>4, <1>5, <1>6, OutsideWaits

LEMMA SignalCond ==
    ASSUME CondInv, NEW c \in CondVars, chCondSignal(c) \/ chCondSignalI(c)
    PROVE  CondInv'
<1> DEFINE t == Head(waitq[c])
<1>1. MutexInv /\ SchedInv(k) /\ ReadyListOK(k) /\ isr \in BOOLEAN
  BY CondTypes DEF MutexInv, QueuesSorted
<1>2. /\ waitq[c] # <<>> /\ waitq' = [waitq EXCEPT ![c] = Tail(waitq[c])] /\ ~Locked
      /\ rdymsg' = [rdymsg EXCEPT ![t] = "RDY_OK"]
      /\ isr' \in BOOLEAN /\ (isr => isr')
      /\ UNCHANGED <<p_realprio, p_mtxlist, m_owner, wtobjp, relock, vt>>
      /\ \/ k' = chSchWakeupS(k, t) /\ ~isr /\ ~isr'
         \/ k' = chSchReadyI(k, t) /\ isr'
  <2>1. CASE chCondSignal(c)
    <3>1. /\ ~isr /\ isr' = isr /\ ~Locked /\ waitq[c] # <<>>
          /\ waitq' = [waitq EXCEPT ![c] = Tail(waitq[c])]
          /\ rdymsg' = [rdymsg EXCEPT ![t] = "RDY_OK"]
          /\ k' = chSchWakeupS(k, t)
          /\ UNCHANGED <<p_realprio, p_mtxlist, m_owner, wtobjp, relock, vt>>
      BY <2>1 DEF chCondSignal, CondCode, ThreadCode
    <3> QED BY <1>1, <3>1
  <2>2. CASE chCondSignalI(c)
    <3>1. /\ isr' = TRUE /\ ~Locked /\ waitq[c] # <<>>
          /\ waitq' = [waitq EXCEPT ![c] = Tail(waitq[c])]
          /\ rdymsg' = [rdymsg EXCEPT ![t] = "RDY_OK"]
          /\ k' = chSchReadyI(k, t)
          /\ UNCHANGED <<p_realprio, p_mtxlist, m_owner, wtobjp, relock, vt>>
      BY <2>2 DEF chCondSignalI
    <3> QED BY <3>1
  <2> QED BY <2>1, <2>2
<1>3. Wakes(c, {t}) /\ k.p_state[t] = "WTCOND" /\ t \in AllThreads
  <2>1. Wakes(c, {t}) /\ k.p_state[t] = "WTCOND" BY <1>1, <1>2, SignalWakes
  <2>2. t \in Elems(waitq[c]) BY <2>1 DEF Wakes
  <2> HIDE DEF t
  <2> QED BY <1>1, <2>1, <2>2 DEF MutexInv, Queued, WaitObjects
<1> HIDE DEF t
<1>4. isr' \/ HighestRuns(k')
  <2>1. ASSUME k' = chSchWakeupS(k, t), ~isr PROVE HighestRuns(k')
    <3>1. HighestRuns(k) /\ k.p_state[t] \notin Runnable
      BY <1>3, <2>1 DEF CondInv, PrioInv, HighestPriorityRuns, Runnable
    <3> QED BY <1>1, <1>3, <2>1, <3>1, WakeupS
  <2> QED BY <1>2, <2>1
<1>5. isr' => currp' = currp
  <2>1. k.p_state[t] \notin Runnable BY <1>3 DEF Runnable
  <2> QED BY <1>1, <1>2, <1>3, <2>1, ReadyI DEF currp
<1>6. /\ rdymsg' \in [AllThreads -> WakeMsgs \cup {NULL}]
      /\ vt' \in [AllThreads -> {"off", "armed", "fired"}]
  BY <1>2, CondTypes DEF WakeMsgs
<1> QED BY <1>2, <1>3, <1>4, <1>5, <1>6, WakesCond

LEMMA BroadcastCond ==
    ASSUME CondInv, NEW c \in CondVars, chCondBroadcast(c) \/ chCondBroadcastI(c)
    PROVE  CondInv'
<1> DEFINE r == ReadyAll(k, waitq[c])
           X == Elems(waitq[c])
<1>1. MutexInv /\ SchedInv(k) /\ isr \in BOOLEAN BY CondTypes DEF MutexInv
<1>2. /\ waitq' = [waitq EXCEPT ![c] = <<>>] /\ ~Locked
      /\ rdymsg' = [t \in AllThreads |-> IF t \in X THEN "RDY_RESET" ELSE rdymsg[t]]
      /\ isr' \in BOOLEAN /\ (isr => isr')
      /\ UNCHANGED <<p_realprio, p_mtxlist, m_owner, wtobjp, relock, vt>>
      /\ \/ k' = chSchRescheduleS(r) /\ ~isr'
         \/ k' = r /\ isr'
  <2>1. BroadcastI(c) /\ ~Locked
    BY DEF chCondBroadcast, chCondBroadcastI, CondCode
  <2>2. /\ waitq' = [waitq EXCEPT ![c] = <<>>]
        /\ rdymsg' = [t \in AllThreads |-> IF t \in X THEN "RDY_RESET" ELSE rdymsg[t]]
        /\ UNCHANGED <<p_realprio, p_mtxlist, m_owner, wtobjp, relock, vt>>
    BY <2>1 DEF BroadcastI, Woken
  <2>3. CASE chCondBroadcast(c)
    <3>1. k' = chSchRescheduleS(r) /\ ~isr /\ isr' = isr
      BY <2>3 DEF chCondBroadcast, Woken, CondCode, ThreadCode
    <3> QED BY <1>1, <2>1, <2>2, <3>1
  <2>4. CASE chCondBroadcastI(c)
    <3>1. k' = r /\ isr' = TRUE BY <2>4 DEF chCondBroadcastI, Woken
    <3> QED BY <2>1, <2>2, <3>1
  <2> QED BY <2>3, <2>4
<1> HIDE DEF r
<1>3. /\ Wakes(c, X) /\ \A t \in X : k.p_state[t] = "WTCOND"
      /\ k' = chSchRescheduleS(r) => HighestRuns(k')
  <2>1. k' = chSchRescheduleS(r) \/ k' = r BY <1>2
  <2> QED BY <1>1, <1>2, <2>1, BroadcastWakes DEF r
<1> HIDE DEF X
<1>4. isr' \/ HighestRuns(k') BY <1>2, <1>3
<1>5. isr' => currp' = currp
  <2>1. waitq[c] \in Seq(AllThreads) /\ NoDuplicates(waitq[c])
    BY <1>1, Types DEF MutexInv, Queued, WaitObjects
  <2>2. \A u \in Elems(waitq[c]) : k.p_state[u] \notin Runnable
    BY <1>3 DEF X, Runnable
  <2>3. r.r_current = k.r_current BY <1>1, <2>1, <2>2, ReadyAllOK DEF r
  <2> QED BY <1>2, <2>3 DEF currp
<1>6. /\ rdymsg' \in [AllThreads -> WakeMsgs \cup {NULL}]
      /\ vt' \in [AllThreads -> {"off", "armed", "fired"}]
  BY <1>2, CondTypes DEF WakeMsgs
<1> QED BY <1>2, <1>3, <1>4, <1>5, <1>6, WakesCond

\* The timer of a wait fires and, later in the same interrupt, wakes its thread.
LEMMA TimerCond ==
    ASSUME CondInv, NEW t \in Threads, TimerExpires(t) \/ TimerCallback(t)
    PROVE  CondInv'
<1>1. /\ MutexInv /\ PrioInv /\ SchedInv(k) /\ t \in AllThreads
      /\ vt \in [AllThreads -> {"off", "armed", "fired"}]
      /\ rdymsg \in [AllThreads -> WakeMsgs \cup {NULL}]
  BY CondTypes DEF MutexInv, AllThreads
<1>2. ASSUME UNCHANGED <<k, p_realprio, p_mtxlist, m_owner, waitq, wtobjp>>, isr' = TRUE
      PROVE  PrioInv' /\ ThreadMoves /\ OwnerMoves /\ currp' = currp
  <2>1. WaitsForObject' /\ Queued' BY <1>1, <1>2, WaitFrame
  <2>2. MutexInv'
    BY <1>1, <1>2, <2>1 DEF MutexInv, MutexTypeOK, Ownership, QueuesSorted
  <2>3. InheritsNothingElse' BY <1>1, <1>2 DEF PrioInv, InheritsNothingElse
  <2> QED BY <1>2, <2>2, <2>3
          DEF PrioInv, HighestPriorityRuns, ThreadMoves, OwnerMoves, currp
<1>3. CASE TimerExpires(t)
  <2>1. /\ ~Locked /\ vt[t] = "armed" /\ isr' = TRUE
        /\ vt' = [vt EXCEPT ![t] = "fired"]
        /\ UNCHANGED <<k, p_realprio, p_mtxlist, m_owner, waitq, wtobjp, relock, rdymsg>>
    BY <1>3 DEF TimerExpires, mtxvars
  <2>2. PrioInv' /\ ThreadMoves /\ OwnerMoves /\ currp' = currp BY <1>2, <2>1
  <2>3. CondTypeOK' BY <1>1, <2>1, <2>2 DEF PrioInv, MutexInv, CondInv, CondTypeOK
  <2>4. \A u \in AllThreads : vt'[u] # "off" => vt[u] # "off" BY <1>1, <2>1
  <2> QED BY <2>1, <2>2, <2>3, <2>4, OutsideWaits
<1>4. CASE TimerCallback(t)
  <2>1. /\ vt[t] = "fired" /\ vt' = [vt EXCEPT ![t] = "off"] /\ relock' = relock
        /\ UNCHANGED <<isr, p_realprio, p_mtxlist, m_owner, wtobjp>>
    BY <1>4 DEF TimerCallback
  <2>2. isr /\ ~Locked
    <3>1. WaitFits(t) BY <1>1 DEF CondInv
    <3> QED BY <2>1, <3>1 DEF CondInv, WaitFits
  <2>3. /\ vt' \in [AllThreads -> {"off", "armed", "fired"}]
        /\ \A u \in AllThreads : vt'[u] = vt[u] \/ vt'[u] = "off"
    BY <1>1, <2>1
  <2>4. isr' = TRUE BY <2>1, <2>2, CondTypes
  <2>5. CASE k.p_state[t] = "READY" /\ UNCHANGED <<k, waitq>> /\ rdymsg' = rdymsg
    <3>1. PrioInv' /\ ThreadMoves /\ OwnerMoves /\ currp' = currp
      BY <1>2, <2>1, <2>4, <2>5
    <3>2. CondTypeOK' BY <2>1, <2>3, <2>5, <3>1 DEF PrioInv, MutexInv, CondInv, CondTypeOK
    <3> QED BY <2>1, <2>2, <2>3, <2>4, <3>1, <3>2, OutsideWaits
  <2>6. CASE /\ k.p_state[t] = "WTCOND" /\ waitq' = Dequeued(t)
             /\ rdymsg' = [rdymsg EXCEPT ![t] = "RDY_TIMEOUT"]
             /\ k' = chSchReadyI(k, t)
    <3>1. wtobjp[t] \in CondVars /\ Wakes(wtobjp[t], {t})
      BY <1>1, <2>1, <2>6, TimerWakes
    <3>2. rdymsg' \in [AllThreads -> WakeMsgs \cup {NULL}] BY <1>1, <2>6 DEF WakeMsgs
    <3>3. currp' = currp
      <4>1. k.p_state[t] \notin Runnable BY <2>6 DEF Runnable
      <4> QED BY <1>1, <2>6, <4>1, ReadyI DEF currp
    <3> QED BY <2>1, <2>2, <2>3, <2>4, <3>1, <3>2, <3>3, WakesCond
  <2> QED BY <1>4, <2>5, <2>6 DEF TimerCallback, Answer
<1> QED BY <1>3, <1>4

\* A thread goes to wait: it gives its top mutex up and has to lock it again.
LEMMA CondWaitCond ==
    ASSUME CondInv, NEW c \in CondVars, NEW timed \in BOOLEAN, chCondWait(c, timed)
    PROVE  CondInv'
<1> DEFINE m == Head(p_mtxlist[currp])
<1>1. PICK p \in AllThreads : p = currp BY CondTypes
<1>2. /\ MutexInv /\ PrioInv /\ m \in Mutexes
      /\ ThreadCode /\ ~isr /\ relock[p] = NULL /\ p # Idle
      /\ p_mtxlist[currp] # <<>>
  <2>1. MutexInv /\ PrioInv BY CondTypes
  <2>2. CondCode /\ p_mtxlist[currp] # <<>> BY DEF chCondWait
  <2>3. p_mtxlist[currp] \in Seq(Mutexes) BY <2>1, Types
  <2>4. m \in Mutexes BY <2>2, <2>3, HeadTail
  <2> HIDE DEF m
  <2> QED BY <1>1, <2>1, <2>2, <2>4 DEF CondCode, ThreadCode, Locked
<1>3. /\ WaitStep(c, m)
      /\ relock' = [relock EXCEPT ![p] = m]
      /\ vt' = [vt EXCEPT ![p] = IF timed THEN "armed" ELSE vt[p]]
      /\ UNCHANGED <<isr, rdymsg>>
  BY <1>1 DEF chCondWait, WaitStep, QueueByPrio
<1>4. PrioInv' BY <1>2, <1>3, WaitPrio
<1>5. OwnerMoves
  <2>1. \A x \in Mutexes : HandOff(x) BY <1>2, <1>3, TopHandOff DEF WaitStep
  <2> QED BY <1>2, <2>1, HandOffMoves
<1>6. m_owner'[m] # p
  <2>1. m_owner[m] = p /\ m_owner \in [Mutexes -> AllThreads \cup {NULL}] /\ p # NULL
    <3>1. p_mtxlist[p] \in Seq(Mutexes) BY <1>1, <1>2, Types
    <3>2. m \in Elems(p_mtxlist[p]) BY <1>1, <1>2, <3>1, HeadTail
    <3> HIDE DEF m
    <3> QED BY <1>2, <3>2, Types DEF MutexInv, Ownership
  <2>2. waitq[m] # <<>> => Head(waitq[m]) # p
    <3>1. waitq[m] # <<>> => Head(waitq[m]) \in Elems(waitq[m]) BY <1>2, FirstWaiter
    <3>2. p \notin Elems(waitq[m]) BY <1>1, <1>2, CurrentNotQueued DEF WaitObjects
    <3> QED BY <3>1, <3>2
  <2>3. m_owner' = [m_owner EXCEPT ![m] =
                      IF waitq[m] = <<>> THEN NULL ELSE Head(waitq[m])]
    BY <1>3 DEF WaitStep, HandOver
  <2> HIDE DEF m
  <2> QED BY <1>2, <2>1, <2>2, <2>3
<1> HIDE DEF m
<1>7. /\ k'.p_state[p] = "WTCOND" /\ p # Idle
      /\ \A u \in AllThreads : u # p =>
            k'.p_state[u] = k.p_state[u] \/ k'.p_state[u] \in Runnable
  <2> DEFINE s == Released(m)
  <2>1. /\ SchedInv(s) /\ s.r_current = p
        /\ \A u \in AllThreads :
              s.p_state[u] = k.p_state[u] \/ s.p_state[u] \in Runnable
    BY <1>1, <1>2, ReleasedOK DEF Runnable
  <2>2. k' = chSchGoSleepS(s, "WTCOND") /\ "WTCOND" \in ThreadStates \ Runnable
    BY <1>3 DEF WaitStep, ThreadStates, Runnable
  <2> HIDE DEF s
  <2>3. Keeps(s, k', {p}) /\ k'.p_state[p] = "WTCOND"
    BY <1>2, <2>1, <2>2, GoSleepS
  <2> QED BY <1>2, <2>1, <2>3 DEF Keeps
<1>8. /\ vt \in [AllThreads -> {"off", "armed", "fired"}]
      /\ relock \in [AllThreads -> Mutexes \cup {NULL}]
      /\ NULL \notin Mutexes
  BY CondTypes
<1>9. vt[p] = "off" /\ \A t \in AllThreads : vt[t] # "fired"
  BY <1>2, <1>8 DEF CondInv, WaitFits
<1>10. CondTypeOK'
  <2>1. vt' \in [AllThreads -> {"off", "armed", "fired"}] BY <1>3, <1>8
  <2>2. relock' \in [AllThreads -> Mutexes \cup {NULL}] BY <1>2, <1>3, <1>8
  <2> QED BY <1>3, <1>4, <2>1, <2>2 DEF PrioInv, MutexInv, CondInv, CondTypeOK
<1>11. vt'[p] # "fired" /\ relock'[p] = m /\ m # NULL BY <1>2, <1>3, <1>8, <1>9
<1>12. WaitFits(p)' BY <1>6, <1>7, <1>11 DEF WaitFits
<1>13. ASSUME NEW t \in AllThreads, t # p
       PROVE  /\ relock'[t] = relock[t]
              /\ vt'[t] # "off" => relock[t] # NULL
              /\ vt'[t] = "fired" => isr'
              /\ k'.p_state[t] = k.p_state[t] \/ k'.p_state[t] \in Runnable
  <2>1. vt[t] # "off" => relock[t] # NULL BY DEF CondInv, WaitFits
  <2>2. vt'[t] = vt[t] /\ relock'[t] = relock[t] BY <1>3, <1>8, <1>13
  <2> QED BY <1>7, <1>9, <1>13, <2>1, <2>2
<1>14. \A t \in AllThreads : WaitFits(t)' BY <1>1, <1>5, <1>12, <1>13, OthersFit
<1> QED BY <1>2, <1>3, <1>4, <1>10, <1>14 DEF CondInv

\* The wait ends: without the mutex, or with the lock that follows.
LEMMA LeaveWaitCond == ASSUME CondInv, LeaveWait PROVE CondInv'
<1>1. PICK p \in AllThreads : p = currp BY CondTypes
<1>2. PICK m \in Mutexes : m = relock[p]
  BY <1>1, CondTypes DEF LeaveWait, Locked
<1>3. /\ MutexInv /\ PrioInv /\ m # NULL /\ ~isr /\ ThreadCode
      /\ vt \in [AllThreads -> {"off", "armed", "fired"}]
      /\ relock \in [AllThreads -> Mutexes \cup {NULL}]
      /\ rdymsg \in [AllThreads -> WakeMsgs \cup {NULL}]
  <2>1. m # NULL BY <1>2, CondTypes
  <2>2. ~isr /\ p # Idle BY <1>1, <1>2, <2>1 DEF CondInv, WaitFits, Locked
  <2> QED BY <1>1, <2>1, <2>2, CondTypes DEF ThreadCode
<1>4. /\ vt' = [vt EXCEPT ![p] = IF vt[p] = "armed" THEN "off" ELSE vt[p]]
      /\ relock' = [relock EXCEPT ![p] = NULL]
      /\ rdymsg' = [rdymsg EXCEPT ![p] = NULL]
      /\ isr' = isr
  BY <1>1 DEF LeaveWait, TimerReset
<1>5. \/ UNCHANGED <<k, p_realprio, p_mtxlist, m_owner, waitq, wtobjp>>
      \/ m_owner[m] = NULL /\ Acquire(m)
      \/ m_owner[m] # NULL /\ Block(m)
  BY <1>1, <1>2 DEF LeaveWait, mtxvars, chMtxLockS
<1>6. PrioInv' /\ ThreadMoves /\ OwnerMoves
  <2>1. CASE UNCHANGED <<k, p_realprio, p_mtxlist, m_owner, waitq, wtobjp>>
    <3>1. WaitsForObject' /\ Queued' BY <1>3, <2>1, WaitFrame
    <3>2. MutexInv'
      BY <1>3, <1>4, <2>1, <3>1
         DEF MutexInv, MutexTypeOK, Ownership, QueuesSorted
    <3> QED BY <1>3, <1>4, <2>1, <3>2
            DEF PrioInv, HighestPriorityRuns, InheritsNothingElse, ThreadMoves, OwnerMoves
  <2>2. CASE m_owner[m] = NULL /\ Acquire(m)
    <3>1. MutexInv' /\ ThreadMoves BY <1>3, <1>4, <2>2, AcquireInv
    <3>2. PrioInv' BY <1>3, <1>4, <2>2, <3>1, AcquirePrio
    <3>3. \A x \in Mutexes : HandOff(x) BY <1>3, <2>2, AcquireHandOff
    <3> QED BY <1>3, <3>1, <3>2, <3>3, HandOffMoves
  <2>3. CASE m_owner[m] # NULL /\ Block(m)
    <3>1. MutexInv' /\ ThreadMoves BY <1>3, <1>4, <2>3, BlockInv
    <3>2. PrioInv' BY <1>3, <1>4, <2>3, <3>1, BlockPrio
    <3>3. OwnerMoves BY <2>3 DEF Block, OwnerMoves
    <3> QED BY <3>1, <3>2, <3>3
  <2> QED BY <1>5, <2>1, <2>2, <2>3
<1>7. \A t \in AllThreads : vt[t] # "fired" BY <1>3 DEF CondInv, WaitFits
<1>8. CondTypeOK'
  <2>1. vt' \in [AllThreads -> {"off", "armed", "fired"}] BY <1>3, <1>4
  <2>2. rdymsg' \in [AllThreads -> WakeMsgs \cup {NULL}] BY <1>3, <1>4
  <2>3. relock' \in [AllThreads -> Mutexes \cup {NULL}] BY <1>3, <1>4
  <2> QED BY <1>6, <2>1, <2>2, <2>3 DEF PrioInv, MutexInv, CondInv, CondTypeOK
<1>9. WaitFits(p)'
  <2>1. vt'[p] = "off" /\ relock'[p] = NULL BY <1>3, <1>4, <1>7
  <2>2. k.p_state[p] = "CURRENT" BY <1>1, <1>3, CurrentNotQueued
  <2>3. k'.p_state[p] # "WTCOND" BY <1>6, <2>2 DEF ThreadMoves, Runnable
  <2> QED BY <2>1, <2>3 DEF WaitFits
<1>10. ASSUME NEW t \in AllThreads, t # p
       PROVE  /\ relock'[t] = relock[t]
              /\ vt'[t] # "off" => relock[t] # NULL
              /\ vt'[t] = "fired" => isr'
              /\ k'.p_state[t] = k.p_state[t] \/ k'.p_state[t] \in Runnable
  <2>1. vt[t] # "off" => relock[t] # NULL BY DEF CondInv, WaitFits
  <2>2. vt'[t] = vt[t] /\ relock'[t] = relock[t] BY <1>3, <1>4, <1>10
  <2> QED BY <1>1, <1>6, <1>7, <1>10, <2>1, <2>2 DEF ThreadMoves
<1>11. \A t \in AllThreads : WaitFits(t)' BY <1>1, <1>6, <1>9, <1>10, OthersFit
<1> QED BY <1>3, <1>4, <1>6, <1>8, <1>11 DEF CondInv

----------------------------------------------------------------------------
(* The theorems about ChCond. *)

LEMMA NextCondInv == ASSUME CondInv, [CondNext]_allvars PROVE CondInv'
<1>1. ASSUME NEW c \in CondVars, NEW timed \in BOOLEAN, chCondWait(c, timed)
      PROVE  CondInv'
  BY <1>1, CondWaitCond
<1>2. ASSUME NEW c \in CondVars, chCondSignal(c) \/ chCondSignalI(c) PROVE CondInv'
  BY <1>2, SignalCond
<1>3. ASSUME NEW c \in CondVars, chCondBroadcast(c) \/ chCondBroadcastI(c)
      PROVE  CondInv'
  BY <1>3, BroadcastCond
<1>4. CASE LeaveWait BY <1>4, LeaveWaitCond
<1>5. ASSUME NEW t \in Threads, TimerExpires(t) \/ TimerCallback(t) PROVE CondInv'
  BY <1>5, TimerCond
<1>6. CASE MutexStep BY <1>6, MutexStepCond
<1>7. CASE UNCHANGED allvars
  <2>1. UNCHANGED vars /\ UNCHANGED <<k, isr, relock, rdymsg, vt, m_owner>>
    BY <1>7 DEF allvars, condvars, vars, mtxvars
  <2>2. PrioInv' BY <2>1, NextPrioInv DEF CondInv
  <2>3. CondTypeOK' BY <2>1, <2>2 DEF PrioInv, MutexInv, CondInv, CondTypeOK
  <2>4. \A t \in AllThreads : WaitFits(t)' BY <2>1 DEF CondInv, WaitFits
  <2>5. isr' => ~Locked' BY <2>1 DEF CondInv, Locked, currp
  <2> QED BY <2>2, <2>3, <2>4, <2>5 DEF CondInv
<1> QED BY <1>1, <1>2, <1>3, <1>4, <1>5, <1>6, <1>7 DEF CondNext

\* The inductive invariant of the mutexes with their condition variables.
THEOREM CondInvariant == CondSpec => []CondInv
<1>1. CondInit => CondInv BY InitCondInv
<1>2. CondInv /\ [CondNext]_allvars => CondInv' BY NextCondInv
<1> QED BY <1>1, <1>2, PTL DEF CondSpec

\* The guarantees of the mutexes survive the waits, which release a mutex, sleep
\* and lock it again: the owners agree with the lists, every waiter is in its
\* queue, and every queue is in priority order.
THEOREM WaitsKeepMutexes == CondSpec => [](Ownership /\ Queued /\ QueuesSorted)
<1>1. CondInv => Ownership /\ Queued /\ QueuesSorted
  BY DEF CondInv, PrioInv, MutexInv
<1> QED BY <1>1, CondInvariant, PTL

\* So do those about priorities: no inherited priority outlives its mutex, and
\* the highest priority runs, although chMtxUnlockS() inside a wait readies a
\* thread without a reschedule.
THEOREM WaitsKeepPriorities == CondSpec => [](InheritsNothingElse /\ HighestPriorityRuns)
<1>1. CondInv => InheritsNothingElse /\ HighestPriorityRuns BY DEF CondInv, PrioInv
<1> QED BY <1>1, CondInvariant, PTL

\* No timer outlives the wait it was set for: its callback never finds the thread
\* in the queue of the mutex (chschd.c:188-192).
THEOREM WaitTimersEnd == CondSpec => []NoDanglingTimer
<1>1. CondInv => NoDanglingTimer BY DEF CondInv, WaitFits, NoDanglingTimer
<1> QED BY <1>1, CondInvariant, PTL

\* The end of a wait, of MutexRegained, for one thread.
Regains(t) ==
    LET m == relock[t] IN
    (m # NULL /\ relock'[t] = NULL) =>
       IF rdymsg[t] = "RDY_TIMEOUT"
       THEN m_owner'[m] # t /\ t \notin Elems(waitq'[m])
       ELSE m_owner'[m] = t \/ t \in Elems(waitq'[m])

LEMMA LeaveWaitRegains ==
    ASSUME CondInv, LeaveWait, NEW t \in Threads PROVE Regains(t)
<1> DEFINE m == relock[t]
<1> SUFFICES ASSUME m # NULL, relock'[t] = NULL
             PROVE  IF rdymsg[t] = "RDY_TIMEOUT"
                    THEN m_owner'[m] # t /\ t \notin Elems(waitq'[m])
                    ELSE m_owner'[m] = t \/ t \in Elems(waitq'[m])
  BY DEF Regains
<1>1. /\ t \in AllThreads /\ m \in Mutexes /\ m \in WaitObjects /\ MutexInv
      /\ relock \in [AllThreads -> Mutexes \cup {NULL}]
  BY CondTypes DEF AllThreads, WaitObjects
<1>2. t = currp BY <1>1 DEF LeaveWait
<1>3. m_owner[m] # t BY <1>1 DEF CondInv, WaitFits
<1>4. CASE TimedOut(rdymsg[t]) /\ UNCHANGED <<k, mtxvars>>
  <2>1. t \notin Elems(waitq[m]) BY <1>1, <1>2, CurrentNotQueued
  <2> QED BY <1>3, <1>4, <2>1 DEF TimedOut, mtxvars
<1>5. CASE ~TimedOut(rdymsg[t]) /\ chMtxLockS(m)
  <2>1. CASE Acquire(m)
    <3>1. m_owner'[m] = t BY <1>1, <1>2, <2>1, Types DEF Acquire
    <3> QED BY <1>5, <3>1 DEF TimedOut
  <2>2. CASE m_owner[m] # NULL /\ Block(m)
    <3>1. ThreadCode /\ isr' = isr
      <4>1. isr' = isr /\ Locked BY DEF LeaveWait
      <4> QED BY <1>1, <1>2, <4>1 DEF CondInv, WaitFits, ThreadCode
    <3>2. MutexInv' /\ ThreadMoves BY <1>1, <2>2, <3>1, BlockInv
    <3>3. t \in Elems(waitq'[m])
      <4> DEFINE b == Boost(m_owner[m], k.p_prio[currp])
      <4>1. m_owner[m] \in AllThreads \cup {NULL} /\ k.p_prio[currp] \in Prios
        BY <1>1, Types
      <4>2. b \in BoostStates BY <1>1, <4>1, BoostOK
      <4>3. /\ waitq' = [b.q EXCEPT ![m] = prio_insert(b.q[m], b.s.p_prio, currp)]
        BY <2>2 DEF Block
      <4> HIDE DEF b
      <4> DEFINE q == b.q[m]
                 prio == b.s.p_prio
      <4>4. q \in Seq(AllThreads) /\ prio \in [AllThreads -> Int]
        BY <1>1, <4>2, PriosAreInts DEF BoostStates, SchedStates
      <4>5. waitq'[m] = prio_insert(q, prio, t)
        BY <1>1, <1>2, <4>2, <4>3 DEF BoostStates
      <4> HIDE DEF q, prio
      <4>6. Elems(prio_insert(q, prio, t)) = Elems(q) \cup {t}
        BY <1>1, <4>4, PrioInsert
      <4> QED BY <4>5, <4>6
    <3> QED BY <1>5, <3>3 DEF TimedOut
  <2> QED BY <1>5, <2>1, <2>2 DEF chMtxLockS
<1> QED BY <1>2, <1>4, <1>5 DEF LeaveWait

\* Only a thread that sleeps in its wait is given a message.
KeepsAnswer(t) ==
    relock'[t] # NULL /\ k.p_state[t] # "WTCOND" => rdymsg'[t] = rdymsg[t]

LEMMA AnswersStay ==
    ASSUME CondInv, [CondNext]_allvars, NEW t \in Threads PROVE KeepsAnswer(t)
<1>1. /\ MutexInv /\ SchedInv(k) /\ t \in AllThreads
      /\ relock \in [AllThreads -> Mutexes \cup {NULL}]
      /\ rdymsg \in [AllThreads -> WakeMsgs \cup {NULL}]
  BY CondTypes DEF MutexInv, AllThreads
<1>2. ASSUME NEW c \in CondVars, NEW u \in Elems(waitq[c])
      PROVE  u \in AllThreads /\ k.p_state[u] = "WTCOND"
  BY <1>1, <1>2, MutexAssumption DEF MutexInv, Queued, WaitObjects
<1>3. ASSUME rdymsg' = rdymsg PROVE KeepsAnswer(t) BY <1>3 DEF KeepsAnswer
<1>4. ASSUME NEW c \in CondVars, chCondSignal(c) \/ chCondSignalI(c) PROVE KeepsAnswer(t)
  <2>1. waitq[c] # <<>> /\ rdymsg' = [rdymsg EXCEPT ![Head(waitq[c])] = "RDY_OK"]
    BY <1>4 DEF chCondSignal, chCondSignalI
  <2>2. Head(waitq[c]) \in Elems(waitq[c])
    <3>1. waitq[c] \in Seq(AllThreads) BY <1>1, Types DEF WaitObjects
    <3> QED BY <2>1, <3>1, HeadTail
  <2> QED BY <1>1, <1>2, <2>1, <2>2 DEF KeepsAnswer
<1>5. ASSUME NEW c \in CondVars, chCondBroadcast(c) \/ chCondBroadcastI(c)
      PROVE  KeepsAnswer(t)
  <2>1. rdymsg'[t] = IF t \in Elems(waitq[c]) THEN "RDY_RESET" ELSE rdymsg[t]
    BY <1>1, <1>5 DEF chCondBroadcast, chCondBroadcastI, BroadcastI, Woken
  <2> QED BY <1>2, <2>1 DEF KeepsAnswer
<1>6. CASE LeaveWait
  <2>1. /\ rdymsg' = [rdymsg EXCEPT ![currp] = NULL]
        /\ relock' = [relock EXCEPT ![currp] = NULL]
    BY <1>6 DEF LeaveWait
  <2> QED BY <1>1, <2>1 DEF KeepsAnswer
<1>7. ASSUME NEW u \in Threads, TimerCallback(u) PROVE KeepsAnswer(t)
  <2>1. \/ rdymsg' = rdymsg
        \/ k.p_state[u] = "WTCOND" /\ rdymsg' = [rdymsg EXCEPT ![u] = "RDY_TIMEOUT"]
    BY <1>7 DEF TimerCallback, Answer
  <2> QED BY <1>1, <2>1 DEF KeepsAnswer
<1> QED BY <1>3, <1>4, <1>5, <1>6, <1>7
        DEF CondNext, chCondWait, TimerExpires, MutexStep, condvars, allvars

\* What woke a thread first decides how its wait ends: one that was not timed out ends
\* with its mutex locked or queued for; one that was ends without it (chcond.c:207-208).
THEOREM WaitsRegainMutexes == CondSpec => MutexRegained
<1>1. ASSUME CondInv, [CondNext]_allvars, NEW t \in Threads
      PROVE  Regains(t)
  <2>1. CASE LeaveWait BY <1>1, <2>1, LeaveWaitRegains
  <2>2. ASSUME relock' = relock PROVE Regains(t) BY <2>2 DEF Regains
  <2>3. ASSUME NEW c \in CondVars, NEW timed \in BOOLEAN, chCondWait(c, timed)
        PROVE  Regains(t)
    <3>1. PICK m : relock' = [relock EXCEPT ![currp] = m] /\ m \in Mutexes
      <4>1. p_mtxlist[currp] \in Seq(Mutexes) /\ p_mtxlist[currp] # <<>>
        BY <1>1, <2>3, CondTypes, Types DEF chCondWait
      <4>2. Head(p_mtxlist[currp]) \in Mutexes BY <4>1, HeadTail
      <4> QED BY <2>3, <4>2 DEF chCondWait
    <3> QED BY <1>1, <3>1, CondTypes DEF Regains, AllThreads
  <2> QED BY <1>1, <2>1, <2>2, <2>3
          DEF CondNext, chCondSignal, chCondSignalI, chCondBroadcast, chCondBroadcastI,
              BroadcastI, TimerExpires, TimerCallback, MutexStep, condvars, allvars
<1>2. CondInv /\ [CondNext]_allvars
         => [\A t \in Threads : KeepsAnswer(t) /\ Regains(t)]_allvars
  BY <1>1, AnswersStay
<1>3. CondInv /\ [CondNext]_allvars
         => [\A t \in Threads :
               LET m == relock[t] IN
               /\ relock'[t] # NULL /\ k.p_state[t] # "WTCOND" => rdymsg'[t] = rdymsg[t]
               /\ (m # NULL /\ relock'[t] = NULL) =>
                     IF rdymsg[t] = "RDY_TIMEOUT"
                     THEN m_owner'[m] # t /\ t \notin Elems(waitq'[m])
                     ELSE m_owner'[m] = t \/ t \in Elems(waitq'[m])]_allvars
  BY <1>2 DEF Regains, KeepsAnswer
<1> QED BY <1>3, CondInvariant, PTL DEF CondSpec, MutexRegained

\* The mutex that a wait releases, and the one it locks again, are passed on like
\* any other: to a waiter of the highest priority.
THEOREM WaitsHandOffToHighest == CondSpec => HandOffToHighest
<1>1. ASSUME CondInv, [CondNext]_allvars, NEW m \in Mutexes PROVE HandOff(m)
  <2>1. MutexInv BY <1>1, CondTypes
  <2>2. ASSUME m_owner' = m_owner PROVE HandOff(m) BY <2>2 DEF HandOff
  <2>3. CASE MutexStep
    <3>1. MutexNext BY <2>3 DEF MutexStep, MutexNext
    <3> QED BY <2>1, <3>1, HandOffStep
  <2>4. CASE LeaveWait
    <3>1. relock[currp] \in Mutexes BY <1>1, <2>4, CondTypes DEF LeaveWait, Locked
    <3>2. \/ m_owner' = m_owner
          \/ m_owner[relock[currp]] = NULL /\ Acquire(relock[currp])
      BY <2>4 DEF LeaveWait, chMtxLockS, Block, mtxvars
    <3> QED BY <2>1, <2>2, <3>1, <3>2, AcquireHandOff
  <2>5. ASSUME NEW c \in CondVars, NEW timed \in BOOLEAN, chCondWait(c, timed)
        PROVE  HandOff(m)
    <3>1. p_mtxlist[currp] # <<>> /\ HandOver(Head(p_mtxlist[currp]))
      BY <2>5 DEF chCondWait
    <3> QED BY <2>1, <3>1, TopHandOff
  <2> QED BY <1>1, <2>2, <2>3, <2>4, <2>5
          DEF CondNext, chCondSignal, chCondSignalI, chCondBroadcast, chCondBroadcastI,
              BroadcastI, TimerExpires, TimerCallback, allvars, vars, mtxvars
<1>2. CondInv /\ [CondNext]_allvars => [\A m \in Mutexes : HandOff(m)]_vars
  BY <1>1
<1>3. CondSpec => [][\A m \in Mutexes : HandOff(m)]_vars
  BY <1>2, CondInvariant, PTL DEF CondSpec
<1> QED BY <1>3 DEF HandOffToHighest, HandOff

----------------------------------------------------------------------------
(* The lower bound of the inheritance. *)

\* No thread lowers its own priority while it owns a mutex: what
\* InheritsFromWaiters needs of the application (chthreads.c:217).
OwnersKeepPriority ==
    \A t \in AllThreads : p_mtxlist[t] # <<>> => p_realprio'[t] >= p_realprio[t]

\* InheritsFromWaiters for one mutex.
Served(x) == \A w \in Elems(waitq[x]) : k.p_prio[m_owner[x]] >= k.p_prio[w]

LEMMA AllServed == InheritsFromWaiters <=> \A x \in Mutexes : Served(x)
BY DEF InheritsFromWaiters, Served

\* Who waits for a mutex is another thread than the running one, and the mutex
\* has an owner.
LEMMA WaitersOf ==
    ASSUME MutexInv, NEW x \in Mutexes, NEW w \in Elems(waitq[x])
    PROVE  w \in AllThreads /\ w # currp /\ m_owner[x] \in AllThreads
<1>1. x \in WaitObjects BY DEF WaitObjects
<1>2. w \in AllThreads BY <1>1 DEF MutexInv, Queued
<1>3. w # currp BY <1>1, CurrentNotQueued
<1>4. waitq[x] # <<>>
  <2>1. Len(<<>>) = 0 OBVIOUS
  <2> QED BY <2>1 DEF Elems
<1>5. m_owner[x] # NULL BY <1>4 DEF MutexInv, Ownership
<1> QED BY <1>2, <1>3, <1>5, Types

\* A mutex keeps its owner and gets no waiters, and only the running thread, if
\* it is the owner, comes to another priority, not below a waiter.
LEMMA ServedStill ==
    ASSUME MutexInv, NEW x \in Mutexes, Served(x),
           m_owner'[x] = m_owner[x], Elems(waitq'[x]) \subseteq Elems(waitq[x]),
           \A t \in AllThreads : t # currp => k'.p_prio[t] = k.p_prio[t],
           m_owner[x] = currp =>
              \A w \in Elems(waitq[x]) : k'.p_prio[currp] >= k.p_prio[w]
    PROVE  Served(x)'
<1> SUFFICES ASSUME NEW w \in Elems(waitq'[x])
             PROVE  k'.p_prio[m_owner'[x]] >= k'.p_prio[w]
  BY DEF Served
<1>1. w \in Elems(waitq[x]) OBVIOUS
<1>2. w \in AllThreads /\ w # currp /\ m_owner[x] \in AllThreads BY <1>1, WaitersOf
<1>3. k'.p_prio[w] = k.p_prio[w] BY <1>2
<1>4. k.p_prio[m_owner[x]] >= k.p_prio[w] BY <1>1 DEF Served
<1>5. CASE m_owner[x] = currp BY <1>1, <1>3, <1>5
<1>6. CASE m_owner[x] # currp BY <1>2, <1>3, <1>4, <1>6
<1> QED BY <1>5, <1>6

\* A step that changes no priority, no owner of a mutex with waiters and no queue
\* of a mutex.
LEMMA ServedFrame ==
    ASSUME MutexInv, InheritsFromWaiters, k'.p_prio = k.p_prio,
           \A x \in Mutexes :
              /\ waitq'[x] = waitq[x]
              /\ m_owner[x] # NULL => m_owner'[x] = m_owner[x]
    PROVE  InheritsFromWaiters'
<1> SUFFICES ASSUME NEW x \in Mutexes, NEW w \in Elems(waitq'[x])
             PROVE  k'.p_prio[m_owner'[x]] >= k'.p_prio[w]
  BY DEF InheritsFromWaiters
<1>1. w \in Elems(waitq[x]) OBVIOUS
<1>2. m_owner[x] # NULL BY <1>1, WaitersOf, Types
<1> QED BY <1>1, <1>2 DEF InheritsFromWaiters

\* A mutex of the running thread goes to its first waiter.
LEMMA ServedByFirst ==
    ASSUME MutexInv, NEW x \in Mutexes,
           waitq[x] # <<>> => m_owner'[x] = Head(waitq[x]),
           Elems(waitq'[x]) \subseteq Elems(waitq[x]),
           \A t \in AllThreads : t # currp => k'.p_prio[t] = k.p_prio[t]
    PROVE  Served(x)'
<1> SUFFICES ASSUME NEW w \in Elems(waitq'[x])
             PROVE  k'.p_prio[m_owner'[x]] >= k'.p_prio[w]
  BY DEF Served
<1>1. w \in Elems(waitq[x]) OBVIOUS
<1>2. waitq[x] # <<>>
  <2>1. Len(<<>>) = 0 OBVIOUS
  <2> QED BY <1>1, <2>1 DEF Elems
<1>3. /\ Head(waitq[x]) \in Elems(waitq[x])
      /\ k.p_prio[w] <= k.p_prio[Head(waitq[x])]
  BY <1>1, <1>2, FirstWaiter
<1>4. /\ w \in AllThreads /\ w # currp
      /\ Head(waitq[x]) \in AllThreads /\ Head(waitq[x]) # currp
  BY <1>1, <1>3, WaitersOf
<1>5. k.p_prio[w] \in Int /\ k.p_prio[Head(waitq[x])] \in Int BY <1>4, Types
<1> QED BY <1>2, <1>3, <1>4, <1>5

\* The running thread gives its top mutex up: it falls back to a priority that
\* the waiters of the mutexes it keeps do not exceed.
LEMMA HandOverServed ==
    ASSUME MutexInv, InheritsFromWaiters, p_mtxlist[currp] # <<>>,
           NEW m, m = Head(p_mtxlist[currp]), HandOver(m),
           \A x \in Mutexes : waitq'[x] = Unqueued(m)[x],
           k'.p_prio = Unboosted(m).p_prio
    PROVE  InheritsFromWaiters'
<1> DEFINE kept == Tail(p_mtxlist[currp])
<1>1. PICK c \in AllThreads : c = currp BY Types
<1>2. /\ m \in Mutexes /\ Elems(kept) = Elems(p_mtxlist[c]) \ {m}
      /\ p_mtxlist[c] \in Seq(Mutexes)
  <2>1. p_mtxlist[c] \in Seq(Mutexes) /\ NoDuplicates(p_mtxlist[c])
    BY Types DEF MutexInv, Ownership
  <2> QED BY <1>1, <2>1, HeadTail
<1>3. /\ \A t \in AllThreads : t # currp => k'.p_prio[t] = k.p_prio[t]
      /\ k'.p_prio[c] = IF waitq[m] = <<>> THEN k.p_prio[c] ELSE FallbackPrio
  BY <1>1, Types DEF Unboosted, SchedStates
<1>4. \A x \in Mutexes : /\ x # m => m_owner'[x] = m_owner[x]
                         /\ Elems(waitq'[x]) = Elems(waitq[x]) \ FirstOf(m)
  <2>1. \A x \in Mutexes : Elems(waitq'[x]) = Elems(waitq[x]) \ FirstOf(m)
    BY <1>2, UnqueuedOK DEF WaitObjects
  <2>2. \A x \in Mutexes : x # m => m_owner'[x] = m_owner[x] BY Types DEF HandOver
  <2> QED BY <2>1, <2>2
<1>5. waitq[m] # <<>> => m_owner'[m] = Head(waitq[m])
  BY <1>2, Types DEF HandOver
<1> SUFFICES ASSUME NEW x \in Mutexes PROVE Served(x)' BY AllServed DEF Served, InheritsFromWaiters
<1>6. CASE x = m
  <2>1. Elems(waitq'[m]) \subseteq Elems(waitq[m]) BY <1>2, <1>4
  <2>2. Served(m)' BY <1>2, <1>3, <1>5, <2>1, ServedByFirst
  <2> QED BY <1>6, <2>2
<1>7. CASE x # m
  <2>1. Served(x) BY AllServed
  <2>2. ASSUME m_owner[x] = currp, NEW w \in Elems(waitq[x])
        PROVE  k'.p_prio[currp] >= k.p_prio[w]
    <3>1. CASE waitq[m] = <<>> BY <1>1, <1>3, <2>1, <2>2, <3>1 DEF Served
    <3>2. CASE waitq[m] # <<>>
      <4>1. x \in Elems(kept)
        <5>1. x \in Elems(p_mtxlist[c]) BY <1>1, <2>2 DEF MutexInv, Ownership
        <5> QED BY <1>2, <1>7, <5>1
      <4>2. PICK i \in 1..Len(kept) : x = kept[i] BY <4>1 DEF Elems
      <4>3. HeadPrio(x) <= FallbackPrio /\ FallbackPrio \in Prios
        BY <4>2, FallbackPrioOK
      <4>4. waitq[x] # <<>>
        <5>1. Len(<<>>) = 0 OBVIOUS
        <5> QED BY <2>2, <5>1 DEF Elems
      <4>5. /\ Head(waitq[x]) \in Elems(waitq[x])
            /\ k.p_prio[w] <= k.p_prio[Head(waitq[x])]
        BY <2>2, <4>4, FirstWaiter
      <4>6. Head(waitq[x]) \in AllThreads /\ w \in AllThreads BY <2>2, <4>5, WaitersOf
      <4>7. /\ k.p_prio[w] \in Int /\ k.p_prio[Head(waitq[x])] \in Int
            /\ FallbackPrio \in Int
        BY <4>3, <4>6, Types, PriosAreInts
      <4>8. HeadPrio(x) = k.p_prio[Head(waitq[x])] BY <4>4 DEF HeadPrio
      <4> QED BY <1>1, <1>3, <3>2, <4>3, <4>5, <4>7, <4>8
    <3> QED BY <3>1, <3>2
  <2>3. m_owner'[x] = m_owner[x] /\ Elems(waitq'[x]) \subseteq Elems(waitq[x])
    BY <1>4, <1>7
  <2> QED BY <1>3, <2>1, <2>2, <2>3, ServedStill
<1> QED BY <1>6, <1>7

LEMMA UnlockServed ==
    ASSUME MutexInv, InheritsFromWaiters, Unlock PROVE InheritsFromWaiters'
<1> DEFINE m == Head(p_mtxlist[currp])
           x == WithPrio(k, currp, FallbackPrio)
<1>1. /\ p_mtxlist[currp] # <<>> /\ HandOver(m) /\ waitq' = Unqueued(m)
      /\ k' = IF waitq[m] = <<>> THEN k
              ELSE chSchWakeupS(Unboosted(m), Head(waitq[m]))
  BY DEF Unlock
<1>2. m \in Mutexes
  <2>1. p_mtxlist[currp] \in Seq(Mutexes) BY Types
  <2> QED BY <1>1, <2>1, HeadTail
<1> HIDE DEF m
<1>3. k'.p_prio = Unboosted(m).p_prio
  <2>1. CASE waitq[m] = <<>> BY <1>1, <2>1 DEF Unboosted
  <2>2. CASE waitq[m] # <<>>
    <3> DEFINE t == Head(waitq[m])
    <3>1. Unboosted(m) = x BY <2>2 DEF Unboosted, WithPrio
    <3>2. t \in AllThreads /\ k.p_state[t] \notin Runnable
      <4>1. t \in FirstOf(m) BY <2>2 DEF FirstOf
      <4> QED BY <1>2, <4>1, UnqueuedOK DEF Runnable
    <3>3. SchedInv(x) /\ x.p_state = k.p_state
      <4>1. SchedInv(k) /\ FallbackPrio \in Prios
        BY <1>1, FallbackPrioOK DEF MutexInv
      <4>2. currp \in AllThreads /\ currp \notin Elems(k.r_queue)
        BY Types, CurrentNotQueued
      <4> QED BY <4>1, <4>2, NewPrio
    <3>4. k' = chSchWakeupS(x, t) BY <1>1, <2>2, <3>1
    <3> HIDE DEF x, t
    <3>5. k'.p_prio = x.p_prio BY <3>2, <3>3, <3>4, WakeupS DEF Keeps
    <3> QED BY <3>1, <3>5
  <2> QED BY <2>1, <2>2
<1> QED BY <1>1, <1>3, HandOverServed DEF m

\* All mutexes of the running thread go to their first waiters.
LEMMA UnlockAllServed ==
    ASSUME MutexInv, InheritsFromWaiters, UnlockAll PROVE InheritsFromWaiters'
<1> DEFINE ms == p_mtxlist[currp]
           mine == Elems(ms)
           r == ReadyHeads(k, ms)
           s == WithPrio(r, currp, p_realprio[currp])
<1>1. PICK c \in AllThreads : c = currp BY Types
<1>2. /\ k' = chSchRescheduleS(s)
      /\ m_owner' = [x \in Mutexes |->
            IF x \in mine THEN IF waitq[x] = <<>> THEN NULL ELSE Head(waitq[x])
            ELSE m_owner[x]]
      /\ waitq' = [o \in WaitObjects |->
            IF o \in mine /\ waitq[o] # <<>> THEN Tail(waitq[o]) ELSE waitq[o]]
  BY DEF UnlockAll, WithPrio
<1>3. /\ ms \in Seq(Mutexes) /\ NoDuplicates(ms)
      /\ \A x \in Mutexes : m_owner[x] = c <=> x \in mine
  <2>1. ms \in Seq(Mutexes) BY Types
  <2> QED BY <1>1, <2>1 DEF MutexInv, Ownership
<1>4. \A t \in AllThreads : t # currp => k'.p_prio[t] = k.p_prio[t]
  <2>1. SchedInv(r) /\ r.p_prio = k.p_prio /\ r.r_current = c
    <3> HIDE DEF ms
    <3> QED BY <1>1, <1>3, ReadyHeadsOK
  <2> HIDE DEF r
  <2>2. c \notin Elems(r.r_queue) /\ p_realprio[c] \in Prios
    BY <2>1, Types DEF SchedInv, ReadyListMembers
  <2>3. SchedInv(s) /\ s.p_prio = [k.p_prio EXCEPT ![c] = p_realprio[c]]
    BY <1>1, <2>1, <2>2, NewPrio
  <2> HIDE DEF s
  <2>4. k'.p_prio = s.p_prio BY <1>2, <2>3, RescheduleS DEF Keeps
  <2> QED BY <1>1, <2>3, <2>4, Types
<1> SUFFICES ASSUME NEW x \in Mutexes PROVE Served(x)' BY AllServed DEF Served, InheritsFromWaiters
<1>5. x \in WaitObjects /\ waitq[x] \in Seq(AllThreads) BY Types DEF WaitObjects
<1>6. CASE x \in mine
  <2>1. waitq[x] # <<>> => m_owner'[x] = Head(waitq[x]) BY <1>2, <1>6
  <2>2. Elems(waitq'[x]) \subseteq Elems(waitq[x])
    <3>1. CASE waitq[x] = <<>> BY <1>2, <1>5, <3>1
    <3>2. CASE waitq[x] # <<>>
      <4>1. waitq'[x] = Tail(waitq[x]) BY <1>2, <1>5, <1>6, <3>2
      <4> QED BY <1>5, <3>2, <4>1, HeadTail
    <3> QED BY <3>1, <3>2
  <2> QED BY <1>4, <2>1, <2>2, ServedByFirst
<1>7. CASE x \notin mine
  <2>1. m_owner'[x] = m_owner[x] /\ waitq'[x] = waitq[x] /\ m_owner[x] # currp
    <3> HIDE DEF mine
    <3> QED BY <1>1, <1>2, <1>3, <1>5, <1>7
  <2>2. Served(x) BY AllServed
  <2> QED BY <1>4, <2>1, <2>2, ServedStill
<1> QED BY <1>6, <1>7

\* The priority the running thread gives itself is not below the one it had,
\* if it owns a mutex.
LEMMA SetPriorityServed ==
    ASSUME MutexInv, InheritsFromWaiters, NEW p \in SetPrios,
           chThdSetPriority(p), OwnersKeepPriority
    PROVE  InheritsFromWaiters'
<1> DEFINE raised == k.p_prio[currp] = p_realprio[currp] \/ p > k.p_prio[currp]
           s == IF raised THEN WithPrio(k, currp, p) ELSE k
<1>1. PICK c \in AllThreads : c = currp BY Types
<1>2. /\ k' = chSchRescheduleS(s) /\ UNCHANGED <<m_owner, waitq>>
      /\ p_realprio' = [p_realprio EXCEPT ![currp] = p]
      /\ p \in Prios
  BY MutexAssumption DEF chThdSetPriority, WithPrio, UserPrios, Prios, IDLEPRIO, LOWPRIO
<1>3. /\ SchedInv(s)
      /\ s.p_prio = IF raised THEN [k.p_prio EXCEPT ![currp] = p] ELSE k.p_prio
  <2>1. SchedInv(k) BY DEF MutexInv
  <2>2. CASE raised
    <3>1. /\ SchedInv(WithPrio(k, currp, p))
          /\ WithPrio(k, currp, p).p_prio = [k.p_prio EXCEPT ![currp] = p]
      BY <1>2, <2>1, Types, CurrentNotQueued, NewPrio
    <3> QED BY <2>2, <3>1
  <2>3. CASE ~ raised BY <2>1, <2>3
  <2> QED BY <2>2, <2>3
<1> HIDE DEF s
<1>4. k'.p_prio = s.p_prio BY <1>2, <1>3, RescheduleS DEF Keeps
<1>5. \A t \in AllThreads : t # currp => k'.p_prio[t] = k.p_prio[t]
  BY <1>1, <1>3, <1>4, Types
<1>6. ASSUME p_mtxlist[c] # <<>> PROVE k'.p_prio[c] >= k.p_prio[c]
  <2>1. p >= p_realprio[c]
    <3>1. p_realprio'[c] >= p_realprio[c] BY <1>6 DEF OwnersKeepPriority
    <3>2. p_realprio'[c] = p BY <1>1, <1>2, Types
    <3> QED BY <3>1, <3>2
  <2>2. k.p_prio[c] \in Int /\ p \in Int BY <1>2, Types, PriosAreInts
  <2>3. CASE raised
    <3>1. k'.p_prio[c] = p BY <1>1, <1>3, <1>4, <2>3, Types
    <3> QED BY <1>1, <2>1, <2>2, <2>3, <3>1
  <2>4. CASE ~raised BY <1>3, <1>4, <2>2, <2>4
  <2> QED BY <2>3, <2>4
<1> HIDE DEF raised
<1> SUFFICES ASSUME NEW x \in Mutexes PROVE Served(x)' BY AllServed DEF Served, InheritsFromWaiters
<1>7. Served(x) BY AllServed
<1>8. ASSUME m_owner[x] = currp, NEW w \in Elems(waitq[x])
      PROVE  k'.p_prio[currp] >= k.p_prio[w]
  <2>1. p_mtxlist[c] # <<>>
    <3>1. x \in Elems(p_mtxlist[c]) BY <1>1, <1>8 DEF MutexInv, Ownership
    <3>2. Len(<<>>) = 0 OBVIOUS
    <3> QED BY <3>1, <3>2 DEF Elems
  <2>2. k.p_prio[c] >= k.p_prio[w] BY <1>1, <1>7, <1>8 DEF Served
  <2>3. /\ k.p_prio[c] \in Int /\ k.p_prio[w] \in Int /\ k'.p_prio[c] \in Int
    <3>1. w \in AllThreads BY <1>8, WaitersOf
    <3>2. s.p_prio \in [AllThreads -> Prios] BY <1>3 DEF SchedInv, SchedStates
    <3> QED BY <1>4, <3>1, <3>2, Types, PriosAreInts
  <2> QED BY <1>1, <1>6, <2>1, <2>2, <2>3
<1> QED BY <1>2, <1>5, <1>7, <1>8, ServedStill

\* The invariant of the inheritance loop: only the owner it looks at next may be
\* below a waiter, and no such waiter is above the running thread.
Behind(prio, tp, m) ==
    \A x \in Mutexes, w \in AllThreads : WaitsFor(w, x, m) =>
        \/ prio[m_owner[x]] >= prio[w]
        \/ tp = m_owner[x] /\ prio[w] <= k.p_prio[currp]

\* Whatever is waited for has an owner.
LEMMA OwnersOf ==
    ASSUME MutexInv, NEW m \in Mutexes, m_owner[m] # NULL, NEW x \in Mutexes,
           NEW w \in AllThreads, WaitsFor(w, x, m)
    PROVE  m_owner[x] \in AllThreads
<1>1. CASE w \in Elems(waitq[x]) BY <1>1, WaitersOf
<1>2. CASE x = m BY <1>2, Types
<1> QED BY <1>1, <1>2 DEF WaitsFor

LEMMA BehindStart ==
    ASSUME MutexInv, InheritsFromWaiters, NEW m \in Mutexes
    PROVE  Behind(k.p_prio, m_owner[m], m)
<1> SUFFICES ASSUME NEW x \in Mutexes, NEW w \in AllThreads, WaitsFor(w, x, m)
             PROVE  \/ k.p_prio[m_owner[x]] >= k.p_prio[w]
                    \/ m_owner[m] = m_owner[x] /\ k.p_prio[w] <= k.p_prio[currp]
  BY DEF Behind
<1>1. CASE w \in Elems(waitq[x]) BY <1>1 DEF InheritsFromWaiters
<1>2. CASE x = m /\ w = currp
  <2>1. k.p_prio[w] \in Int BY Types
  <2> QED BY <1>2, <2>1
<1> QED BY <1>1, <1>2 DEF WaitsFor

\* A turn that ends the loop.
LEMMA BehindStop ==
    ASSUME MutexInv, NEW m \in Mutexes, m_owner[m] # NULL,
           NEW prio \in [AllThreads -> Prios], NEW t, Behind(prio, t, m),
           t = NULL \/ prio[t] >= k.p_prio[currp]
    PROVE  Behind(prio, NULL, m)
<1> SUFFICES ASSUME NEW x \in Mutexes, NEW w \in AllThreads, WaitsFor(w, x, m)
             PROVE  prio[m_owner[x]] >= prio[w]
  BY DEF Behind
<1>1. m_owner[x] \in AllThreads BY OwnersOf
<1>2. /\ prio[m_owner[x]] \in Int /\ prio[w] \in Int /\ k.p_prio[currp] \in Int
      /\ NULL \notin AllThreads
  BY <1>1, Types, PriosAreInts
<1>3. CASE t = m_owner[x] /\ prio[w] <= k.p_prio[currp] BY <1>1, <1>2, <1>3
<1> QED BY <1>3 DEF Behind

\* A turn that boosts the thread t and goes on to the thread n.
LEMMA BehindStep ==
    ASSUME MutexInv, NEW m \in Mutexes, m_owner[m] # NULL,
           NEW prio \in [AllThreads -> Prios], NEW t \in AllThreads,
           Behind(prio, t, m), prio[currp] = k.p_prio[currp],
           prio[t] < k.p_prio[currp],
           NEW n, n = IF k.p_state[t] = "WTMTX" THEN m_owner[wtobjp[t]] ELSE NULL
    PROVE  Behind([prio EXCEPT ![t] = k.p_prio[currp]], n, m)
<1> DEFINE P == k.p_prio[currp]
           new == [prio EXCEPT ![t] = P]
<1>1. PICK c \in AllThreads : c = currp BY Types
<1>2. P \in Int /\ prio \in [AllThreads -> Int] /\ prio[t] < P
  BY Types, PriosAreInts
<1>3. c # t
  <2>1. prio[c] = P BY <1>1
  <2> HIDE DEF P
  <2> QED BY <1>2, <2>1
<1>4. new[t] = P /\ \A u \in AllThreads : u # t => new[u] = prio[u] OBVIOUS
<1> SUFFICES ASSUME NEW x \in Mutexes, NEW w \in AllThreads, WaitsFor(w, x, m)
             PROVE  new[m_owner[x]] >= new[w] \/ (n = m_owner[x] /\ new[w] <= P)
  BY DEF Behind
<1>5. PICK o \in AllThreads : o = m_owner[x] BY OwnersOf
<1>6. prio[o] >= prio[w] \/ (t = o /\ prio[w] <= P) BY <1>5 DEF Behind
<1> HIDE DEF P, new
<1>7. CASE w # t
  <2>1. new[w] = prio[w] BY <1>4, <1>7
  <2>2. CASE o = t BY <1>2, <1>4, <1>5, <1>6, <2>1, <2>2
  <2>3. CASE o # t BY <1>4, <1>5, <1>6, <2>1, <2>3
  <2> QED BY <2>2, <2>3
<1>8. CASE w = t
  <2>1. t \in Elems(waitq[x]) BY <1>1, <1>3, <1>8 DEF WaitsFor
  <2>2. k.p_state[t] = "WTMTX" /\ wtobjp[t] = x
    BY <2>1 DEF MutexInv, Queued, WaitObjects
  <2>3. n = m_owner[x] /\ new[w] = P BY <1>4, <1>8, <2>2
  <2> QED BY <1>2, <2>3
<1> QED BY <1>7, <1>8

\* After the loop every owner is at least at the priority of its waiters.
LEMMA BehindEnd ==
    ASSUME MutexInv, InheritsNothingElse, InheritsFromWaiters,
           NEW m \in Mutexes, m_owner[m] # NULL
    PROVE  Behind(Boost(m_owner[m], k.p_prio[currp]).s.p_prio, NULL, m)
<1> DEFINE N == Cardinality(AllThreads)
           P == k.p_prio[currp]
<1>1. N \in Nat /\ P \in Prios /\ m_owner[m] \in AllThreads \cup {NULL}
  BY LowerFinite, Types
<1>2. PICK f : IsBoostRun(f, m_owner[m], P) BY <1>1, BoostTurns
<1> DEFINE Good == {i \in 0..N : /\ f[i].s.p_prio[currp] = P
                                 /\ Behind(f[i].s.p_prio, f[i].tp, m)}
<1>3. 0 \in Good
  <2>1. f[0].s.p_prio = k.p_prio /\ f[0].tp = m_owner[m] BY <1>2 DEF IsBoostRun
  <2> QED BY <1>1, <2>1, BehindStart
<1>4. ASSUME NEW i \in 1..N, i - 1 \in Good PROVE i \in Good
  <2> DEFINE b == f[i - 1]
             t == b.tp
  <2>1. f[i] = BoostStep(b, P) /\ b \in BoostStates /\ i \in 0..N
    <3>1. i - 1 \in 0..N /\ i \in 0..N BY <1>1
    <3> QED BY <1>2, <3>1 DEF IsBoostRun
  <2>2. Behind(b.s.p_prio, t, m) /\ b.s.p_prio[currp] = P BY <1>4
  <2>3. b.s.p_prio \in [AllThreads -> Prios]
    BY <2>1 DEF BoostStates, SchedStates
  <2>4. CASE t = NULL \/ b.s.p_prio[t] >= P
    <3>1. f[i].s.p_prio = b.s.p_prio /\ f[i].tp = NULL
      BY <1>1, <2>1, <2>4, BoostEffect
    <3> HIDE DEF b
    <3>2. Behind(b.s.p_prio, NULL, m) BY <2>2, <2>3, <2>4, BehindStop
    <3> QED BY <2>1, <2>2, <3>1, <3>2
  <2>5. CASE ~ (t = NULL \/ b.s.p_prio[t] >= P)
    <3>1. /\ t \in AllThreads
          /\ f[i].s.p_prio = [b.s.p_prio EXCEPT ![t] = P]
          /\ f[i].tp = IF k.p_state[t] = "WTMTX" THEN m_owner[wtobjp[t]] ELSE NULL
      BY <1>1, <2>1, <2>5, BoostEffect
    <3>2. b.s.p_prio[t] < P /\ b.s.p_prio \in [AllThreads -> Int] /\ P \in Int
      <4>1. b.s.p_prio \in [AllThreads -> Int] /\ P \in Int
        BY <1>1, <2>3, PriosAreInts
      <4> QED BY <2>5, <3>1, <4>1
    <3> HIDE DEF b
    <3>3. Behind([b.s.p_prio EXCEPT ![t] = P], f[i].tp, m)
      BY <2>2, <2>3, <3>1, <3>2, BehindStep
    <3>4. f[i].s.p_prio[currp] = P
      <4>1. currp \in AllThreads BY Types
      <4> QED BY <2>2, <3>1, <3>2, <4>1
    <3> QED BY <2>1, <3>1, <3>3, <3>4
  <2> QED BY <2>4, <2>5
<1>5. N \in Good
  <2> HIDE DEF Good
  <2>1. \A i \in 0..N : i \in Good BY <1>1, <1>3, <1>4, TurnInduction
  <2> QED BY <1>1, <2>1
<1>6. Boost(m_owner[m], P) = f[N] BY <1>2 DEF IsBoostRun
<1>7. Boost(m_owner[m], P).tp = NULL BY ChainEnd
<1> QED BY <1>5, <1>6, <1>7

\* The running thread queues on an owned mutex.
LEMMA BlockServed ==
    ASSUME MutexInv, InheritsNothingElse, InheritsFromWaiters, ThreadCode,
           NEW m \in Mutexes, m_owner[m] # NULL, Block(m)
    PROVE  InheritsFromWaiters'
<1> DEFINE b == Boost(m_owner[m], k.p_prio[currp])
           q == prio_insert(b.q[m], b.s.p_prio, currp)
<1>1. PICK c \in AllThreads : c = currp BY Types
<1>2. /\ k.p_prio[currp] \in Prios /\ m_owner[m] \in AllThreads \cup {NULL}
      /\ k' = chSchGoSleepS(b.s, "WTMTX")
      /\ waitq' = [b.q EXCEPT ![m] = q] /\ m_owner' = m_owner
      /\ m \in WaitObjects
  BY Types DEF Block, WaitObjects
<1>3. b \in BoostStates /\ Behind(b.s.p_prio, NULL, m)
  BY <1>2, BoostOK, BehindEnd
<1> HIDE DEF b
<1>4. /\ b.q \in [WaitObjects -> Seq(AllThreads)]
      /\ SchedInv(b.s) /\ b.s.r_current # Idle
      /\ b.s.p_prio \in [AllThreads -> Prios]
      /\ \A o \in WaitObjects : Elems(b.q[o]) = Elems(waitq[o])
  BY <1>3 DEF BoostStates, SchedStates, ThreadCode, currp
<1>5. k'.p_prio = b.s.p_prio
  BY <1>2, <1>4, GoSleepS DEF Keeps, ThreadStates, Runnable
<1>6. Elems(q) = Elems(waitq[m]) \cup {c}
  <2> DEFINE qm == b.q[m]
             prio == b.s.p_prio
  <2>1. qm \in Seq(AllThreads) /\ prio \in [AllThreads -> Int]
    BY <1>2, <1>4, PriosAreInts
  <2> HIDE DEF qm, prio
  <2>2. Elems(prio_insert(qm, prio, c)) = Elems(qm) \cup {c} BY <2>1, PrioInsert
  <2>3. Elems(q) = Elems(qm) \cup {c} BY <1>1, <2>2 DEF qm, prio
  <2> QED BY <1>2, <1>4, <2>3 DEF qm
<1> HIDE DEF q
<1> SUFFICES ASSUME NEW x \in Mutexes, NEW w \in Elems(waitq'[x])
             PROVE  k'.p_prio[m_owner'[x]] >= k'.p_prio[w]
  BY DEF InheritsFromWaiters
<1>7. w \in AllThreads /\ WaitsFor(w, x, m)
  <2>1. x \in WaitObjects BY DEF WaitObjects
  <2>2. \A u \in Elems(waitq[x]) : u \in AllThreads BY WaitersOf
  <2>3. CASE x = m
    <3>1. waitq'[x] = q BY <1>2, <1>4, <2>3
    <3> QED BY <1>1, <1>6, <2>2, <2>3, <3>1 DEF WaitsFor
  <2>4. CASE x # m
    <3>1. waitq'[x] = b.q[x] BY <1>2, <1>4, <2>1, <2>4
    <3> QED BY <1>4, <2>1, <2>2, <2>4, <3>1 DEF WaitsFor
  <2> QED BY <2>3, <2>4
<1>8. m_owner[x] \in AllThreads BY <1>7, OwnersOf
<1>9. m_owner[x] # NULL BY <1>8, Types
<1> QED BY <1>2, <1>3, <1>5, <1>7, <1>9 DEF Behind

\* chMtxLockS(), called by a thread or at the end of a wait.
LEMMA LockServed ==
    ASSUME MutexInv, InheritsNothingElse, InheritsFromWaiters, ThreadCode,
           NEW m \in Mutexes, chMtxLockS(m)
    PROVE  InheritsFromWaiters'
<1>1. CASE m_owner[m] = NULL /\ Acquire(m)
  <2>1. /\ UNCHANGED <<k, waitq>> /\ m_owner' = [m_owner EXCEPT ![m] = currp]
    BY <1>1 DEF Acquire
  <2>2. \A x \in Mutexes : m_owner[x] # NULL => m_owner'[x] = m_owner[x]
    BY <1>1, <2>1, Types
  <2> QED BY <2>1, <2>2, ServedFrame
<1>2. CASE m_owner[m] # NULL /\ Block(m) BY <1>2, BlockServed
<1> QED BY <1>1, <1>2 DEF chMtxLockS

\* The services of ChMutex.
LEMMA MutexStepServed ==
    ASSUME CondInv, InheritsFromWaiters, MutexStep, OwnersKeepPriority
    PROVE  InheritsFromWaiters'
<1>1. MutexInv /\ InheritsNothingElse /\ SchedInv(k) BY DEF CondInv, PrioInv, MutexInv
<1>2. ASSUME k'.p_prio = k.p_prio, UNCHANGED mtxvars PROVE InheritsFromWaiters'
  BY <1>1, <1>2, ServedFrame DEF mtxvars
<1>3. ASSUME NEW m \in Mutexes, Lock(m) PROVE InheritsFromWaiters'
  BY <1>1, <1>3, LockServed DEF Lock
<1>4. ASSUME NEW m \in Mutexes, TryLock(m) PROVE InheritsFromWaiters'
  BY <1>1, <1>4, LockServed DEF TryLock, chMtxLockS
<1>5. CASE Unlock BY <1>1, <1>5, UnlockServed
<1>6. CASE UnlockAll BY <1>1, <1>6, UnlockAllServed
<1>7. ASSUME NEW p \in SetPrios, chThdSetPriority(p) PROVE InheritsFromWaiters'
  BY <1>1, <1>7, SetPriorityServed
<1>8. CASE chThdSleep
  <2>1. k.r_current # Idle /\ "SLEEPING" \in ThreadStates \ Runnable
        /\ k' = chSchGoSleepS(k, "SLEEPING") /\ UNCHANGED mtxvars
    BY <1>8 DEF chThdSleep, ThreadCode, currp, ThreadStates, Runnable
  <2>2. k'.p_prio = k.p_prio BY <1>1, <2>1, GoSleepS DEF Keeps
  <2> QED BY <1>2, <2>1, <2>2
<1>9. ASSUME NEW t \in Threads, WakeSleeper(t) PROVE InheritsFromWaiters'
  <2>1. t \in AllThreads /\ k.p_state[t] \notin Runnable
        /\ k' = chSchReadyI(k, t) /\ UNCHANGED mtxvars
    BY <1>9 DEF WakeSleeper, Runnable, AllThreads
  <2>2. k'.p_prio = k.p_prio BY <1>1, <2>1, ReadyI DEF Keeps
  <2> QED BY <1>2, <2>1, <2>2
<1>10. CASE IrqExit
  <2>1. k'.p_prio = k.p_prio BY <1>1, <1>10, Epilogue DEF IrqExit, Keeps
  <2> QED BY <1>2, <1>10, <2>1 DEF IrqExit
<1> QED BY <1>3, <1>4, <1>5, <1>6, <1>7, <1>8, <1>9, <1>10 DEF MutexStep

\* Signals, broadcasts and timers leave the mutexes and the priorities alone.
LEMMA WakesServed ==
    ASSUME MutexInv, InheritsFromWaiters, NEW c \in CondVars, NEW X, Wakes(c, X)
    PROVE  InheritsFromWaiters'
<1>1. /\ k'.p_prio = k.p_prio /\ m_owner' = m_owner
      /\ \A x \in Mutexes : waitq'[x] = waitq[x]
  BY MutexAssumption DEF Wakes, Keeps, WaitObjects
<1> QED BY <1>1, ServedFrame

\* The inductive invariant with the lower bound.
LEMMA NextServed ==
    ASSUME CondInv, InheritsFromWaiters, [CondNext]_allvars,
           [OwnersKeepPriority]_allvars
    PROVE  InheritsFromWaiters'
<1>1. MutexInv /\ InheritsNothingElse /\ isr \in BOOLEAN
  BY CondTypes DEF CondInv, PrioInv
<1>2. ASSUME UNCHANGED <<k, m_owner, waitq>> PROVE InheritsFromWaiters'
  BY <1>1, <1>2, ServedFrame
<1>3. CASE UNCHANGED allvars BY <1>2, <1>3 DEF allvars, vars, mtxvars
<1>4. ASSUME NEW c \in CondVars, NEW timed \in BOOLEAN, chCondWait(c, timed)
      PROVE  InheritsFromWaiters'
  <2> DEFINE m == Head(p_mtxlist[currp])
  <2>1. /\ p_mtxlist[currp] # <<>> /\ HandOver(m) /\ currp # Idle
        /\ waitq' = [Unqueued(m) EXCEPT
                       ![c] = prio_insert(Unqueued(m)[c], Released(m).p_prio, currp)]
        /\ k' = chSchGoSleepS(Released(m), "WTCOND")
    BY <1>4 DEF chCondWait, CondCode, ThreadCode, QueueByPrio
  <2>2. m \in Mutexes
    <3>1. p_mtxlist[currp] \in Seq(Mutexes) BY <1>1, Types
    <3> QED BY <2>1, <3>1, HeadTail
  <2> HIDE DEF m
  <2>3. k'.p_prio = Unboosted(m).p_prio
    <3>1. /\ SchedInv(Released(m)) /\ Released(m).r_current # Idle
          /\ Released(m).p_prio = Unboosted(m).p_prio
      BY <1>1, <2>1, <2>2, ReleasedOK
    <3>2. "WTCOND" \in ThreadStates \ Runnable BY DEF ThreadStates, Runnable
    <3> QED BY <2>1, <3>1, <3>2, GoSleepS DEF Keeps
  <2>4. \A x \in Mutexes : waitq'[x] = Unqueued(m)[x]
    BY <1>1, <2>1, <2>2, UnqueuedOK, MutexAssumption DEF WaitObjects
  <2> QED BY <1>1, <2>1, <2>3, <2>4, HandOverServed DEF m
<1>5. ASSUME NEW c \in CondVars, chCondSignal(c) \/ chCondSignalI(c)
      PROVE  InheritsFromWaiters'
  <2>1. /\ waitq[c] # <<>> /\ waitq' = [waitq EXCEPT ![c] = Tail(waitq[c])]
        /\ k' = chSchWakeupS(k, Head(waitq[c])) \/ k' = chSchReadyI(k, Head(waitq[c]))
        /\ isr' \in BOOLEAN /\ UNCHANGED <<p_realprio, p_mtxlist, m_owner, wtobjp>>
    BY <1>1, <1>5 DEF chCondSignal, chCondSignalI
  <2>2. Wakes(c, {Head(waitq[c])}) BY <1>1, <2>1, SignalWakes
  <2> QED BY <1>1, <2>2, WakesServed
<1>6. ASSUME NEW c \in CondVars, chCondBroadcast(c) \/ chCondBroadcastI(c)
      PROVE  InheritsFromWaiters'
  <2> DEFINE r == ReadyAll(k, waitq[c])
  <2>1. /\ waitq' = [waitq EXCEPT ![c] = <<>>]
        /\ k' = chSchRescheduleS(r) \/ k' = r
        /\ isr' \in BOOLEAN /\ UNCHANGED <<p_realprio, p_mtxlist, m_owner, wtobjp>>
    BY <1>1, <1>6 DEF chCondBroadcast, chCondBroadcastI, BroadcastI, Woken
  <2> HIDE DEF r
  <2>2. Wakes(c, Elems(waitq[c])) BY <1>1, <2>1, BroadcastWakes DEF r
  <2> QED BY <1>1, <2>2, WakesServed
<1>7. CASE LeaveWait
  <2>1. PICK p \in AllThreads : p = currp BY CondTypes
  <2>2. relock[p] \in Mutexes /\ relock[p] # NULL
    BY <1>7, <2>1, CondTypes DEF LeaveWait, Locked
  <2>3. ThreadCode
    <3>1. WaitFits(p) /\ ~isr BY <1>7 DEF CondInv, LeaveWait
    <3> QED BY <2>1, <2>2, <3>1 DEF WaitFits, ThreadCode
  <2>4. CASE UNCHANGED <<k, mtxvars>> BY <1>2, <2>4 DEF mtxvars
  <2>5. CASE chMtxLockS(relock[p]) BY <1>1, <2>2, <2>3, <2>5, LockServed
  <2> QED BY <1>7, <2>1, <2>4, <2>5 DEF LeaveWait
<1>8. ASSUME NEW t \in Threads, TimerExpires(t) PROVE InheritsFromWaiters'
  BY <1>2, <1>8 DEF TimerExpires, mtxvars
<1>9. ASSUME NEW t \in Threads, TimerCallback(t) PROVE InheritsFromWaiters'
  <2>1. t \in AllThreads /\ UNCHANGED <<isr, p_realprio, p_mtxlist, m_owner, wtobjp>>
    BY <1>9 DEF TimerCallback, AllThreads
  <2>2. CASE UNCHANGED <<k, waitq>> BY <1>2, <2>1, <2>2
  <2>3. CASE k.p_state[t] = "WTCOND" /\ waitq' = Dequeued(t) /\ k' = chSchReadyI(k, t)
    <3>1. wtobjp[t] \in CondVars /\ Wakes(wtobjp[t], {t})
      BY <1>1, <2>1, <2>3, TimerWakes
    <3> QED BY <1>1, <3>1, WakesServed
  <2> QED BY <1>9, <2>2, <2>3 DEF TimerCallback
<1>10. CASE MutexStep
  <2>1. CASE OwnersKeepPriority BY <1>10, <2>1, MutexStepServed
  <2> QED BY <1>3, <2>1
<1> QED BY <1>3, <1>4, <1>5, <1>6, <1>7, <1>8, <1>9, <1>10 DEF CondNext

\* Full priority inheritance (chmtx.c:54-58): a thread that owns a mutex never has
\* a priority below that of a thread queued on it, through any chain of owners and
\* with any waits for condition variables, as long as no thread lowers its own
\* priority while it owns a mutex. Without that, the code does not keep it.
THEOREM OwnersInherit ==
    CondSpec /\ [][OwnersKeepPriority]_allvars => []InheritsFromWaiters
<1>1. CondInit => InheritsFromWaiters
  <2>1. Len(<<>>) = 0 OBVIOUS
  <2> QED BY <2>1 DEF CondInit, Init, InheritsFromWaiters, Elems, WaitObjects
<1>2. CondInv /\ InheritsFromWaiters /\ [CondNext]_allvars /\ [OwnersKeepPriority]_allvars
         => InheritsFromWaiters'
  BY NextServed
<1> QED BY <1>1, <1>2, CondInvariant, PTL DEF CondSpec
============================================================================
