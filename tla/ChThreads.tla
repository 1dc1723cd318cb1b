------------------------------ MODULE ChThreads ------------------------------
(***************************************************************************)
(* The life of threads: creation, exit and join (chthreads.c), dynamic     *)
(* threads with their reference counts (chdynamic.c), the registry they    *)
(* are listed in (chregistry.c), synchronous messages (chmsg.c), the tick  *)
(* with its round robin (chsys.c).                                         *)
(*                                                                         *)
(* A thread is named by its working area. The areas of dynamic threads     *)
(* come from an allocator and go back to it. chThdRelease() works outside  *)
(* the kernel lock once it has decremented the count, so it is several     *)
(* steps, between which interrupts and other threads run.                  *)
(***************************************************************************)
EXTENDS ChSched

CONSTANTS
    Main,         \* the main thread, static, never exits
    Statics,      \* the other static working areas
    HeapAreas,    \* the areas the heap can provide
    PoolAreas,    \* the objects of the memory pool
    ThdPrio,      \* the priority of the thread in every area
    Users,        \* the threads that create, join and hold references
    Scanners,     \* the threads that iterate over the registry
    Clients,      \* the threads that send messages
    rlist,        \* the header of the registry list
    MaxRefs       \* bound: a thread holds so many references in all

Dynamics == HeapAreas \cup PoolAreas
Nodes == AllThreads \cup {rlist}

ASSUME ThreadsAssumption ==
    /\ Threads = {Main} \cup Statics \cup Dynamics
    /\ Main \notin Statics \cup Dynamics
    /\ Statics \cap Dynamics = {} /\ HeapAreas \cap PoolAreas = {}
    /\ rlist \notin AllThreads
    /\ ThdPrio \in [Threads -> UserPrios]
    /\ Users \cup Scanners \cup Clients \subseteq Threads
    /\ MaxRefs \in Nat

VARIABLES
    k,            \* the scheduler state
    isr,          \* an interrupt is being served
    p_refs,       \* the reference counts
    p_flags,      \* where the area of a thread belongs to (THD_MEM_MODE)
    p_newer,      \* the registry: the next newer thread or the header,
    p_older,      \*   and the next older one
    p_waiting,    \* the threads that wait for the exit of a thread, LIFO
    p_msgqueue,   \* the threads whose message a thread has not taken, FIFO
    free,         \* the areas nobody owns
    held,         \* held[t][u]: the references to u that the code of t holds
    serving,      \* the senders a thread took a message from, not yet released
    call,         \* the call a thread is in the middle of,
    arg,          \*   and the thread it works on
    got_older,    \* the links a removal outside the lock has loaded from the
    got_newer,    \*   thread it removes and will store through, or NULL
    raced,        \* history: a release worked outside the lock on the registry
                  \*   while another call changed it or took a thread from it
    stale         \* history: an iteration went on from an ended thread, by a
                  \*   link to one the registry does not list

regvars == <<p_newer, p_older>>
refvars == <<p_refs, held>>
callvars == <<call, arg>>
msgvars == <<p_msgqueue, serving>>
history == <<raced, stale>>
copies == <<got_older, got_newer>>
vars == <<k, isr, refvars, p_flags, regvars, p_waiting, msgvars, free, callvars, history, copies>>

currp == k.r_current

Calls == {"none", "create", "join", "release", "check", "unlink", "relink", "free", "msgwait"}
MemModes == {"STATIC", "HEAP", "MEMPOOL"}

ThreadsTypeOK ==
    /\ k \in SchedStates
    /\ isr \in BOOLEAN
    /\ p_refs \in [AllThreads -> Nat]
    /\ p_flags \in [AllThreads -> MemModes]
    /\ p_newer \in [Nodes -> Nodes] /\ p_older \in [Nodes -> Nodes]
    /\ p_waiting \in [AllThreads -> Seq(Threads)]
    /\ p_msgqueue \in [AllThreads -> Seq(Threads)]
    /\ free \subseteq Statics \cup Dynamics
    /\ held \in [Threads -> [AllThreads -> Nat]]
    /\ serving \in [AllThreads -> SUBSET Threads]
    /\ call \in [AllThreads -> Calls]
    /\ arg \in [AllThreads -> AllThreads \cup {NULL}]
    /\ got_older \in [AllThreads -> Nodes \cup {NULL}]
    /\ got_newer \in [AllThreads -> Nodes \cup {NULL}]
    /\ raced \in BOOLEAN /\ stale \in BOOLEAN

\* chSysInit() has run: main is the running thread, idle the only other one.
ThreadsInit ==
    /\ k = [r_current |-> Main,
            r_queue   |-> <<Idle>>,
            p_state   |-> [t \in AllThreads |->
                CASE t = Main -> "CURRENT" [] t = Idle -> "READY" [] OTHER -> "FINAL"],
            p_prio    |-> [t \in AllThreads |-> IF t = Idle THEN IDLEPRIO ELSE ThdPrio[t]],
            p_preempt |-> [t \in AllThreads |-> CH_TIME_QUANTUM]]
    /\ isr = FALSE
    /\ p_refs = [t \in AllThreads |-> IF t \in {Main, Idle} THEN 1 ELSE 0]
    /\ p_flags = [t \in AllThreads |-> "STATIC"]
    /\ p_newer = [n \in Nodes |-> CASE n = rlist -> Main [] n = Main -> Idle [] OTHER -> rlist]
    /\ p_older = [n \in Nodes |-> CASE n = rlist -> Idle [] n = Idle -> Main [] OTHER -> rlist]
    /\ p_waiting = [t \in AllThreads |-> <<>>]
    /\ p_msgqueue = [t \in AllThreads |-> <<>>]
    /\ free = Statics \cup Dynamics
    /\ held = [t \in Threads |-> [u \in AllThreads |-> 0]]
    /\ serving = [t \in AllThreads |-> {}]
    /\ call = [t \in AllThreads |-> "none"]
    /\ arg = [t \in AllThreads |-> NULL]
    /\ got_older = [t \in AllThreads |-> NULL]
    /\ got_newer = [t \in AllThreads |-> NULL]
    /\ raced = FALSE /\ stale = FALSE

\* A thread that slept in chThdWait() or chMsgWait() resumes with the kernel
\* locked; the other calls go on unlocked and may be preempted.
Locked == call[currp] \in {"join", "msgwait"}

ThreadCode == ~isr /\ currp # Idle
Between == ThreadCode /\ call[currp] = "none"

Enter(c, u) ==
    /\ call' = [call EXCEPT ![currp] = c]
    /\ arg' = [arg EXCEPT ![currp] = u]
Leave == Enter("none", NULL)

Holds(t, u) == held[t][u] > 0

\* The number of references t holds, and the number of those to u.
HeldBy(t) ==
    LET n[i \in 0..MaxRefs] ==
            IF i = 0 THEN 0
            ELSE n[i - 1] + Cardinality({u \in AllThreads : held[t][u] >= i})
    IN n[MaxRefs]
HeldTo(u) ==
    LET n[i \in 0..MaxRefs] ==
            IF i = 0 THEN 0
            ELSE n[i - 1] + Cardinality({t \in Threads : held[t][u] >= i})
    IN n[MaxRefs]

----------------------------------------------------------------------------
(* The registry *)

\* t is inside a removal outside the lock: it has loaded a link, or is between
\* the two stores.
Unlinking(t) == got_older[t] # NULL \/ got_newer[t] # NULL \/ call[t] = "relink"
HalfRemoved == \E t \in AllThreads : call[t] = "relink"

\* The running thread works on the links while another is inside such a removal.
AtOnce == \E t \in AllThreads \ {currp} : Unlinking(t)

\* A release has brought the count of u to zero and not yet decided or finished.
ReleasePending(u) ==
    /\ p_refs[u] = 0
    /\ \E t \in AllThreads : call[t] \in {"check", "unlink", "relink", "free"} /\ arg[t] = u

\* The threads from the oldest on, in the order of the list.
Registered ==
    LET walk[i \in 0..Cardinality(Nodes)] ==
            IF i = 0 THEN p_newer[rlist]
            ELSE IF walk[i - 1] = rlist THEN rlist ELSE p_newer[walk[i - 1]]
    IN {walk[i] : i \in 0..Cardinality(Nodes)} \ {rlist}

REG_INSERT(tp) ==
    /\ p_newer' = [[p_newer EXCEPT ![tp] = rlist] EXCEPT ![p_older[rlist]] = tp]
    /\ p_older' = [p_older EXCEPT ![tp] = p_older[rlist], ![rlist] = tp]

\* Faulty: only the forward link.
REG_REMOVE_FORWARD(tp) ==
    /\ p_newer' = [p_newer EXCEPT ![p_older[tp]] = p_newer[tp]]
    /\ UNCHANGED p_older
REG_REMOVE(tp) ==
    /\ p_newer' = [p_newer EXCEPT ![p_older[tp]] = p_newer[tp]]
    /\ p_older' = [p_older EXCEPT ![p_newer[tp]] = p_older[tp]]

----------------------------------------------------------------------------
(* Creation *)

\* _thread_init() for the area tp, up to the scheduler state.
ThreadInit(tp, mode) ==
    /\ p_flags' = [p_flags EXCEPT ![tp] = mode]
    /\ p_refs' = [p_refs EXCEPT ![tp] = 1]
    /\ REG_INSERT(tp)
    /\ p_waiting' = [p_waiting EXCEPT ![tp] = <<>>]
    /\ p_msgqueue' = [p_msgqueue EXCEPT ![tp] = <<>>]
    /\ raced' = (raced \/ AtOnce)

Suspended(tp) ==
    [k EXCEPT !.p_state[tp] = "SUSPENDED", !.p_prio[tp] = ThdPrio[tp],
              !.p_preempt[tp] = CH_TIME_QUANTUM]

\* The creator owns the first reference.
chThdCreateStatic(tp) ==
    /\ Between /\ currp \in Users
    /\ HeldBy(currp) < MaxRefs
    /\ tp \in Statics \cap free
    /\ ThreadInit(tp, "STATIC")
    /\ k' = chSchWakeupS(Suspended(tp), tp)
    /\ free' = free \ {tp}
    /\ held' = [held EXCEPT ![currp][tp] = 1]
    /\ UNCHANGED <<isr, serving, callvars, stale, copies>>

\* chThdCreateI() on its own leaves the thread suspended, chThdResume() starts it.
chThdCreateI(tp) ==
    /\ Between /\ currp \in Users
    /\ HeldBy(currp) < MaxRefs
    /\ tp \in Statics \cap free
    /\ ThreadInit(tp, "STATIC")
    /\ k' = Suspended(tp)
    /\ free' = free \ {tp}
    /\ held' = [held EXCEPT ![currp][tp] = 1]
    /\ UNCHANGED <<isr, serving, callvars, stale, copies>>

chThdResume(tp) ==
    /\ Between /\ Holds(currp, tp)
    /\ k.p_state[tp] = "SUSPENDED"
    /\ k' = chSchWakeupS(k, tp)
    /\ UNCHANGED <<isr, refvars, p_flags, regvars, p_waiting, msgvars, free, callvars, history, copies>>

\* An area nobody uses any more may hold another thread.
ReuseStatic(tp) ==
    /\ tp \in Statics \ free
    /\ k.p_state[tp] = "FINAL"
    /\ p_msgqueue[tp] = <<>> /\ serving[tp] = {}
    /\ \A t \in Threads : ~Holds(t, tp) /\ arg[t] # tp
    /\ free' = free \cup {tp}
    /\ UNCHANGED <<k, isr, refvars, p_flags, regvars, p_waiting, msgvars, callvars, history, copies>>

\* chHeapAlloc() and chPoolAlloc(), then the creation in a locked section.
chThdAlloc(tp) ==
    /\ Between /\ currp \in Users
    /\ HeldBy(currp) < MaxRefs
    /\ tp \in Dynamics \cap free
    /\ free' = free \ {tp}
    /\ Enter("create", tp)
    /\ UNCHANGED <<k, isr, refvars, p_flags, regvars, p_waiting, msgvars, history, copies>>

chThdCreateDynamic ==
    /\ ThreadCode /\ call[currp] = "create"
    /\ LET tp == arg[currp]
       IN /\ ThreadInit(tp, IF tp \in HeapAreas THEN "HEAP" ELSE "MEMPOOL")
          /\ k' = chSchWakeupS(Suspended(tp), tp)
          /\ held' = [held EXCEPT ![currp][tp] = 1]
    /\ Leave
    /\ UNCHANGED <<isr, serving, free, stale, copies>>

----------------------------------------------------------------------------
(* References *)

chThdAddRef(tp) ==
    /\ Between /\ Holds(currp, tp)
    /\ HeldBy(currp) < MaxRefs
    /\ p_refs' = [p_refs EXCEPT ![tp] = @ + 1]
    /\ held' = [held EXCEPT ![currp][tp] = @ + 1]
    /\ UNCHANGED <<k, isr, p_flags, regvars, p_waiting, msgvars, free, callvars, history, copies>>

\* Faulty: the thread is freed as soon as it has ended.
CheckAlways(tp) == Enter("check", tp)
AfterDecrement(tp) == IF p_refs[tp] = 1 THEN Enter("check", tp) ELSE Leave

\* The locked part of chThdRelease().
Decrement(tp) ==
    /\ p_refs' = [p_refs EXCEPT ![tp] = @ - 1]
    /\ held' = [held EXCEPT ![currp][tp] = @ - 1]
    /\ AfterDecrement(tp)
    /\ UNCHANGED <<k, isr, p_flags, regvars, p_waiting, msgvars, free, history, copies>>

chThdRelease(tp) ==
    /\ ThreadCode
    /\ \/ call[currp] = "none" /\ Holds(currp, tp)
       \/ call[currp] = "release" /\ arg[currp] = tp
    /\ Decrement(tp)

\* The count was zero when the lock was released: the memory goes back if the
\* thread has ended by now.
MayFree(tp) == k.p_state[tp] = "FINAL" /\ p_flags[tp] # "STATIC"

\* ... outside the lock: the test, and for a dynamic thread REG_REMOVE(), two
\* statements that load the links of the thread and store through them.
ReleaseCheck ==
    /\ ThreadCode /\ call[currp] = "check"
    /\ LET tp == arg[currp] IN IF MayFree(tp) THEN Enter("unlink", tp) ELSE Leave
    /\ UNCHANGED <<k, isr, refvars, p_flags, regvars, p_waiting, msgvars, free, history, copies>>

\* The loads of a statement, in either order.
LoadOlder ==
    /\ ThreadCode /\ call[currp] \in {"unlink", "relink"}
    /\ got_older[currp] = NULL
    /\ got_older' = [got_older EXCEPT ![currp] = p_older[arg[currp]]]
    /\ raced' = (raced \/ AtOnce)
    /\ UNCHANGED <<k, isr, refvars, p_flags, regvars, p_waiting, msgvars, free, callvars, stale, got_newer>>

LoadNewer ==
    /\ ThreadCode /\ call[currp] \in {"unlink", "relink"}
    /\ got_newer[currp] = NULL
    /\ got_newer' = [got_newer EXCEPT ![currp] = p_newer[arg[currp]]]
    /\ raced' = (raced \/ AtOnce)
    /\ UNCHANGED <<k, isr, refvars, p_flags, regvars, p_waiting, msgvars, free, callvars, stale, got_older>>

Loaded == got_older[currp] # NULL /\ got_newer[currp] # NULL

\* The store of the first statement; the compiler may use a loaded link again in
\* the second one or load it anew.
UnlinkNewer ==
    /\ ThreadCode /\ call[currp] = "unlink" /\ Loaded
    /\ p_newer' = [p_newer EXCEPT ![got_older[currp]] = got_newer[currp]]
    /\ got_older' \in {got_older, [got_older EXCEPT ![currp] = NULL]}
    /\ got_newer' \in {got_newer, [got_newer EXCEPT ![currp] = NULL]}
    /\ raced' = (raced \/ AtOnce)
    /\ Enter("relink", arg[currp])
    /\ UNCHANGED <<k, isr, refvars, p_flags, p_older, p_waiting, msgvars, free, stale>>

\* The store of the second statement.
UnlinkOlder ==
    /\ ThreadCode /\ call[currp] = "relink" /\ Loaded
    /\ p_older' = [p_older EXCEPT ![got_newer[currp]] = got_older[currp]]
    /\ got_older' = [got_older EXCEPT ![currp] = NULL]
    /\ got_newer' = [got_newer EXCEPT ![currp] = NULL]
    /\ raced' = (raced \/ AtOnce)
    /\ Enter("free", arg[currp])
    /\ UNCHANGED <<k, isr, refvars, p_flags, p_newer, p_waiting, msgvars, free, stale>>

\* chHeapFree() or chPoolFree().
ReleaseFree ==
    /\ ThreadCode /\ call[currp] = "free"
    /\ free' = free \cup {arg[currp]}
    /\ Leave
    /\ UNCHANGED <<k, isr, refvars, p_flags, regvars, p_waiting, msgvars, history, copies>>

----------------------------------------------------------------------------
(* Iteration over the registry *)

\* Faulty: the count is not raised.
ReferenceUncounted(tp) ==
    /\ held' = [held EXCEPT ![currp][tp] = @ + 1]
    /\ UNCHANGED p_refs
Reference(tp) ==
    /\ p_refs' = [p_refs EXCEPT ![tp] = @ + 1]
    /\ held' = [held EXCEPT ![currp][tp] = @ + 1]

chRegFirstThread ==
    /\ Between /\ currp \in Scanners
    /\ LET tp == p_newer[rlist]
       IN /\ HeldBy(currp) < MaxRefs
          /\ Reference(tp)
          /\ raced' = (raced \/ ReleasePending(tp))
    /\ UNCHANGED <<k, isr, p_flags, regvars, p_waiting, msgvars, free, callvars, stale, copies>>

chRegNextThread(tp) ==
    /\ Between /\ currp \in Scanners
    /\ Holds(currp, tp)
    /\ LET ntp == p_newer[tp]
       IN /\ stale' = (stale \/ ntp \notin Registered \cup {rlist})
          /\ \/ ntp = rlist /\ UNCHANGED <<refvars, raced>>
             \/ /\ ntp # rlist
                /\ HeldBy(currp) < MaxRefs
                /\ Reference(ntp)
                /\ raced' = (raced \/ ReleasePending(ntp))
    /\ Enter("release", tp)
    /\ UNCHANGED <<k, isr, p_flags, regvars, p_waiting, msgvars, free, copies>>

----------------------------------------------------------------------------
(* Exit and join *)

\* Faulty: the first waiter only.
FirstWaiter(tp) == IF p_waiting[tp] = <<>> THEN <<>> ELSE <<Head(p_waiting[tp])>>
Joiners(tp) == p_waiting[tp]

\* chThdExitS(): the waiters get ready in the order of the list. The code has
\* given back its references and answered its messages.
chThdExit ==
    /\ Between /\ currp # Main
    /\ serving[currp] = {}
    /\ \A u \in AllThreads : ~Holds(currp, u)
    /\ k' = chSchGoSleepS(ReadyAll(k, Joiners(currp)), "FINAL")
    /\ p_waiting' = [p_waiting EXCEPT ![currp] = <<>>]
    /\ \/ p_flags[currp] = "STATIC" /\ REG_REMOVE(currp) /\ raced' = (raced \/ AtOnce)
       \/ p_flags[currp] # "STATIC" /\ UNCHANGED <<regvars, raced>>
    /\ UNCHANGED <<isr, refvars, p_flags, msgvars, free, callvars, stale, copies>>

chThdWait(tp) ==
    /\ Between
    /\ Holds(currp, tp) /\ tp # currp
    /\ \/ /\ k.p_state[tp] = "FINAL"
          /\ Enter("release", tp)
          /\ UNCHANGED <<k, p_waiting>>
       \/ /\ k.p_state[tp] # "FINAL"
          /\ p_waiting' = [p_waiting EXCEPT ![tp] = <<currp>> \o @]
          /\ k' = chSchGoSleepS(k, "WTEXIT")
          /\ Enter("join", tp)
    /\ UNCHANGED <<isr, refvars, p_flags, regvars, msgvars, free, history, copies>>

\* The joiner runs again, reads the exit code and unlocks.
JoinReturn ==
    /\ ThreadCode /\ call[currp] = "join"
    /\ Enter("release", arg[currp])
    /\ UNCHANGED <<k, isr, refvars, p_flags, regvars, p_waiting, msgvars, free, history, copies>>

----------------------------------------------------------------------------
(* Messages *)

\* Faulty: a receiver that waits is not woken while it has a sender already.
ReadyIfFirst(tp) ==
    IF k.p_state[tp] = "WTMSG" /\ p_msgqueue[tp] # <<>> THEN chSchReadyI(k, tp) ELSE k
Delivered(tp) ==
    IF k.p_state[tp] = "WTMSG" THEN chSchReadyI(k, tp) ELSE k

chMsgSend(tp) ==
    /\ Between /\ currp \in Clients
    /\ Holds(currp, tp) /\ tp # currp /\ tp # Idle
    /\ p_msgqueue' = [p_msgqueue EXCEPT ![tp] = Append(@, currp)]
    /\ k' = chSchGoSleepS(Delivered(tp), "SNDMSGQ")
    /\ UNCHANGED <<isr, refvars, p_flags, regvars, p_waiting, serving, free, callvars, history, copies>>

\* The running thread takes the oldest message.
TakeMessage(s) ==
    LET tp == Head(p_msgqueue[currp])
    IN /\ p_msgqueue' = [p_msgqueue EXCEPT ![currp] = Tail(@)]
       /\ k' = [s EXCEPT !.p_state[tp] = "SNDMSG"]
       /\ serving' = [serving EXCEPT ![currp] = @ \cup {tp}]

chMsgWait ==
    /\ Between
    /\ \/ /\ p_msgqueue[currp] # <<>>
          /\ TakeMessage(k)
          /\ UNCHANGED callvars
       \/ /\ p_msgqueue[currp] = <<>>
          /\ k' = chSchGoSleepS(k, "WTMSG")
          /\ Enter("msgwait", NULL)
          /\ UNCHANGED msgvars
    /\ UNCHANGED <<isr, refvars, p_flags, regvars, p_waiting, free, history, copies>>

MsgWaitReturn ==
    /\ ThreadCode /\ call[currp] = "msgwait"
    /\ TakeMessage(k)
    /\ Leave
    /\ UNCHANGED <<isr, refvars, p_flags, regvars, p_waiting, free, history, copies>>

chMsgRelease(tp) ==
    /\ Between
    /\ tp \in serving[currp]
    /\ serving' = [serving EXCEPT ![currp] = @ \ {tp}]
    /\ k' = chSchWakeupS(k, tp)
    /\ UNCHANGED <<isr, refvars, p_flags, regvars, p_waiting, p_msgqueue, free, callvars, history, copies>>

----------------------------------------------------------------------------
(* Time *)

chThdSleep ==
    /\ Between
    /\ k' = chSchGoSleepS(k, "SLEEPING")
    /\ UNCHANGED <<isr, refvars, p_flags, regvars, p_waiting, msgvars, free, callvars, history, copies>>

chThdYield ==
    /\ Between
    /\ k' = chSchDoYieldS(k)
    /\ UNCHANGED <<isr, refvars, p_flags, regvars, p_waiting, msgvars, free, callvars, history, copies>>

Interrupt(s) ==
    /\ ~Locked
    /\ k' = s
    /\ isr' = TRUE
    /\ UNCHANGED <<refvars, p_flags, regvars, p_waiting, msgvars, free, callvars, history, copies>>

\* The timer interrupt ends the sleep of t: wakeup() of chschd.c.
WakeSleeper(t) == k.p_state[t] = "SLEEPING" /\ Interrupt(chSchReadyI(k, t))

chSysTimerHandlerI == Interrupt(ConsumeSlice(k))

IrqExit ==
    /\ isr
    /\ k' = IrqEpilogue(k)
    /\ isr' = FALSE
    /\ UNCHANGED <<refvars, p_flags, regvars, p_waiting, msgvars, free, callvars, history, copies>>

----------------------------------------------------------------------------

\* The areas a thread refers to: it holds a reference to them or works on them.
Uses(t) ==
    {u \in AllThreads : Holds(t, u)} \cup
    (IF call[t] \in {"join", "release", "check", "unlink", "relink", "free"} THEN {arg[t]} ELSE {})

\* A reference keeps the thread it refers to: "A reference is added to the
\* returned thread in order to make sure its status is not lost"
\* (chregistry.c:101-102), and a thread is freed once.
NoDanglingReference == \A t \in Threads : Uses(t) \cap free = {}

\* A removal stores through links to memory in use only.
NoStrayStore == \A t \in Threads : {got_older[t], got_newer[t]} \cap free = {}

ThreadStep ==
    \/ \E tp \in Statics : chThdCreateStatic(tp) \/ chThdCreateI(tp) \/ ReuseStatic(tp)
    \/ \E tp \in Dynamics : chThdAlloc(tp)
    \/ chThdCreateDynamic
    \/ \E tp \in AllThreads :
          \/ chThdResume(tp) \/ chThdAddRef(tp) \/ chThdRelease(tp) \/ chRegNextThread(tp)
          \/ chThdWait(tp) \/ chMsgSend(tp) \/ chMsgRelease(tp)
    \/ ReleaseCheck \/ LoadOlder \/ LoadNewer \/ UnlinkNewer \/ UnlinkOlder \/ ReleaseFree
    \/ chRegFirstThread
    \/ chThdExit \/ JoinReturn
    \/ chMsgWait \/ MsgWaitReturn
    \/ chThdSleep \/ chThdYield

InterruptStep ==
    \/ \E t \in Threads : WakeSleeper(t)
    \/ chSysTimerHandlerI
    \/ IrqExit

\* A program that uses memory it has given back may do anything: nothing is
\* said of what it does then.
ThreadsNext == NoDanglingReference /\ NoStrayStore /\ (ThreadStep \/ InterruptStep)

ThreadsSpec == ThreadsInit /\ [][ThreadsNext]_vars

----------------------------------------------------------------------------
(* Properties *)

\* Outside of the cases the history variable names, references are safe: two
\* holders that release at the same time, a release that meets the exit of its
\* thread, a join and a release of the same thread free the area once, and never
\* under a reference or before the thread has ended (chdynamic.c:75-77).
SafeUnlessRaced ==
    raced \/ stale \/
        /\ NoDanglingReference /\ NoStrayStore
        /\ \A u \in free : k.p_state[u] = "FINAL"

\* The same, also where an iteration goes on from an ended thread: "The reference
\* counter of the specified thread is decremented and the reference counter of
\* the returned thread is incremented" (chregistry.c:125-126) makes an iteration
\* safe from any thread a reference is held to.
ReferencesUnlessRaced == raced \/ NoDanglingReference

\* What has been freed is out of the registry: REG_REMOVE() "Removes a thread from
\* the registry list" (chregistry.h:93) before chHeapFree() and chPoolFree().
\* The code does not keep it where raced holds: no run checks it.
FreedIsUnregistered == Registered \cap free = {}

\* The count of a thread is the number of the references that exist to it; an
\* area is only recycled at zero.
RefsAreCounted ==
    raced \/ stale \/
        /\ ThreadsTypeOK
        /\ \A u \in Threads \ (free \cup {Main}) :
              \/ \E t \in Threads : call[t] = "create" /\ arg[t] = u
              \/ p_refs[u] = HeldTo(u)

\* A thread is in the registry from its creation to its exit, a dynamic one until
\* its memory is given back, also when it ended without anybody waiting for it:
\* nothing else can find and free it then (chthreads.c:372-373). The links back
\* mirror the links forward.
RegistryComplete ==
    raced \/ stale \/ HalfRemoved \/
        /\ Registered = {t \in AllThreads \ free :
               /\ ~\E u \in Threads : call[u] \in {"create", "free"} /\ arg[u] = t
               /\ p_flags[t] = "STATIC" => k.p_state[t] # "FINAL"}
        /\ \A t \in Registered \cup {rlist} : p_older[p_newer[t]] = t

\* A thread waits for the exit of another exactly while it is in its list, no
\* thread waits for one that has ended, and a joiner that runs again finds the
\* thread it waited for ended, with its exit code still in its memory.
JoinersWait ==
    raced \/ stale \/
    /\ \A u \in AllThreads :
          /\ NoDuplicates(p_waiting[u])
          /\ Elems(p_waiting[u]) =
                {t \in AllThreads : k.p_state[t] = "WTEXIT" /\ arg[t] = u}
          /\ k.p_state[u] = "FINAL" => p_waiting[u] = <<>>
    /\ \A t \in AllThreads :
          (call[t] = "join" /\ k.p_state[t] # "WTEXIT") =>
              k.p_state[arg[t]] = "FINAL" /\ arg[t] \notin free

\* The rendezvous of chmsg.c: a sender is in one queue or with one receiver until
\* it is answered; a receiver sleeps only while its queue is empty, and one that
\* was woken finds a message, whoever else sends before it runs.
Rendezvous ==
    raced \/ stale \/
    /\ \A t \in Threads :
          LET at == {u \in Threads : t \in Elems(p_msgqueue[u])}
              by == {u \in Threads : t \in serving[u]}
          IN /\ Cardinality(at) = (IF k.p_state[t] = "SNDMSGQ" THEN 1 ELSE 0)
             /\ Cardinality(by) = (IF k.p_state[t] = "SNDMSG" THEN 1 ELSE 0)
    /\ \A u \in Threads :
          /\ NoDuplicates(p_msgqueue[u])
          /\ call[u] = "msgwait" =>
                (k.p_state[u] = "WTMSG" <=> p_msgqueue[u] = <<>>)
============================================================================
