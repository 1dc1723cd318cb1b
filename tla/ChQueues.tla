------------------------------ MODULE ChQueues ------------------------------
(***************************************************************************)
(* I/O queues, os/kernel/src/chqueues.c: an input queue that interrupt     *)
(* handlers fill and threads read, and an output queue that threads fill   *)
(* and interrupt handlers read. Threads block, with and without a timeout, *)
(* and move several bytes in one call, unlocking after each.               *)
(*                                                                         *)
(* The two kinds mirror each other: q_counter is what a thread can move at *)
(* once, the bytes of an input queue and the free places of an output      *)
(* queue. Threads wait while it is 0; handlers raise it.                   *)
(***************************************************************************)
EXTENDS ChSched

CONSTANTS
    Bytes,        \* the byte values that go through each of the two queues
    Size,         \* the buffer size of each of the two queues
    Readers,      \* the threads that read the input queue
    Writers,      \* the threads that write the output queue
    MaxN,         \* bound: the bytes a call moves
    InitPrio      \* the priority of every thread

ASSUME QueuesAssumption ==
    /\ Size \in [{"iq", "oq"} -> Nat \ {0}]
    /\ Readers \subseteq Threads /\ Writers \subseteq Threads
    /\ MaxN \in Nat \ {0}
    /\ InitPrio \in [Threads -> UserPrios]

VARIABLES
    k,            \* the scheduler state
    isr,          \* an interrupt is being served
    rdymsg,       \* the wakeup message of a thread that was woken in its wait
    vt,           \* the timer of a timed sleep: "off", "armed" or "fired"
    call,         \* the transfer a thread is in
    q,            \* the two queues
    said          \* history: what the step has given, by queue

queuevars == <<k, isr, rdymsg, vt, call, q, said>>

currp == k.r_current
Queues == {"iq", "oq"}
Times == {"IMMEDIATE", "TICKS", "INFINITE"}

\* A call "wait"s in qwait() or has "more" bytes to move behind its unlock.
NoCall == [at |-> "none", x |-> "iq", n |-> 0, time |-> "INFINITE"]
Calls == [at : {"wait", "more"}, x : Queues, n : 1..MaxN, time : Times]

QueuesTypeOK ==
    /\ k \in SchedStates
    /\ isr \in BOOLEAN
    /\ rdymsg \in [AllThreads -> {"Q_OK", "Q_TIMEOUT", "Q_RESET", NULL}]
    /\ vt \in [AllThreads -> {"off", "armed", "fired"}]
    /\ call \in [AllThreads -> Calls \cup {NoCall}]
    /\ \A x \in Queues :
          /\ q[x].q_counter \in 0..Size[x]
          /\ q[x].q_rdptr \in 0..(Size[x] - 1) /\ q[x].q_wrptr \in 0..(Size[x] - 1)
          /\ q[x].q_buffer \in [0..(Size[x] - 1) -> Bytes[x] \cup {NULL}]
          /\ Elems(q[x].q_waiting) \subseteq Threads /\ NoDuplicates(q[x].q_waiting)

\* chIQInit() and chOQInit(), the buffer's memory left as it is
Emptied(x, buffer) ==
    [q_waiting |-> <<>>, q_counter |-> IF x = "iq" THEN 0 ELSE Size[x],
     q_buffer |-> buffer, q_rdptr |-> 0, q_wrptr |-> 0]

Nothing == [x \in Queues |-> "-"]

QueuesInit ==
    /\ LET prio == [t \in AllThreads |-> IF t = Idle THEN IDLEPRIO ELSE InitPrio[t]]
       IN \E order \in {o \in [1..Cardinality(AllThreads) -> AllThreads] : NoDuplicates(o)} :
             /\ SortedByPrio(order, prio)
             /\ k = [r_current |-> Head(order), r_queue |-> Tail(order),
                     p_state |-> [t \in AllThreads |->
                         IF t = Head(order) THEN "CURRENT" ELSE "READY"],
                     p_prio |-> prio,
                     p_preempt |-> [t \in AllThreads |-> CH_TIME_QUANTUM]]
    /\ isr = FALSE
    /\ rdymsg = [t \in AllThreads |-> NULL]
    /\ vt = [t \in AllThreads |-> "off"]
    /\ call = [t \in AllThreads |-> NoCall]
    /\ q = [x \in Queues |-> Emptied(x, [i \in 0..(Size[x] - 1) |-> NULL])]
    /\ said = Nothing

\* A thread that resumes inside qwait() still holds the kernel lock.
Locked == call[currp].at = "wait"
ThreadCode == ~isr /\ ~Locked /\ currp # Idle
IsrCode == ~Locked

----------------------------------------------------------------------------
(* The buffer *)

Following(x, i) == IF i + 1 >= Size[x] THEN 0 ELSE i + 1

\* chIQIsEmptyI() and chOQIsFullI(): a thread cannot move a byte.
ThreadBlocked(x) == q[x].q_counter <= 0

\* Faulty: equal pointers taken for a full or empty buffer without the counter.
SamePlace(g) == g.q_wrptr = g.q_rdptr

\* chIQIsFullI() and chOQIsEmptyI(): a handler cannot move a byte.
IsrBlocked(g) == g.q_wrptr = g.q_rdptr /\ g.q_counter # 0

WriteByte(x, g, b) ==
    [g EXCEPT !.q_buffer[g.q_wrptr] = b, !.q_wrptr = Following(x, g.q_wrptr)]

ReadByte(x, g) == [g EXCEPT !.q_rdptr = Following(x, g.q_rdptr)]

\* The byte a reader of x gets.
Oldest(x) == q[x].q_buffer[q[x].q_rdptr]

----------------------------------------------------------------------------
(* Waiting threads *)

\* A state of the handlers: the scheduler state, the messages, the queues.
Now == [s |-> k, m |-> rdymsg, q |-> q]

\* Faulty: only the first byte of an empty queue wakes a reader.
WakeOnFirst(n, x) ==
    IF n.q[x].q_waiting = <<>> \/ n.q[x].q_counter > 1 THEN n
    ELSE LET t == Head(n.q[x].q_waiting)
         IN [s |-> chSchReadyI(n.s, t), m |-> [n.m EXCEPT ![t] = "Q_OK"],
             q |-> [n.q EXCEPT ![x].q_waiting = Tail(@)]]

\* One waiting thread is made ready for the byte or the place.
WakeOne(n, x) ==
    IF n.q[x].q_waiting = <<>> THEN n
    ELSE LET t == Head(n.q[x].q_waiting)
         IN [s |-> chSchReadyI(n.s, t), m |-> [n.m EXCEPT ![t] = "Q_OK"],
             q |-> [n.q EXCEPT ![x].q_waiting = Tail(@)]]

chIQPutI(n, b) ==
    IF IsrBlocked(n.q["iq"]) THEN n
    ELSE LET g == WriteByte("iq", n.q["iq"], b)
         IN WakeOne([n EXCEPT !.q["iq"] = [g EXCEPT !.q_counter = @ + 1]], "iq")

chOQGetI(n) ==
    IF IsrBlocked(n.q["oq"]) THEN n
    ELSE LET g == ReadByte("oq", n.q["oq"])
         IN WakeOne([n EXCEPT !.q["oq"] = [g EXCEPT !.q_counter = @ + 1]], "oq")

\* chIQResetI() and chOQResetI()
ResetI(n, x) ==
    LET w == n.q[x].q_waiting
    IN [s |-> ReadyAll(n.s, w),
        m |-> [t \in AllThreads |-> IF t \in Elems(w) THEN "Q_RESET" ELSE n.m[t]],
        q |-> [n.q EXCEPT ![x] = Emptied(x, @.q_buffer)]]

----------------------------------------------------------------------------
(* Transfers of threads *)

\* qwait() with a time to wait
Sleep(c) ==
    /\ q' = [q EXCEPT ![c.x].q_waiting = Append(@, currp)]
    /\ call' = [call EXCEPT ![currp] = [c EXCEPT !.at = "wait"]]
    /\ vt' = [vt EXCEPT ![currp] = IF c.time = "TICKS" THEN "armed" ELSE "off"]
    /\ k' = chSchGoSleepS(k, "WTQUEUE")
    /\ said' = Nothing

\* One byte is moved; the lock is given up behind it.
Move(c) ==
    /\ \/ /\ c.x = "iq"
          /\ LET g == ReadByte("iq", q["iq"])
             IN q' = [q EXCEPT !["iq"] = [g EXCEPT !.q_counter = @ - 1]]
          /\ said' = [Nothing EXCEPT !["iq"] = Oldest("iq")]
       \/ /\ c.x = "oq"
          /\ \E b \in Bytes["oq"] :
                LET g == WriteByte("oq", q["oq"], b)
                IN q' = [q EXCEPT !["oq"] = [g EXCEPT !.q_counter = @ - 1]]
          /\ said' = Nothing
    /\ call' = [call EXCEPT ![currp] =
                   IF c.n = 1 THEN NoCall ELSE [c EXCEPT !.at = "more", !.n = @ - 1]]
    /\ vt' = [vt EXCEPT ![currp] = "off"]
    /\ UNCHANGED k

Return ==
    /\ call' = [call EXCEPT ![currp] = NoCall]
    /\ vt' = [vt EXCEPT ![currp] = "off"]
    /\ said' = Nothing
    /\ UNCHANGED <<k, q>>

\* The loop around qwait(), for the next byte of the transfer c.
Attempt(c) ==
    \/ ~ThreadBlocked(c.x) /\ Move(c)
    \/ ThreadBlocked(c.x) /\ c.time # "IMMEDIATE" /\ Sleep(c)
    \/ ThreadBlocked(c.x) /\ c.time = "IMMEDIATE" /\ Return

\* chIQGetTimeout(), chIQReadTimeout(), chOQPutTimeout(), chOQWriteTimeout()
Transfer(x, n, time) ==
    /\ ThreadCode /\ call[currp] = NoCall
    /\ currp \in IF x = "iq" THEN Readers ELSE Writers
    /\ Attempt([at |-> "more", x |-> x, n |-> n, time |-> time])
    /\ UNCHANGED <<isr, rdymsg>>

NextByte ==
    /\ ThreadCode /\ call[currp].at = "more"
    /\ Attempt(call[currp])
    /\ UNCHANGED <<isr, rdymsg>>

\* The thread runs again behind its sleep: a timer still armed is reset.
Resume ==
    /\ Locked
    /\ IF rdymsg[currp] = "Q_OK" THEN Attempt(call[currp]) ELSE Return
    /\ rdymsg' = [rdymsg EXCEPT ![currp] = NULL]
    /\ UNCHANGED isr

ThreadStep ==
    \/ \E x \in Queues, n \in 1..MaxN, time \in Times : Transfer(x, n, time)
    \/ NextByte
    \/ Resume

----------------------------------------------------------------------------
(* Timers *)

TimerExpires(t) ==
    /\ IsrCode
    /\ vt[t] = "armed"
    /\ \A u \in AllThreads : vt[u] # "fired"
    /\ vt' = [vt EXCEPT ![t] = "fired"]
    /\ isr' = TRUE
    /\ said' = Nothing
    /\ UNCHANGED <<k, rdymsg, call, q>>

\* wakeup() of chschd.c
TimerCallback(t) ==
    /\ vt[t] = "fired"
    /\ vt' = [vt EXCEPT ![t] = "off"]
    /\ said' = Nothing
    /\ \/ /\ k.p_state[t] = "READY"
          /\ UNCHANGED <<k, rdymsg, q>>
       \/ /\ k.p_state[t] # "READY"
          /\ k' = chSchReadyI(k, t)
          /\ rdymsg' = [rdymsg EXCEPT ![t] = "Q_TIMEOUT"]
          /\ q' = [q EXCEPT ![call[t].x].q_waiting = dequeue(@, t)]
    /\ UNCHANGED <<isr, call>>

IrqExit ==
    /\ isr
    /\ \A t \in AllThreads : vt[t] # "fired"
    /\ k' = IrqEpilogue(k)
    /\ isr' = FALSE
    /\ said' = Nothing
    /\ UNCHANGED <<rdymsg, vt, call, q>>

TimerStep == (\E t \in Threads : TimerExpires(t) \/ TimerCallback(t)) \/ IrqExit

----------------------------------------------------------------------------
(* Properties *)

\* Nobody waits for what is there: as long as threads wait at a queue, every
\* byte (or free place) of it has a thread that was woken for it and is still
\* to run, however bytes, timeouts, resets and other readers interleave
\* (chqueues.c:180 and 145).
NobodyIsStranded ==
    /\ QueuesTypeOK
    /\ \A x \in Queues :
          q[x].q_waiting # <<>> =>
              q[x].q_counter <=
                  Cardinality({t \in Threads :
                      /\ call[t].at = "wait" /\ call[t].x = x
                      /\ k.p_state[t] \in Runnable
                      /\ rdymsg[t] = "Q_OK"})

\* The bytes in the buffer, the oldest first.
Content(x) ==
    LET g == q[x]
        len == IF x = "iq" THEN g.q_counter ELSE Size[x] - g.q_counter
    IN [i \in 1..len |-> g.q_buffer[(g.q_rdptr + i - 1) % Size[x]]]

IStream == INSTANCE ByteStream WITH
    Bytes <- Bytes["iq"], Size <- Size["iq"], content <- Content("iq"), said <- said["iq"]
OStream == INSTANCE ByteStream WITH
    Bytes <- Bytes["oq"], Size <- Size["oq"], content <- Content("oq"), said <- said["oq"]

\* Both queues are bounded streams: bytes leave in the order they came in, each
\* once, whoever interrupts a transfer of several bytes, and only a full queue
\* refuses one.
QueuesAreStreams == IStream!StreamSpec /\ OStream!StreamSpec
============================================================================
