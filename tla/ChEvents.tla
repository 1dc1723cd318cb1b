------------------------------ MODULE ChEvents ------------------------------
(***************************************************************************)
(* Event flags, os/kernel/src/chevents.c: threads register listeners with  *)
(* event sources, threads and interrupt handlers broadcast and signal, and *)
(* threads wait for one, any or all events of a mask, with and without a   *)
(* timeout.                                                                *)
(*                                                                         *)
(* The signal readies the thread, which takes its events only when it runs *)
(* again; until then more events arrive and the timer of the wait expires. *)
(***************************************************************************)
EXTENDS ChSched

CONSTANTS
    Events,       \* the event numbers, bits of an event mask
    Sources,      \* the event sources
    Listeners,    \* the listener structures
    Owner,        \* the thread that uses a listener
    Flags,        \* the flags a broadcast carries
    el_mask,      \* the mask every listener is registered with
    WaitMasks,    \* the masks threads wait for and signal
    InitPrio      \* the priority of every thread

ASSUME EventsAssumption ==
    /\ Events \subseteq Nat
    /\ el_mask \in [Listeners -> (SUBSET Events) \ {{}}]
    /\ WaitMasks \subseteq (SUBSET Events) \ {{}}
    /\ Owner \in [Listeners -> Threads]
    /\ InitPrio \in [Threads -> UserPrios]

VARIABLES
    k,            \* the scheduler state
    isr,          \* an interrupt is being served
    p_epending,   \* the pending events of every thread
    rdymsg,       \* the wakeup message of a thread that was woken in its wait
    vt,           \* the timer of a timed sleep: "off", "armed" or "fired"
    call,         \* the wait a thread is in: what for, mask, with a timer
    es_next,      \* the listeners of every source, last registered first
    el_flags,     \* the flags its broadcasts have carried
    handling      \* history: the owner took an event of the listener and
                  \* has not read its flags since

evtvars == <<p_epending, rdymsg, vt, call>>
lstvars == <<es_next, el_flags, handling>>
vars == <<k, isr, evtvars, lstvars>>

currp == k.r_current

\* The orders of a set of threads.
Seqs(S) == {q \in [1..Cardinality(S) -> S] : NoDuplicates(q)}

NoCall == [op |-> "none", mask |-> {}, timed |-> FALSE]
Calls == [op : {"none", "one", "any", "all"}, mask : SUBSET Events, timed : BOOLEAN]

EventsTypeOK ==
    /\ k \in SchedStates
    /\ isr \in BOOLEAN
    /\ p_epending \in [AllThreads -> SUBSET Events]
    /\ rdymsg \in [AllThreads -> {"RDY_OK", "RDY_TIMEOUT", NULL}]
    /\ vt \in [AllThreads -> {"off", "armed", "fired"}]
    /\ call \in [AllThreads -> Calls]
    /\ \A es \in Sources : Elems(es_next[es]) \subseteq Listeners /\ NoDuplicates(es_next[es])
    /\ el_flags \in [Listeners -> SUBSET Flags]
    /\ handling \in [Listeners -> BOOLEAN]

\* The threads have been created and have done nothing yet.
EventsInit ==
    /\ LET prio == [t \in AllThreads |-> IF t = Idle THEN IDLEPRIO ELSE InitPrio[t]]
       IN \E order \in Seqs(AllThreads) :
             /\ SortedByPrio(order, prio)
             /\ k = [r_current |-> Head(order), r_queue |-> Tail(order),
                     p_state |-> [t \in AllThreads |->
                         IF t = Head(order) THEN "CURRENT" ELSE "READY"],
                     p_prio |-> prio,
                     p_preempt |-> [t \in AllThreads |-> CH_TIME_QUANTUM]]
    /\ isr = FALSE
    /\ p_epending = [t \in AllThreads |-> {}]
    /\ rdymsg = [t \in AllThreads |-> NULL]
    /\ vt = [t \in AllThreads |-> "off"]
    /\ call = [t \in AllThreads |-> NoCall]
    /\ es_next = [es \in Sources |-> <<>>]
    /\ el_flags = [el \in Listeners |-> {}]
    /\ handling = [el \in Listeners |-> FALSE]

\* A thread that resumes inside a wait still holds the kernel lock.
Locked == call[currp] # NoCall
ThreadCode == ~isr /\ ~Locked /\ currp # Idle
IsrCode == ~Locked

----------------------------------------------------------------------------
(* Listeners *)

Registered(el) == \E es \in Sources : el \in Elems(es_next[es])

chEvtRegisterMask(es, el) ==
    /\ ThreadCode /\ Owner[el] = currp
    /\ ~Registered(el)
    /\ es_next' = [es_next EXCEPT ![es] = <<el>> \o @]
    /\ el_flags' = [el_flags EXCEPT ![el] = {}]
    /\ handling' = [handling EXCEPT ![el] = FALSE]
    /\ UNCHANGED <<k, isr, evtvars>>

\* A listener that is not in the list of the source stays where it is.
chEvtUnregister(es, el) ==
    /\ ThreadCode /\ Owner[el] = currp
    /\ \/ /\ el \in Elems(es_next[es])
          /\ es_next' = [es_next EXCEPT ![es] = dequeue(@, el)]
          /\ handling' = [handling EXCEPT ![el] = FALSE]
       \/ /\ el \notin Elems(es_next[es])
          /\ UNCHANGED <<es_next, handling>>
    /\ UNCHANGED <<k, isr, evtvars, el_flags>>

chEvtGetAndClearFlags(el) ==
    /\ ThreadCode /\ Owner[el] = currp
    /\ el_flags' = [el_flags EXCEPT ![el] = {}]
    /\ handling' = [handling EXCEPT ![el] = FALSE]
    /\ UNCHANGED <<k, isr, evtvars, es_next>>

----------------------------------------------------------------------------
(* Signals *)

\* Faulty: an AND wait is woken by its first event.
AndAsOr(s, p, t) ==
    s.p_state[t] \in {"WTOREVT", "WTANDEVT"} /\ p[t] \cap call[t].mask # {}

\* The pending events p end the wait of t.
Satisfies(s, p, t) ==
    \/ s.p_state[t] = "WTOREVT" /\ p[t] \cap call[t].mask # {}
    \/ s.p_state[t] = "WTANDEVT" /\ call[t].mask \subseteq p[t]

\* A state of the signalling: the scheduler state, the pending events and the
\* wakeup messages.
Now == [s |-> k, p |-> p_epending, m |-> rdymsg]

\* Faulty: an event nobody waits for is dropped.
SignalWaiting(n, t, mask) ==
    LET p1 == [n.p EXCEPT ![t] = @ \cup mask]
    IN IF Satisfies(n.s, p1, t)
       THEN [s |-> chSchReadyI(n.s, t), p |-> p1, m |-> [n.m EXCEPT ![t] = "RDY_OK"]]
       ELSE n

chEvtSignalI(n, t, mask) ==
    LET p1 == [n.p EXCEPT ![t] = @ \cup mask]
    IN IF Satisfies(n.s, p1, t)
       THEN [s |-> chSchReadyI(n.s, t), p |-> p1, m |-> [n.m EXCEPT ![t] = "RDY_OK"]]
       ELSE [n EXCEPT !.p = p1]

\* The listeners of es get the signal in the order of the list.
SignalAll(es) ==
    LET r[i \in 0..Len(es_next[es])] ==
            IF i = 0 THEN Now
            ELSE chEvtSignalI(r[i - 1], Owner[es_next[es][i]], el_mask[es_next[es][i]])
    IN r[Len(es_next[es])]

Signalled(n) == p_epending' = n.p /\ rdymsg' = n.m

\* Every listener of es collects the flags.
FlagsForAll(es, flags) ==
    [el \in Listeners |-> IF el \in Elems(es_next[es])
                          THEN el_flags[el] \cup flags ELSE el_flags[el]]

BroadcastI(es, flags) ==
    /\ Signalled(SignalAll(es))
    /\ el_flags' = FlagsForAll(es, flags)
    /\ UNCHANGED <<vt, call, es_next, handling>>

chEvtBroadcastFlags(es, flags) ==
    /\ ThreadCode
    /\ BroadcastI(es, flags)
    /\ k' = chSchRescheduleS(SignalAll(es).s)
    /\ UNCHANGED isr

BroadcastFromIsr(es, flags) ==
    /\ IsrCode
    /\ BroadcastI(es, flags)
    /\ k' = SignalAll(es).s
    /\ isr' = TRUE

chEvtSignal(t, mask) ==
    /\ ThreadCode
    /\ Signalled(chEvtSignalI(Now, t, mask))
    /\ k' = chSchRescheduleS(chEvtSignalI(Now, t, mask).s)
    /\ UNCHANGED <<isr, vt, call, lstvars>>

SignalFromIsr(t, mask) ==
    /\ IsrCode
    /\ Signalled(chEvtSignalI(Now, t, mask))
    /\ k' = chEvtSignalI(Now, t, mask).s
    /\ isr' = TRUE
    /\ UNCHANGED <<vt, call, lstvars>>

chEvtAddEvents(mask) ==
    /\ ThreadCode
    /\ p_epending' = [p_epending EXCEPT ![currp] = @ \cup mask]
    /\ UNCHANGED <<k, isr, rdymsg, vt, call, lstvars>>

----------------------------------------------------------------------------
(* Waits *)

\* The running thread takes the events m; it will look at the flags of their
\* listeners.
Take(m) ==
    /\ p_epending' = [p_epending EXCEPT ![currp] = @ \ m]
    /\ handling' = [el \in Listeners |->
          handling[el] \/ (Owner[el] = currp /\ el_mask[el] \cap m # {})]
    /\ UNCHANGED <<es_next, el_flags>>

chEvtGetAndClearEvents(mask) ==
    /\ ThreadCode
    /\ Take(p_epending[currp] \cap mask)
    /\ UNCHANGED <<k, isr, rdymsg, vt, call>>

\* m & -m
LowestBit(m) == CHOOSE e \in m : \A f \in m : e <= f

\* The events the wait returns, the condition being met.
Returns(op, mask) ==
    LET m == p_epending[currp] \cap mask
    IN CASE op = "one" -> IF m = {} THEN {} ELSE {LowestBit(m)}
         [] op = "any" -> m
         [] OTHER      -> mask

Met(op, mask) ==
    IF op = "all" THEN mask \subseteq p_epending[currp]
    ELSE p_epending[currp] \cap mask # {}

\* chEvtWaitOne(), chEvtWaitAny(), chEvtWaitAll() and their timed forms, whose
\* TIME_IMMEDIATE returns at once with no change when the condition is not met.
chEvtWait(op, mask, timed) ==
    /\ ThreadCode
    /\ \/ /\ Met(op, mask)
          /\ Take(Returns(op, mask))
          /\ UNCHANGED <<k, rdymsg, vt, call>>
       \/ /\ ~Met(op, mask)
          /\ call' = [call EXCEPT ![currp] = [op |-> op, mask |-> mask, timed |-> timed]]
          /\ vt' = [vt EXCEPT ![currp] = IF timed THEN "armed" ELSE @]
          /\ k' = chSchGoSleepS(k, IF op = "all" THEN "WTANDEVT" ELSE "WTOREVT")
          /\ UNCHANGED <<p_epending, rdymsg, lstvars>>
    /\ UNCHANGED isr

\* Faulty: a wait that timed out takes what it finds.
NeverTimedOut(c) == FALSE
TimedOut(c) == c.timed /\ rdymsg[currp] = "RDY_TIMEOUT"

\* The thread runs again behind its sleep: a timer still armed is reset; unless
\* the wait timed out it takes its events.
ReturnFromCall ==
    /\ Locked
    /\ vt' = [vt EXCEPT ![currp] = IF @ = "armed" THEN "off" ELSE @]
    /\ call' = [call EXCEPT ![currp] = NoCall]
    /\ LET c == call[currp]
       IN \/ TimedOut(c) /\ UNCHANGED <<p_epending, lstvars>>
          \/ ~TimedOut(c) /\ Take(Returns(c.op, c.mask))
    /\ rdymsg' = [rdymsg EXCEPT ![currp] = NULL]
    /\ UNCHANGED <<k, isr>>

----------------------------------------------------------------------------
(* Timers *)

TimerExpires(t) ==
    /\ IsrCode
    /\ vt[t] = "armed"
    /\ \A u \in AllThreads : vt[u] # "fired"
    /\ vt' = [vt EXCEPT ![t] = "fired"]
    /\ isr' = TRUE
    /\ UNCHANGED <<k, p_epending, rdymsg, call, lstvars>>

\* wakeup() of chschd.c: a thread signalled before its callback stays as it is.
TimerCallback(t) ==
    /\ vt[t] = "fired"
    /\ vt' = [vt EXCEPT ![t] = "off"]
    /\ \/ /\ k.p_state[t] = "READY"
          /\ UNCHANGED <<k, rdymsg>>
       \/ /\ k.p_state[t] # "READY"
          /\ k' = chSchReadyI(k, t)
          /\ rdymsg' = [rdymsg EXCEPT ![t] = "RDY_TIMEOUT"]
    /\ UNCHANGED <<isr, p_epending, call, lstvars>>

IrqExit ==
    /\ isr
    /\ \A t \in AllThreads : vt[t] # "fired"
    /\ k' = IrqEpilogue(k)
    /\ isr' = FALSE
    /\ UNCHANGED <<evtvars, lstvars>>

EventsNext ==
    \/ \E el \in Listeners :
          \/ \E es \in Sources : chEvtRegisterMask(es, el) \/ chEvtUnregister(es, el)
          \/ chEvtGetAndClearFlags(el)
    \/ \E es \in Sources, flags \in SUBSET Flags :
          chEvtBroadcastFlags(es, flags) \/ BroadcastFromIsr(es, flags)
    \/ \E t \in Threads, mask \in WaitMasks : chEvtSignal(t, mask) \/ SignalFromIsr(t, mask)
    \/ \E mask \in WaitMasks : chEvtAddEvents(mask) \/ chEvtGetAndClearEvents(mask)
    \/ \E op \in {"one", "any", "all"}, mask \in WaitMasks, timed \in BOOLEAN :
          chEvtWait(op, mask, timed)
    \/ ReturnFromCall
    \/ \E t \in Threads : TimerExpires(t) \/ TimerCallback(t)
    \/ IrqExit

EventsSpec == EventsInit /\ [][EventsNext]_vars

----------------------------------------------------------------------------
(* Properties *)

\* No event is missed: a thread never sleeps on while the events it waits for
\* are pending, and one that was woken for its events finds them, whatever
\* arrives between the signal and its run (chevents.c:249-255).
NoMissedEvent ==
    EventsTypeOK /\ \A t \in Threads :
        LET c == call[t]
            met == IF c.op = "all" THEN c.mask \subseteq p_epending[t]
                   ELSE p_epending[t] \cap c.mask # {}
        IN c.op \in {"one", "any", "all"} =>
              IF k.p_state[t] \in {"WTOREVT", "WTANDEVT"} THEN ~met
              ELSE met \/ (c.timed /\ rdymsg[t] = "RDY_TIMEOUT")

\* Flags are announced: as long as a registered listener has flags its owner has
\* not read, an event of the listener is pending or its owner has taken one
\* since it read the flags last; so reading the flags after every event
\* misses none, also when broadcasts come between the two.
FlagsAreAnnounced ==
    \A el \in Listeners :
        (Registered(el) /\ el_flags[el] # {}) =>
            handling[el] \/ el_mask[el] \subseteq p_epending[Owner[el]]

Promise == INSTANCE EventInbox WITH
    Receivers <- Threads,
    a <- [box  |-> [t \in Threads |-> p_epending[t]],
          wait |-> [t \in Threads |-> call[t]]]

\* Every wait returns exactly events that were sent, each once, and takes nothing
\* when it times out; only a wait limited in time times out.
EventsAreDelivered == Promise!InboxSpec
============================================================================
