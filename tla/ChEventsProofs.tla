--------------------------- MODULE ChEventsProofs ---------------------------
(***************************************************************************)
(* No event is missed: theorems about ChEvents for any threads, listeners, *)
(* sources and masks. A thread sleeps in a wait only while its events are  *)
(* missing, and finds them when it was woken for them; flags that nobody   *)
(* has read are announced by an event; and every thread's pending events   *)
(* are an inbox.                                                           *)
(***************************************************************************)
EXTENDS ChEvents, ChSchedProofs

Waiting == {"WTOREVT", "WTANDEVT"}

\* The events p end the wait c.
MetBy(c, p) == IF c.op = "all" THEN c.mask \subseteq p ELSE p \cap c.mask # {}

\* A thread in state st with the pending events p and the message m fits its
\* wait c: it sleeps exactly while its events are missing.
ThreadFits(st, c, p, m) ==
    /\ st \in Runnable \cup Waiting
    /\ st = "WTOREVT" => c.op \in {"one", "any"}
    /\ st = "WTANDEVT" => c.op = "all"
    /\ c # NoCall => IF st \in Waiting THEN ~MetBy(c, p)
                     ELSE MetBy(c, p) \/ (c.timed /\ m = "RDY_TIMEOUT")

Signals == [s : SchedStates, p : [AllThreads -> SUBSET Events],
            m : [AllThreads -> {"RDY_OK", "RDY_TIMEOUT", NULL}]]

\* What every signal and every timer keeps.
SignalInv(n) ==
    /\ n \in Signals
    /\ SchedInv(n.s)
    /\ \A t \in AllThreads : ThreadFits(n.s.p_state[t], call[t], n.p[t], n.m[t])

\* From n to r events only arrive, and the same thread runs.
Arrivals(n, r) ==
    /\ r.s.r_current = n.s.r_current
    /\ \A t \in AllThreads : n.p[t] \subseteq r.p[t]

\* A wait that asks for something.
WaitCalls == [op : {"one", "any", "all"}, mask : (SUBSET Events) \ {{}}, timed : BOOLEAN]

EventTypes ==
    /\ isr \in BOOLEAN
    /\ vt \in [AllThreads -> {"off", "armed", "fired"}]
    /\ call \in [AllThreads -> WaitCalls \cup {NoCall}]
    /\ call[Idle] = NoCall
    /\ es_next \in [Sources -> Seq(Listeners)]
    /\ \A es \in Sources : NoDuplicates(es_next[es])
    /\ el_flags \in [Listeners -> SUBSET Flags]
    /\ handling \in [Listeners -> BOOLEAN]

\* A listener is in the list of one source at most.
OneSource ==
    \A e, f \in Sources, el \in Listeners :
        el \in Elems(es_next[e]) /\ el \in Elems(es_next[f]) => e = f

\* Only a timed wait has a timer, which fires in an interrupt.
TimerFits(t) ==
    /\ vt[t] = "fired" => isr
    /\ vt[t] # "off" => call[t] # NoCall /\ call[t].timed

\* No interrupt comes between the end of a sleep and the return of the wait.
EventsInv ==
    /\ SignalInv(Now)
    /\ EventTypes
    /\ OneSource
    /\ isr => ~Locked
    /\ \A t \in AllThreads : TimerFits(t)
    /\ FlagsAreAnnounced

----------------------------------------------------------------------------
(* The start *)

\* The threads have been created and no one waits.
LEMMA EventsInitInv == ASSUME EventsInit PROVE EventsInv
<1> DEFINE prio == [t \in AllThreads |-> IF t = Idle THEN IDLEPRIO ELSE InitPrio[t]]
<1>1. prio \in [AllThreads -> Prios]
  BY EventsAssumption, SchedAssumption
     DEF AllThreads, Prios, UserPrios, IDLEPRIO, LOWPRIO
<1>2. PICK q \in Seqs(AllThreads) : k = Started(q, prio)
  BY DEF EventsInit, Started
<1> HIDE DEF prio
<1>3. SchedInv(k) BY <1>1, <1>2, StartInv DEF Seqs
<1>4. \A t \in AllThreads : k.p_state[t] \in Runnable BY <1>2 DEF Started, Runnable
<1>5. SignalInv(Now)
  <2>1. Now \in Signals BY <1>3 DEF EventsInit, Now, Signals, SchedInv
  <2>2. \A t \in AllThreads : ThreadFits(k.p_state[t], call[t], p_epending[t], rdymsg[t])
    BY <1>4 DEF EventsInit, ThreadFits, Runnable, Waiting
  <2> QED BY <1>3, <2>1, <2>2 DEF SignalInv, Now
<1>6. Elems(<<>>) = {} /\ NoDuplicates(<<>>) BY DEF Elems, NoDuplicates
<1>7. EventTypes
  <2>1. Idle \in AllThreads BY DEF AllThreads
  <2>2. /\ es_next \in [Sources -> Seq(Listeners)]
        /\ \A es \in Sources : es_next[es] = <<>>
    BY DEF EventsInit
  <2>3. /\ call \in [AllThreads -> WaitCalls \cup {NoCall}]
        /\ call[Idle] = NoCall
    BY <2>1 DEF EventsInit
  <2> QED BY <1>6, <2>2, <2>3 DEF EventsInit, EventTypes
<1>8. OneSource /\ FlagsAreAnnounced
  BY <1>6 DEF EventsInit, OneSource, FlagsAreAnnounced
<1>9. \A t \in AllThreads : TimerFits(t) BY DEF EventsInit, TimerFits
<1> QED BY <1>5, <1>7, <1>8, <1>9 DEF EventsInv, EventsInit

----------------------------------------------------------------------------
(* Signals *)

\* A thread that moves between the CPU and the ready list fits as before.
LEMMA StaysFit ==
    ASSUME NEW st, NEW st1, NEW c, NEW p, NEW m, ThreadFits(st, c, p, m),
           st1 = st \/ (st1 \in Runnable /\ st \in Runnable)
    PROVE  ThreadFits(st1, c, p, m)
BY DEF ThreadFits, Runnable, Waiting

\* A signal keeps its type, whatever it finds.
LEMMA SignalType ==
    ASSUME NEW n \in Signals, NEW t \in AllThreads, NEW mask \in SUBSET Events
    PROVE  chEvtSignalI(n, t, mask) \in Signals
<1> DEFINE p1 == [n.p EXCEPT ![t] = @ \cup mask]
<1>1. n.s \in SchedStates /\ p1 \in [AllThreads -> SUBSET Events]
      /\ n.m \in [AllThreads -> {"RDY_OK", "RDY_TIMEOUT", NULL}]
  BY DEF Signals
<1>2. chSchReadyI(n.s, t) \in SchedStates BY <1>1, ReadyIType
<1>3. [n EXCEPT !.p = p1] = [s |-> n.s, p |-> p1, m |-> n.m]
  <2> HIDE DEF p1
  <2> QED BY DEF Signals
<1>4. \/ chEvtSignalI(n, t, mask) =
           [s |-> chSchReadyI(n.s, t), p |-> p1, m |-> [n.m EXCEPT ![t] = "RDY_OK"]]
      \/ chEvtSignalI(n, t, mask) = [n EXCEPT !.p = p1]
  BY DEF chEvtSignalI
<1> HIDE DEF p1
<1>5. [n.m EXCEPT ![t] = "RDY_OK"] \in [AllThreads -> {"RDY_OK", "RDY_TIMEOUT", NULL}]
  BY <1>1
<1> QED BY <1>1, <1>2, <1>3, <1>4, <1>5 DEF Signals

\* chEvtSignalI(): the events arrive, and a thread whose wait they end is woken.
LEMMA SignalOK ==
    ASSUME NEW n, SignalInv(n), NEW t \in AllThreads, NEW mask \in SUBSET Events,
           call \in [AllThreads -> WaitCalls \cup {NoCall}]
    PROVE  LET r == chEvtSignalI(n, t, mask)
           IN SignalInv(r) /\ Arrivals(n, r) /\ mask \subseteq r.p[t]
<1> DEFINE p1 == [n.p EXCEPT ![t] = @ \cup mask]
           r == chEvtSignalI(n, t, mask)
<1>1. r \in Signals BY SignalType DEF SignalInv
<1>2. /\ n.s \in SchedStates /\ n.p \in [AllThreads -> SUBSET Events]
      /\ n.m \in [AllThreads -> {"RDY_OK", "RDY_TIMEOUT", NULL}]
      /\ SchedInv(n.s)
      /\ \A u \in AllThreads : ThreadFits(n.s.p_state[u], call[u], n.p[u], n.m[u])
  BY DEF SignalInv, Signals
<1>3. /\ p1 \in [AllThreads -> SUBSET Events] /\ p1[t] = n.p[t] \cup mask
      /\ \A u \in AllThreads \ {t} : p1[u] = n.p[u]
  BY <1>2
<1>4. CASE Satisfies(n.s, p1, t)
  <2>1. n.s.p_state[t] \in Waiting /\ MetBy(call[t], p1[t])
    BY <1>2, <1>4 DEF Satisfies, Waiting, ThreadFits, MetBy, Runnable
  <2>2. r = [s |-> chSchReadyI(n.s, t), p |-> p1, m |-> [n.m EXCEPT ![t] = "RDY_OK"]]
    BY <1>4 DEF chEvtSignalI
  <2> HIDE DEF p1
  <2>3. /\ r.s = chSchReadyI(n.s, t) /\ r.p = p1
        /\ \A u \in AllThreads \ {t} : r.m[u] = n.m[u]
    BY <1>2, <2>2
  <2> HIDE DEF r
  <2>4. /\ SchedInv(r.s) /\ r.s.r_current = n.s.r_current
        /\ r.s.p_state[t] = "READY" /\ Keeps(n.s, r.s, {t})
    BY <1>2, <2>1, <2>3, ReadyI DEF Waiting, Runnable
  <2>5. \A u \in AllThreads : ThreadFits(r.s.p_state[u], call[u], r.p[u], r.m[u])
    <3> TAKE u \in AllThreads
    <3>1. CASE u = t
      BY <2>1, <2>3, <2>4, <3>1 DEF ThreadFits, Runnable, Waiting
    <3>2. CASE u # t
      <4>1. \/ r.s.p_state[u] = n.s.p_state[u]
            \/ r.s.p_state[u] \in Runnable /\ n.s.p_state[u] \in Runnable
        BY <2>4, <3>2 DEF Keeps
      <4>2. ThreadFits(r.s.p_state[u], call[u], n.p[u], n.m[u])
        BY <1>2, <4>1, StaysFit
      <4> QED BY <1>3, <2>3, <3>2, <4>2
    <3> QED BY <3>1, <3>2
  <2> QED BY <1>1, <1>3, <2>3, <2>4, <2>5 DEF SignalInv, Arrivals, r
<1>5. CASE ~Satisfies(n.s, p1, t)
  <2>1. r = [n EXCEPT !.p = p1] BY <1>5 DEF chEvtSignalI
  <2>2. r.s = n.s /\ r.p = p1 /\ r.m = n.m BY <2>1 DEF SignalInv, Signals
  <2>3. ThreadFits(n.s.p_state[t], call[t], p1[t], n.m[t])
    <3>1. MetBy(call[t], n.p[t]) => MetBy(call[t], p1[t]) BY <1>3 DEF MetBy
    <3>2. n.s.p_state[t] \in Waiting => ~MetBy(call[t], p1[t])
      BY <1>2, <1>5 DEF Satisfies, Waiting, ThreadFits, MetBy
    <3> QED BY <1>2, <3>1, <3>2 DEF ThreadFits
  <2> HIDE DEF r, p1
  <2>4. \A u \in AllThreads : ThreadFits(r.s.p_state[u], call[u], r.p[u], r.m[u])
    <3> TAKE u \in AllThreads
    <3>1. CASE u = t BY <2>2, <2>3, <3>1
    <3>2. CASE u # t BY <1>2, <1>3, <2>2, <3>2
    <3> QED BY <3>1, <3>2
  <2> QED BY <1>1, <1>2, <1>3, <2>2, <2>4 DEF SignalInv, Arrivals, r
<1> QED BY <1>4, <1>5

----------------------------------------------------------------------------
(* Broadcasts *)

\* SignalAll(): every listener of the source gets its signal, and none takes away
\* what an earlier one got.
LEMMA BroadcastOK ==
    ASSUME NEW es \in Sources, es_next[es] \in Seq(Listeners), SignalInv(Now),
           call \in [AllThreads -> WaitCalls \cup {NoCall}]
    PROVE  LET r == SignalAll(es)
           IN /\ SignalInv(r) /\ Arrivals(Now, r)
              /\ \A el \in Elems(es_next[es]) : el_mask[el] \subseteq r.p[Owner[el]]
<1> DEFINE q == es_next[es]
           n == Len(q)
           Turn(i, x) == chEvtSignalI(x, Owner[q[i]], el_mask[q[i]])
           F == [p \in (1..n) \X Signals |-> Turn(p[1], p[2])]
           Loop(b) == b = [i \in 0..n |-> IF i = 0 THEN Now ELSE Turn(i, b[i - 1])]
           b == CHOOSE b : Loop(b)
<1>1. n \in Nat /\ Now \in Signals BY DEF SignalInv
<1>2. \A i \in 1..n : /\ q[i] \in Listeners
                      /\ Owner[q[i]] \in AllThreads /\ el_mask[q[i]] \in SUBSET Events
  <2>1. \A i \in 1..n : q[i] \in Listeners OBVIOUS
  <2>2. \A el \in Listeners : Owner[el] \in AllThreads /\ el_mask[el] \in SUBSET Events
    BY EventsAssumption DEF AllThreads
  <2> QED BY <2>1, <2>2
<1>3. SignalAll(es) = b[n] BY DEF SignalAll
<1>4. \A u \in Elems(q) : \E i \in 1..n : u = q[i] BY DEF Elems
<1> HIDE DEF q, n
<1>5. F \in [(1..n) \X Signals -> Signals] BY <1>2, SignalType
<1>6. \E f \in [0..n -> Signals] : IsIteration(f, n, Now, F)
  <2> HIDE DEF F
  <2> QED BY ONLY <1>1, <1>5, Iteration
<1>7. \E f : Loop(f)
  <2>1. PICK f \in [0..n -> Signals] : IsIteration(f, n, Now, F) BY <1>6
  <2>2. \A i \in 0..n : f[i] \in Signals OBVIOUS
  <2>3. \A i \in 0..n : i # 0 =>
           /\ i \in 1..n /\ i - 1 \in 0..n
           /\ F[<<i, f[i - 1]>>] = Turn(i, f[i - 1])
    BY <1>1, <2>2
  <2> HIDE DEF F, Turn
  <2>4. Loop(f) BY <1>1, <2>1, <2>3 DEF IsIteration
  <2> QED BY <2>4
<1>8. Loop(b)
  <2> HIDE DEF Loop
  <2> QED BY <1>7
<1> HIDE DEF b
<1>9. b[0] = Now /\ \A i \in 1..n : b[i] = Turn(i, b[i - 1]) BY <1>1, <1>8
<1> DEFINE Got(i, x) == \A j \in 1..i : el_mask[q[j]] \subseteq x.p[Owner[q[j]]]
           OK(i) == SignalInv(b[i]) /\ Arrivals(Now, b[i]) /\ Got(i, b[i])
           Good == {i \in 0..n : OK(i)}
<1>10. OK(0) BY <1>9 DEF Arrivals
<1>11. ASSUME NEW i \in 1..n, OK(i - 1) PROVE OK(i)
  <2> DEFINE x == b[i - 1]
  <2>1. /\ SignalInv(b[i]) /\ Arrivals(x, b[i])
        /\ el_mask[q[i]] \subseteq b[i].p[Owner[q[i]]]
    <3>1. SignalInv(x) /\ b[i] = chEvtSignalI(x, Owner[q[i]], el_mask[q[i]])
      BY <1>9, <1>11
    <3> HIDE DEF x
    <3> QED BY <1>2, <3>1, SignalOK
  <2>2. Arrivals(Now, b[i]) BY <1>11, <2>1 DEF Arrivals
  <2>3. ASSUME NEW j \in 1..i PROVE el_mask[q[j]] \subseteq b[i].p[Owner[q[j]]]
    <3>1. j \in 1..n BY <1>1
    <3>2. CASE j = i BY <2>1, <3>2
    <3>3. CASE j # i
      <4>1. j \in 1..(i - 1) BY <3>3
      <4>2. el_mask[q[j]] \subseteq x.p[Owner[q[j]]] BY <1>11, <4>1
      <4>3. x.p[Owner[q[j]]] \subseteq b[i].p[Owner[q[j]]]
        BY <1>2, <2>1, <3>1 DEF Arrivals
      <4> QED BY <4>2, <4>3
    <3> QED BY <3>2, <3>3
  <2> QED BY <2>1, <2>2, <2>3
<1>12. OK(n)
  <2>1. 0 \in Good BY <1>1, <1>10
  <2>2. \A i \in 1..n : i - 1 \in Good => i \in Good
    <3> TAKE i \in 1..n
    <3> HAVE i - 1 \in Good
    <3>1. OK(i - 1) OBVIOUS
    <3>2. OK(i)
      <4> HIDE DEF OK
      <4> QED BY <1>11, <3>1
    <3>3. i \in 0..n BY <1>1
    <3> HIDE DEF OK
    <3> QED BY <3>2, <3>3
  <2> HIDE DEF Good
  <2>3. \A i \in 0..n : i \in Good BY <1>1, <2>1, <2>2, TurnInduction
  <2>4. n \in Good BY <1>1, <2>3
  <2> QED BY <2>4 DEF Good
<1>13. \A el \in Elems(q) : el_mask[el] \subseteq b[n].p[Owner[el]]
  BY <1>4, <1>12
<1> QED BY <1>3, <1>12, <1>13 DEF q

----------------------------------------------------------------------------
(* What the steps have in common *)

\* What the invariant says of the types.
LEMMA EventFacts ==
    ASSUME EventsInv
    PROVE  /\ EventTypes /\ SchedInv(k) /\ currp \in AllThreads
           /\ k.p_state[currp] = "CURRENT"
           /\ p_epending \in [AllThreads -> SUBSET Events]
           /\ rdymsg \in [AllThreads -> {"RDY_OK", "RDY_TIMEOUT", NULL}]
           /\ \A t \in AllThreads :
                 ThreadFits(k.p_state[t], call[t], p_epending[t], rdymsg[t])
           /\ NoCall \notin WaitCalls
<1>1. SignalInv(Now) /\ EventTypes BY DEF EventsInv
<1>2. /\ Now.s = k /\ Now.p = p_epending /\ Now.m = rdymsg BY DEF Now
<1>3. /\ SchedInv(k)
      /\ p_epending \in [AllThreads -> SUBSET Events]
      /\ rdymsg \in [AllThreads -> {"RDY_OK", "RDY_TIMEOUT", NULL}]
      /\ \A t \in AllThreads :
            ThreadFits(k.p_state[t], call[t], p_epending[t], rdymsg[t])
  BY <1>1, <1>2 DEF SignalInv, Signals
<1>4. currp \in AllThreads /\ k.p_state[currp] = "CURRENT"
  BY <1>3 DEF SchedInv, SchedStates, ReadyListMembers, currp
<1>5. NoCall \notin WaitCalls BY DEF NoCall, WaitCalls
<1> QED BY <1>1, <1>3, <1>4, <1>5

\* What the view on the next state is.
LEMMA NextView ==
    ASSUME SchedInv(k'),
           p_epending' \in [AllThreads -> SUBSET Events],
           rdymsg' \in [AllThreads -> {"RDY_OK", "RDY_TIMEOUT", NULL}],
           \A t \in AllThreads :
              ThreadFits(k'.p_state[t], call'[t], p_epending'[t], rdymsg'[t])
    PROVE  SignalInv(Now)'
<1>1. Now' = [s |-> k', p |-> p_epending', m |-> rdymsg'] BY DEF Now
<1>2. Now' \in Signals BY <1>1 DEF Signals, SchedInv
<1>3. \A t \in AllThreads :
         ThreadFits(Now'.s.p_state[t], call'[t], Now'.p[t], Now'.m[t])
  BY <1>1
<1> QED BY <1>1, <1>2, <1>3 DEF SignalInv

\* Signals followed by a reschedule or by nothing.
LEMMA ArrivalStep ==
    ASSUME NEW n, SignalInv(n), SchedInv(k'), Keeps(n.s, k', {}),
           p_epending' = n.p, rdymsg' = n.m, call' = call
    PROVE  SignalInv(Now)'
<1>1. ASSUME NEW t \in AllThreads
      PROVE  ThreadFits(k'.p_state[t], call'[t], p_epending'[t], rdymsg'[t])
  <2>1. \/ k'.p_state[t] = n.s.p_state[t]
        \/ k'.p_state[t] \in Runnable /\ n.s.p_state[t] \in Runnable
    BY DEF Keeps
  <2>2. ThreadFits(n.s.p_state[t], call[t], n.p[t], n.m[t]) BY DEF SignalInv
  <2> QED BY <2>1, <2>2, StaysFit
<1> QED BY <1>1, NextView DEF SignalInv, Signals

\* The running thread acts for itself, and is in no wait behind it.
LEMMA OwnStep ==
    ASSUME EventsInv, UNCHANGED k, call'[currp] = NoCall,
           p_epending' \in [AllThreads -> SUBSET Events],
           rdymsg' \in [AllThreads -> {"RDY_OK", "RDY_TIMEOUT", NULL}],
           \A u \in AllThreads \ {currp} :
              /\ call'[u] = call[u] /\ p_epending'[u] = p_epending[u]
              /\ rdymsg'[u] = rdymsg[u]
    PROVE  SignalInv(Now)'
<1>1. ASSUME NEW t \in AllThreads
      PROVE  ThreadFits(k'.p_state[t], call'[t], p_epending'[t], rdymsg'[t])
  <2>1. CASE t = currp BY <2>1, EventFacts DEF ThreadFits, Runnable, Waiting
  <2>2. CASE t # currp BY <2>2, EventFacts
  <2> QED BY <2>1, <2>2
<1> QED BY <1>1, NextView, EventFacts

\* Flags stay announced when events only arrive, and every listener that gets
\* flags gets its events too.
LEMMA FlagsStep ==
    ASSUME EventsInv, UNCHANGED <<es_next, handling>>,
           \A t \in AllThreads : p_epending[t] \subseteq p_epending'[t],
           \A el \in Listeners : Registered(el) =>
              \/ el_flags'[el] = el_flags[el]
              \/ el_mask[el] \subseteq p_epending'[Owner[el]]
    PROVE  FlagsAreAnnounced'
<1> SUFFICES ASSUME NEW el \in Listeners, Registered(el), el_flags'[el] # {}
             PROVE  handling[el] \/ el_mask[el] \subseteq p_epending'[Owner[el]]
  BY DEF FlagsAreAnnounced, Registered
<1>1. Owner[el] \in AllThreads BY EventsAssumption DEF AllThreads
<1>2. CASE el_flags'[el] = el_flags[el]
  BY <1>1, <1>2 DEF EventsInv, FlagsAreAnnounced
<1> QED BY <1>2

\* Taking events: the owner of the listeners will look at their flags.
LEMMA TakeFlags == ASSUME EventsInv, NEW m, Take(m) PROVE FlagsAreAnnounced'
<1> SUFFICES ASSUME NEW el \in Listeners, Registered(el), el_flags[el] # {},
                    ~handling'[el]
             PROVE  el_mask[el] \subseteq p_epending'[Owner[el]]
  BY DEF FlagsAreAnnounced, Registered, Take
<1>1. ~handling[el] /\ ~(Owner[el] = currp /\ el_mask[el] \cap m # {})
  BY DEF Take
<1>2. el_mask[el] \subseteq p_epending[Owner[el]]
  BY <1>1 DEF EventsInv, FlagsAreAnnounced
<1>3. Owner[el] \in AllThreads BY EventsAssumption DEF AllThreads
<1>4. p_epending' = [p_epending EXCEPT ![currp] = @ \ m] BY DEF Take
<1> QED BY <1>1, <1>2, <1>3, <1>4, EventFacts

----------------------------------------------------------------------------
(* The steps *)

\* A step that leaves scheduler, waits and events alone.
LEMMA ListenerStep ==
    ASSUME EventsInv, UNCHANGED <<k, isr, evtvars>>,
           EventTypes', OneSource', FlagsAreAnnounced'
    PROVE  EventsInv'
<1>1. SignalInv(Now)'
  <2>1. \A t \in AllThreads :
           ThreadFits(k'.p_state[t], call'[t], p_epending'[t], rdymsg'[t])
    BY EventFacts DEF evtvars
  <2> QED BY <2>1, EventFacts, NextView DEF evtvars
<1>2. (isr => ~Locked)' BY DEF EventsInv, Locked, currp, evtvars
<1>3. (\A t \in AllThreads : TimerFits(t))' BY DEF EventsInv, TimerFits, evtvars
<1> QED BY <1>1, <1>2, <1>3 DEF EventsInv

LEMMA RegisterInv ==
    ASSUME EventsInv, NEW es \in Sources, NEW el \in Listeners, chEvtRegisterMask(es, el)
    PROVE  EventsInv'
<1> USE DEF chEvtRegisterMask
<1> DEFINE q == <<el>> \o es_next[es]
<1>0. EventTypes /\ OneSource BY DEF EventsInv
<1>1. es_next[es] \in Seq(Listeners) /\ NoDuplicates(es_next[es]) /\ el \notin Elems(es_next[es])
  BY <1>0 DEF EventTypes, Registered
<1>2. /\ q \in Seq(Listeners) /\ Elems(q) = Elems(es_next[es]) \cup {el}
      /\ NoDuplicates(q)
  <2>1. PlaceAt(es_next[es], 1, el) = q
    BY <1>1 DEF PlaceAt
  <2>2. 1 \in 1..Len(es_next[es]) + 1 BY <1>1
  <2> HIDE DEF q
  <2> QED BY <1>1, <2>1, <2>2, PlaceAtMembers
<1> HIDE DEF q
<1>3. es_next' = [es_next EXCEPT ![es] = q] BY DEF q
<1>4. /\ es_next' \in [Sources -> Seq(Listeners)]
      /\ \A f \in Sources : es_next'[f] = IF f = es THEN q ELSE es_next[f]
  BY <1>0, <1>2, <1>3 DEF EventTypes
<1>5. EventTypes'
  BY <1>0, <1>2, <1>4 DEF EventTypes, evtvars
<1>6. OneSource' BY <1>0, <1>2, <1>4 DEF OneSource, Registered
<1>7. FlagsAreAnnounced'
  <2> SUFFICES ASSUME NEW l \in Listeners, Registered(l)', el_flags'[l] # {}
               PROVE  handling'[l] \/ el_mask[l] \subseteq p_epending'[Owner[l]]
    BY DEF FlagsAreAnnounced
  <2>1. l # el BY <1>0 DEF EventTypes
  <2>2. el_flags'[l] = el_flags[l] /\ handling'[l] = handling[l]
    BY <1>0, <2>1 DEF EventTypes
  <2>3. Registered(l) BY <1>2, <1>4, <2>1 DEF Registered
  <2> QED BY <2>2, <2>3 DEF EventsInv, FlagsAreAnnounced, evtvars
<1> QED BY <1>5, <1>6, <1>7, ListenerStep

LEMMA UnregisterInv ==
    ASSUME EventsInv, NEW es \in Sources, NEW el \in Listeners, chEvtUnregister(es, el)
    PROVE  EventsInv'
<1> USE DEF chEvtUnregister
<1> DEFINE q == dequeue(es_next[es], el)
<1>0. EventTypes /\ OneSource BY DEF EventsInv
<1>1. CASE el \in Elems(es_next[es])
  <2>1. es_next[es] \in Seq(Listeners) /\ NoDuplicates(es_next[es])
    BY <1>0 DEF EventTypes
  <2>2. /\ q \in Seq(Listeners) /\ Elems(q) = Elems(es_next[es]) \ {el}
        /\ NoDuplicates(q)
    BY <1>1, <2>1, Dequeue
  <2> HIDE DEF q
  <2>3. es_next' = [es_next EXCEPT ![es] = q] BY <1>1 DEF q
  <2>4. /\ es_next' \in [Sources -> Seq(Listeners)]
        /\ \A f \in Sources : es_next'[f] = IF f = es THEN q ELSE es_next[f]
    BY <1>0, <2>2, <2>3 DEF EventTypes
  <2>5. handling' = [handling EXCEPT ![el] = FALSE] BY <1>1
  <2>6. EventTypes' BY <1>0, <2>2, <2>4, <2>5 DEF EventTypes, evtvars
  <2>7. OneSource' BY <1>0, <2>2, <2>4 DEF OneSource
  <2>8. FlagsAreAnnounced'
    <3> SUFFICES ASSUME NEW l \in Listeners, Registered(l)', el_flags'[l] # {}
                 PROVE  handling'[l] \/ el_mask[l] \subseteq p_epending'[Owner[l]]
      BY DEF FlagsAreAnnounced
    <3>1. PICK f \in Sources : l \in Elems(es_next'[f]) BY DEF Registered
    <3>2. l # el BY <1>0, <1>1, <2>2, <2>4, <3>1 DEF OneSource
    <3>3. l \in Elems(es_next[f]) BY <2>2, <2>4, <3>1
    <3>4. handling'[l] = handling[l] BY <1>0, <2>5, <3>2 DEF EventTypes
    <3> QED BY <3>3, <3>4 DEF EventsInv, FlagsAreAnnounced, Registered, evtvars
  <2> QED BY <2>6, <2>7, <2>8, ListenerStep
<1>2. CASE el \notin Elems(es_next[es])
  <2>1. UNCHANGED <<k, isr, evtvars, es_next, handling, el_flags>> BY <1>2
  <2>2. EventTypes' /\ OneSource' BY <1>0, <2>1 DEF EventTypes, OneSource, evtvars
  <2>3. FlagsAreAnnounced'
    BY <2>1 DEF EventsInv, FlagsAreAnnounced, Registered, evtvars
  <2> QED BY <2>1, <2>2, <2>3, ListenerStep
<1> QED BY <1>1, <1>2

LEMMA ReadFlagsInv ==
    ASSUME EventsInv, NEW el \in Listeners, chEvtGetAndClearFlags(el)
    PROVE  EventsInv'
<1> USE DEF chEvtGetAndClearFlags
<1>0. EventTypes /\ OneSource BY DEF EventsInv
<1>1. EventTypes' /\ OneSource'
  BY <1>0 DEF EventTypes, OneSource, evtvars
<1>2. FlagsAreAnnounced'
  <2> SUFFICES ASSUME NEW l \in Listeners, Registered(l), el_flags'[l] # {}
               PROVE  handling'[l] \/ el_mask[l] \subseteq p_epending'[Owner[l]]
    BY DEF FlagsAreAnnounced, Registered
  <2>1. l # el BY <1>0 DEF EventTypes
  <2>2. el_flags'[l] = el_flags[l] /\ handling'[l] = handling[l]
    BY <1>0, <2>1 DEF EventTypes
  <2> QED BY <2>2 DEF EventsInv, FlagsAreAnnounced, evtvars
<1> QED BY <1>1, <1>2, ListenerStep

\* Signals from a thread that reschedules, or from an interrupt handler.
LEMMA ArrivalInv ==
    ASSUME EventsInv, NEW n, SignalInv(n), Arrivals(Now, n), Signalled(n),
           UNCHANGED <<vt, call, es_next, handling>>,
           \/ isr' = FALSE /\ ~isr /\ k' = chSchRescheduleS(n.s)
           \/ isr' = TRUE /\ IsrCode /\ k' = n.s,
           el_flags' \in [Listeners -> SUBSET Flags],
           \A el \in Listeners : Registered(el) =>
              \/ el_flags'[el] = el_flags[el]
              \/ el_mask[el] \subseteq n.p[Owner[el]]
    PROVE  EventsInv'
<1>1. SchedInv(k') /\ Keeps(n.s, k', {})
  BY RescheduleS DEF SignalInv, Keeps
<1>2. SignalInv(Now)' BY <1>1, ArrivalStep DEF Signalled
<1>3. EventTypes' /\ OneSource'
  BY DEF EventsInv, EventTypes, OneSource
<1>4. (isr => ~Locked)'
  BY DEF IsrCode, Locked, currp, Arrivals, Now
<1>5. (\A t \in AllThreads : TimerFits(t))' BY DEF EventsInv, TimerFits
<1>6. FlagsAreAnnounced'
  <2>1. \A t \in AllThreads : p_epending[t] \subseteq p_epending'[t]
    BY DEF Arrivals, Now, Signalled
  <2> QED BY <2>1, FlagsStep DEF Signalled
<1> QED BY <1>2, <1>3, <1>4, <1>5, <1>6 DEF EventsInv

LEMMA BroadcastInv ==
    ASSUME EventsInv, NEW es \in Sources, NEW flags \in SUBSET Flags,
           chEvtBroadcastFlags(es, flags) \/ BroadcastFromIsr(es, flags)
    PROVE  EventsInv'
<1> DEFINE n == SignalAll(es)
<1>1. BroadcastI(es, flags) BY DEF chEvtBroadcastFlags, BroadcastFromIsr
<1>2. EventTypes BY DEF EventsInv
<1>3. /\ SignalInv(n) /\ Arrivals(Now, n)
      /\ \A el \in Elems(es_next[es]) : el_mask[el] \subseteq n.p[Owner[el]]
  BY <1>2, BroadcastOK DEF EventsInv, EventTypes
<1>4. \/ isr' = FALSE /\ ~isr /\ k' = chSchRescheduleS(n.s)
      \/ isr' = TRUE /\ IsrCode /\ k' = n.s
  BY <1>2 DEF chEvtBroadcastFlags, BroadcastFromIsr, ThreadCode, EventTypes
<1>5. /\ el_flags' \in [Listeners -> SUBSET Flags]
      /\ \A el \in Listeners :
            \/ el_flags'[el] = el_flags[el]
            \/ el_mask[el] \subseteq n.p[Owner[el]]
  <2> HIDE DEF n
  <2> QED BY <1>1, <1>2, <1>3 DEF BroadcastI, FlagsForAll, EventTypes
<1>6. Signalled(n) /\ UNCHANGED <<vt, call, es_next, handling>> BY <1>1 DEF BroadcastI
<1> HIDE DEF n
<1> QED BY <1>3, <1>4, <1>5, <1>6, ArrivalInv

LEMMA SignalStepInv ==
    ASSUME EventsInv, NEW t \in Threads, NEW mask \in WaitMasks,
           chEvtSignal(t, mask) \/ SignalFromIsr(t, mask)
    PROVE  EventsInv'
<1> DEFINE n == chEvtSignalI(Now, t, mask)
<1>1. EventTypes BY DEF EventsInv
<1>2. t \in AllThreads /\ mask \in SUBSET Events
  BY EventsAssumption DEF AllThreads
<1>3. SignalInv(n) /\ Arrivals(Now, n)
  BY <1>1, <1>2, SignalOK DEF EventsInv, EventTypes
<1>4. \/ isr' = FALSE /\ ~isr /\ k' = chSchRescheduleS(n.s)
      \/ isr' = TRUE /\ IsrCode /\ k' = n.s
  BY <1>1 DEF chEvtSignal, SignalFromIsr, ThreadCode, EventTypes
<1>5. Signalled(n) /\ UNCHANGED <<vt, call, es_next, el_flags, handling>>
  BY DEF chEvtSignal, SignalFromIsr, lstvars
<1> HIDE DEF n
<1> QED BY <1>1, <1>3, <1>4, <1>5, ArrivalInv DEF EventTypes

\* The events of the running thread are its own, and stay in their type.
LEMMA TakeEvents ==
    ASSUME EventsInv, NEW m, Take(m)
    PROVE  /\ p_epending' \in [AllThreads -> SUBSET Events]
           /\ \A u \in AllThreads \ {currp} : p_epending'[u] = p_epending[u]
           /\ handling' \in [Listeners -> BOOLEAN]
           /\ es_next' = es_next /\ el_flags' = el_flags
<1>1. p_epending' = [p_epending EXCEPT ![currp] = @ \ m] BY DEF Take
<1>2. p_epending' \in [AllThreads -> SUBSET Events]
  BY <1>1, EventFacts
<1>3. handling' \in [Listeners -> BOOLEAN] BY DEF Take
<1> QED BY <1>1, <1>2, <1>3, EventFacts DEF Take

\* chEvtAddEvents() and chEvtGetAndClearEvents(): the running thread's own events.
LEMMA OwnEventsInv ==
    ASSUME EventsInv, NEW mask \in WaitMasks,
           chEvtAddEvents(mask) \/ chEvtGetAndClearEvents(mask)
    PROVE  EventsInv'
<1>1. EventTypes /\ OneSource /\ mask \in SUBSET Events
  BY EventsAssumption DEF EventsInv
<1>2. call[currp] = NoCall /\ UNCHANGED <<k, isr, rdymsg, vt, call, es_next, el_flags>>
  BY DEF chEvtAddEvents, chEvtGetAndClearEvents, ThreadCode, Locked, Take, lstvars
<1>3. /\ p_epending' \in [AllThreads -> SUBSET Events]
      /\ \A u \in AllThreads \ {currp} : p_epending'[u] = p_epending[u]
      /\ handling' \in [Listeners -> BOOLEAN]
      /\ FlagsAreAnnounced'
  <2>1. CASE chEvtAddEvents(mask)
    <3>1. p_epending' = [p_epending EXCEPT ![currp] = @ \cup mask]
          /\ UNCHANGED <<es_next, el_flags, handling>>
      BY <2>1 DEF chEvtAddEvents, lstvars
    <3>2. p_epending' \in [AllThreads -> SUBSET Events]
      BY <1>1, <3>1, EventFacts
    <3>3. \A t \in AllThreads : p_epending[t] \subseteq p_epending'[t]
      BY <3>1, EventFacts
    <3> QED BY <1>1, <3>1, <3>2, <3>3, EventFacts, FlagsStep DEF EventTypes
  <2>2. CASE chEvtGetAndClearEvents(mask)
    BY <2>2, TakeEvents, TakeFlags DEF chEvtGetAndClearEvents
  <2> QED BY <2>1, <2>2
<1>4. SignalInv(Now)' BY <1>2, <1>3, EventFacts, OwnStep
<1>5. EventTypes' /\ OneSource' BY <1>1, <1>2, <1>3 DEF EventTypes, OneSource
<1>6. (isr => ~Locked)' BY <1>2 DEF EventsInv, Locked, currp
<1>7. (\A t \in AllThreads : TimerFits(t))' BY <1>2 DEF EventsInv, TimerFits
<1> QED BY <1>3, <1>4, <1>5, <1>6, <1>7 DEF EventsInv

\* A wait takes what it waits for or goes to sleep without it.
LEMMA WaitInv ==
    ASSUME EventsInv, NEW op \in {"one", "any", "all"}, NEW mask \in WaitMasks,
           NEW timed \in BOOLEAN, chEvtWait(op, mask, timed)
    PROVE  EventsInv'
<1>1. EventTypes /\ OneSource BY DEF EventsInv
<1>2. /\ call[currp] = NoCall /\ ~isr /\ isr' = isr /\ currp # Idle
      /\ currp \in AllThreads
  BY EventFacts DEF chEvtWait, ThreadCode, Locked
<1>3. CASE Met(op, mask)
  <2>1. Take(Returns(op, mask)) /\ UNCHANGED <<k, rdymsg, vt, call>>
    BY <1>3 DEF chEvtWait
  <2>2. FlagsAreAnnounced' BY <2>1, TakeFlags
  <2>3. SignalInv(Now)' BY <1>2, <2>1, EventFacts, TakeEvents, OwnStep
  <2>4. EventTypes' /\ OneSource'
    BY <1>1, <1>2, <2>1, TakeEvents DEF EventTypes, OneSource
  <2>5. (isr => ~Locked)' BY <1>2
  <2>6. (\A t \in AllThreads : TimerFits(t))' BY <1>2, <2>1 DEF EventsInv, TimerFits
  <2> QED BY <2>2, <2>3, <2>4, <2>5, <2>6 DEF EventsInv
<1>4. CASE ~Met(op, mask)
  <2> DEFINE c == [op |-> op, mask |-> mask, timed |-> timed]
             st == IF op = "all" THEN "WTANDEVT" ELSE "WTOREVT"
  <2>1. /\ call' = [call EXCEPT ![currp] = c]
        /\ vt' = [vt EXCEPT ![currp] = IF timed THEN "armed" ELSE @]
        /\ k' = chSchGoSleepS(k, st)
        /\ UNCHANGED <<p_epending, rdymsg, es_next, el_flags, handling>>
    BY <1>4 DEF chEvtWait, lstvars
  <2>2. c \in WaitCalls /\ c # NoCall
    BY EventsAssumption DEF WaitCalls, NoCall
  <2>3. ~MetBy(c, p_epending[currp]) BY <1>4 DEF Met, MetBy
  <2>4. /\ SchedInv(k') /\ Keeps(k, k', {currp}) /\ k'.p_state[currp] = st
    <3>1. st \in ThreadStates \ Runnable BY DEF ThreadStates, Runnable
    <3> HIDE DEF st
    <3> QED BY <1>2, <2>1, <3>1, GoSleepS, EventFacts DEF currp
  <2>5. st \in Waiting /\ (st = "WTOREVT" => c.op \in {"one", "any"})
        /\ (st = "WTANDEVT" => c.op = "all") /\ c.timed = timed
    BY DEF Waiting
  <2> HIDE DEF c, st
  <2>6. /\ call' \in [AllThreads -> WaitCalls \cup {NoCall}]
        /\ call'[currp] = c /\ call'[Idle] = NoCall
        /\ \A t \in AllThreads \ {currp} : call'[t] = call[t] /\ vt'[t] = vt[t]
        /\ vt' \in [AllThreads -> {"off", "armed", "fired"}]
        /\ vt'[currp] = IF timed THEN "armed" ELSE vt[currp]
    BY <1>1, <1>2, <2>1, <2>2 DEF EventTypes
  <2>7. \A t \in AllThreads :
           ThreadFits(k'.p_state[t], call'[t], p_epending'[t], rdymsg'[t])
    <3> TAKE t \in AllThreads
    <3>1. CASE t = currp
      BY <2>1, <2>3, <2>4, <2>5, <2>6, <3>1 DEF ThreadFits
    <3>2. CASE t # currp
      <4>1. \/ k'.p_state[t] = k.p_state[t]
            \/ k'.p_state[t] \in Runnable /\ k.p_state[t] \in Runnable
        BY <2>4, <3>2 DEF Keeps
      <4>2. ThreadFits(k'.p_state[t], call[t], p_epending[t], rdymsg[t])
        BY <4>1, EventFacts, StaysFit
      <4> QED BY <2>1, <2>6, <3>2, <4>2
    <3> QED BY <3>1, <3>2
  <2>8. SignalInv(Now)' BY <2>1, <2>4, <2>7, EventFacts, NextView
  <2>9. EventTypes' /\ OneSource'
    BY <1>1, <1>2, <2>1, <2>6 DEF EventTypes, OneSource
  <2>10. FlagsAreAnnounced' BY <2>1 DEF EventsInv, FlagsAreAnnounced, Registered
  <2>11. (\A t \in AllThreads : TimerFits(t))'
    <3>1. vt[currp] = "off" BY <1>1, <1>2 DEF EventsInv, TimerFits, EventTypes
    <3> SUFFICES ASSUME NEW t \in AllThreads PROVE TimerFits(t)' OBVIOUS
    <3>2. CASE t = currp BY <2>2, <2>5, <2>6, <3>1, <3>2 DEF TimerFits
    <3>3. CASE t # currp BY <1>2, <2>6, <3>3 DEF EventsInv, TimerFits
    <3> QED BY <3>2, <3>3
  <2> QED BY <1>2, <2>8, <2>9, <2>10, <2>11 DEF EventsInv
<1> QED BY <1>3, <1>4

\* A wait that was woken takes its events; one that timed out takes nothing.
LEMMA ReturnInv == ASSUME EventsInv, ReturnFromCall PROVE EventsInv'
<1>1. EventTypes /\ OneSource BY DEF EventsInv
<1>2. call[currp] # NoCall /\ ~isr /\ currp \in AllThreads /\ UNCHANGED <<k, isr>>
  BY EventFacts DEF ReturnFromCall, EventsInv, Locked
<1>3. /\ call' = [call EXCEPT ![currp] = NoCall]
      /\ vt' = [vt EXCEPT ![currp] = IF @ = "armed" THEN "off" ELSE @]
      /\ rdymsg' = [rdymsg EXCEPT ![currp] = NULL]
  BY DEF ReturnFromCall
<1>4. /\ p_epending' \in [AllThreads -> SUBSET Events]
      /\ \A u \in AllThreads \ {currp} : p_epending'[u] = p_epending[u]
      /\ handling' \in [Listeners -> BOOLEAN]
      /\ es_next' = es_next /\ el_flags' = el_flags
      /\ FlagsAreAnnounced'
  <2>1. CASE UNCHANGED <<p_epending, lstvars>>
    BY <1>1, <2>1, EventFacts
       DEF lstvars, EventTypes, EventsInv, FlagsAreAnnounced, Registered
  <2>2. CASE Take(Returns(call[currp].op, call[currp].mask))
    BY <2>2, TakeEvents, TakeFlags
  <2> QED BY <2>1, <2>2 DEF ReturnFromCall
<1>5. /\ call' \in [AllThreads -> WaitCalls \cup {NoCall}]
      /\ call'[currp] = NoCall /\ call'[Idle] = NoCall
      /\ vt' \in [AllThreads -> {"off", "armed", "fired"}]
      /\ rdymsg' \in [AllThreads -> {"RDY_OK", "RDY_TIMEOUT", NULL}]
      /\ \A u \in AllThreads \ {currp} :
            call'[u] = call[u] /\ vt'[u] = vt[u] /\ rdymsg'[u] = rdymsg[u]
  BY <1>1, <1>2, <1>3, EventFacts DEF EventTypes
<1>6. SignalInv(Now)' BY <1>2, <1>4, <1>5, OwnStep
<1>7. EventTypes' /\ OneSource' BY <1>1, <1>2, <1>4, <1>5 DEF EventTypes, OneSource
<1>8. (\A t \in AllThreads : TimerFits(t))'
  <2>1. vt[currp] # "fired" BY <1>2 DEF EventsInv, TimerFits
  <2>2. vt'[currp] = "off" BY <1>1, <1>2, <1>3, <2>1 DEF EventTypes
  <2> SUFFICES ASSUME NEW t \in AllThreads PROVE TimerFits(t)' OBVIOUS
  <2>3. CASE t = currp BY <2>2, <2>3 DEF TimerFits
  <2>4. CASE t # currp BY <1>2, <1>5, <2>4 DEF EventsInv, TimerFits
  <2> QED BY <2>3, <2>4
<1> QED BY <1>2, <1>4, <1>6, <1>7, <1>8 DEF EventsInv

LEMMA ExpiryInv ==
    ASSUME EventsInv, NEW t \in Threads, TimerExpires(t) PROVE EventsInv'
<1>1. EventTypes /\ OneSource /\ t \in AllThreads BY DEF EventsInv, AllThreads
<1>2. /\ vt' = [vt EXCEPT ![t] = "fired"] /\ vt[t] = "armed" /\ isr' = TRUE /\ ~Locked
      /\ UNCHANGED <<k, p_epending, rdymsg, call, es_next, el_flags, handling>>
  BY DEF TimerExpires, IsrCode, lstvars
<1>3. SignalInv(Now)'
  <2>1. \A u \in AllThreads :
           ThreadFits(k'.p_state[u], call'[u], p_epending'[u], rdymsg'[u])
    BY <1>2, EventFacts
  <2> QED BY <1>2, <2>1, EventFacts, NextView
<1>4. EventTypes' /\ OneSource' BY <1>1, <1>2 DEF EventTypes, OneSource
<1>5. (isr => ~Locked)' BY <1>2 DEF Locked, currp
<1>6. FlagsAreAnnounced' BY <1>2 DEF EventsInv, FlagsAreAnnounced, Registered
<1>7. (\A u \in AllThreads : TimerFits(u))'
  BY <1>1, <1>2 DEF EventsInv, TimerFits, EventTypes
<1> QED BY <1>3, <1>4, <1>5, <1>6, <1>7 DEF EventsInv

\* The callback finds the thread ready, or asleep in the timed wait.
LEMMA CallbackInv ==
    ASSUME EventsInv, NEW t \in Threads, TimerCallback(t) PROVE EventsInv'
<1>1. EventTypes /\ OneSource /\ t \in AllThreads BY DEF EventsInv, AllThreads
<1>2. /\ vt' = [vt EXCEPT ![t] = "off"] /\ vt[t] = "fired"
      /\ UNCHANGED <<isr, p_epending, call, es_next, el_flags, handling>>
  BY DEF TimerCallback, lstvars
<1>3. isr /\ ~Locked /\ call[t] # NoCall /\ call[t].timed
  BY <1>1, <1>2 DEF EventsInv, TimerFits
<1>4. t # currp BY <1>3 DEF Locked
<1>5. ASSUME k.p_state[t] = "READY", UNCHANGED <<k, rdymsg>>
      PROVE  SignalInv(Now)' /\ k'.r_current = k.r_current
  <2>1. \A u \in AllThreads :
           ThreadFits(k'.p_state[u], call'[u], p_epending'[u], rdymsg'[u])
    BY <1>2, <1>5, EventFacts
  <2>2. SignalInv(Now)' BY <1>2, <1>5, <2>1, EventFacts, NextView
  <2> QED BY <2>2, <1>5
<1>6. ASSUME k.p_state[t] # "READY", k' = chSchReadyI(k, t),
             rdymsg' = [rdymsg EXCEPT ![t] = "RDY_TIMEOUT"]
      PROVE  SignalInv(Now)' /\ k'.r_current = k.r_current
  <2>1. k.p_state[t] \notin Runnable
    BY <1>1, <1>4, <1>6, EventFacts DEF SchedInv, ReadyListMembers, Runnable, currp
  <2>2. /\ SchedInv(k') /\ Keeps(k, k', {t}) /\ k'.p_state[t] = "READY"
        /\ k'.r_current = k.r_current
    BY <1>1, <1>6, <2>1, EventFacts, ReadyI
  <2>3. /\ rdymsg' \in [AllThreads -> {"RDY_OK", "RDY_TIMEOUT", NULL}]
        /\ rdymsg'[t] = "RDY_TIMEOUT"
        /\ \A u \in AllThreads \ {t} : rdymsg'[u] = rdymsg[u]
    BY <1>1, <1>6, EventFacts
  <2>4. \A u \in AllThreads :
           ThreadFits(k'.p_state[u], call'[u], p_epending'[u], rdymsg'[u])
    <3> TAKE u \in AllThreads
    <3>1. CASE u = t
      BY <1>2, <1>3, <2>2, <2>3, <3>1 DEF ThreadFits, Runnable, Waiting
    <3>2. CASE u # t
      <4>1. \/ k'.p_state[u] = k.p_state[u]
            \/ k'.p_state[u] \in Runnable /\ k.p_state[u] \in Runnable
        BY <2>2, <3>2 DEF Keeps
      <4>2. ThreadFits(k'.p_state[u], call[u], p_epending[u], rdymsg[u])
        BY <4>1, EventFacts, StaysFit
      <4> QED BY <1>2, <2>3, <3>2, <4>2
    <3> QED BY <3>1, <3>2
  <2>5. SignalInv(Now)' BY <1>2, <2>2, <2>3, <2>4, EventFacts, NextView
  <2> QED BY <2>2, <2>5
<1>7. SignalInv(Now)' /\ k'.r_current = k.r_current
  BY <1>5, <1>6 DEF TimerCallback
<1>8. EventTypes' /\ OneSource' BY <1>1, <1>2 DEF EventTypes, OneSource
<1>9. (isr => ~Locked)' BY <1>2, <1>3, <1>7 DEF Locked, currp
<1>10. FlagsAreAnnounced' BY <1>2 DEF EventsInv, FlagsAreAnnounced, Registered
<1>11. (\A u \in AllThreads : TimerFits(u))'
  BY <1>1, <1>2 DEF EventsInv, TimerFits, EventTypes
<1> QED BY <1>7, <1>8, <1>9, <1>10, <1>11 DEF EventsInv

LEMMA IrqExitInv == ASSUME EventsInv, IrqExit PROVE EventsInv'
<1>1. EventTypes /\ OneSource BY DEF EventsInv
<1>2. /\ \A t \in AllThreads : vt[t] # "fired"
      /\ k' = IrqEpilogue(k) /\ isr' = FALSE
      /\ UNCHANGED <<p_epending, rdymsg, vt, call, es_next, el_flags, handling>>
  BY DEF IrqExit, evtvars, lstvars
<1>3. SignalInv(Now)'
  <2>1. SignalInv(Now) /\ Now.s = k /\ Now.p = p_epending /\ Now.m = rdymsg
    BY DEF EventsInv, Now
  <2>2. SchedInv(k') /\ Keeps(Now.s, k', {}) BY <1>2, <2>1, Epilogue DEF SignalInv
  <2> QED BY <1>2, <2>1, <2>2, ArrivalStep
<1>4. EventTypes' /\ OneSource' BY <1>1, <1>2 DEF EventTypes, OneSource
<1>5. FlagsAreAnnounced' BY <1>2 DEF EventsInv, FlagsAreAnnounced, Registered
<1>6. (\A t \in AllThreads : TimerFits(t))' BY <1>2 DEF EventsInv, TimerFits
<1> QED BY <1>2, <1>3, <1>4, <1>5, <1>6 DEF EventsInv

LEMMA EventsNextInv == ASSUME EventsInv, [EventsNext]_vars PROVE EventsInv'
<1>1. CASE UNCHANGED vars
  <2>1. UNCHANGED <<k, isr, evtvars, es_next, el_flags, handling>>
    BY <1>1 DEF vars, lstvars
  <2>2. EventTypes' /\ OneSource' /\ FlagsAreAnnounced'
    BY <2>1 DEF EventsInv, EventTypes, OneSource, FlagsAreAnnounced, Registered, evtvars
  <2> QED BY <2>1, <2>2, ListenerStep
<1>2. CASE EventsNext
  <2>1. ASSUME NEW el \in Listeners, NEW es \in Sources,
               chEvtRegisterMask(es, el) \/ chEvtUnregister(es, el)
        PROVE  EventsInv'
    BY <2>1, RegisterInv, UnregisterInv
  <2>2. ASSUME NEW el \in Listeners, chEvtGetAndClearFlags(el) PROVE EventsInv'
    BY <2>2, ReadFlagsInv
  <2>3. ASSUME NEW es \in Sources, NEW flags \in SUBSET Flags,
               chEvtBroadcastFlags(es, flags) \/ BroadcastFromIsr(es, flags)
        PROVE  EventsInv'
    BY <2>3, BroadcastInv
  <2>4. ASSUME NEW t \in Threads, NEW mask \in WaitMasks,
               chEvtSignal(t, mask) \/ SignalFromIsr(t, mask)
        PROVE  EventsInv'
    BY <2>4, SignalStepInv
  <2>5. ASSUME NEW mask \in WaitMasks, chEvtAddEvents(mask) \/ chEvtGetAndClearEvents(mask)
        PROVE  EventsInv'
    BY <2>5, OwnEventsInv
  <2>6. ASSUME NEW op \in {"one", "any", "all"}, NEW mask \in WaitMasks,
               NEW timed \in BOOLEAN, chEvtWait(op, mask, timed)
        PROVE  EventsInv'
    BY <2>6, WaitInv
  <2>7. ASSUME NEW t \in Threads, TimerExpires(t) \/ TimerCallback(t) PROVE EventsInv'
    BY <2>7, ExpiryInv, CallbackInv
  <2> QED BY <1>2, <2>1, <2>2, <2>3, <2>4, <2>5, <2>6, <2>7, ReturnInv, IrqExitInv
          DEF EventsNext
<1> QED BY <1>1, <1>2

----------------------------------------------------------------------------
(* Theorems *)

\* The inductive invariant holds in every reachable state.
THEOREM EventsInvariant == EventsSpec => []EventsInv
<1>1. EventsInit => EventsInv BY EventsInitInv
<1>2. EventsInv /\ [EventsNext]_vars => EventsInv' BY EventsNextInv
<1> QED BY <1>1, <1>2, PTL DEF EventsSpec

\* No event is missed: a thread never sleeps on while the events it waits for
\* are pending, and finds them when it runs again, unless it timed out
\* (chevents.c:249-255).
THEOREM EventsNeverMissed == EventsSpec => []NoMissedEvent
<1>1. ASSUME EventsInv PROVE NoMissedEvent
  <2>1. EventsTypeOK
    <3>1. SchedInv(k) /\ EventTypes BY <1>1, EventFacts
    <3>2. call \in [AllThreads -> Calls]
      <4>1. \A c \in WaitCalls : c \in Calls BY DEF WaitCalls, Calls
      <4>2. NoCall \in Calls BY DEF NoCall, Calls
      <4> QED BY <3>1, <4>1, <4>2 DEF EventTypes
    <3>3. \A es \in Sources :
             Elems(es_next[es]) \subseteq Listeners /\ NoDuplicates(es_next[es])
      <4>1. \A q \in Seq(Listeners) : Elems(q) \subseteq Listeners BY DEF Elems
      <4> QED BY <3>1, <4>1 DEF EventTypes
    <3> QED BY <1>1, <3>1, <3>2, <3>3, EventFacts DEF EventsTypeOK, EventTypes, SchedInv
  <2>2. ASSUME NEW t \in Threads, call[t].op \in {"one", "any", "all"}
        PROVE  IF k.p_state[t] \in Waiting THEN ~MetBy(call[t], p_epending[t])
               ELSE \/ MetBy(call[t], p_epending[t])
                    \/ call[t].timed /\ rdymsg[t] = "RDY_TIMEOUT"
    <3>1. call[t] # NoCall BY <2>2 DEF NoCall
    <3>2. t \in AllThreads BY DEF AllThreads
    <3>3. ThreadFits(k.p_state[t], call[t], p_epending[t], rdymsg[t])
      BY <1>1, <3>2, EventFacts
    <3> QED BY <3>1, <3>3 DEF ThreadFits
  <2> QED BY <2>1, <2>2 DEF NoMissedEvent, MetBy, Waiting
<1> QED BY <1>1, EventsInvariant, PTL

\* As long as a registered listener has flags its owner has not read, one of its
\* events is pending or was taken since.
THEOREM FlagsAlwaysAnnounced == EventsSpec => []FlagsAreAnnounced
<1>1. EventsInv => FlagsAreAnnounced BY DEF EventsInv
<1> QED BY <1>1, EventsInvariant, PTL

----------------------------------------------------------------------------
(* The promise: an inbox *)

Boxes == [t \in Threads |-> p_epending[t]]
Asked == [t \in Threads |-> call[t]]
Inbox == [box |-> Boxes, wait |-> Asked]

\* A step of one thread's box and wait is a step of the inbox.
LEMMA InboxMoves ==
    ASSUME NEW u, NEW m, NEW c
    PROVE  /\ Boxes' = [Boxes EXCEPT ![u] = @ \ m] /\ Asked' = Asked
                => Inbox' = [Inbox EXCEPT !.box[u] = @ \ m]
           /\ Boxes' = Boxes /\ Asked' = [Asked EXCEPT ![u] = c]
                => Inbox' = [Inbox EXCEPT !.wait[u] = c]
<1>1. Inbox = [box |-> Boxes, wait |-> Asked] /\ Inbox' = [box |-> Boxes', wait |-> Asked']
  BY DEF Inbox
<1>2. PICK B, W, I, B1, W1, I1 :
         /\ B = Boxes /\ W = Asked /\ I = Inbox
         /\ B1 = Boxes' /\ W1 = Asked' /\ I1 = Inbox'
  OBVIOUS
<1>3. I = [box |-> B, wait |-> W] /\ I1 = [box |-> B1, wait |-> W1] BY <1>1, <1>2
<1>4. /\ B1 = [B EXCEPT ![u] = @ \ m] /\ W1 = W => I1 = [I EXCEPT !.box[u] = @ \ m]
      /\ B1 = B /\ W1 = [W EXCEPT ![u] = c] => I1 = [I EXCEPT !.wait[u] = c]
  <2> DEFINE BT == [B EXCEPT ![u] = @ \ m]
             WT == [W EXCEPT ![u] = c]
  <2>1. [I EXCEPT !.box[u] = @ \ m] = [box |-> BT, wait |-> W]
    <3>1. [I EXCEPT !.box[u] = @ \ m] = [I EXCEPT !.box = BT] BY <1>3
    <3> HIDE DEF BT
    <3> QED BY <1>3, <3>1
  <2>2. [I EXCEPT !.wait[u] = c] = [box |-> B, wait |-> WT]
    <3>1. [I EXCEPT !.wait[u] = c] = [I EXCEPT !.wait = WT] BY <1>3
    <3> HIDE DEF WT
    <3> QED BY <1>3, <3>1
  <2> QED BY <1>3, <2>1, <2>2
<1> QED BY <1>2, <1>4, Zenon

\* Events arrive, for any threads at once.
LEMMA DeliverStep ==
    ASSUME EventsInv, p_epending' \in [AllThreads -> SUBSET Events], call' = call,
           \A t \in AllThreads : p_epending[t] \subseteq p_epending'[t]
    PROVE  Promise!Deliver
<1> DEFINE d == [t \in Threads |-> p_epending'[t]]
<1>1. d \in [Threads -> SUBSET Events] BY DEF AllThreads
<1>2. Boxes' = [t \in Threads |-> Boxes[t] \cup d[t]]
  BY DEF Boxes, AllThreads
<1>3. Inbox' = [Inbox EXCEPT !.box = [t \in Threads |-> @[t] \cup d[t]]]
  <2>1. Inbox.box = Boxes /\ Asked' = Asked BY DEF Inbox, Asked
  <2>2. Inbox' = [box |-> Boxes', wait |-> Asked'] BY DEF Inbox
  <2> DEFINE B1 == [t \in Threads |-> Boxes[t] \cup d[t]]
  <2> HIDE DEF B1
  <2>3. [Inbox EXCEPT !.box = B1] = [box |-> B1, wait |-> Asked] BY DEF Inbox
  <2>4. Inbox' = [Inbox EXCEPT !.box = B1] BY <1>2, <2>1, <2>2, <2>3 DEF B1
  <2> QED BY <2>1, <2>4 DEF B1
<1> HIDE DEF d
<1> QED BY <1>1, <1>3 DEF Promise!Deliver, Inbox, Boxes, Asked

\* What the running thread takes is gone from its box only.
LEMMA TakeBoxes ==
    ASSUME EventsInv, currp \in Threads, NEW m, Take(m)
    PROVE  Boxes' = [Boxes EXCEPT ![currp] = @ \ m]
<1>1. p_epending' = [p_epending EXCEPT ![currp] = @ \ m] BY DEF Take
<1> QED BY <1>1, EventFacts DEF Boxes, AllThreads

\* A call that changes for the running thread only.
LEMMA AskedMoves ==
    ASSUME EventsInv, currp \in Threads, NEW c, call' = [call EXCEPT ![currp] = c]
    PROVE  Asked' = [Asked EXCEPT ![currp] = c]
<1>1. call \in [AllThreads -> WaitCalls \cup {NoCall}] BY EventFacts DEF EventTypes
<1> QED BY <1>1 DEF Asked, AllThreads

\* What a wait returns is what it is promised.
LEMMA ReturnsTaken ==
    ASSUME NEW op \in {"one", "any", "all"}, NEW mask, NEW t \in Threads, t = currp,
           MetBy([op |-> op, mask |-> mask], p_epending[t])
    PROVE  /\ Returns(op, mask) = Promise!Taken(op, mask, p_epending[t])
           /\ Promise!Satisfied(op, mask, p_epending[t])
<1>1. Promise!Satisfied(op, mask, p_epending[t]) BY DEF MetBy, Promise!Satisfied
<1>2. CASE op = "one"
  <2>1. p_epending[t] \cap mask # {} BY <1>2 DEF MetBy
  <2>2. mask \cap p_epending[t] = p_epending[t] \cap mask OBVIOUS
  <2> QED BY <1>1, <1>2, <2>1, <2>2
          DEF Returns, LowestBit, Promise!Taken, Promise!Lowest
<1>3. CASE op = "any"
  <2>1. mask \cap p_epending[t] = p_epending[t] \cap mask OBVIOUS
  <2> QED BY <1>1, <1>3, <2>1 DEF Returns, Promise!Taken
<1>4. CASE op = "all" BY <1>1, <1>4 DEF Returns, Promise!Taken
<1> QED BY <1>2, <1>3, <1>4

\* A thread that takes what it waits for, with and without sleeping first.
LEMMA WaitPromised ==
    ASSUME EventsInv, NEW op \in {"one", "any", "all"}, NEW mask \in WaitMasks,
           NEW timed \in BOOLEAN, chEvtWait(op, mask, timed),
           NEW u \in Threads, u = currp
    PROVE  Promise!InboxNext
<1> DEFINE c == [op |-> op, mask |-> mask, timed |-> timed]
<1>1. u \in AllThreads /\ call[u] = NoCall
  BY EventFacts DEF chEvtWait, ThreadCode, Locked
<1>2. c \in Promise!Waits /\ c.op = op /\ c.mask = mask
  BY EventsAssumption DEF Promise!Waits
<1>3. Inbox.wait[u] = Promise!NoWait /\ Inbox.box[u] = p_epending[u]
  BY <1>1 DEF Inbox, Asked, Boxes, Promise!NoWait, NoCall
<1>4. CASE Met(op, mask)
  <2>1. Take(Returns(op, mask)) /\ call' = call BY <1>4 DEF chEvtWait
  <2>2. /\ Returns(op, mask) = Promise!Taken(op, mask, p_epending[u])
        /\ Promise!Satisfied(op, mask, p_epending[u])
    BY <1>1, <1>4, ReturnsTaken DEF Met, MetBy
  <2> DEFINE m == Promise!Taken(op, mask, p_epending[u])
  <2>3. Boxes' = [Boxes EXCEPT ![u] = @ \ m] /\ Asked' = Asked
    BY <1>1, <2>1, <2>2, TakeBoxes DEF Asked
  <2>4. Inbox' = [Inbox EXCEPT !.box[u] = @ \ m] BY <2>3, InboxMoves
  <2>5. Promise!TakeAtOnce(u)
    <3> HIDE DEF c
    <3> QED BY <1>2, <1>3, <2>2, <2>4 DEF Promise!TakeAtOnce, Inbox, Boxes, Asked
  <2> QED BY <1>1, <2>5 DEF Promise!InboxNext
<1>5. CASE ~Met(op, mask)
  <2>1. call' = [call EXCEPT ![currp] = c] /\ p_epending' = p_epending
    BY <1>5 DEF chEvtWait
  <2> HIDE DEF c
  <2>2. Boxes' = Boxes /\ Asked' = [Asked EXCEPT ![u] = c]
    BY <1>1, <2>1, AskedMoves DEF Boxes
  <2>3. Inbox' = [Inbox EXCEPT !.wait[u] = c] BY <2>2, InboxMoves
  <2>4. ~Promise!Satisfied(c.op, c.mask, Inbox.box[u])
    BY <1>2, <1>3, <1>5 DEF Met, Promise!Satisfied
  <2>5. Promise!Ask(u)
    BY <1>2, <1>3, <2>3, <2>4 DEF Promise!Ask, Inbox, Boxes, Asked
  <2> QED BY <1>1, <2>5 DEF Promise!InboxNext
<1> QED BY <1>4, <1>5

LEMMA ReturnPromised ==
    ASSUME EventsInv, ReturnFromCall, NEW u \in Threads, u = currp
    PROVE  Promise!InboxNext
<1> DEFINE c == call[u]
<1>1. EventTypes /\ c # NoCall /\ c \in WaitCalls /\ currp \in Threads /\ ~isr
  <2>1. EventTypes /\ c # NoCall BY EventFacts DEF ReturnFromCall, Locked
  <2>2. currp # Idle /\ currp \in AllThreads BY <2>1, EventFacts DEF EventTypes
  <2>3. c \in WaitCalls BY <2>1, <2>2 DEF EventTypes
  <2>4. ~isr BY DEF ReturnFromCall, EventsInv
  <2> QED BY <2>1, <2>2, <2>3, <2>4 DEF AllThreads
<1>2. Inbox.wait[u] = c /\ Inbox.box[u] = p_epending[u]
  BY <1>1 DEF Inbox, Asked, Boxes
<1>3. Asked' = [Asked EXCEPT ![u] = NoCall]
  BY <1>1, AskedMoves DEF ReturnFromCall
<1>4. CASE TimedOut(c) /\ UNCHANGED <<p_epending, lstvars>>
  <2>1. Boxes' = Boxes BY <1>4 DEF Boxes
  <2>2. Inbox' = [Inbox EXCEPT !.wait[u] = NoCall] BY <1>3, <2>1, InboxMoves
  <2>3. Promise!GiveUp(u)
    BY <1>2, <1>4, <2>2
       DEF TimedOut, Promise!GiveUp, Promise!NoWait, NoCall, Inbox, Boxes, Asked
  <2> QED BY <1>1, <2>3 DEF Promise!InboxNext
<1>5. CASE ~TimedOut(c) /\ Take(Returns(c.op, c.mask))
  <2>1. MetBy(c, p_epending[u])
    <3>1. k.p_state[u] \notin Waiting BY EventFacts DEF Waiting
    <3>2. ThreadFits(k.p_state[u], c, p_epending[u], rdymsg[u])
      BY EventFacts
    <3> QED BY <1>1, <1>5, <3>1, <3>2 DEF ThreadFits, TimedOut
  <2>2. c.op \in {"one", "any", "all"} BY <1>1 DEF WaitCalls
  <2>3. /\ Returns(c.op, c.mask) = Promise!Taken(c.op, c.mask, p_epending[u])
        /\ Promise!Satisfied(c.op, c.mask, p_epending[u])
    <3>1. MetBy([op |-> c.op, mask |-> c.mask], p_epending[u])
      BY <2>1 DEF MetBy
    <3> HIDE DEF c
    <3> QED BY <1>1, <2>2, <3>1, ReturnsTaken
  <2>0. PICK m : m = Promise!Taken(c.op, c.mask, p_epending[u]) OBVIOUS
  <2>4. Boxes' = [Boxes EXCEPT ![u] = @ \ m] BY <1>1, <1>5, <2>0, <2>3, TakeBoxes
  <2>5. Inbox' = [Inbox EXCEPT !.box[u] = @ \ m, !.wait[u] = NoCall]
    <3>1. /\ Inbox = [box |-> Boxes, wait |-> Asked]
          /\ Inbox' = [box |-> Boxes', wait |-> Asked']
      BY DEF Inbox
    <3>2. PICK B, W, I, B1, W1, I1, n :
             /\ B = Boxes /\ W = Asked /\ I = Inbox /\ n = NoCall
             /\ B1 = Boxes' /\ W1 = Asked' /\ I1 = Inbox'
      OBVIOUS
    <3>3. /\ I = [box |-> B, wait |-> W] /\ I1 = [box |-> B1, wait |-> W1]
          /\ B1 = [B EXCEPT ![u] = @ \ m] /\ W1 = [W EXCEPT ![u] = n]
      BY <1>3, <2>4, <3>1, <3>2
    <3>4. [I EXCEPT !.box[u] = @ \ m, !.wait[u] = n] = [I EXCEPT !.box = B1, !.wait = W1]
      BY <3>3
    <3>5. [I EXCEPT !.box = B1] = [box |-> B1, wait |-> W] BY <3>3
    <3>6. [[box |-> B1, wait |-> W] EXCEPT !.wait = W1] = [box |-> B1, wait |-> W1]
      OBVIOUS
    <3>7. [I EXCEPT !.box = B1, !.wait = W1] = [[I EXCEPT !.box = B1] EXCEPT !.wait = W1]
      OBVIOUS
    <3>8. I1 = [I EXCEPT !.box[u] = @ \ m, !.wait[u] = n]
      BY <3>3, <3>4, <3>5, <3>6, <3>7
    <3> QED BY <3>2, <3>8, Zenon
  <2>6. Promise!Grant(u)
    BY <1>1, <1>2, <2>0, <2>3, <2>5
       DEF Promise!Grant, Promise!NoWait, NoCall, Inbox, Boxes, Asked
  <2> QED BY <1>1, <2>6 DEF Promise!InboxNext
<1> QED BY <1>4, <1>5 DEF ReturnFromCall

\* Every step is one of the promise or leaves the inboxes alone.
LEMMA InboxStep ==
    ASSUME EventsInv, [EventsNext]_vars PROVE Promise!InboxNext \/ UNCHANGED Inbox
<1>1. ASSUME UNCHANGED <<p_epending, call>> PROVE UNCHANGED Inbox
  BY <1>1 DEF Inbox, Boxes, Asked
<1>2. CASE UNCHANGED vars BY <1>1, <1>2 DEF vars, evtvars
<1>3. ASSUME NEW el \in Listeners, NEW es \in Sources,
             chEvtRegisterMask(es, el) \/ chEvtUnregister(es, el)
      PROVE  UNCHANGED Inbox
  BY <1>1, <1>3 DEF chEvtRegisterMask, chEvtUnregister, evtvars
<1>4. ASSUME NEW t \in Threads, TimerExpires(t) \/ TimerCallback(t)
      PROVE  UNCHANGED Inbox
  BY <1>1, <1>4 DEF TimerExpires, TimerCallback
<1>5. CASE IrqExit BY <1>1, <1>5 DEF IrqExit, evtvars
<1>6. ASSUME NEW es \in Sources, NEW flags \in SUBSET Flags,
             chEvtBroadcastFlags(es, flags) \/ BroadcastFromIsr(es, flags)
      PROVE  Promise!InboxNext
  <2> DEFINE n == SignalAll(es)
  <2>1. SignalInv(n) /\ Arrivals(Now, n)
    BY BroadcastOK DEF EventsInv, EventTypes
  <2>2. p_epending' = n.p /\ call' = call
    BY <1>6 DEF chEvtBroadcastFlags, BroadcastFromIsr, BroadcastI, Signalled
  <2> HIDE DEF n
  <2>3. Promise!Deliver
    BY <2>1, <2>2, DeliverStep DEF SignalInv, Signals, Arrivals, Now
  <2> QED BY <2>3 DEF Promise!InboxNext
<1>7. ASSUME NEW t \in Threads, NEW mask \in WaitMasks,
             chEvtSignal(t, mask) \/ SignalFromIsr(t, mask)
      PROVE  Promise!InboxNext
  <2> DEFINE n == chEvtSignalI(Now, t, mask)
  <2>1. t \in AllThreads /\ mask \in SUBSET Events
    BY EventsAssumption DEF AllThreads
  <2>2. SignalInv(n) /\ Arrivals(Now, n)
    BY <2>1, SignalOK DEF EventsInv, EventTypes
  <2>3. p_epending' = n.p /\ call' = call
    BY <1>7 DEF chEvtSignal, SignalFromIsr, Signalled
  <2> HIDE DEF n
  <2>4. Promise!Deliver
    BY <2>2, <2>3, DeliverStep DEF SignalInv, Signals, Arrivals, Now
  <2> QED BY <2>4 DEF Promise!InboxNext
<1>8. ASSUME NEW mask \in WaitMasks, chEvtAddEvents(mask) PROVE Promise!InboxNext
  <2>1. /\ p_epending' = [p_epending EXCEPT ![currp] = @ \cup mask] /\ call' = call
        /\ mask \in SUBSET Events
    BY <1>8, EventsAssumption DEF chEvtAddEvents
  <2>2. /\ p_epending' \in [AllThreads -> SUBSET Events]
        /\ \A t \in AllThreads : p_epending[t] \subseteq p_epending'[t]
    BY <2>1, EventFacts
  <2>3. Promise!Deliver BY <2>1, <2>2, DeliverStep
  <2> QED BY <2>3 DEF Promise!InboxNext
<1>9. ASSUME NEW mask \in WaitMasks, chEvtGetAndClearEvents(mask)
      PROVE  Promise!InboxNext
  <2>0. PICK u \in AllThreads : u = currp BY EventFacts
  <2> DEFINE m == p_epending[currp] \cap mask
  <2>1. u \in Threads /\ call[u] = NoCall /\ Take(m) /\ call' = call
    BY <1>9, <2>0, EventFacts DEF chEvtGetAndClearEvents, ThreadCode, Locked, AllThreads
  <2>2. m \in SUBSET Events BY EventsAssumption
  <2> HIDE DEF m
  <2>3. Boxes' = [Boxes EXCEPT ![u] = @ \ m] /\ Asked' = Asked
    BY <2>0, <2>1, TakeBoxes DEF Asked
  <2>4. Inbox' = [Inbox EXCEPT !.box[u] = @ \ m] BY <2>3, InboxMoves
  <2>5. Promise!Discard(u)
    <3>1. Inbox.wait[u] = Promise!NoWait
      BY <2>1 DEF Inbox, Asked, Promise!NoWait, NoCall
    <3> QED BY <2>2, <2>4, <3>1 DEF Promise!Discard, Inbox, Boxes, Asked
  <2> QED BY <2>1, <2>5 DEF Promise!InboxNext
<1>10. ASSUME NEW op \in {"one", "any", "all"}, NEW mask \in WaitMasks,
              NEW timed \in BOOLEAN, chEvtWait(op, mask, timed)
       PROVE  Promise!InboxNext
  <2>1. currp \in Threads BY <1>10, EventFacts DEF chEvtWait, ThreadCode, AllThreads
  <2>2. PICK u \in Threads : u = currp BY <2>1
  <2> QED BY <1>10, <2>2, WaitPromised
<1>11. CASE ReturnFromCall
  <2>1. currp \in Threads
    BY <1>11, EventFacts DEF ReturnFromCall, Locked, EventTypes, AllThreads
  <2>2. PICK u \in Threads : u = currp BY <2>1
  <2> QED BY <1>11, <2>2, ReturnPromised
<1>12. ASSUME NEW el \in Listeners, chEvtGetAndClearFlags(el) PROVE UNCHANGED Inbox
  BY <1>1, <1>12 DEF chEvtGetAndClearFlags, evtvars
<1>13. CASE EventsNext
  BY <1>3, <1>4, <1>5, <1>6, <1>7, <1>8, <1>9, <1>10, <1>11, <1>12, <1>13
     DEF EventsNext
<1> QED BY <1>2, <1>13

\* Events are an inbox: every wait returns exactly events that were sent, each
\* once, and takes nothing when it times out, for broadcasts to any number of
\* listeners and any interleaving with timers and interrupts.
THEOREM EventsAreInbox == EventsSpec => EventsAreDelivered
<1>1. ASSUME EventsInit PROVE Promise!InboxInit
  BY <1>1 DEF EventsInit, Promise!InboxInit, Promise!NoWait, NoCall, AllThreads
<1>2. ASSUME EventsInv, [EventsNext]_vars PROVE [Promise!InboxNext]_Inbox
  BY <1>2, InboxStep
<1>3. EventsInv /\ [EventsNext]_vars =>
         [Promise!InboxNext]_[box |-> [t \in Threads |-> p_epending[t]],
                              wait |-> [t \in Threads |-> call[t]]]
  BY <1>2 DEF Inbox, Boxes, Asked
<1> QED BY <1>1, <1>3, EventsInvariant, PTL
        DEF EventsSpec, EventsAreDelivered, Promise!InboxSpec
=============================================================================
