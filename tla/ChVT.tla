-------------------------------- MODULE ChVT --------------------------------
(***************************************************************************)
(* The virtual timers and the system time, os/kernel/src/chvt.c, around    *)
(* the tick of ChVTTick.                                                   *)
(***************************************************************************)
EXTENDS ChVTTick, FiniteSets

CONSTANTS
    Timers,
    MaxDelay,    \* the longest delay a timer is set to
    TimeRange    \* the system time counts modulo this number

ASSUME VTAssumption ==
    /\ NULL \notin Timers
    /\ MaxDelay \in Nat \ {0}
    /\ TimeRange \in Nat \ {0, 1}

VARIABLE vt_systime   \* the system time

vars == <<timervars, vt_systime>>

VTTypeOK ==
    /\ vtlist \in Seq([vt : Timers, vt_time : 0..MaxDelay])
    /\ \A i, j \in 1..Len(vtlist) : vtlist[i].vt = vtlist[j].vt => i = j
    /\ vt_systime \in 0..TimeRange - 1
    /\ ticking \in BOOLEAN
    /\ fn \in Timers \cup {NULL}

VTInit ==
    /\ vtlist = <<>>
    /\ vt_systime = 0
    /\ ticking = FALSE
    /\ fn = NULL

\* Any code but the ticker.
chVTSet(t) ==
    /\ Unlocked
    /\ ~Armed(vtlist, t)
    /\ \E time \in 1..MaxDelay : vtlist' = chVTSetI(vtlist, t, time)
    /\ UNCHANGED <<vt_systime, ticking, fn>>

chVTReset(t) ==
    /\ Unlocked
    /\ Armed(vtlist, t)
    /\ vtlist' = chVTResetI(vtlist, t)
    /\ UNCHANGED <<vt_systime, ticking, fn>>

\* chVTDoTickI().
Tick ==
    /\ TickBegins
    /\ vt_systime' = (vt_systime + 1) % TimeRange

Expire == TakeDueTimer /\ UNCHANGED vt_systime

TickDone == TickEnds /\ UNCHANGED vt_systime

CallbackReturns ==
    /\ fn # NULL
    /\ fn' = NULL
    /\ UNCHANGED <<vtlist, vt_systime, ticking>>

VTNext ==
    \/ \E t \in Timers : chVTSet(t) \/ chVTReset(t)
    \/ Tick \/ Expire \/ CallbackReturns \/ TickDone

VTSpec == VTInit /\ [][VTNext]_vars

----------------------------------------------------------------------------
(* The system time *)

chTimeNow == vt_systime

chTimeElapsedSince(start) == (chTimeNow - start) % TimeRange

\* Faulty: the comparison that ignores the wrap around.
InBetween(start, end) == start <= chTimeNow /\ chTimeNow < end

chTimeIsWithin(start, end) == chTimeElapsedSince(start) < (end - start) % TimeRange

----------------------------------------------------------------------------
(* Properties *)

Promise == INSTANCE VTimers WITH
    Delays <- 1..MaxDelay,
    Off <- -1,
    left <- [t \in Timers |->
               IF Armed(vtlist, t) THEN Expiry(vtlist, Position(vtlist, t)) ELSE -1]

\* Every timer expires exactly in its tick, however timers are set, reset and
\* expire around it, also from within the callbacks of the same tick: each callback
\* is that of a due timer, and the tick loses none.
TimersAreExact == Promise!TimersSpec

Times == 0..TimeRange - 1

\* A window [start, end[ contains the present time exactly if counting from
\* start, around the end of the range, meets the present before end.
WindowsWrap ==
    VTTypeOK /\ \A start, end \in Times :
        start # end =>
           (chTimeIsWithin(start, end) <=>
              \E n \in Times : /\ (start + n) % TimeRange = chTimeNow
                               /\ \A m \in 0..n : (start + m) % TimeRange # end)
============================================================================
