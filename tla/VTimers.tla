------------------------------ MODULE VTimers ------------------------------
(***************************************************************************)
(* What the virtual timers promise: a timer set to d ticks expires in the  *)
(* d-th tick from then on, neither earlier nor later, unless it is reset   *)
(* before, whatever is done to the other timers. When it expires the tick  *)
(* interrupt calls its function. Between two calls that interrupt sets and *)
(* resets no timer, and it does not return before all due ones are called. *)
(***************************************************************************)
EXTENDS Integers

CONSTANTS Timers, Delays, Off, NULL

VARIABLES
    left,      \* the ticks left for every timer, Off when it is not armed
    ticking,   \* the tick interrupt is running
    fn         \* the timer whose function it is in, or NULL

timers == <<left, ticking, fn>>

TimersInit == left = [t \in Timers |-> Off] /\ ~ticking /\ fn = NULL

Outside == ticking => fn # NULL

Set(t) ==
    /\ Outside
    /\ left[t] = Off
    /\ \E d \in Delays : left' = [left EXCEPT ![t] = d]
    /\ UNCHANGED <<ticking, fn>>

Reset(t) ==
    /\ Outside
    /\ left[t] # Off
    /\ left' = [left EXCEPT ![t] = Off]
    /\ UNCHANGED <<ticking, fn>>

NoneDue == \A t \in Timers : left[t] # 0

Tick ==
    /\ ~ticking /\ NoneDue
    /\ left' = [t \in Timers |-> IF left[t] = Off THEN Off ELSE left[t] - 1]
    /\ ticking' \in BOOLEAN
    /\ UNCHANGED fn

Expire(t) ==
    /\ ticking /\ fn = NULL
    /\ left[t] = 0
    /\ left' = [left EXCEPT ![t] = Off]
    /\ fn' = t
    /\ UNCHANGED ticking

Return == fn # NULL /\ fn' = NULL /\ UNCHANGED <<left, ticking>>

TickEnds ==
    /\ ticking /\ fn = NULL /\ NoneDue
    /\ ticking' = FALSE
    /\ UNCHANGED <<left, fn>>

TimersNext ==
    \/ Tick \/ Return \/ TickEnds
    \/ \E t \in Timers : Set(t) \/ Reset(t) \/ Expire(t)

TimersSpec == TimersInit /\ [][TimersNext]_timers
============================================================================
