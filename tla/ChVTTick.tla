------------------------------ MODULE ChVTTick ------------------------------
(***************************************************************************)
(* The tick interrupt of the virtual timers, chVTDoTickI() of              *)
(* os/kernel/include/chvt.h: it works off the due timers one by one and    *)
(* unlocks the kernel for each callback, so that the callback itself and   *)
(* interrupt handlers set and reset timers in the middle of the tick.      *)
(***************************************************************************)
EXTENDS ChVTOps

CONSTANT NULL

VARIABLES
    vtlist,   \* the delta list
    ticking,  \* the tick interrupt is in chVTDoTickI()
    fn        \* the timer whose callback is running, or NULL

timervars == <<vtlist, ticking, fn>>

\* The ticker has the kernel locked except around a callback.
Unlocked == ticking => fn # NULL

\* Up to the head of the loop.
TickBegins ==
    /\ ~ticking
    /\ vtlist' = Elapse(vtlist)
    /\ ticking' = (vtlist # <<>>)
    /\ UNCHANGED fn

\* A turn of the loop, up to the callback.
TakeDueTimer ==
    /\ ticking /\ fn = NULL
    /\ Due(vtlist)
    /\ fn' = Head(vtlist).vt
    /\ vtlist' = Tail(vtlist)
    /\ UNCHANGED ticking

TickEnds ==
    /\ ticking /\ fn = NULL
    /\ ~Due(vtlist)
    /\ ticking' = FALSE
    /\ UNCHANGED <<vtlist, fn>>
============================================================================
