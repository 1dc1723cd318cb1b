------------------------------ MODULE ChVTOps ------------------------------
(***************************************************************************)
(* The delta list of the virtual timers, os/kernel/src/chvt.c: a timer     *)
(* stores the ticks between its predecessor's expiry and its own. A list   *)
(* is a sequence of records [vt, vt_time]; a timer is armed (vt_func is    *)
(* set) exactly while it is in the list.                                   *)
(***************************************************************************)
EXTENDS Integers, Sequences

Armed(list, t) == \E i \in 1..Len(list) : list[i].vt = t

Position(list, t) == CHOOSE i \in 1..Len(list) : list[i].vt = t

\* The ticks until the i-th timer of the list expires.
Expiry(list, i) ==
    LET sum[j \in 0..Len(list)] == IF j = 0 THEN 0 ELSE sum[j - 1] + list[j].vt_time
    IN sum[i]

\* In front of the first timer that does not expire before t.
chVTSetI(list, t, time) ==
    LET i == CHOOSE i \in 1..Len(list) + 1 :
                 /\ i <= Len(list) => Expiry(list, i) >= time
                 /\ \A j \in 1..i - 1 : Expiry(list, j) < time
        delta == time - Expiry(list, i - 1)
        next  == IF i > Len(list) THEN <<>>
                 ELSE <<[list[i] EXCEPT !.vt_time = @ - delta]>>
    IN SubSeq(list, 1, i - 1) \o <<[vt |-> t, vt_time |-> delta]>> \o next
         \o SubSeq(list, i + 1, Len(list))

\* Faulty: the delta of the removed timer is lost.
ResetAndForget(list, t) ==
    LET i == Position(list, t)
    IN SubSeq(list, 1, i - 1) \o SubSeq(list, i + 1, Len(list))

chVTResetI(list, t) ==
    LET i == Position(list, t)
        next == IF i = Len(list) THEN <<>>
                ELSE <<[list[i + 1] EXCEPT !.vt_time = @ + list[i].vt_time]>>
    IN SubSeq(list, 1, i - 1) \o next \o SubSeq(list, i + 2, Len(list))

\* A tick has passed.
Elapse(list) == IF list = <<>> THEN list ELSE [list EXCEPT ![1].vt_time = @ - 1]

\* The first timer is due.
Due(list) == list # <<>> /\ list[1].vt_time = 0
============================================================================
