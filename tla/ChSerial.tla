------------------------------ MODULE ChSerial ------------------------------
(***************************************************************************)
(* The serial driver, os/hal/src/serial.c, with the USART driver under it, *)
(* os/hal/platforms/STM32/USARTv2/serial_lld.c, on top of the I/O queues:  *)
(* the console of the application. The interrupt handler moves the bytes   *)
(* between the queues and the USART; a write switches the transmitter      *)
(* interrupt on (notify1()), the handler switches it off at the end.       *)
(*                                                                         *)
(* The driver's event source is modelled by ChEvents and left out here.    *)
(***************************************************************************)
EXTENDS ChQueues

VARIABLES
    state,        \* the driver is in SD_STOP or SD_READY
    usart,        \* the USART: interrupt enables, data register empty,
                  \* a byte being sent, transmission complete
    stalled       \* history: the driver was started with bytes in its output
                  \* queue and nothing has been written since

vars == <<queuevars, state, usart, stalled>>

UsartStates == [txeie : BOOLEAN, tcie : BOOLEAN, txe : BOOLEAN,
                busy : BOOLEAN, tc : BOOLEAN]

SerialTypeOK ==
    /\ QueuesTypeOK
    /\ state \in {"SD_STOP", "SD_READY"}
    /\ usart \in UsartStates
    /\ stalled \in BOOLEAN

Deinitialised == [txeie |-> FALSE, tcie |-> FALSE, txe |-> TRUE,
                  busy |-> FALSE, tc |-> FALSE]

\* usart_init() sets CR1 anew and clears the status.
usart_init(u) == [u EXCEPT !.txeie = FALSE, !.tcie = FALSE, !.tc = FALSE]

SerialInit ==
    /\ QueuesInit
    /\ state = "SD_STOP"
    /\ usart = Deinitialised
    /\ stalled = FALSE

Written == q'["oq"].q_counter < q["oq"].q_counter

\* The registers of a stopped USART have no clock: a write to them is lost.
notify1(u) == IF state = "SD_READY" THEN [u EXCEPT !.txeie = TRUE] ELSE u

SerialThreadStep ==
    /\ ThreadStep
    /\ usart' = IF Written THEN notify1(usart) ELSE usart
    /\ stalled' = (stalled /\ ~Written)
    /\ UNCHANGED state

sdStart ==
    /\ ThreadCode /\ call[currp] = NoCall
    /\ state' = "SD_READY"
    /\ usart' = usart_init(usart)
    /\ stalled' = (q["oq"].q_counter < Size["oq"])
    /\ said' = Nothing
    /\ UNCHANGED <<k, isr, rdymsg, vt, call, q>>

sdStop ==
    /\ ThreadCode /\ call[currp] = NoCall
    /\ state' = "SD_STOP"
    /\ usart' = Deinitialised
    /\ stalled' = FALSE
    /\ LET n == ResetI(ResetI(Now, "oq"), "iq")
       IN k' = chSchRescheduleS(n.s) /\ rdymsg' = n.m /\ q' = n.q
    /\ said' = Nothing
    /\ UNCHANGED <<isr, vt, call>>

----------------------------------------------------------------------------
(* The USART and its interrupt handler *)

\* The data register is emptied into the shift register.
Shift ==
    /\ ~usart.txe
    /\ usart' = [usart EXCEPT !.txe = TRUE]
    /\ said' = Nothing
    /\ UNCHANGED <<k, isr, rdymsg, vt, call, q, state, stalled>>

TransmissionEnds ==
    /\ usart.txe /\ usart.busy
    /\ usart' = [usart EXCEPT !.busy = FALSE, !.tc = TRUE]
    /\ said' = Nothing
    /\ UNCHANGED <<k, isr, rdymsg, vt, call, q, state, stalled>>

\* The write to CR1 for an empty output queue, or the next byte.
ServeTxe(u) ==
    IF ~(u.txeie /\ u.txe) THEN u
    ELSE IF IsrBlocked(q["oq"]) THEN [u EXCEPT !.txeie = FALSE, !.tcie = TRUE]
    ELSE [u EXCEPT !.txe = FALSE, !.busy = TRUE]

\* Faulty: the end of the transmission switches both interrupts off.
ServeTcBoth(u, cr1) ==
    IF u.tc THEN [u EXCEPT !.tc = FALSE, !.txeie = FALSE, !.tcie = FALSE] ELSE u

\* The end of the transmission writes CR1 as it was read on entry.
ServeTc(u, cr1) ==
    IF u.tc THEN [u EXCEPT !.tc = FALSE, !.txeie = cr1.txeie, !.tcie = FALSE] ELSE u

\* serve_interrupt() with a received byte or without one
ServeInterrupt(rx) ==
    /\ IsrCode /\ state = "SD_READY"
    /\ rx # NULL \/ (usart.txeie /\ usart.txe) \/ (usart.tcie /\ usart.tc)
    /\ LET in  == IF rx = NULL THEN Now ELSE chIQPutI(Now, rx)
           tx  == usart.txeie /\ usart.txe
           n   == IF tx THEN chOQGetI(in) ELSE in
       IN /\ k' = n.s /\ rdymsg' = n.m /\ q' = n.q
          /\ said' = [iq |-> IF rx # NULL /\ IsrBlocked(q["iq"]) THEN "FULL" ELSE "-",
                      oq |-> IF ~tx THEN "-"
                             ELSE IF IsrBlocked(q["oq"]) THEN "EMPTY" ELSE Oldest("oq")]
    /\ usart' = ServeTc(ServeTxe(usart), usart)
    /\ isr' = TRUE
    /\ UNCHANGED <<vt, call, state, stalled>>

SerialNext ==
    \/ SerialThreadStep
    \/ TimerStep /\ UNCHANGED <<state, usart, stalled>>
    \/ sdStart \/ sdStop
    \/ Shift \/ TransmissionEnds
    \/ \E rx \in Bytes["iq"] \cup {NULL} : ServeInterrupt(rx)

SerialSpec == SerialInit /\ [][SerialNext]_vars

----------------------------------------------------------------------------
(* Properties *)

\* The transmission does not stop with bytes left to send: in a started driver
\* the transmitter interrupt is on as long as the output queue holds a byte,
\* whatever handlers and writers interleave (serial_lld.c:174-194). Only a start
\* of the driver with bytes in the queue, which sd_lld_start() does not look at,
\* leaves them there until the next write.
BytesAreSent ==
    /\ SerialTypeOK
    /\ (state = "SD_READY" /\ ~stalled /\ q["oq"].q_counter < Size["oq"]) => usart.txeie
============================================================================
