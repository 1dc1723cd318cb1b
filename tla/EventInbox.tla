----------------------------- MODULE EventInbox -----------------------------
(***************************************************************************)
(* What the event flags promise a thread: an inbox of events, and a wait   *)
(* for one event, any events or all events of a mask. A wait takes its     *)
(* events out of the inbox when it is granted, one limited in time may     *)
(* give up instead and then takes nothing.                                 *)
(***************************************************************************)
EXTENDS Integers

CONSTANTS Receivers, Events

VARIABLE a     \* the inbox and the wait of every receiver

NoWait == [op |-> "none", mask |-> {}, timed |-> FALSE]
Waits == [op : {"one", "any", "all"}, mask : (SUBSET Events) \ {{}}, timed : BOOLEAN]

Lowest(m) == CHOOSE e \in m : \A f \in m : e <= f

Satisfied(op, mask, box) ==
    IF op = "all" THEN mask \subseteq box ELSE mask \cap box # {}

\* The events a wait returns and removes.
Taken(op, mask, box) ==
    CASE op = "one" -> {Lowest(mask \cap box)}
      [] op = "any" -> mask \cap box
      [] OTHER      -> mask

InboxInit == a = [box  |-> [t \in Receivers |-> {}],
                  wait |-> [t \in Receivers |-> NoWait]]

\* One signal or one broadcast: some events for every receiver.
Deliver ==
    \E d \in [Receivers -> SUBSET Events] :
        a' = [a EXCEPT !.box = [t \in Receivers |-> @[t] \cup d[t]]]

Discard(t) ==
    /\ a.wait[t] = NoWait
    /\ \E m \in SUBSET Events : a' = [a EXCEPT !.box[t] = @ \ m]

TakeAtOnce(t) ==
    /\ a.wait[t] = NoWait
    /\ \E q \in Waits :
          /\ Satisfied(q.op, q.mask, a.box[t])
          /\ a' = [a EXCEPT !.box[t] = @ \ Taken(q.op, q.mask, @)]

Ask(t) ==
    /\ a.wait[t] = NoWait
    /\ \E q \in Waits :
          /\ ~Satisfied(q.op, q.mask, a.box[t])
          /\ a' = [a EXCEPT !.wait[t] = q]

Grant(t) ==
    LET q == a.wait[t]
    IN /\ q # NoWait
       /\ Satisfied(q.op, q.mask, a.box[t])
       /\ a' = [a EXCEPT !.box[t] = @ \ Taken(q.op, q.mask, @), !.wait[t] = NoWait]

GiveUp(t) == a.wait[t].timed /\ a' = [a EXCEPT !.wait[t] = NoWait]

InboxNext ==
    \/ Deliver
    \/ \E t \in Receivers : Discard(t) \/ TakeAtOnce(t) \/ Ask(t) \/ Grant(t) \/ GiveUp(t)

InboxSpec == InboxInit /\ [][InboxNext]_a
============================================================================
