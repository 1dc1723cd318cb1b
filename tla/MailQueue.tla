----------------------------- MODULE MailQueue -----------------------------
(***************************************************************************)
(* What a mailbox promises: a queue of at most Size messages that is put   *)
(* to at its back or, for urgent messages, at its front, taken from at its *)
(* front and emptied by a reset. Nothing is promised after a reset that    *)
(* tore a call under way.                                                  *)
(***************************************************************************)
EXTENDS Integers, Sequences

CONSTANTS Messages, Size, NULL

VARIABLES
    q,      \* the queued messages
    got,    \* the message fetched last
    torn    \* a reset tore a call

QueueInit == q = <<>> /\ got = NULL /\ torn = FALSE

Put ==
    /\ Len(q) < Size
    /\ \E msg \in Messages : q' = Append(q, msg) \/ q' = <<msg>> \o q
    /\ UNCHANGED got

Take ==
    /\ q # <<>>
    /\ got' = Head(q)
    /\ q' = Tail(q)

Reset == q' = <<>> /\ UNCHANGED got

QueueStep == torn' \/ (UNCHANGED torn /\ (Put \/ Take \/ Reset))

QueueSpec == QueueInit /\ [][QueueStep]_<<q, got, torn>>
============================================================================
