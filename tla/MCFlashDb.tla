----------------------------- MODULE MCFlashDb -----------------------------
(* TLC instance of FlashDb: see FlashTorn.cfg and MCApplication. *)
EXTENDS FlashDb

\* Two's complement.
Minus(n) == Half * Half - n

\* Values of the built-in configuration (db.c:36-73), all zeros among them: a number of
\* axles, a direction, a threshold below zero and items that are not in use.
ItemValues == {2, Minus(1), Minus(20), 0}

\* The tail of the built-in configuration is zero, too.
FactoryItems == [n \in Items |-> CASE n = 1 -> 2 [] n = 2 -> Minus(1) [] OTHER -> 0]
============================================================================
