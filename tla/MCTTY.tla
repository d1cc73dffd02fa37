------------------------------- MODULE MCTTY -------------------------------
(* TTY with a buffer of two characters.  A call of w1 fits it, one of w2    *)
(* does not; they write together, w1 writes while kprintf prints, and       *)
(* readers read together or while kprintf prints.                           *)
EXTENDS TTY

CONSTANTS w1, w2, r1, r2, k1

Lengths == [t \in Writer |-> IF t = w1 THEN 2 ELSE 3]

Users == {{w1, w2}, {w1, k1}, {r1, r2}, {k1, r1}}
=============================================================================
