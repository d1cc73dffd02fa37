----------------------------- MODULE MCProcess -----------------------------
(* Process with a small process table: programs that join their children     *)
(* before they exit, and programs that leave orphans and unjoined zombies.   *)
EXTENDS Process, TLC

Orphans == [rows |-> 3, joins |-> FALSE, codes |-> {-1, 1}]
MCWorkloads == {[rows |-> 4, joins |-> TRUE, codes |-> {1}], Orphans}
OrphansOnly == {Orphans}
=============================================================================
