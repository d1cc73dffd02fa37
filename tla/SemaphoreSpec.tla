--------------------------- MODULE SemaphoreSpec ---------------------------
(***************************************************************************)
(* What kernel/semaphore.c promises: counting semaphores whose value never *)
(* goes below zero, and which serve waiting threads first come, first      *)
(* served.                                                                 *)
(***************************************************************************)
EXTENDS Naturals, Sequences

CONSTANTS Sem, Thread

VARIABLES
    avail,   \* units of each semaphore that nobody has taken
    queue    \* threads waiting for a unit of each semaphore

Init ==
    /\ avail \in [Sem -> Nat]
    /\ queue = [s \in Sem |-> <<>>]

\* A semaphore starts with any value, and without waiting threads.
Create(s) ==
    /\ queue[s] = <<>>
    /\ avail'[s] \in Nat
    /\ avail' = [avail EXCEPT ![s] = avail'[s]]
    /\ UNCHANGED queue

P(t, s) ==
    IF avail[s] > 0
    THEN avail' = [avail EXCEPT ![s] = @ - 1] /\ UNCHANGED queue
    ELSE queue' = [queue EXCEPT ![s] = Append(@, t)] /\ UNCHANGED avail

V(s) ==
    IF queue[s] = <<>>
    THEN avail' = [avail EXCEPT ![s] = @ + 1] /\ UNCHANGED queue
    ELSE queue' = [queue EXCEPT ![s] = Tail(@)] /\ UNCHANGED avail

Next == \E s \in Sem : Create(s) \/ V(s) \/ \E t \in Thread : P(t, s)

Spec == Init /\ [][Next]_<<avail, queue>>
=============================================================================
