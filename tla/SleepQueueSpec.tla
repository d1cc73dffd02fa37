--------------------------- MODULE SleepQueueSpec ---------------------------
(***************************************************************************)
(* What the sleep queue promises its callers (sleepq_add, sleepq_wake and  *)
(* sleepq_wake_all), without locks, hash buckets or CPUs: each resource    *)
(* has a first-come-first-served queue of threads, a thread is put to      *)
(* sleep only while it is on a queue, and a wake takes its thread(s) off   *)
(* the queue and out of sleep in one step.                                 *)
(***************************************************************************)
EXTENDS Naturals, Sequences

CONSTANTS Thread, Resource

VARIABLES
    waiting,    \* the queue of every resource
    asleep      \* the threads the scheduler keeps off the CPUs

Members(q) == {q[i] : i \in 1 .. Len(q)}
Queued == UNION {Members(waiting[r]) : r \in Resource}

Init ==
    /\ waiting = [r \in Resource |-> <<>>]
    /\ asleep = {}

Wait(t, r) ==
    /\ t \notin Queued
    /\ t \notin asleep
    /\ waiting' = [waiting EXCEPT ![r] = Append(@, t)]
    /\ UNCHANGED asleep

Sleep(t) ==
    /\ t \in Queued
    /\ asleep' = asleep \cup {t}
    /\ UNCHANGED waiting

Wake(r) ==
    /\ waiting[r] # <<>>
    /\ waiting' = [waiting EXCEPT ![r] = Tail(@)]
    /\ asleep' = asleep \ {Head(waiting[r])}

WakeAll(r) ==
    /\ waiting' = [waiting EXCEPT ![r] = <<>>]
    /\ asleep' = asleep \ Members(waiting[r])

Next ==
    \/ \E t \in Thread : Sleep(t) \/ \E r \in Resource : Wait(t, r)
    \/ \E r \in Resource : Wake(r) \/ WakeAll(r)

Spec == Init /\ [][Next]_<<waiting, asleep>>
=============================================================================
