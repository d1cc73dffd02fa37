----------------------------- MODULE Semaphore -----------------------------
(***************************************************************************)
(* Kernel semaphores, kernel/semaphore.c: the table they are allocated     *)
(* from, and P and V under the spinlock of each semaphore.                 *)
(*                                                                         *)
(* Taking the spinlock, the work under it and giving it back are three     *)
(* steps, since semaphore_destroy and semaphore_create write to a          *)
(* semaphore without its lock.  The sleep queue is used as SleepQueueSpec  *)
(* promises.                                                               *)
(*                                                                         *)
(* The callers are those of the kernel: a semaphore created with 1 or more *)
(* guards something, and who got past P calls V; one created with 0 is a   *)
(* signal, and any other thread calls V.  The creator destroys it.         *)
(***************************************************************************)
EXTENDS Integers, Sequences, FiniteSets

CONSTANTS
    Thread,          \* callers: kernel threads and interrupt handlers
    Handler,         \* the handlers, which only call V
    MaxSemaphores,   \* CONFIG_MAX_SEMAPHORES
    StartValues,     \* values semaphores are created with
    MaxSignals       \* bound: value up to which signals are raised

None == -1

ASSUME SemaphoreAssumption ==
    /\ None \notin Thread /\ Handler \subseteq Thread
    /\ MaxSemaphores \in Nat \ {0}
    /\ StartValues \subseteq Nat
    /\ MaxSignals \in Nat

Sem == 0 .. (MaxSemaphores - 1)

VARIABLES
    creator,   \* creator of each semaphore, None when it is free
    value,     \* its value
    slock,     \* its spinlock
    next,      \* where semaphore_create looks first
    sleepers,  \* threads asleep on it
    at,        \* where each thread is
    sem,       \* the semaphore it works on
    given,     \* the value it creates a semaphore with
    holds      \* history: what it got past P of, until it calls V

vars == <<creator, value, slock, next, sleepers, at, sem, given, holds>>

Init ==
    /\ creator = [s \in Sem |-> None]
    /\ value = [s \in Sem |-> 0]
    /\ slock = [s \in Sem |-> FALSE]
    /\ next = 0
    /\ sleepers = [s \in Sem |-> <<>>]
    /\ at = [t \in Thread |-> "out"]
    /\ sem = [t \in Thread |-> None]
    /\ given = [s \in Sem |-> 0]
    /\ holds = [t \in Thread |-> None]

-----------------------------------------------------------------------------
(* semaphore_create, semaphore_destroy *)

\* How many semaphores the search looks at before s.
Distance(s) == (s - next) % MaxSemaphores

FoundFree(s) ==
    /\ creator[s] = None
    /\ \A r \in Sem : Distance(r) < Distance(s) => creator[r] # None

\* Fault: the search runs off the end of the table.
NextAfter_NoWrap(s) == s + 1

NextAfter(s) == (s + 1) % MaxSemaphores

Reserve(t, s) == creator' = [creator EXCEPT ![s] = t]

\* Under semaphore_table_slock.  With no free semaphore next comes round to
\* where it was and the caller gets NULL.
Create(t, v) ==
    /\ at[t] = "out"
    /\ \E s \in Sem :
          /\ FoundFree(s)
          /\ Reserve(t, s)
          /\ next' = NextAfter(s)
          /\ sem' = [sem EXCEPT ![t] = s]
          /\ given' = [given EXCEPT ![s] = v]
    /\ at' = [at EXCEPT ![t] = "create"]
    /\ UNCHANGED <<value, slock, sleepers, holds>>

\* Value and spinlock are set after the table is unlocked.
CreateInit(t) ==
    /\ at[t] = "create"
    /\ value' = [value EXCEPT ![sem[t]] = given[sem[t]]]
    /\ slock' = [slock EXCEPT ![sem[t]] = FALSE]
    /\ at' = [at EXCEPT ![t] = "out"]
    /\ UNCHANGED <<creator, next, sleepers, sem, given, holds>>

\* The threads inside P or V of s.
Users(s) == {t \in Thread : at[t] # "out" /\ sem[t] = s}

Destroy(t, s) ==
    /\ at[t] = "out" /\ creator[s] = t
    /\ creator' = [creator EXCEPT ![s] = None]
    /\ UNCHANGED <<value, slock, next, sleepers, at, sem, given, holds>>

-----------------------------------------------------------------------------
(* semaphore_P *)

\* A semaphore that has been created, and so may be used.
Ready(s) == creator[s] # None /\ \A t \in Users(s) : at[t] # "create"

AcquireSlock(t, s) == ~ slock[s] /\ slock' = [slock EXCEPT ![s] = TRUE]

PAcquire(t, s) ==
    /\ at[t] = "out" /\ Ready(s) /\ holds[t] = None
    /\ AcquireSlock(t, s)
    /\ at' = [at EXCEPT ![t] = "p"]
    /\ sem' = [sem EXCEPT ![t] = s]
    /\ UNCHANGED <<creator, value, next, sleepers, given, holds>>

\* Who gets past P of a guard holds it.
Holding(h, t, s) == IF given[s] > 0 THEN [h EXCEPT ![t] = s] ELSE h

MustSleep(v) == v < 0

\* Fault: the thread goes to the head of the sleep queue.
Enqueue_Head(q, t) == <<t>> \o q

\* sleepq_add.
Enqueue(q, t) == Append(q, t)

PDown(t) ==
    /\ at[t] = "p"
    /\ LET s == sem[t]
           v == value[s] - 1
       IN  /\ value' = [value EXCEPT ![s] = v]
           /\ IF MustSleep(v)
              THEN /\ sleepers' = [sleepers EXCEPT ![s] = Enqueue(@, t)]
                   /\ UNCHANGED holds
              ELSE /\ holds' = Holding(holds, t, s)
                   /\ UNCHANGED sleepers
    /\ at' = [at EXCEPT ![t] = "p_release"]
    /\ UNCHANGED <<creator, slock, next, sem, given>>

\* A thread on the sleep queue sleeps once the lock is given back.
Asleep(t) == \E s \in Sem : \E i \in 1 .. Len(sleepers[s]) : sleepers[s][i] = t

PRelease(t) ==
    /\ at[t] = "p_release"
    /\ slock' = [slock EXCEPT ![sem[t]] = FALSE]
    /\ at' = [at EXCEPT ![t] = IF Asleep(t) THEN "asleep" ELSE "out"]
    /\ UNCHANGED <<creator, value, next, sleepers, sem, given, holds>>

-----------------------------------------------------------------------------
(* semaphore_V *)

VAcquire(t, s) ==
    /\ at[t] = "out" /\ Ready(s)
    /\ IF given[s] > 0 THEN holds[t] = s ELSE value[s] < MaxSignals
    /\ AcquireSlock(t, s)
    /\ at' = [at EXCEPT ![t] = "v"]
    /\ sem' = [sem EXCEPT ![t] = s]
    /\ UNCHANGED <<creator, value, next, sleepers, given, holds>>

\* Fault: the last waiter is not woken.
MustWake_Strict(v) == v < 0

MustWake(v) == v <= 0

\* The thread sleepq_wake takes off the queue of s.
Woken(s) == IF sleepers[s] = <<>> THEN {} ELSE {Head(sleepers[s])}

VUp(t) ==
    /\ at[t] = "v"
    /\ LET s == sem[t]
           v == value[s] + 1
           w == IF MustWake(v) THEN Woken(s) ELSE {}
       IN  /\ value' = [value EXCEPT ![s] = v]
           /\ sleepers' = [sleepers EXCEPT ![s] = IF w = {} THEN @ ELSE Tail(@)]
           /\ at' = [u \in Thread |-> IF u = t THEN "v_release"
                                      ELSE IF u \in w /\ at[u] = "asleep" THEN "out"
                                      ELSE at[u]]
           /\ holds' = [u \in Thread |-> IF given[s] > 0 /\ u \in w THEN s
                                         ELSE IF u = t /\ holds[u] = s THEN None
                                         ELSE holds[u]]
    /\ UNCHANGED <<creator, slock, next, sem, given>>

VRelease(t) ==
    /\ at[t] = "v_release"
    /\ slock' = [slock EXCEPT ![sem[t]] = FALSE]
    /\ at' = [at EXCEPT ![t] = "out"]
    /\ UNCHANGED <<creator, value, next, sleepers, sem, given, holds>>

-----------------------------------------------------------------------------
\* Callers destroy a semaphore that nobody holds, sleeps on or is inside P or
\* V of.  semaphore_destroy does not look; Disk shows what that takes.
Unused(s) == Users(s) = {} /\ \A t \in Thread : holds[t] # s

Step(t) ==
    \/ /\ t \notin Handler
       /\ \/ \E v \in StartValues : Create(t, v)
          \/ \E s \in Sem : (Unused(s) /\ Destroy(t, s)) \/ PAcquire(t, s)
    \/ \E s \in Sem : VAcquire(t, s)
    \/ CreateInit(t)
    \/ PDown(t) \/ PRelease(t) \/ VUp(t) \/ VRelease(t)

Next == \E t \in Thread : Step(t)

Spec == Init /\ [][Next]_vars

\* A thread goes on in P and V, calls V when it holds a guard, and is not
\* passed over for ever by a spinlock others take and give back.
Fairness ==
    \A t \in Thread :
        /\ WF_vars(CreateInit(t)) /\ WF_vars(PDown(t)) /\ WF_vars(PRelease(t))
        /\ WF_vars(VUp(t)) /\ WF_vars(VRelease(t))
        /\ \A s \in Sem : SF_vars(holds[t] = s /\ VAcquire(t, s))

FairSpec == Spec /\ Fairness

-----------------------------------------------------------------------------
(* What is checked *)

\* Every variable has its type.
TypeOK ==
    /\ creator \in [Sem -> Thread \cup {None}]
    /\ value \in [Sem -> Int]
    /\ slock \in [Sem -> BOOLEAN]
    /\ next \in Sem
    /\ sleepers \in [Sem -> Seq(Thread)]
    /\ at \in [Thread -> {"out", "create", "p", "p_release", "asleep", "v", "v_release"}]
    /\ sem \in [Thread -> Sem \cup {None}]
    /\ given \in [Sem -> Nat]
    /\ holds \in [Thread -> Sem \cup {None}]

\* The threads between spinlock_acquire and spinlock_release of s.
Locking(s) ==
    {t \in Thread : at[t] \in {"p", "p_release", "v", "v_release"} /\ sem[t] = s}

\* slock "must be held when accessing the semaphore data": one thread at a
\* time is in the locked part of P or V, though creation resets the lock.
SlockExclusive ==
    \A s \in Sem : \A t, u \in Locking(s) : t = u

\* A negative value counts the sleeping threads, and nobody sleeps while there
\* are units: the test in semaphore_V wakes a thread exactly when there is one.
ValueCountsSleepers ==
    \A s \in Sem : creator[s] # None =>
        Len(sleepers[s]) = IF value[s] < 0 THEN - value[s] ELSE 0

\* A guard is held by at most as many threads as it was created with, whoever
\* of the waiting threads V wakes.
GuardHolds ==
    \A s \in Sem : given[s] > 0 =>
        Cardinality({t \in Thread : holds[t] = s}) <= given[s]

\* No semaphore is handed out by semaphore_create while it is in use, and
\* nobody is asleep on, or still locking, a semaphore that is free.
FreeIsUnused == \A s \in Sem : creator[s] = None => Users(s) = {}

\* Safety of the semaphores, with creation and destruction outside the lock.
Safety == SlockExclusive /\ ValueCountsSleepers /\ GuardHolds /\ FreeIsUnused

\* The spinlocks and the table implement counting semaphores that are served
\* first come, first served.
Counting == INSTANCE SemaphoreSpec WITH
    avail <- [s \in Sem |-> IF value[s] > 0 THEN value[s] ELSE 0],
    queue <- sleepers

ImplementsSemaphores == Counting!Spec

\* A thread that sleeps in P of a guard gets past it: none is overtaken for
\* ever by threads that call P later.
GuardIsReached ==
    \A t \in Thread :
        (at[t] = "asleep" /\ given[sem[t]] > 0) ~> holds[t] # None
=============================================================================
