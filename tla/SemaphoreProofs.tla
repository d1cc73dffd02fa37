--------------------------- MODULE SemaphoreProofs ---------------------------
(***************************************************************************)
(* Semaphore satisfies its type invariant and its safety invariant, and    *)
(* implements SemaphoreSpec, for any number of threads, handlers and       *)
(* semaphores and any values they are created with.                        *)
(***************************************************************************)
EXTENDS Semaphore, TLAPS, FiniteSetTheorems

USE SemaphoreAssumption

-----------------------------------------------------------------------------
(* The inductive invariant *)

\* A thread that works on a semaphore works on one that exists.
UsersOfSems ==
    \A t \in Thread : at[t] # "out" => sem[t] \in Sem /\ creator[sem[t]] # None

\* Between reserving a semaphore and setting its value the creator is alone
\* with it.
CreatorAlone ==
    \A t \in Thread : at[t] = "create" =>
        /\ creator[sem[t]] = t
        /\ \A u \in Thread : at[u] # "out" /\ sem[u] = sem[t] => u = t

\* The spinlock is taken while a thread is in the locked part.
SlockTaken == \A s \in Sem : \A t \in Locking(s) : slock[s]

Queued(t, s) == \E i \in 1 .. Len(sleepers[s]) : sleepers[s][i] = t

\* The sleep queue holds the threads that sleep, or are about to, once each.
QueueSound ==
    /\ \A s \in Sem : \A t \in Thread :
          Queued(t, s) => at[t] \in {"p_release", "asleep"} /\ sem[t] = s
    /\ \A t \in Thread : at[t] = "asleep" => Queued(t, sem[t])
    /\ \A s \in Sem : \A i, j \in 1 .. Len(sleepers[s]) :
          sleepers[s][i] = sleepers[s][j] => i = j

\* The value counts the sleeping threads, of a free semaphore too.
CountsSleepers ==
    \A s \in Sem : Len(sleepers[s]) = IF value[s] < 0 THEN - value[s] ELSE 0

Holders(s) == {t \in Thread : holds[t] = s}

\* A thread that waits holds nothing, and one in V of a guard holds it.
HoldersSound ==
    /\ \A t \in Thread :
          /\ at[t] \in {"p", "asleep"} => holds[t] = None
          /\ at[t] = "p_release" /\ Queued(t, sem[t]) => holds[t] = None
          /\ at[t] = "v" /\ given[sem[t]] > 0 => holds[t] = sem[t]
    /\ \A s \in Sem : (creator[s] = None \/ given[s] = 0) => Holders(s) = {}
    /\ \A t \in Thread : at[t] = "create" => Holders(sem[t]) = {}

Creating(s) == \E t \in Thread : at[t] = "create" /\ sem[t] = s

Avail(s) == IF value[s] > 0 THEN value[s] ELSE 0

\* The units of a guard are available or held.
UnitsConserved ==
    \A s \in Sem :
        /\ IsFiniteSet(Holders(s))
        /\ creator[s] # None /\ ~ Creating(s) /\ given[s] > 0 =>
              Cardinality(Holders(s)) + Avail(s) = given[s]

IInv ==
    /\ TypeOK /\ UsersOfSems /\ CreatorAlone /\ SlockTaken /\ SlockExclusive
    /\ QueueSound /\ CountsSleepers /\ HoldersSound /\ UnitsConserved

-----------------------------------------------------------------------------
(* What P and V do to one semaphore *)

\* semaphore_P takes a unit where there is one, and joins the queue otherwise.
PDownTakes(t) ==
    LET s == sem[t]
    IN  /\ value[s] > 0
        /\ value' = [value EXCEPT ![s] = @ - 1]
        /\ holds' = IF given[s] > 0 THEN [holds EXCEPT ![t] = s] ELSE holds
        /\ UNCHANGED sleepers

PDownWaits(t) ==
    LET s == sem[t]
    IN  /\ value[s] <= 0
        /\ value' = [value EXCEPT ![s] = @ - 1]
        /\ sleepers' = [sleepers EXCEPT ![s] = Append(@, t)]
        /\ UNCHANGED holds

LEMMA PDownFacts ==
    ASSUME IInv, NEW t \in Thread, PDown(t)
    PROVE  /\ sem[t] \in Sem /\ at[t] = "p" /\ at' = [at EXCEPT ![t] = "p_release"]
           /\ UNCHANGED <<creator, slock, next, sem, given>>
           /\ PDownTakes(t) \/ PDownWaits(t)
<1>1. sem[t] \in Sem /\ at[t] = "p" /\ value[sem[t]] \in Int
  BY DEF PDown, IInv, UsersOfSems, TypeOK
<1>2. CASE MustSleep(value[sem[t]] - 1)
  BY <1>1, <1>2 DEF PDown, PDownWaits, MustSleep, Enqueue
<1>3. CASE ~ MustSleep(value[sem[t]] - 1)
  BY <1>1, <1>3 DEF PDown, PDownTakes, MustSleep, Holding
<1> QED BY <1>1, <1>2, <1>3 DEF PDown

\* semaphore_V raises the value where nobody waits, and otherwise hands the
\* unit to the first of the queue, which is asleep.
VUpRaises(t) ==
    LET s == sem[t]
    IN  /\ sleepers[s] = <<>> /\ value[s] >= 0
        /\ value' = [value EXCEPT ![s] = @ + 1]
        /\ at' = [at EXCEPT ![t] = "v_release"]
        /\ holds' = IF given[s] > 0 THEN [holds EXCEPT ![t] = None] ELSE holds
        /\ UNCHANGED sleepers

VUpWakes(t) ==
    LET s == sem[t]
        h == Head(sleepers[s])
    IN  /\ sleepers[s] # <<>> /\ value[s] < 0
        /\ value' = [value EXCEPT ![s] = @ + 1]
        /\ sleepers' = [sleepers EXCEPT ![s] = Tail(@)]
        /\ h \in Thread /\ h # t /\ at[h] = "asleep" /\ sem[h] = s
        /\ at' = [at EXCEPT ![t] = "v_release", ![h] = "out"]
        /\ holds' = IF given[s] > 0 THEN [holds EXCEPT ![t] = None, ![h] = s] ELSE holds

LEMMA VUpFacts ==
    ASSUME IInv, NEW t \in Thread, VUp(t)
    PROVE  /\ sem[t] \in Sem /\ at[t] = "v"
           /\ UNCHANGED <<creator, slock, next, sem, given>>
           /\ VUpRaises(t) \/ VUpWakes(t)
<1> DEFINE s == sem[t]
           h == Head(sleepers[s])
<1>1. s \in Sem /\ at[t] = "v" /\ value[s] \in Int /\ sleepers[s] \in Seq(Thread)
  BY DEF VUp, IInv, UsersOfSems, TypeOK
<1>2. /\ value[s] < 0 <=> sleepers[s] # <<>>
      /\ MustWake(value[s] + 1) <=> value[s] < 0
  BY <1>1 DEF IInv, CountsSleepers, MustWake
<1>3. /\ given[s] > 0 => holds[t] = s
      /\ ~ (given[s] > 0) => \A u \in Thread : holds[u] # s
  BY <1>1 DEF IInv, HoldersSound, Holders, TypeOK
<1>4. CASE sleepers[s] = <<>>
  <2>1. /\ value' = [value EXCEPT ![s] = value[s] + 1]
        /\ sleepers' = [sleepers EXCEPT ![s] = sleepers[s]]
        /\ at' = [u \in Thread |-> IF u = t THEN "v_release" ELSE at[u]]
        /\ holds' = [u \in Thread |-> IF u = t /\ holds[u] = s THEN None ELSE holds[u]]
    BY <1>2, <1>4 DEF VUp
  <2>2. VUpRaises(t)
    <3> HIDE DEF s, h
    <3>1. at' = [at EXCEPT ![t] = "v_release"] /\ sleepers' = sleepers
      BY <1>1, <1>4, <2>1 DEF IInv, TypeOK
    <3>2. holds' = IF given[s] > 0 THEN [holds EXCEPT ![t] = None] ELSE holds
      BY <2>1, <1>3 DEF IInv, TypeOK
    <3>3. sleepers[s] = <<>> /\ value[s] >= 0 /\ value' = [value EXCEPT ![s] = value[s] + 1]
      BY <1>1, <1>2, <1>4, <2>1 
    <3> QED BY <3>1, <3>2, <3>3 DEF VUpRaises, s
  <2> QED BY <1>1, <2>2 DEF VUp
<1>5. CASE sleepers[s] # <<>>
  <2>1. /\ value' = [value EXCEPT ![s] = value[s] + 1]
        /\ sleepers' = [sleepers EXCEPT ![s] = Tail(sleepers[s])]
        /\ at' = [u \in Thread |-> IF u = t THEN "v_release"
                                   ELSE IF u = h /\ at[u] = "asleep" THEN "out" ELSE at[u]]
        /\ holds' = [u \in Thread |-> IF given[s] > 0 /\ u = h THEN s
                                      ELSE IF u = t /\ holds[u] = s THEN None ELSE holds[u]]
    BY <1>2, <1>5 DEF VUp, Woken
  <2>2. h \in Thread /\ Queued(h, s)
    BY <1>1, <1>5 DEF Queued
  <2>3. at[h] \in {"p_release", "asleep"} /\ sem[h] = s
    BY <1>1, <2>2 DEF IInv, QueueSound
  <2>4. at[h] # "p_release" /\ h # t
    BY <1>1, <2>2, <2>3 DEF IInv, SlockExclusive, Locking
  <2> HIDE DEF h, s
  <2>5. VUpWakes(t)
    <3>1. at' = [at EXCEPT ![t] = "v_release", ![h] = "out"]
      BY <2>1, <2>2, <2>3, <2>4 DEF IInv, TypeOK
    <3>2. holds' = IF given[s] > 0 THEN [holds EXCEPT ![t] = None, ![h] = s] ELSE holds
      BY <2>1, <2>2, <2>4, <1>3 DEF IInv, TypeOK
    <3> QED BY <1>2, <1>5, <2>1, <2>2, <2>3, <2>4, <3>1, <3>2 DEF VUpWakes, s, h
  <2> QED BY <1>1, <2>5 DEF VUp, s
<1> QED BY <1>4, <1>5

-----------------------------------------------------------------------------
(* Types *)

\* V moves the caller on, and other threads at most out of their sleep.
LEMMA VUpOthers ==
    ASSUME IInv, NEW t \in Thread, VUp(t)
    PROVE  /\ UNCHANGED <<creator, slock, next, sem, given>>
           /\ at[t] = "v" /\ at'[t] = "v_release"
           /\ \A u \in Thread : u # t => at'[u] = at[u] \/ (at[u] = "asleep" /\ at'[u] = "out")
           /\ \A s : Locking(s)' \subseteq Locking(s)
<1>1. /\ UNCHANGED <<creator, slock, next, sem, given>>
      /\ at[t] = "v" /\ (VUpRaises(t) \/ VUpWakes(t))
      /\ at \in [Thread -> {"out", "create", "p", "p_release", "asleep", "v", "v_release"}]
  BY VUpFacts DEF IInv, TypeOK
<1>2. /\ at'[t] = "v_release"
      /\ \A u \in Thread : u # t => at'[u] = at[u] \/ (at[u] = "asleep" /\ at'[u] = "out")
  <2>1. CASE VUpRaises(t)
    <3>1. at' = [at EXCEPT ![t] = "v_release"]
      BY <2>1 DEF VUpRaises
    <3> QED BY <1>1, <3>1
  <2>2. CASE VUpWakes(t)
    <3>1. PICK h \in Thread : h # t /\ at[h] = "asleep"
                             /\ at' = [at EXCEPT ![t] = "v_release", ![h] = "out"]
      BY <2>2 DEF VUpWakes
    <3> QED BY <1>1, <3>1
  <2> QED BY <1>1, <2>1, <2>2
<1> QED BY <1>1, <1>2 DEF Locking

\* Every action keeps the types.
LEMMA TypeStep == IInv /\ [Next]_vars => TypeOK'
<1> SUFFICES ASSUME IInv, [Next]_vars PROVE TypeOK'
  OBVIOUS
<1>0. /\ TypeOK /\ UsersOfSems /\ CreatorAlone /\ SlockTaken /\ SlockExclusive
      /\ QueueSound /\ CountsSleepers /\ HoldersSound /\ UnitsConserved
  BY DEF IInv
<1> USE <1>0
<1> USE DEF TypeOK
<1>1. CASE UNCHANGED vars
  BY <1>1 DEF vars
<1>2. ASSUME NEW t \in Thread, NEW v \in StartValues, Create(t, v) PROVE TypeOK'
  <2>1. \A s \in Sem : NextAfter(s) \in Sem
    BY DEF NextAfter, Sem
  <2> QED BY <1>2, <2>1 DEF Create, FoundFree, Reserve
<1>3. ASSUME NEW t \in Thread, NEW s \in Sem, Unused(s), Destroy(t, s) PROVE TypeOK'
  BY <1>3 DEF Destroy, Unused, Users
<1>4. ASSUME NEW t \in Thread, NEW s \in Sem, PAcquire(t, s) PROVE TypeOK'
  BY <1>4 DEF PAcquire, AcquireSlock, Ready, Users
<1>5. ASSUME NEW t \in Thread, NEW s \in Sem, VAcquire(t, s) PROVE TypeOK'
  BY <1>5 DEF VAcquire, AcquireSlock, Ready, Users
<1>6. ASSUME NEW t \in Thread, CreateInit(t) PROVE TypeOK'
  <2>1. sem[t] \in Sem
    BY <1>6 DEF CreateInit, UsersOfSems
  <2> QED BY <1>6, <2>1 DEF CreateInit
<1>7. ASSUME NEW t \in Thread, PDown(t) PROVE TypeOK'
  <2>0. sem[t] \in Sem /\ at' = [at EXCEPT ![t] = "p_release"]
        /\ UNCHANGED <<creator, slock, next, sem, given>>
        /\ (PDownTakes(t) \/ PDownWaits(t))
    BY <1>7, PDownFacts
  <2>1. CASE PDownTakes(t)
    BY <2>0, <2>1 DEF PDownTakes
  <2>2. CASE PDownWaits(t)
    <3>1. Append(sleepers[sem[t]], t) \in Seq(Thread) /\ value[sem[t]] - 1 \in Int
      BY <2>0
    <3> QED BY <2>0, <2>2, <3>1 DEF PDownWaits
  <2> QED BY <2>0, <2>1, <2>2
<1>8. ASSUME NEW t \in Thread, PRelease(t) PROVE TypeOK'
  BY <1>8 DEF PRelease
<1>9. ASSUME NEW t \in Thread, VUp(t) PROVE TypeOK'
  <2>0. /\ sem[t] \in Sem /\ UNCHANGED <<creator, slock, next, sem, given>>
        /\ VUpRaises(t) \/ VUpWakes(t)
    BY <1>9, VUpFacts
  <2>1. CASE VUpRaises(t)
    <3>1. /\ value' \in [Sem -> Int] /\ holds' \in [Thread -> Sem \cup {None}]
          /\ UNCHANGED sleepers
      BY <2>0, <2>1 DEF VUpRaises
    <3>2. at' = [at EXCEPT ![t] = "v_release"]
      BY <2>0, <2>1 DEF VUpRaises
    <3> QED BY <2>0, <3>1, <3>2
  <2>2. CASE VUpWakes(t)
    <3>1. Tail(sleepers[sem[t]]) \in Seq(Thread)
      BY <2>0, <2>2 DEF VUpWakes
    <3>2. holds' \in [Thread -> Sem \cup {None}]
      BY <2>0, <2>2 DEF VUpWakes
    <3>5. value' \in [Sem -> Int]
      BY <2>0, <2>2 DEF VUpWakes
    <3>3. sleepers' \in [Sem -> Seq(Thread)]
      BY <2>0, <2>2, <3>1 DEF VUpWakes
    <3>4. at' \in [Thread -> {"out", "create", "p", "p_release", "asleep", "v", "v_release"}]
      BY <2>0, <2>2 DEF VUpWakes
    <3> QED BY <2>0, <3>2, <3>3, <3>4, <3>5
  <2> QED BY <2>0, <2>1, <2>2
<1>10. ASSUME NEW t \in Thread, VRelease(t) PROVE TypeOK'
  BY <1>10 DEF VRelease
<1> QED BY <1>1, <1>2, <1>3, <1>4, <1>5, <1>6, <1>7, <1>8, <1>9, <1>10 DEF Next, Step

-----------------------------------------------------------------------------
(* Users of a semaphore, and its spinlock *)

\* No semaphore is freed under a thread inside P, V or create.
LEMMA UsersStep == IInv /\ [Next]_vars => UsersOfSems'
<1> SUFFICES ASSUME IInv, [Next]_vars PROVE UsersOfSems'
  OBVIOUS
<1>0. /\ TypeOK /\ UsersOfSems /\ CreatorAlone /\ SlockTaken /\ SlockExclusive
      /\ QueueSound /\ CountsSleepers /\ HoldersSound /\ UnitsConserved
  BY DEF IInv
<1> USE <1>0
<1> USE DEF TypeOK, UsersOfSems
<1>1. CASE UNCHANGED vars
  BY <1>1 DEF vars
<1>2. ASSUME NEW t \in Thread, NEW v \in StartValues, Create(t, v) PROVE UsersOfSems'
  BY <1>2 DEF Create, FoundFree, Reserve
<1>3. ASSUME NEW t \in Thread, NEW s \in Sem, Unused(s), Destroy(t, s) PROVE UsersOfSems'
  BY <1>3 DEF Destroy, Unused, Users
<1>4. ASSUME NEW t \in Thread, NEW s \in Sem, PAcquire(t, s) PROVE UsersOfSems'
  BY <1>4 DEF PAcquire, AcquireSlock, Ready, Users
<1>5. ASSUME NEW t \in Thread, NEW s \in Sem, VAcquire(t, s) PROVE UsersOfSems'
  BY <1>5 DEF VAcquire, AcquireSlock, Ready, Users
<1>6. ASSUME NEW t \in Thread, CreateInit(t) PROVE UsersOfSems'
  BY <1>6 DEF CreateInit
<1>7. ASSUME NEW t \in Thread, PDown(t) PROVE UsersOfSems'
  BY <1>7, PDownFacts
<1>8. ASSUME NEW t \in Thread, PRelease(t) PROVE UsersOfSems'
  BY <1>8 DEF PRelease
<1>9. ASSUME NEW t \in Thread, VUp(t) PROVE UsersOfSems'
  BY <1>9, VUpOthers
<1>10. ASSUME NEW t \in Thread, VRelease(t) PROVE UsersOfSems'
  BY <1>10 DEF VRelease
<1> QED BY <1>1, <1>2, <1>3, <1>4, <1>5, <1>6, <1>7, <1>8, <1>9, <1>10 DEF Next, Step

\* Nobody uses a semaphore before its creator has set its value.
LEMMA CreatorStep == IInv /\ [Next]_vars => CreatorAlone'
<1> SUFFICES ASSUME IInv, [Next]_vars PROVE CreatorAlone'
  OBVIOUS
<1>0. /\ TypeOK /\ UsersOfSems /\ CreatorAlone /\ SlockTaken /\ SlockExclusive
      /\ QueueSound /\ CountsSleepers /\ HoldersSound /\ UnitsConserved
  BY DEF IInv
<1> USE <1>0
<1> USE DEF TypeOK, UsersOfSems, CreatorAlone
<1>1. CASE UNCHANGED vars
  BY <1>1 DEF vars
<1>2. ASSUME NEW t \in Thread, NEW v \in StartValues, Create(t, v) PROVE CreatorAlone'
  BY <1>2 DEF Create, FoundFree, Reserve
<1>3. ASSUME NEW t \in Thread, NEW s \in Sem, Unused(s), Destroy(t, s) PROVE CreatorAlone'
  BY <1>3 DEF Destroy, Unused, Users
<1>4. ASSUME NEW t \in Thread, NEW s \in Sem, PAcquire(t, s) PROVE CreatorAlone'
  BY <1>4 DEF PAcquire, AcquireSlock, Ready, Users
<1>5. ASSUME NEW t \in Thread, NEW s \in Sem, VAcquire(t, s) PROVE CreatorAlone'
  BY <1>5 DEF VAcquire, AcquireSlock, Ready, Users
<1>6. ASSUME NEW t \in Thread, CreateInit(t) PROVE CreatorAlone'
  BY <1>6 DEF CreateInit
<1>7. ASSUME NEW t \in Thread, PDown(t) PROVE CreatorAlone'
  BY <1>7, PDownFacts
<1>8. ASSUME NEW t \in Thread, PRelease(t) PROVE CreatorAlone'
  BY <1>8 DEF PRelease
<1>9. ASSUME NEW t \in Thread, VUp(t) PROVE CreatorAlone'
  BY <1>9, VUpOthers
<1>10. ASSUME NEW t \in Thread, VRelease(t) PROVE CreatorAlone'
  BY <1>10 DEF VRelease
<1> QED BY <1>1, <1>2, <1>3, <1>4, <1>5, <1>6, <1>7, <1>8, <1>9, <1>10 DEF Next, Step

\* The spinlock is given back, or reset by semaphore_create, by the one thread
\* that may.
LEMMA SlockTakenStep == IInv /\ [Next]_vars => SlockTaken'
<1> SUFFICES ASSUME IInv, [Next]_vars PROVE SlockTaken'
  OBVIOUS
<1>0. /\ TypeOK /\ UsersOfSems /\ CreatorAlone /\ SlockTaken /\ SlockExclusive
      /\ QueueSound /\ CountsSleepers /\ HoldersSound /\ UnitsConserved
  BY DEF IInv
<1> USE <1>0
<1> USE DEF TypeOK, UsersOfSems, CreatorAlone, SlockTaken, SlockExclusive, Locking
<1>1. CASE UNCHANGED vars
  BY <1>1 DEF vars
<1>2. ASSUME NEW t \in Thread, NEW v \in StartValues, Create(t, v) PROVE SlockTaken'
  BY <1>2 DEF Create, FoundFree, Reserve
<1>3. ASSUME NEW t \in Thread, NEW s \in Sem, Unused(s), Destroy(t, s) PROVE SlockTaken'
  BY <1>3 DEF Destroy, Unused, Users
<1>4. ASSUME NEW t \in Thread, NEW s \in Sem, PAcquire(t, s) PROVE SlockTaken'
  BY <1>4 DEF PAcquire, AcquireSlock, Ready, Users
<1>5. ASSUME NEW t \in Thread, NEW s \in Sem, VAcquire(t, s) PROVE SlockTaken'
  BY <1>5 DEF VAcquire, AcquireSlock, Ready, Users
<1>6. ASSUME NEW t \in Thread, CreateInit(t) PROVE SlockTaken'
  BY <1>6 DEF CreateInit
<1>7. ASSUME NEW t \in Thread, PDown(t) PROVE SlockTaken'
  BY <1>7, PDownFacts
<1>8. ASSUME NEW t \in Thread, PRelease(t) PROVE SlockTaken'
  BY <1>8 DEF PRelease
<1>9. ASSUME NEW t \in Thread, VUp(t) PROVE SlockTaken'
  BY <1>9, VUpOthers
<1>10. ASSUME NEW t \in Thread, VRelease(t) PROVE SlockTaken'
  BY <1>10 DEF VRelease
<1> QED BY <1>1, <1>2, <1>3, <1>4, <1>5, <1>6, <1>7, <1>8, <1>9, <1>10 DEF Next, Step

\* One thread at a time is between spinlock_acquire and spinlock_release.
LEMMA SlockStep == IInv /\ [Next]_vars => SlockExclusive'
<1> SUFFICES ASSUME IInv, [Next]_vars PROVE SlockExclusive'
  OBVIOUS
<1>0. /\ TypeOK /\ UsersOfSems /\ CreatorAlone /\ SlockTaken /\ SlockExclusive
      /\ QueueSound /\ CountsSleepers /\ HoldersSound /\ UnitsConserved
  BY DEF IInv
<1> USE <1>0
<1> USE DEF TypeOK, UsersOfSems, CreatorAlone, SlockTaken, SlockExclusive, Locking
<1>1. CASE UNCHANGED vars
  BY <1>1 DEF vars
<1>2. ASSUME NEW t \in Thread, NEW v \in StartValues, Create(t, v) PROVE SlockExclusive'
  BY <1>2 DEF Create, FoundFree, Reserve
<1>3. ASSUME NEW t \in Thread, NEW s \in Sem, Unused(s), Destroy(t, s) PROVE SlockExclusive'
  BY <1>3 DEF Destroy, Unused, Users
<1>4. ASSUME NEW t \in Thread, NEW s \in Sem, PAcquire(t, s) PROVE SlockExclusive'
  BY <1>4 DEF PAcquire, AcquireSlock, Ready, Users
<1>5. ASSUME NEW t \in Thread, NEW s \in Sem, VAcquire(t, s) PROVE SlockExclusive'
  BY <1>5 DEF VAcquire, AcquireSlock, Ready, Users
<1>6. ASSUME NEW t \in Thread, CreateInit(t) PROVE SlockExclusive'
  BY <1>6 DEF CreateInit
<1>7. ASSUME NEW t \in Thread, PDown(t) PROVE SlockExclusive'
  BY <1>7, PDownFacts
<1>8. ASSUME NEW t \in Thread, PRelease(t) PROVE SlockExclusive'
  BY <1>8 DEF PRelease
<1>9. ASSUME NEW t \in Thread, VUp(t) PROVE SlockExclusive'
  BY <1>9, VUpOthers
<1>10. ASSUME NEW t \in Thread, VRelease(t) PROVE SlockExclusive'
  BY <1>10 DEF VRelease
<1> QED BY <1>1, <1>2, <1>3, <1>4, <1>5, <1>6, <1>7, <1>8, <1>9, <1>10 DEF Next, Step

-----------------------------------------------------------------------------
(* The sleep queue *)

\* sleepq_add puts the thread behind the others.
LEMMA QueuedByP ==
    ASSUME IInv, NEW t \in Thread, PDown(t), PDownWaits(t)
    PROVE  /\ Len(sleepers'[sem[t]]) = Len(sleepers[sem[t]]) + 1
           /\ \A u \in Thread, s \in Sem :
                 Queued(u, s)' <=> Queued(u, s) \/ (u = t /\ s = sem[t])
           /\ \A s \in Sem : \A i, j \in 1 .. Len(sleepers'[s]) :
                 sleepers'[s][i] = sleepers'[s][j] => i = j
<1> DEFINE q == sleepers[sem[t]]
<1>1. /\ sem[t] \in Sem /\ q \in Seq(Thread) /\ at[t] = "p"
      /\ sleepers \in [Sem -> Seq(Thread)]
      /\ sleepers' = [sleepers EXCEPT ![sem[t]] = Append(q, t)]
  BY PDownFacts DEF IInv, TypeOK, PDownWaits
<1>2. /\ Len(q) \in Nat /\ Len(Append(q, t)) = Len(q) + 1
      /\ Append(q, t)[Len(q) + 1] = t /\ \A i \in 1 .. Len(q) : Append(q, t)[i] = q[i]
  BY <1>1
<1>3. ~ Queued(t, sem[t])
  BY <1>1 DEF IInv, QueueSound
<1> HIDE DEF q
<1>4. ASSUME NEW u \in Thread, NEW s \in Sem
      PROVE  Queued(u, s)' <=> Queued(u, s) \/ (u = t /\ s = sem[t])
  <2>1. CASE s = sem[t]
    BY <1>1, <1>2, <2>1 DEF Queued, q
  <2>2. CASE s # sem[t]
    BY <1>1, <2>2 DEF Queued
  <2> QED BY <2>1, <2>2
<1>5. ASSUME NEW s \in Sem, NEW i \in 1 .. Len(sleepers'[s]), NEW j \in 1 .. Len(sleepers'[s]),
             sleepers'[s][i] = sleepers'[s][j]
      PROVE  i = j
  <2>1. CASE s = sem[t]
    BY <1>1, <1>2, <1>3, <1>5, <2>1 DEF IInv, QueueSound, Queued, q
  <2>2. CASE s # sem[t]
    BY <1>1, <1>5, <2>2 DEF IInv, QueueSound
  <2> QED BY <2>1, <2>2
<1> QED BY <1>1, <1>2, <1>4, <1>5 DEF q

\* Nobody sleeps on a semaphore that is being created.
LEMMA CreatedEmpty ==
    ASSUME IInv, NEW t \in Thread, at[t] = "create"
    PROVE  sleepers[sem[t]] = <<>>
<1> DEFINE s == sem[t]
<1>1. s \in Sem /\ sleepers[s] \in Seq(Thread)
  BY DEF IInv, UsersOfSems, TypeOK
<1>2. ASSUME sleepers[s] # <<>> PROVE FALSE
  <2>1. 1 \in 1 .. Len(sleepers[s]) /\ sleepers[s][1] \in Thread
    BY <1>1, <1>2
  <2>2. PICK u \in Thread : Queued(u, s)
    BY <2>1 DEF Queued
  <2>3. at[u] \in {"p_release", "asleep"} /\ sem[u] = s
    BY <1>1, <2>2 DEF IInv, QueueSound
  <2> QED BY <2>3 DEF IInv, CreatorAlone
<1> QED BY <1>2

\* sleepq_wake takes the first thread off the queue.
LEMMA UnqueuedByV ==
    ASSUME IInv, NEW t \in Thread, VUp(t), VUpWakes(t)
    PROVE  /\ Len(sleepers'[sem[t]]) = Len(sleepers[sem[t]]) - 1
           /\ \A u \in Thread, s \in Sem :
                 Queued(u, s)' <=> Queued(u, s) /\ ~ (s = sem[t] /\ u = Head(sleepers[s]))
           /\ \A s \in Sem : \A i, j \in 1 .. Len(sleepers'[s]) :
                 sleepers'[s][i] = sleepers'[s][j] => i = j
<1> DEFINE q == sleepers[sem[t]]
<1>1. /\ sem[t] \in Sem /\ q \in Seq(Thread) /\ q # <<>>
      /\ sleepers \in [Sem -> Seq(Thread)]
      /\ sleepers' = [sleepers EXCEPT ![sem[t]] = Tail(q)]
  BY VUpFacts DEF IInv, TypeOK, VUpWakes
<1>2. /\ Len(q) \in Nat /\ Len(q) > 0 /\ Len(Tail(q)) = Len(q) - 1 /\ Head(q) = q[1]
      /\ \A i \in 1 .. (Len(q) - 1) : Tail(q)[i] = q[i + 1]
  BY <1>1
<1>3. \A i, j \in 1 .. Len(q) : q[i] = q[j] => i = j
  BY <1>1 DEF IInv, QueueSound
<1>4. ASSUME NEW u \in Thread, NEW s \in Sem
      PROVE  Queued(u, s)' <=> Queued(u, s) /\ ~ (s = sem[t] /\ u = Head(sleepers[s]))
  <2>1. CASE s = sem[t]
    <3>1. ASSUME Queued(u, s)' PROVE Queued(u, s) /\ u # q[1]
      <4>1. PICK i \in 1 .. (Len(q) - 1) : q[i + 1] = u
        BY <3>1, <2>1, <1>1, <1>2 DEF Queued
      <4>2. i + 1 \in 1 .. Len(q) /\ 1 \in 1 .. Len(q) /\ i + 1 # 1
        BY <1>2
      <4> QED BY <4>1, <4>2, <1>3, <2>1 DEF Queued
    <3>2. ASSUME Queued(u, s), u # q[1] PROVE Queued(u, s)'
      <4>1. PICK i \in 1 .. Len(q) : q[i] = u
        BY <3>2, <2>1 DEF Queued
      <4>2. i - 1 \in 1 .. (Len(q) - 1) /\ Tail(q)[i - 1] = u
        BY <4>1, <3>2, <1>2
      <4> QED BY <4>2, <1>1, <1>2, <2>1 DEF Queued
    <3> QED BY <3>1, <3>2, <2>1, <1>2
  <2>2. CASE s # sem[t]
    BY <1>1, <2>2 DEF Queued
  <2> QED BY <2>1, <2>2
<1>5. ASSUME NEW s \in Sem, NEW i \in 1 .. Len(sleepers'[s]), NEW j \in 1 .. Len(sleepers'[s]),
             sleepers'[s][i] = sleepers'[s][j]
      PROVE  i = j
  <2>1. CASE s = sem[t]
    <3>1. i \in 1 .. (Len(q) - 1) /\ j \in 1 .. (Len(q) - 1) /\ q[i + 1] = q[j + 1]
      BY <1>1, <1>2, <1>5, <2>1
    <3>2. i + 1 \in 1 .. Len(q) /\ j + 1 \in 1 .. Len(q)
      BY <1>2, <3>1
    <3> QED BY <1>3, <3>1, <3>2
  <2>2. CASE s # sem[t]
    BY <1>1, <1>5, <2>2 DEF IInv, QueueSound
  <2> QED BY <2>1, <2>2
<1> QED BY <1>1, <1>2, <1>4, <1>5

\* The sleep queue of a semaphore holds the threads asleep in its P.
LEMMA QueueStep == IInv /\ [Next]_vars => QueueSound'
<1> SUFFICES ASSUME IInv, [Next]_vars PROVE QueueSound'
  OBVIOUS
<1>0. /\ TypeOK /\ UsersOfSems /\ CreatorAlone /\ SlockTaken /\ SlockExclusive
      /\ QueueSound /\ CountsSleepers /\ HoldersSound /\ UnitsConserved
  BY DEF IInv
<1> USE <1>0
<1> USE DEF TypeOK, UsersOfSems, QueueSound
<1>1. CASE UNCHANGED vars
  <2>1. UNCHANGED <<sleepers, at, sem>>
    BY <1>1 DEF vars
  <2>2. \A u \in Thread, r \in Sem : Queued(u, r)' <=> Queued(u, r)
    BY <2>1 DEF Queued
  <2>3. \A u \in Thread : at[u] = "asleep" => sem[u] \in Sem
    OBVIOUS
  <2> QED BY <2>1, <2>2, <2>3
<1>2. ASSUME NEW t \in Thread, NEW v \in StartValues, Create(t, v) PROVE QueueSound'
  <2>1. \A u \in Thread, r \in Sem : Queued(u, r)' <=> Queued(u, r)
    BY <1>2 DEF Create, FoundFree, Reserve, Queued
  <2> QED BY <1>2, <2>1 DEF Create, FoundFree, Reserve
<1>3. ASSUME NEW t \in Thread, NEW s \in Sem, Unused(s), Destroy(t, s) PROVE QueueSound'
  <2>1. \A u \in Thread, r \in Sem : Queued(u, r)' <=> Queued(u, r)
    BY <1>3 DEF Destroy, Unused, Users, Queued
  <2> QED BY <1>3, <2>1 DEF Destroy, Unused, Users
<1>4. ASSUME NEW t \in Thread, NEW s \in Sem, PAcquire(t, s) PROVE QueueSound'
  <2>1. \A u \in Thread, r \in Sem : Queued(u, r)' <=> Queued(u, r)
    BY <1>4 DEF PAcquire, AcquireSlock, Ready, Users, Queued
  <2> QED BY <1>4, <2>1 DEF PAcquire, AcquireSlock, Ready, Users
<1>5. ASSUME NEW t \in Thread, NEW s \in Sem, VAcquire(t, s) PROVE QueueSound'
  <2>1. \A u \in Thread, r \in Sem : Queued(u, r)' <=> Queued(u, r)
    BY <1>5 DEF VAcquire, AcquireSlock, Ready, Users, Queued
  <2> QED BY <1>5, <2>1 DEF VAcquire, AcquireSlock, Ready, Users
<1>6. ASSUME NEW t \in Thread, CreateInit(t) PROVE QueueSound'
  <2>1. \A u \in Thread, r \in Sem : Queued(u, r)' <=> Queued(u, r)
    BY <1>6 DEF CreateInit, Queued
  <2> QED BY <1>6, <2>1 DEF CreateInit
<1>7. ASSUME NEW t \in Thread, PDown(t) PROVE QueueSound'
  <2>0. /\ sem[t] \in Sem /\ at[t] = "p" /\ at' = [at EXCEPT ![t] = "p_release"]
        /\ UNCHANGED sem /\ (PDownTakes(t) \/ PDownWaits(t))
    BY <1>7, PDownFacts
  <2>1. CASE PDownTakes(t)
    <3>1. /\ UNCHANGED sleepers
          /\ \A u \in Thread, r \in Sem : Queued(u, r)' <=> Queued(u, r)
      BY <2>1 DEF PDownTakes, Queued
    <3> QED BY <2>0, <3>1
  <2>2. CASE PDownWaits(t)
    <3>1. \A u \in Thread, s \in Sem :
             Queued(u, s)' <=> Queued(u, s) \/ (u = t /\ s = sem[t])
      BY <1>7, <2>2, QueuedByP
    <3>2. \A s \in Sem : \A i, j \in 1 .. Len(sleepers'[s]) :
             sleepers'[s][i] = sleepers'[s][j] => i = j
      BY <1>7, <2>2, QueuedByP
    <3> QED BY <2>0, <3>1, <3>2
  <2> QED BY <2>0, <2>1, <2>2
<1>8. ASSUME NEW t \in Thread, PRelease(t) PROVE QueueSound'
  <2>1. /\ \A u \in Thread, r \in Sem : Queued(u, r)' <=> Queued(u, r)
        /\ Asleep(t) <=> \E r \in Sem : Queued(t, r)
    BY <1>8 DEF PRelease, Asleep, Queued
  <2> QED BY <1>8, <2>1 DEF PRelease
<1>9. ASSUME NEW t \in Thread, VUp(t) PROVE QueueSound'
  <2>0. /\ sem[t] \in Sem /\ at[t] = "v" /\ UNCHANGED sem
        /\ VUpRaises(t) \/ VUpWakes(t)
    BY <1>9, VUpFacts
  <2>1. CASE VUpRaises(t)
    <3>1. /\ UNCHANGED sleepers /\ at' = [at EXCEPT ![t] = "v_release"]
          /\ \A u \in Thread, r \in Sem : Queued(u, r)' <=> Queued(u, r)
      BY <2>1 DEF VUpRaises, Queued
    <3> QED BY <2>0, <3>1
  <2>2. CASE VUpWakes(t)
    <3> DEFINE h == Head(sleepers[sem[t]])
    <3>1. \A u \in Thread, s \in Sem :
             Queued(u, s)' <=> Queued(u, s) /\ ~ (s = sem[t] /\ u = Head(sleepers[s]))
      BY <1>9, <2>2, UnqueuedByV
    <3>2. \A s \in Sem : \A i, j \in 1 .. Len(sleepers'[s]) :
             sleepers'[s][i] = sleepers'[s][j] => i = j
      BY <1>9, <2>2, UnqueuedByV
    <3>3. /\ at' = [at EXCEPT ![t] = "v_release", ![h] = "out"]
          /\ h \in Thread /\ h # t /\ at[h] = "asleep" /\ sem[h] = sem[t]
      BY <2>2 DEF VUpWakes
    <3> HIDE DEF h
    <3>4. \A u \in Thread, s \in Sem : Queued(u, s)' => Queued(u, s) /\ u # h
      BY <2>0, <3>1, <3>3 DEF h
    <3>5. \A u \in Thread, s \in Sem : Queued(u, s) /\ u # h => Queued(u, s)'
      BY <2>0, <3>1 DEF h
    <3>6. \A s \in Sem : \A u \in Thread :
             Queued(u, s)' => at'[u] \in {"p_release", "asleep"} /\ sem'[u] = s
      BY <2>0, <3>3, <3>4, ZenonT(30)
    <3>7. \A u \in Thread : at'[u] = "asleep" => Queued(u, sem[u])'
      <4> SUFFICES ASSUME NEW u \in Thread, at'[u] = "asleep" PROVE Queued(u, sem[u])'
        OBVIOUS
      <4>1. u # h /\ at[u] = "asleep"
        BY <3>3
      <4>2. sem[u] \in Sem /\ sem'[u] = sem[u] /\ Queued(u, sem[u])
        BY <2>0, <4>1
      <4> QED BY <3>5, <4>1, <4>2
    <3> QED BY <2>0, <3>2, <3>6, <3>7
  <2> QED BY <2>0, <2>1, <2>2
<1>10. ASSUME NEW t \in Thread, VRelease(t) PROVE QueueSound'
  <2>1. \A u \in Thread, r \in Sem : Queued(u, r)' <=> Queued(u, r)
    BY <1>10 DEF VRelease, Queued
  <2> QED BY <1>10, <2>1 DEF VRelease
<1> QED BY <1>1, <1>2, <1>3, <1>4, <1>5, <1>6, <1>7, <1>8, <1>9, <1>10 DEF Next, Step

\* P and V change value and queue together.
LEMMA CountStep == IInv /\ [Next]_vars => CountsSleepers'
<1> SUFFICES ASSUME IInv, [Next]_vars PROVE CountsSleepers'
  OBVIOUS
<1>0. /\ TypeOK /\ UsersOfSems /\ CreatorAlone /\ SlockTaken /\ SlockExclusive
      /\ QueueSound /\ CountsSleepers /\ HoldersSound /\ UnitsConserved
  BY DEF IInv
<1> USE <1>0
<1> USE DEF TypeOK, CountsSleepers
<1>1. CASE UNCHANGED vars
  BY <1>1 DEF vars
<1>2. ASSUME NEW t \in Thread, NEW v \in StartValues, Create(t, v) PROVE CountsSleepers'
  BY <1>2 DEF Create, FoundFree, Reserve
<1>3. ASSUME NEW t \in Thread, NEW s \in Sem, Unused(s), Destroy(t, s) PROVE CountsSleepers'
  BY <1>3 DEF Destroy, Unused, Users
<1>4. ASSUME NEW t \in Thread, NEW s \in Sem, PAcquire(t, s) PROVE CountsSleepers'
  BY <1>4 DEF PAcquire, AcquireSlock, Ready, Users
<1>5. ASSUME NEW t \in Thread, NEW s \in Sem, VAcquire(t, s) PROVE CountsSleepers'
  BY <1>5 DEF VAcquire, AcquireSlock, Ready, Users
<1>6. ASSUME NEW t \in Thread, CreateInit(t) PROVE CountsSleepers'
  <2> DEFINE s == sem[t]
  <2>1. s \in Sem /\ sleepers[s] \in Seq(Thread) /\ value' = [value EXCEPT ![s] = given[s]]
    BY <1>6 DEF CreateInit, UsersOfSems
  <2>2. sleepers[s] = <<>>
    BY <1>6, CreatedEmpty DEF CreateInit
  <2> QED BY <1>6, <2>1, <2>2 DEF CreateInit
<1>7. ASSUME NEW t \in Thread, PDown(t) PROVE CountsSleepers'
  <2>0. sem[t] \in Sem /\ (PDownTakes(t) \/ PDownWaits(t))
    BY <1>7, PDownFacts
  <2>1. CASE PDownTakes(t)
    BY <2>0, <2>1 DEF PDownTakes
  <2>2. CASE PDownWaits(t)
    <3>1. Len(sleepers'[sem[t]]) = Len(sleepers[sem[t]]) + 1
      BY <1>7, <2>2, QueuedByP
    <3> QED BY <2>0, <2>2, <3>1 DEF PDownWaits
  <2> QED BY <2>0, <2>1, <2>2
<1>8. ASSUME NEW t \in Thread, PRelease(t) PROVE CountsSleepers'
  BY <1>8 DEF PRelease
<1>9. ASSUME NEW t \in Thread, VUp(t) PROVE CountsSleepers'
  <2>0. sem[t] \in Sem /\ (VUpRaises(t) \/ VUpWakes(t))
    BY <1>9, VUpFacts
  <2>1. CASE VUpRaises(t)
    BY <2>0, <2>1 DEF VUpRaises
  <2>2. CASE VUpWakes(t)
    <3>1. Len(sleepers'[sem[t]]) = Len(sleepers[sem[t]]) - 1
      BY <1>9, <2>2, UnqueuedByV
    <3> QED BY <2>0, <2>2, <3>1 DEF VUpWakes
  <2> QED BY <2>0, <2>1, <2>2
<1>10. ASSUME NEW t \in Thread, VRelease(t) PROVE CountsSleepers'
  BY <1>10 DEF VRelease
<1> QED BY <1>1, <1>2, <1>3, <1>4, <1>5, <1>6, <1>7, <1>8, <1>9, <1>10 DEF Next, Step

-----------------------------------------------------------------------------
(* Holders of a guard *)

\* No semaphore has the number that stands for none.
LEMMA NoneFacts == None \notin Sem
BY DEF None, Sem

\* Who gets past P of a guard holds it until it calls V.
LEMMA HoldersStep == IInv /\ [Next]_vars => HoldersSound'
<1> SUFFICES ASSUME IInv, [Next]_vars PROVE HoldersSound'
  OBVIOUS
<1>0. /\ TypeOK /\ UsersOfSems /\ CreatorAlone /\ SlockTaken /\ SlockExclusive
      /\ QueueSound /\ CountsSleepers /\ HoldersSound /\ UnitsConserved
  BY DEF IInv
<1> USE <1>0
<1> USE DEF TypeOK, UsersOfSems, HoldersSound
<1>1. CASE UNCHANGED vars
  <2>1. /\ \A r \in Sem : Holders(r)' = Holders(r)
        /\ \A u \in Thread : \A r \in Sem : Queued(u, r)' <=> Queued(u, r)
    BY <1>1 DEF vars, Queued, Holders
  <2> QED BY <1>1, <2>1 DEF vars
<1>2. ASSUME NEW t \in Thread, NEW v \in StartValues, Create(t, v) PROVE HoldersSound'
  <2>1. /\ \A r \in Sem : Holders(r)' = Holders(r)
        /\ \A u \in Thread : \A r \in Sem : Queued(u, r)' <=> Queued(u, r)
    BY <1>2 DEF Create, Queued, Holders
  <2>2. PICK s \in Sem : /\ creator[s] = None /\ creator' = [creator EXCEPT ![s] = t]
                        /\ sem' = [sem EXCEPT ![t] = s] /\ given' = [given EXCEPT ![s] = v]
    BY <1>2 DEF Create, FoundFree, Reserve
  <2>3. at[t] = "out" /\ at' = [at EXCEPT ![t] = "create"] /\ UNCHANGED holds
    BY <1>2 DEF Create
  <2>4. Holders(s) = {} /\ \A u \in Thread : at[u] # "out" => sem[u] # s
    BY <2>2
  <2> QED BY <2>1, <2>2, <2>3, <2>4
<1>3. ASSUME NEW t \in Thread, NEW s \in Sem, Unused(s), Destroy(t, s) PROVE HoldersSound'
  <2>1. /\ \A r \in Sem : Holders(r)' = Holders(r)
        /\ \A u \in Thread : \A r \in Sem : Queued(u, r)' <=> Queued(u, r)
        /\ Holders(s) = {}
    BY <1>3 DEF Destroy, Unused, Queued, Holders
  <2>2. UNCHANGED <<at, sem, given, holds>> /\ creator' = [creator EXCEPT ![s] = None]
    BY <1>3 DEF Destroy
  <2> QED BY <2>1, <2>2
<1>4. ASSUME NEW t \in Thread, NEW s \in Sem, PAcquire(t, s) PROVE HoldersSound'
  <2>1. /\ \A r \in Sem : Holders(r)' = Holders(r)
        /\ \A u \in Thread : \A r \in Sem : Queued(u, r)' <=> Queued(u, r)
    BY <1>4 DEF PAcquire, AcquireSlock, Ready, Users, Queued, Holders
  <2> QED BY <1>4, <2>1 DEF PAcquire, AcquireSlock, Ready, Users
<1>5. ASSUME NEW t \in Thread, NEW s \in Sem, VAcquire(t, s) PROVE HoldersSound'
  <2>1. /\ \A r \in Sem : Holders(r)' = Holders(r)
        /\ \A u \in Thread : \A r \in Sem : Queued(u, r)' <=> Queued(u, r)
    BY <1>5 DEF VAcquire, AcquireSlock, Ready, Users, Queued, Holders
  <2> QED BY <1>5, <2>1 DEF VAcquire, AcquireSlock, Ready, Users
<1>6. ASSUME NEW t \in Thread, CreateInit(t) PROVE HoldersSound'
  <2>1. /\ \A r \in Sem : Holders(r)' = Holders(r)
        /\ \A u \in Thread : \A r \in Sem : Queued(u, r)' <=> Queued(u, r)
    BY <1>6 DEF CreateInit, Queued, Holders
  <2> QED BY <1>6, <2>1 DEF CreateInit
<1>7. ASSUME NEW t \in Thread, PDown(t) PROVE HoldersSound'
  <2>0. /\ sem[t] \in Sem /\ at[t] = "p" /\ at' = [at EXCEPT ![t] = "p_release"]
        /\ UNCHANGED <<creator, sem, given>> /\ (PDownTakes(t) \/ PDownWaits(t))
    BY <1>7, PDownFacts
  <2>1. CASE PDownTakes(t)
    <3>1. /\ \A u \in Thread : \A r \in Sem : Queued(u, r)' <=> Queued(u, r)
          /\ holds' = IF given[sem[t]] > 0 THEN [holds EXCEPT ![t] = sem[t]] ELSE holds
      BY <2>1 DEF PDownTakes, Queued
    <3>2. ~ Queued(t, sem[t]) /\ creator[sem[t]] # None
      BY <2>0 DEF QueueSound
    <3>3. \A u \in Thread : at[u] = "create" => sem[u] # sem[t]
      BY <2>0 DEF CreatorAlone
    <3>4. \A r \in Sem : r # sem[t] \/ given[r] = 0 => Holders(r)' \subseteq Holders(r)
      BY <2>0, <3>1 DEF Holders
    <3>5. \A u \in Thread : u # t => holds'[u] = holds[u]
      BY <3>1
    <3>6. \A r \in Sem : (creator'[r] = None \/ given'[r] = 0) => Holders(r)' = {}
      BY <2>0, <3>2, <3>4
    <3>7. \A u \in Thread : at'[u] = "create" => Holders(sem[u])' = {}
      BY <2>0, <3>3, <3>4
    <3>8. \A u \in Thread :
             /\ at'[u] \in {"p", "asleep"} => holds'[u] = None
             /\ at'[u] = "p_release" /\ Queued(u, sem[u])' => holds'[u] = None
             /\ at'[u] = "v" /\ given'[sem'[u]] > 0 => holds'[u] = sem'[u]
      BY <2>0, <3>1, <3>2, <3>5
    <3> QED BY <3>6, <3>7, <3>8
  <2>2. CASE PDownWaits(t)
    <3>1. \A u \in Thread : \A r \in Sem :
             Queued(u, r)' <=> Queued(u, r) \/ (u = t /\ r = sem[t])
      BY <1>7, <2>2, QueuedByP
    <3>2. UNCHANGED holds /\ \A r \in Sem : Holders(r)' = Holders(r)
      BY <2>2 DEF PDownWaits, Holders
    <3> QED BY <2>0, <3>1, <3>2, ZenonT(30)
  <2> QED BY <2>0, <2>1, <2>2
<1>8. ASSUME NEW t \in Thread, PRelease(t) PROVE HoldersSound'
  <2>1. /\ \A r \in Sem : Holders(r)' = Holders(r)
        /\ \A u \in Thread : \A r \in Sem : Queued(u, r)' <=> Queued(u, r)
        /\ Asleep(t) => \E r \in Sem : Queued(t, r)
    BY <1>8 DEF PRelease, Queued, Holders, Asleep
  <2>2. Asleep(t) => holds[t] = None
    BY <1>8, <2>1 DEF PRelease, QueueSound
  <2> QED BY <1>8, <2>1, <2>2 DEF PRelease
<1>9. ASSUME NEW t \in Thread, VUp(t) PROVE HoldersSound'
  <2>0. /\ sem[t] \in Sem /\ at[t] = "v" /\ UNCHANGED <<creator, sem, given>>
        /\ VUpRaises(t) \/ VUpWakes(t)
        /\ creator[sem[t]] # None
        /\ \A u \in Thread : at[u] = "create" => sem[u] # sem[t]
    BY <1>9, VUpFacts DEF CreatorAlone
  <2>1. CASE VUpRaises(t)
    <3>1. /\ \A u \in Thread : \A r \in Sem : Queued(u, r)' <=> Queued(u, r)
          /\ holds' = IF given[sem[t]] > 0 THEN [holds EXCEPT ![t] = None] ELSE holds
          /\ at' = [at EXCEPT ![t] = "v_release"]
      BY <2>1 DEF VUpRaises, Queued
    <3>2. \A r \in Sem : Holders(r)' \subseteq Holders(r)
      BY <3>1, NoneFacts DEF Holders
    <3> QED BY <2>0, <3>1, <3>2
  <2>2. CASE VUpWakes(t)
    <3> DEFINE h == Head(sleepers[sem[t]])
    <3>1. \A u \in Thread : \A r \in Sem : Queued(u, r)' => Queued(u, r)
      BY <1>9, <2>2, UnqueuedByV
    <3>2. /\ at' = [at EXCEPT ![t] = "v_release", ![h] = "out"]
          /\ h \in Thread /\ h # t /\ at[h] = "asleep" /\ sem[h] = sem[t]
          /\ holds' = IF given[sem[t]] > 0 THEN [holds EXCEPT ![t] = None, ![h] = sem[t]]
                      ELSE holds
      BY <2>2 DEF VUpWakes
    <3> HIDE DEF h
    <3>3. \A r \in Sem : r # sem[t] \/ given[r] = 0 => Holders(r)' \subseteq Holders(r)
      BY <2>0, <3>2, NoneFacts DEF Holders
    <3>4. \A u \in Thread : u \notin {t, h} => holds'[u] = holds[u] /\ at'[u] = at[u]
      BY <3>2
    <3>5. at'[t] = "v_release" /\ at'[h] = "out"
      BY <3>2
    <3> QED BY <2>0, <3>1, <3>2, <3>3, <3>4, <3>5
  <2> QED BY <2>0, <2>1, <2>2
<1>10. ASSUME NEW t \in Thread, VRelease(t) PROVE HoldersSound'
  <2>1. /\ \A r \in Sem : Holders(r)' = Holders(r)
        /\ \A u \in Thread : \A r \in Sem : Queued(u, r)' <=> Queued(u, r)
    BY <1>10 DEF VRelease, Queued, Holders
  <2> QED BY <1>10, <2>1, ZenonT(30) DEF VRelease
<1> QED BY <1>1, <1>2, <1>3, <1>4, <1>5, <1>6, <1>7, <1>8, <1>9, <1>10 DEF Next, Step

-----------------------------------------------------------------------------
(* The units of a guard *)

\* A unit of a guard is available, or held by one thread.
LEMMA UnitsStep == IInv /\ [Next]_vars => UnitsConserved'
<1> SUFFICES ASSUME IInv, [Next]_vars PROVE UnitsConserved'
  OBVIOUS
<1>0. /\ TypeOK /\ UsersOfSems /\ CreatorAlone /\ SlockTaken /\ SlockExclusive
      /\ QueueSound /\ CountsSleepers /\ HoldersSound /\ UnitsConserved
  BY DEF IInv
<1> USE <1>0
<1> USE DEF TypeOK, UsersOfSems, UnitsConserved, Avail
<1>1. CASE UNCHANGED vars
  BY <1>1 DEF vars, Creating, Holders
<1>2. ASSUME NEW t \in Thread, NEW v \in StartValues, Create(t, v) PROVE UnitsConserved'
  <2>1. PICK s \in Sem : /\ creator' = [creator EXCEPT ![s] = t]
                        /\ sem' = [sem EXCEPT ![t] = s] /\ given' = [given EXCEPT ![s] = v]
    BY <1>2 DEF Create, FoundFree, Reserve
  <2>2. /\ Creating(s)' /\ \A r \in Sem : r # s => (Creating(r)' <=> Creating(r))
        /\ \A r \in Sem : Holders(r)' = Holders(r)
    BY <1>2, <2>1 DEF Create, Creating, Holders
  <2> QED BY <1>2, <2>1, <2>2 DEF Create
<1>3. ASSUME NEW t \in Thread, NEW s \in Sem, Unused(s), Destroy(t, s) PROVE UnitsConserved'
  <2>1. /\ \A r \in Sem : Holders(r)' = Holders(r)
        /\ \A r \in Sem : Creating(r)' <=> Creating(r)
    BY <1>3 DEF Destroy, Unused, Users, Creating, Holders
  <2> QED BY <1>3, <2>1 DEF Destroy, Unused, Users
<1>4. ASSUME NEW t \in Thread, NEW s \in Sem, PAcquire(t, s) PROVE UnitsConserved'
  <2>1. /\ \A r \in Sem : Holders(r)' = Holders(r)
        /\ \A r \in Sem : Creating(r)' <=> Creating(r)
    BY <1>4 DEF PAcquire, AcquireSlock, Ready, Users, Creating, Holders
  <2> QED BY <1>4, <2>1 DEF PAcquire, AcquireSlock, Ready, Users
<1>5. ASSUME NEW t \in Thread, NEW s \in Sem, VAcquire(t, s) PROVE UnitsConserved'
  <2>1. /\ \A r \in Sem : Holders(r)' = Holders(r)
        /\ \A r \in Sem : Creating(r)' <=> Creating(r)
    BY <1>5 DEF VAcquire, AcquireSlock, Ready, Users, Creating, Holders
  <2> QED BY <1>5, <2>1 DEF VAcquire, AcquireSlock, Ready, Users
<1>6. ASSUME NEW t \in Thread, CreateInit(t) PROVE UnitsConserved'
  <2>0. PICK s \in Sem : s = sem[t]
    BY <1>6 DEF CreateInit, UsersOfSems
  <2>1. value' = [value EXCEPT ![s] = given[s]] /\ UNCHANGED <<creator, given>>
    BY <1>6, <2>0 DEF CreateInit
  <2>2. /\ Holders(s)' = {} /\ \A r \in Sem : Holders(r)' = Holders(r)
        /\ \A r \in Sem : r # s => (Creating(r)' <=> Creating(r))
    BY <1>6, <2>0, <2>1 DEF CreateInit, Creating, Holders, HoldersSound
  <2>3. given[s] > 0 => Cardinality(Holders(s)') + Avail(s)' = given[s]
    BY <2>1, <2>2, FS_EmptySet
  <2> QED BY <2>1, <2>2, <2>3
<1>7. ASSUME NEW t \in Thread, PDown(t) PROVE UnitsConserved'
  <2>9. PICK s \in Sem : s = sem[t]
    BY <1>7, PDownFacts
  <2>0. /\ at[t] = "p" /\ at' = [at EXCEPT ![t] = "p_release"]
        /\ UNCHANGED <<creator, sem, given>> /\ (PDownTakes(t) \/ PDownWaits(t))
        /\ holds[t] = None /\ value[s] \in Int
    BY <1>7, PDownFacts DEF HoldersSound
  <2>1. \A r \in Sem : Creating(r)' <=> Creating(r)
    BY <2>0 DEF Creating
  <2>2. CASE UNCHANGED holds
    <3>1. \A r \in Sem : Holders(r)' = Holders(r)
      BY <2>2 DEF Holders
    <3>2. \A r \in Sem : given[r] > 0 => Avail(r)' = Avail(r)
      BY <2>9, <2>0, <2>2, NoneFacts DEF PDownTakes, PDownWaits
    <3> QED BY <2>0, <2>1, <3>1, <3>2
  <2>3. CASE ~ UNCHANGED holds
    <3>1. /\ value[s] > 0 /\ value' = [value EXCEPT ![s] = value[s] - 1]
          /\ holds' = [holds EXCEPT ![t] = s]
      BY <2>9, <2>0, <2>3 DEF PDownTakes, PDownWaits
    <3>2. /\ t \notin Holders(s) /\ Holders(s)' = Holders(s) \cup {t}
          /\ \A r \in Sem : r # s => Holders(r)' = Holders(r)
      BY <2>0, <3>1, NoneFacts DEF Holders
    <3>3. /\ IsFiniteSet(Holders(s)')
          /\ Cardinality(Holders(s)') = Cardinality(Holders(s)) + 1
      BY <2>0, <3>2, FS_AddElement
    <3>4. Cardinality(Holders(s)) \in Nat
      BY <2>0, FS_CardinalityType
    <3>5. /\ Avail(s)' = Avail(s) - 1 /\ Avail(s) \in Nat
          /\ \A r \in Sem : r # s => Avail(r)' = Avail(r)
      BY <2>0, <3>1
    <3> SUFFICES ASSUME NEW r \in Sem
                 PROVE  /\ IsFiniteSet(Holders(r)')
                        /\ creator[r] # None /\ ~ Creating(r) /\ given[r] > 0 =>
                              Cardinality(Holders(r)') + Avail(r)' = given[r]
      BY <2>0, <2>1
    <3>7. CASE r = s
      BY <3>7, <2>0, <3>3, <3>4, <3>5
    <3>8. CASE r # s
      BY <3>8, <2>0, <3>2, <3>5
    <3> QED BY <3>7, <3>8
  <2> QED BY <2>2, <2>3
<1>8. ASSUME NEW t \in Thread, PRelease(t) PROVE UnitsConserved'
  <2>1. /\ \A r \in Sem : Holders(r)' = Holders(r)
        /\ \A r \in Sem : Creating(r)' <=> Creating(r)
    BY <1>8 DEF PRelease, Creating, Holders
  <2> QED BY <1>8, <2>1 DEF PRelease
<1>9. ASSUME NEW t \in Thread, VUp(t) PROVE UnitsConserved'
  <2>9. PICK s \in Sem : s = sem[t]
    BY <1>9, VUpFacts
  <2>0. /\ UNCHANGED <<creator, sem, given>> /\ at[t] = "v"
        /\ VUpRaises(t) \/ VUpWakes(t)
        /\ value[s] \in Int
        /\ given[s] > 0 => holds[t] = s
    BY <1>9, <2>9, VUpFacts DEF HoldersSound
  <2>1. /\ IsFiniteSet(Holders(s)) /\ Cardinality(Holders(s)) \in Nat
        /\ \A r \in Sem : Creating(r)' <=> Creating(r)
    BY <1>9, <2>0, VUpOthers, FS_CardinalityType DEF Creating
  <2>2. CASE ~ (given[s] > 0)
    <3>1. /\ \A r \in Sem : Holders(r)' = Holders(r)
          /\ \A r \in Sem : r # s => value'[r] = value[r]
      BY <2>9, <2>0, <2>2 DEF VUpRaises, VUpWakes, Holders
    <3> QED BY <2>0, <2>1, <2>2, <3>1
  <2>3. CASE given[s] > 0 /\ VUpRaises(t)
    <3>1. /\ value[s] >= 0 /\ value' = [value EXCEPT ![s] = value[s] + 1]
          /\ holds' = [holds EXCEPT ![t] = None]
      BY <2>9, <2>0, <2>3 DEF VUpRaises
    <3>2. /\ t \in Holders(s) /\ Holders(s)' = Holders(s) \ {t}
          /\ \A r \in Sem : r # s => Holders(r)' = Holders(r)
      BY <2>0, <2>3, <3>1, NoneFacts DEF Holders
    <3>3. /\ IsFiniteSet(Holders(s)')
          /\ Cardinality(Holders(s)') = Cardinality(Holders(s)) - 1
      BY ONLY <2>1, <3>2, FS_RemoveElement
    <3>4. /\ Avail(s)' = Avail(s) + 1 /\ Avail(s) \in Nat
          /\ \A r \in Sem : r # s => Avail(r)' = Avail(r)
      BY <2>0, <3>1
    <3> SUFFICES ASSUME NEW r \in Sem
                 PROVE  /\ IsFiniteSet(Holders(r)')
                        /\ creator[r] # None /\ ~ Creating(r) /\ given[r] > 0 =>
                              Cardinality(Holders(r)') + Avail(r)' = given[r]
      BY <2>0, <2>1
    <3>7. CASE r = s
      BY <3>7, <2>0, <2>1, <3>3, <3>4
    <3>8. CASE r # s
      BY <3>8, <2>0, <3>2, <3>4
    <3> QED BY <3>7, <3>8
  <2>4. CASE given[s] > 0 /\ VUpWakes(t)
    <3>0. /\ value[s] < 0 /\ value' = [value EXCEPT ![s] = value[s] + 1]
      BY <2>9, <2>0, <2>4 DEF VUpWakes
    <3>1. PICK h \in Thread : /\ holds' = [holds EXCEPT ![t] = None, ![h] = s]
                             /\ h # t /\ at[h] = "asleep"
      BY <2>9, <2>0, <2>4 DEF VUpWakes
    <3>2. holds[h] = None
      BY <3>1 DEF HoldersSound
    <3>3. /\ t \in Holders(s) /\ h \notin Holders(s) \ {t}
          /\ Holders(s)' = (Holders(s) \ {t}) \cup {h}
          /\ \A r \in Sem : r # s => Holders(r)' = Holders(r)
      BY <2>0, <2>4, <3>1, <3>2, NoneFacts DEF Holders
    <3>4. /\ IsFiniteSet(Holders(s) \ {t})
          /\ Cardinality(Holders(s) \ {t}) = Cardinality(Holders(s)) - 1
      BY <2>1, <3>3, FS_RemoveElement
    <3>5. /\ IsFiniteSet(Holders(s)')
          /\ Cardinality(Holders(s)') = Cardinality(Holders(s))
      <4>1. /\ IsFiniteSet((Holders(s) \ {t}) \cup {h})
            /\ Cardinality((Holders(s) \ {t}) \cup {h}) = Cardinality(Holders(s) \ {t}) + 1
        BY ONLY <3>3, <3>4, FS_AddElement
      <4> QED BY ONLY <2>1, <3>3, <3>4, <4>1
    <3>6. \A r \in Sem : Avail(r)' = Avail(r)
      BY <2>0, <3>0
    <3> QED BY <2>0, <2>1, <3>3, <3>5, <3>6
  <2> QED BY <2>0, <2>2, <2>3, <2>4
<1>10. ASSUME NEW t \in Thread, VRelease(t) PROVE UnitsConserved'
  <2>1. /\ \A r \in Sem : Holders(r)' = Holders(r)
        /\ \A r \in Sem : Creating(r)' <=> Creating(r)
    BY <1>10 DEF VRelease, Creating, Holders
  <2> QED BY <1>10, <2>1 DEF VRelease
<1> QED BY <1>1, <1>2, <1>3, <1>4, <1>5, <1>6, <1>7, <1>8, <1>9, <1>10 DEF Next, Step

-----------------------------------------------------------------------------
(* Theorems *)

\* At startup every semaphore is free and nobody uses any.
LEMMA InitInvariant == Init => IInv
<1> SUFFICES ASSUME Init PROVE IInv
  OBVIOUS
<1>1. TypeOK
  <2>1. 0 \in Sem
    BY DEF Sem
  <2> QED BY <2>1 DEF Init, TypeOK
<1>2. \A s \in Sem : Holders(s) = {}
  BY NoneFacts DEF Init, Holders
<1>3. UsersOfSems /\ CreatorAlone /\ SlockTaken /\ SlockExclusive
  BY DEF Init, UsersOfSems, CreatorAlone, SlockTaken, SlockExclusive, Locking
<1>4. QueueSound /\ CountsSleepers
  BY DEF Init, QueueSound, Queued, CountsSleepers
<1>5. HoldersSound /\ UnitsConserved
  BY <1>2, FS_EmptySet DEF Init, HoldersSound, UnitsConserved
<1> QED BY <1>1, <1>3, <1>4, <1>5 DEF IInv

LEMMA Invariant == Spec => []IInv
<1>1. IInv /\ [Next]_vars => IInv'
  <2> SUFFICES ASSUME IInv, [Next]_vars PROVE IInv'
    OBVIOUS
  <2> QED BY TypeStep, UsersStep, CreatorStep, SlockTakenStep, SlockStep, QueueStep,
             CountStep, HoldersStep, UnitsStep DEF IInv
<1> QED BY InitInvariant, <1>1, PTL DEF Spec

\* The table of semaphores and the threads' places in P and V keep their types.
THEOREM TypeCorrect == Spec => []TypeOK
<1>1. IInv => TypeOK
  BY DEF IInv
<1> QED BY <1>1, Invariant, PTL

\* The spinlock of a semaphore excludes, its value counts the sleeping threads,
\* a guard is held by no more threads than it has units, and a free semaphore
\* is not in use, although semaphore_create and semaphore_destroy write to it
\* without its lock.
THEOREM SafetyCorrect == Spec => []Safety
<1> SUFFICES IInv => Safety
  BY Invariant, PTL
<1> SUFFICES ASSUME IInv PROVE Safety
  OBVIOUS
<1>1. SlockExclusive
  BY DEF IInv
<1>2. ValueCountsSleepers
  BY DEF IInv, CountsSleepers, ValueCountsSleepers
<1>3. GuardHolds
  <2> SUFFICES ASSUME NEW s \in Sem, given[s] > 0
               PROVE  Cardinality(Holders(s)) <= given[s]
    BY DEF GuardHolds, Holders
  <2>1. value[s] \in Int /\ given[s] \in Nat
    BY DEF IInv, TypeOK
  <2>2. IsFiniteSet(Holders(s)) /\ Cardinality(Holders(s)) \in Nat
    BY FS_CardinalityType DEF IInv, UnitsConserved
  <2>3. CASE creator[s] = None \/ Creating(s)
    <3>1. Holders(s) = {}
      BY <2>3 DEF IInv, HoldersSound, Creating
    <3> QED BY <3>1, <2>1, FS_EmptySet
  <2>4. CASE creator[s] # None /\ ~ Creating(s)
    <3>1. Cardinality(Holders(s)) + Avail(s) = given[s] /\ Avail(s) \in Nat
      BY <2>1, <2>4 DEF IInv, UnitsConserved, Avail
    <3> QED BY <2>1, <2>2, <3>1
  <2> QED BY <2>3, <2>4
<1>4. FreeIsUnused
  BY DEF IInv, UsersOfSems, FreeIsUnused, Users
<1> QED BY <1>1, <1>2, <1>3, <1>4 DEF Safety

\* kernel/semaphore.c implements counting semaphores that are served first
\* come, first served: setting the value creates a semaphore, lowering it under
\* the spinlock is P, raising it is V, and every other step changes nothing.
THEOREM SemaphoresImplemented == Spec => ImplementsSemaphores
<1> DEFINE avail == [s \in Sem |-> IF value[s] > 0 THEN value[s] ELSE 0]
<1>1. Init => Counting!Init
  BY DEF Init, Counting!Init
<1>2. IInv /\ [Next]_vars => [Counting!Next]_<<avail, sleepers>>
  <2> SUFFICES ASSUME IInv, [Next]_vars
               PROVE  Counting!Next \/ UNCHANGED <<avail, sleepers>>
    OBVIOUS
  <2>0. TypeOK
    BY DEF IInv
  <2>1. CASE UNCHANGED <<value, sleepers>>
    BY <2>1
  <2>2. ASSUME NEW t \in Thread, CreateInit(t) PROVE Counting!Next
    <3>1. PICK s \in Sem : s = sem[t]
      BY <2>2 DEF CreateInit, IInv, UsersOfSems
    <3>2. /\ value' = [value EXCEPT ![s] = given[s]] /\ UNCHANGED sleepers
          /\ sleepers[s] = <<>>
      BY <2>2, <3>1, CreatedEmpty DEF CreateInit
    <3>3. Counting!Create(s)
      BY <2>0, <3>2 DEF Counting!Create, TypeOK
    <3> QED BY <3>3 DEF Counting!Next
  <2>3. ASSUME NEW t \in Thread, PDown(t) PROVE Counting!Next
    <3>1. PICK s \in Sem : s = sem[t]
      BY <2>3, PDownFacts
    <3>2. Counting!P(t, s)
      <4>1. PDownTakes(t) \/ PDownWaits(t)
        BY <2>3, PDownFacts
      <4>2. CASE PDownTakes(t)
        <5>1. /\ value[s] > 0 /\ value' = [value EXCEPT ![s] = value[s] - 1]
              /\ UNCHANGED sleepers
          BY <3>1, <4>2 DEF PDownTakes
        <5>2. avail[s] > 0 /\ avail' = [avail EXCEPT ![s] = avail[s] - 1]
          <6>1. value'[s] = value[s] - 1 /\ \A r \in Sem : r # s => value'[r] = value[r]
            BY <2>0, <5>1 DEF TypeOK
          <6>2. /\ (IF value'[s] > 0 THEN value'[s] ELSE 0) = avail[s] - 1
                /\ value[s] > 0 => avail[s] > 0
            BY <2>0, <5>1, <6>1 DEF TypeOK
          <6>3. avail' = [r \in Sem |-> IF r = s THEN avail[s] - 1 ELSE avail[r]]
            BY <6>1, <6>2
          <6> QED BY <5>1, <6>2, <6>3
        <5> QED BY <5>1, <5>2 DEF Counting!P
      <4>3. CASE PDownWaits(t)
        <5>1. /\ value[s] <= 0 /\ value' = [value EXCEPT ![s] = value[s] - 1]
              /\ sleepers' = [sleepers EXCEPT ![s] = Append(@, t)]
          BY <3>1, <4>3 DEF PDownWaits
        <5>2. ~ (avail[s] > 0) /\ avail' = avail
          <6>1. \A r \in Sem : value'[r] > 0 \/ value[r] > 0 => value'[r] = value[r]
            BY <2>0, <5>1 DEF TypeOK
          <6>2. \A r \in Sem : (IF value'[r] > 0 THEN value'[r] ELSE 0)
                                = (IF value[r] > 0 THEN value[r] ELSE 0)
            BY <6>1
          <6>3. ~ (value[s] > 0)
            BY <2>0, <5>1 DEF TypeOK
          <6> QED BY <6>2, <6>3
        <5> QED BY <5>1, <5>2 DEF Counting!P
      <4> QED BY <4>1, <4>2, <4>3
    <3> QED BY <3>2 DEF Counting!Next
  <2>4. ASSUME NEW t \in Thread, VUp(t) PROVE Counting!Next
    <3>1. PICK s \in Sem : s = sem[t]
      BY <2>4, VUpFacts
    <3>2. Counting!V(s)
      <4>1. VUpRaises(t) \/ VUpWakes(t)
        BY <2>4, VUpFacts
      <4>2. CASE VUpRaises(t)
        <5>1. /\ sleepers[s] = <<>> /\ value[s] >= 0
              /\ value' = [value EXCEPT ![s] = value[s] + 1] /\ UNCHANGED sleepers
          BY <3>1, <4>2 DEF VUpRaises
        <5>2. avail' = [avail EXCEPT ![s] = avail[s] + 1]
          <6>1. value'[s] = value[s] + 1 /\ \A r \in Sem : r # s => value'[r] = value[r]
            BY <2>0, <5>1 DEF TypeOK
          <6>2. /\ (IF value'[s] > 0 THEN value'[s] ELSE 0) = avail[s] + 1
                /\ value[s] > 0 => avail[s] > 0
            BY <2>0, <5>1, <6>1 DEF TypeOK
          <6>3. avail' = [r \in Sem |-> IF r = s THEN avail[s] + 1 ELSE avail[r]]
            BY <6>1, <6>2
          <6> QED BY <5>1, <6>2, <6>3
        <5> QED BY <5>1, <5>2 DEF Counting!V
      <4>3. CASE VUpWakes(t)
        <5>1. /\ sleepers[s] # <<>> /\ value[s] < 0
              /\ value' = [value EXCEPT ![s] = value[s] + 1]
              /\ sleepers' = [sleepers EXCEPT ![s] = Tail(@)]
          BY <3>1, <4>3 DEF VUpWakes
        <5>2. avail' = avail
          <6>1. \A r \in Sem : value'[r] > 0 \/ value[r] > 0 => value'[r] = value[r]
            BY <2>0, <5>1 DEF TypeOK
          <6>2. \A r \in Sem : (IF value'[r] > 0 THEN value'[r] ELSE 0)
                                = (IF value[r] > 0 THEN value[r] ELSE 0)
            BY <6>1
          <6> QED BY <6>2
        <5> QED BY <5>1, <5>2 DEF Counting!V
      <4> QED BY <4>1, <4>2, <4>3
    <3> QED BY <3>2 DEF Counting!Next
  <2>5. ASSUME NEW t \in Thread,
               \/ \E v \in StartValues : Create(t, v)
               \/ \E s \in Sem : Destroy(t, s) \/ PAcquire(t, s) \/ VAcquire(t, s)
               \/ PRelease(t) \/ VRelease(t)
        PROVE  UNCHANGED <<value, sleepers>>
    BY <2>5 DEF Create, Destroy, PAcquire, VAcquire, PRelease, VRelease
  <2>6. UNCHANGED vars => UNCHANGED <<value, sleepers>>
    BY DEF vars
  <2> QED BY <2>1, <2>2, <2>3, <2>4, <2>5, <2>6 DEF Next, Step
<1> QED BY <1>1, <1>2, Invariant, PTL DEF Spec, ImplementsSemaphores, Counting!Spec

=============================================================================
